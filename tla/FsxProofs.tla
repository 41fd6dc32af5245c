------------------------------- MODULE FsxProofs -------------------------------
(***************************************************************************)
(* Proofs about Fsx, for every file length, boundary and block size: fsx's *)
(* copy of the file is exact, fsx never reports a failure of a file system *)
(* that works, and with -X no corruption outlives an operation unnoticed.  *)
(* Proofs about FsxLog, its ring of operations and their replay, for a     *)
(* ring of any size, any number of operations and any number of runs.      *)
(***************************************************************************)
EXTENDS Fsx, FsxLog, SequenceTheorems, TLAPS

Byte == 0 .. Bytes - 1

\* The file d of size ds holds the first n bytes of g, and zeros behind them.
Exact(d, ds, g, n) ==
  ds = n /\ \A i \in Idx : d[i] = IF i < n THEN g[i] ELSE 0

\* The file is fsx's to compare with: nothing is left to simulate.
Late == simulatedopcount = 0 \/ testcalls > simulatedopcount

Types ==
  /\ good_buf \in [Idx -> Byte] /\ file_size \in 0 .. maxfilelen
  /\ testcalls \in Nat /\ faults \in Nat
  /\ failed \in BOOLEAN

ExactInv ==
  faults = 0 =>
    /\ disk \in [Idx -> Byte] /\ disk_size \in 0 .. maxfilelen
    /\ ~failed
    /\ Late => Exact(disk, disk_size, good_buf, file_size)

-----------------------------------------------------------------------------
(* Arithmetic of the arguments *)

\* Rounding an offset or a length down keeps it in range.
LEMMA DownFact ==
  ASSUME NEW x \in Nat, NEW b \in Nat \ {0}
  PROVE  Down(x, b) \in 0 .. x
<1>1. x = b * (x \div b) + (x % b) /\ x \div b \in Nat /\ x % b \in 0 .. b - 1
  OBVIOUS
<1>2. b * (x \div b) = (x \div b) * b
  BY <1>1
<1> QED
  BY <1>1, <1>2 DEF Down

\* TRIM_OFF_LEN yields an operation inside the size it is given.
LEMMA TrimFact ==
  ASSUME NEW size \in Nat, NEW o \in TRIM_OFF(size), NEW l \in Nat
  PROVE  /\ o \in 0 .. size
         /\ TRIM_LEN(o, l, size) \in Nat /\ o + TRIM_LEN(o, l, size) <= size
         /\ TRIM_LEN(o, l, size) <= l
BY DEF TRIM_OFF, TRIM_LEN

\* What an unsigned makes of a number.
LEMMA UnsignedFact ==
  /\ \A x \in Int : Unsigned(x) \in Nat
  /\ \A x \in 0 .. 2 * RAND_MAX : Unsigned(x) = x
<1> DEFINE m == 2 * (RAND_MAX + 1)
<1>1. m \in Nat \ {0} /\ 2 * RAND_MAX < m
  BY FsxAssumption
<1> HIDE DEF m
<1>2. \A x \in Int : x % m \in 0 .. m - 1
  BY <1>1
<1>3. ASSUME NEW x \in Int, 0 <= x, x < m PROVE x % m = x
  BY <1>1, <1>3
<1>4. \A x \in 0 .. 2 * RAND_MAX : x \in Int /\ 0 <= x /\ x < m
  BY <1>1, FsxAssumption
<1>5. \A x : Unsigned(x) = x % m
  BY DEF Unsigned, m
<1> QED
  BY <1>1, <1>2, <1>3, <1>4, <1>5

\* The lengths test() draws are natural numbers.
LEMMA OpLensFact == OpLens \subseteq Nat
BY FsxAssumption DEF OpLens

-----------------------------------------------------------------------------
(* The byte arrays *)

\* 0 is a byte, and the offsets are numbers.
LEMMA ByteFact == 0 \in Byte /\ Idx \subseteq Nat
BY FsxAssumption DEF Byte, Idx

\* gendata() yields contents.
LEMMA GendataType ==
  ASSUME Types, NEW off \in Nat, NEW len \in Nat
  PROVE  gendata(off, len) \in [Idx -> Byte]
<1> SUFFICES ASSUME NEW i \in Idx PROVE gendata(off, len)[i] \in Byte
  BY DEF gendata
<1>1. original_buf[i] \in Nat
  BY FsxAssumption DEF Byte
<1>2. \A n \in Nat : n % Bytes \in Byte
  BY FsxAssumption DEF Byte
<1>3. testcalls + 1 + (IF i % 2 = 1 THEN original_buf[i] ELSE 0) \in Nat
  BY <1>1 DEF Types
<1> QED
  BY <1>2, <1>3 DEF gendata, Types

\* Clearing a range yields contents.
LEMMA ZeroedType ==
  ASSUME NEW buf \in [Idx -> Byte], NEW off, NEW len
  PROVE  Zeroed(buf, off, len) \in [Idx -> Byte]
BY ByteFact DEF Zeroed

\* Copying a range yields contents.
LEMMA CopiedType ==
  ASSUME NEW buf \in [Idx -> Byte], NEW src \in [Idx -> Byte],
         NEW off \in Nat, NEW len \in Nat, NEW dest \in Nat, off + len <= maxfilelen
  PROVE  Copied(buf, src, off, len, dest) \in [Idx -> Byte]
<1> SUFFICES ASSUME NEW i \in Idx PROVE Copied(buf, src, off, len, dest)[i] \in Byte
  BY DEF Copied
<1>1. CASE In(i, dest, len)
  <2>1. i - dest + off \in Idx
    BY <1>1, FsxAssumption DEF In, Idx
  <2> QED
    BY <1>1, <2>1 DEF Copied
<1>2. CASE ~In(i, dest, len)
  BY <1>2 DEF Copied
<1> QED
  BY <1>1, <1>2

-----------------------------------------------------------------------------
(* The frame of a call of test() *)

\* The types of the file as it is before an operation, while nothing has failed.
LEMMA StartType ==
  ASSUME Types, ExactInv, faults = 0
  PROVE  Disk0 \in [Idx -> Byte] /\ Size0 \in 0 .. maxfilelen
BY ByteFact DEF Types, ExactInv, Disk0, Size0

\* Before the operation the file is exact, once calls are carried out.
LEMMA StartExact ==
  ASSUME Types, ExactInv, faults = 0, Real
  PROVE  Exact(Disk0, Size0, good_buf, file_size)
<1>1. CASE ImageDue
  BY <1>1 DEF Exact, Disk0, Size0
<1>2. CASE ~ImageDue
  <2>1. Late
    BY <1>2, FsxAssumption DEF ImageDue, Late, Real, Types
  <2> QED
    BY <1>2, <2>1 DEF ExactInv, Disk0, Size0
<1> QED
  BY <1>1, <1>2

\* A call whose operation keeps the file exact reports no failure.
LEMMA VerdictKeeps ==
  ASSUME Types, ExactInv,
         NEW d, NEW ds, NEW bad \in BOOLEAN, NEW contents \in BOOLEAN,
         Verdict(d, ds, bad, contents),
         good_buf' \in [Idx -> Byte], file_size' \in 0 .. maxfilelen,
         faults = 0 => d \in [Idx -> Byte] /\ ds \in 0 .. maxfilelen,
         faults = 0 /\ Real => ~bad /\ Exact(d, ds, good_buf', file_size')
  PROVE  Types' /\ ExactInv'
<1>1. Types'
  <2>1. failed' \in BOOLEAN
    BY Zenon DEF Verdict
  <2>2. /\ disk' = d /\ disk_size' = ds /\ testcalls' = testcalls + 1
        /\ faults' = faults
    BY DEF Verdict
  <2> QED
    BY <2>1, <2>2 DEF Types
<1>2. ASSUME faults' = 0
      PROVE  /\ disk' \in [Idx -> Byte] /\ disk_size' \in 0 .. maxfilelen
             /\ ~failed' /\ (Late' => Exact(disk, disk_size, good_buf, file_size)')
  <2>1. faults = 0 /\ disk' = d /\ disk_size' = ds /\ testcalls' = testcalls + 1
    BY <1>2 DEF Verdict
  <2>2. CASE Real
    <3>1. ~bad /\ Exact(d, ds, good_buf', file_size')
      BY <2>1, <2>2
    <3>2. CheckedLen(file_size') \in 0 .. file_size'
      BY DownFact, FsxAssumption DEF CheckedLen
    <3>3. ~Differs(d, ds, 0, CheckedLen(file_size'))
      BY <3>1, <3>2, ByteFact DEF Differs, Exact, In
    <3>4. ~failed'
      BY <3>1, <3>3, Zenon DEF Verdict, Exact
    <3> QED
      BY <3>1, <3>4, <2>1 DEF Exact
  <2>3. CASE ~Real
    <3>1. ~failed'
      BY <2>3, Zenon DEF Verdict
    <3>2. ~Late'
      BY <2>1, <2>3, FsxAssumption DEF Late, Real, Types
    <3> QED
      BY <3>1, <3>2, <2>1
  <2> QED
    BY <2>2, <2>3
<1> QED
  BY <1>1, <1>2 DEF ExactInv

\* A call that does nothing keeps the invariant.
LEMMA SkipKeeps ==
  ASSUME Types, ExactInv, NEW contents \in BOOLEAN, Skip(contents)
  PROVE  Types' /\ ExactInv'
<1>1. /\ good_buf' = good_buf /\ file_size' = file_size
      /\ Verdict(Disk0, Size0, FALSE, contents)
  BY DEF Skip
<1>2. good_buf' \in [Idx -> Byte] /\ file_size' \in 0 .. maxfilelen
  BY <1>1 DEF Types
<1>3. faults = 0 /\ Real => Exact(Disk0, Size0, good_buf', file_size')
  BY <1>1, StartExact
<1> QED
  BY <1>1, <1>2, <1>3, StartType, VerdictKeeps

-----------------------------------------------------------------------------
(* The operations *)

\* doread() changes neither the file nor what fsx knows of it.
LEMMA ReadKeeps ==
  ASSUME Types, ExactInv, NEW op, doread(op)
  PROVE  Types' /\ ExactInv'
<1>1. PICK o \in TRIM_OFF(file_size), l \in OpLens :
        LET off == Down(o, readbdy)
            cut == TRIM_LEN(o, l, file_size)
            len == IF o_direct /\ op = "read" THEN Down(cut, readbdy) ELSE cut
        IN IF len = 0 \/ len + off > file_size
           THEN Skip(TRUE)
           ELSE /\ skipped' = FALSE
                /\ UNCHANGED <<good_buf, file_size>>
                /\ Verdict(Disk0, Size0, Differs(Disk0, Size0, off, len), TRUE)
  BY DEF doread
<1> DEFINE off == Down(o, readbdy)
           cut == TRIM_LEN(o, l, file_size)
           len == IF o_direct /\ op = "read" THEN Down(cut, readbdy) ELSE cut
<1>2. off \in Nat /\ len \in Nat
  <2>1. o \in Nat /\ cut \in Nat
    BY TrimFact, OpLensFact DEF Types
  <2> QED
    BY <2>1, DownFact, FsxAssumption
<1> HIDE DEF off, cut, len
<1>3. CASE len = 0 \/ len + off > file_size
  <2>1. Skip(TRUE)
    BY <1>1, <1>3 DEF off, cut, len
  <2> QED
    BY <2>1, SkipKeeps
<1>4. CASE ~(len = 0 \/ len + off > file_size)
  <2>1. /\ good_buf' = good_buf /\ file_size' = file_size
        /\ Verdict(Disk0, Size0, Differs(Disk0, Size0, off, len), TRUE)
    BY <1>1, <1>4 DEF off, cut, len
  <2>2. Differs(Disk0, Size0, off, len) \in BOOLEAN
    BY DEF Differs
  <2>3. faults = 0 /\ Real => /\ ~Differs(Disk0, Size0, off, len)
                              /\ Exact(Disk0, Size0, good_buf', file_size')
    <3> SUFFICES ASSUME faults = 0, Real
                 PROVE  /\ ~Differs(Disk0, Size0, off, len)
                        /\ Exact(Disk0, Size0, good_buf', file_size')
      OBVIOUS
    <3>1. Exact(Disk0, Size0, good_buf, file_size)
      BY StartExact
    <3> QED
      BY <3>1, <2>1, <1>2, <1>4, ByteFact DEF Exact, Differs, In, Types
  <2>4. good_buf' \in [Idx -> Byte] /\ file_size' \in 0 .. maxfilelen
    BY <2>1 DEF Types
  <2> QED
    BY <2>1, <2>2, <2>3, <2>4, StartType, VerdictKeeps
<1> QED
  BY <1>3, <1>4

\* dowrite() and domapwrite() keep it: the gap behind the old end is cleared in both copies.
LEMMA WriteKeeps ==
  ASSUME Types, ExactInv, NEW op, dowrite(op)
  PROVE  Types' /\ ExactInv'
<1>1. PICK o \in TRIM_OFF(maxfilelen), l \in OpLens :
        LET off == Down(o, writebdy)
            cut == TRIM_LEN(o, l, maxfilelen)
            len == IF o_direct /\ op = "write" THEN Down(cut, writebdy) ELSE cut
        IN IF len = 0
           THEN Skip(TRUE)
           ELSE /\ skipped' = FALSE
                /\ WriteGood(off, len)
                /\ Verdict(Touched(Copied(Disk0, good_buf', off, len, off)),
                           Resized(Most(Size0, off + len)), FALSE, TRUE)
  BY DEF dowrite
<1> DEFINE off == Down(o, writebdy)
           cut == TRIM_LEN(o, l, maxfilelen)
           len == IF o_direct /\ op = "write" THEN Down(cut, writebdy) ELSE cut
<1>2. off \in Nat /\ len \in Nat /\ off + len <= maxfilelen
  <2>1. o \in Nat /\ cut \in Nat /\ o + cut <= maxfilelen
    BY TrimFact, OpLensFact, FsxAssumption
  <2>2. off \in 0 .. o /\ len \in 0 .. cut
    BY <2>1, DownFact, FsxAssumption
  <2> HIDE DEF off, cut, len
  <2> QED
    BY <2>1, <2>2, FsxAssumption
<1> HIDE DEF off, cut, len
<1>3. CASE len = 0
  <2>1. Skip(TRUE)
    BY <1>1, <1>3 DEF off, cut, len
  <2> QED
    BY <2>1, SkipKeeps
<1>4. CASE len # 0
  <2> DEFINE d == Touched(Copied(Disk0, good_buf', off, len, off))
             ds == Resized(Most(Size0, off + len))
  <2>1. WriteGood(off, len) /\ Verdict(d, ds, FALSE, TRUE)
    BY <1>1, <1>4 DEF off, cut, len
  <2>2. good_buf' \in [Idx -> Byte] /\ file_size' \in 0 .. maxfilelen
    BY <2>1, <1>2, GendataType, ZeroedType DEF WriteGood, Most, Types
  <2>3. faults = 0 => d \in [Idx -> Byte] /\ ds \in 0 .. maxfilelen
    BY <1>2, <2>2, StartType, CopiedType DEF Touched, Resized, Most
  <2>4. faults = 0 /\ Real => Exact(d, ds, good_buf', file_size')
    <3> SUFFICES ASSUME faults = 0, Real PROVE Exact(d, ds, good_buf', file_size')
      OBVIOUS
    <3>1. Exact(Disk0, Size0, good_buf, file_size)
      BY StartExact
    <3>2. d = Copied(Disk0, good_buf', off, len, off) /\ ds = Most(Size0, off + len)
      BY DEF Touched, Resized
    <3>3. ds = file_size'
      BY <3>1, <3>2, <2>1 DEF Exact, WriteGood
    <3>4. ASSUME NEW i \in Idx PROVE d[i] = IF i < file_size' THEN good_buf'[i] ELSE 0
      <4>1. CASE In(i, off, len)
        <5>1. i - off + off = i /\ i < file_size'
          BY <4>1, <1>2, <2>1, ByteFact DEF In, WriteGood, Most, Types
        <5> QED
          BY <5>1, <4>1, <3>2 DEF Copied
      <4>2. CASE ~In(i, off, len)
        <5>1. d[i] = Disk0[i]
          BY <4>2, <3>2 DEF Copied
        <5>2. Disk0[i] = IF i < file_size THEN good_buf[i] ELSE 0
          BY <3>1 DEF Exact
        <5>3. good_buf'[i] = IF In(i, file_size, off - file_size) THEN 0 ELSE good_buf[i]
          <6>1. gendata(off, len)[i] = good_buf[i]
            BY <4>2 DEF gendata
          <6> QED
            BY <6>1, <2>1, <1>2, ByteFact DEF WriteGood, Zeroed, In, Types
        <5> QED
          BY <5>1, <5>2, <5>3, <4>2, <2>1, <1>2, ByteFact DEF WriteGood, Most, In, Types
      <4> QED
        BY <4>1, <4>2
    <3> QED
      BY <3>3, <3>4 DEF Exact
  <2> HIDE DEF d, ds
  <2> QED
    BY <2>1, <2>2, <2>3, <2>4, VerdictKeeps
<1> QED
  BY <1>3, <1>4

\* Setting the size: the copy clears what it grows by, the file holds zeros there.
LEMMA ResizeExact ==
  ASSUME Types, NEW D, NEW S, Exact(D, S, good_buf, file_size),
         NEW size \in 0 .. maxfilelen, TruncateGood(size)
  PROVE  Exact([i \in Idx |-> IF i < size THEN D[i] ELSE 0], size, good_buf', file_size')
BY ByteFact DEF Exact, TruncateGood, Zeroed, In, Types

\* dotruncate() keeps it.
LEMMA TruncateKeeps ==
  ASSUME Types, ExactInv, dotruncate
  PROVE  Types' /\ ExactInv'
<1>1. PICK s \in 0 .. maxfilelen - 1 :
        LET size == Down(s, truncbdy) IN
        /\ TruncateGood(size)
        /\ Verdict(Touched([i \in Idx |-> IF i < size THEN Disk0[i] ELSE 0]),
                   Resized(size), FALSE, TRUE)
  BY DEF dotruncate, style
<1> DEFINE size == Down(s, truncbdy)
           d == Touched([i \in Idx |-> IF i < size THEN Disk0[i] ELSE 0])
           ds == Resized(size)
<1>2. size \in 0 .. maxfilelen
  <2>1. s \in Nat /\ size \in 0 .. s
    BY DownFact, FsxAssumption
  <2> QED
    BY <2>1, FsxAssumption
<1>3. TruncateGood(size) /\ Verdict(d, ds, FALSE, TRUE)
  BY <1>1
<1> HIDE DEF size
<1>4. good_buf' \in [Idx -> Byte] /\ file_size' \in 0 .. maxfilelen
  BY <1>2, <1>3, ZeroedType DEF TruncateGood, Types
<1>5. faults = 0 => d \in [Idx -> Byte] /\ ds \in 0 .. maxfilelen
  BY <1>2, StartType, ByteFact DEF Touched, Resized
<1>6. faults = 0 /\ Real => Exact(d, ds, good_buf', file_size')
  BY <1>2, <1>3, StartExact, ResizeExact DEF Touched, Resized
<1> HIDE DEF d, ds
<1> QED
  BY <1>3, <1>4, <1>5, <1>6, VerdictKeeps

\* do_preallocate() keeps it.
LEMMA PreallocateKeeps ==
  ASSUME Types, ExactInv, do_preallocate
  PROVE  Types' /\ ExactInv'
<1>1. PICK off \in TRIM_OFF(maxfilelen), l \in OpLens, keep_size \in BOOLEAN :
        LET len == TRIM_LEN(off, l, maxfilelen)
            end_offset == IF keep_size THEN 0 ELSE off + len
        IN IF len = 0
           THEN Skip(TRUE)
           ELSE /\ skipped' = FALSE
                /\ TruncateGood(Most(file_size, end_offset))
                /\ Verdict(Disk0, Resized(Most(Size0, end_offset)), FALSE, TRUE)
  BY DEF do_preallocate
<1> DEFINE len == TRIM_LEN(off, l, maxfilelen)
           end_offset == IF keep_size THEN 0 ELSE off + len
<1>2. end_offset \in 0 .. maxfilelen
  <2>1. off \in Nat /\ len \in Nat /\ off + len <= maxfilelen
    BY TrimFact, OpLensFact, FsxAssumption
  <2> HIDE DEF len
  <2>2. off + len \in 0 .. maxfilelen /\ 0 \in 0 .. maxfilelen
    BY <2>1, FsxAssumption
  <2> QED
    BY <2>2, Zenon
<1> HIDE DEF len, end_offset
<1>3. CASE len = 0
  <2>1. Skip(TRUE)
    BY <1>1, <1>3 DEF len, end_offset
  <2> QED
    BY <2>1, SkipKeeps
<1>4. CASE len # 0
  <2> DEFINE size == Most(file_size, end_offset)
             ds == Resized(Most(Size0, end_offset))
  <2>1. TruncateGood(size) /\ Verdict(Disk0, ds, FALSE, TRUE)
    BY <1>1, <1>4 DEF len, end_offset
  <2>2. size \in 0 .. maxfilelen /\ size >= file_size
    BY <1>2 DEF Most, Types
  <2>3. good_buf' \in [Idx -> Byte] /\ file_size' \in 0 .. maxfilelen
    BY <2>1, <2>2, ZeroedType DEF TruncateGood, Types
  <2>4. faults = 0 => ds \in 0 .. maxfilelen
    BY <1>2, StartType DEF Resized, Most
  <2>5. faults = 0 /\ Real => Exact(Disk0, ds, good_buf', file_size')
    <3> SUFFICES ASSUME faults = 0, Real PROVE Exact(Disk0, ds, good_buf', file_size')
      OBVIOUS
    <3>1. Exact(Disk0, Size0, good_buf, file_size)
      BY StartExact
    <3>2. ds = size
      BY <3>1 DEF Exact, Resized
    <3> HIDE DEF size, ds
    <3> QED
      BY <3>1, <3>2, <2>1, <2>2, ByteFact DEF Exact, TruncateGood, Zeroed, In, Types
  <2> HIDE DEF size, ds
  <2> QED
    BY <2>1, <2>3, <2>4, <2>5, StartType, VerdictKeeps
<1> QED
  BY <1>3, <1>4

\* Zeros written to the same range of both keep the file exact.
LEMMA ZeroExact ==
  ASSUME NEW D \in [Idx -> Byte], NEW S, NEW G \in [Idx -> Byte], NEW n \in Nat,
         NEW off \in Nat, NEW len \in Nat, off + len <= n, Exact(D, S, G, n)
  PROVE  Exact(Zeroed(D, off, len), S, Zeroed(G, off, len), n)
BY ByteFact DEF Exact, Zeroed, In

\* do_punch_hole() keeps it.
LEMMA PunchKeeps ==
  ASSUME Types, ExactInv, do_punch_hole
  PROVE  Types' /\ ExactInv'
<1>1. PICK off \in TRIM_OFF(file_size), l \in OpLens :
        LET len == TRIM_LEN(off, l, file_size)
            max_len == IF off + len <= file_size THEN len ELSE file_size - off
        IN IF len = 0 \/ file_size <= off
           THEN Skip(TRUE)
           ELSE /\ skipped' = FALSE
                /\ good_buf' = IF Real THEN Zeroed(good_buf, off, max_len) ELSE good_buf
                /\ UNCHANGED file_size
                /\ Verdict(Touched(Zeroed(Disk0, off, len)), Size0, FALSE, TRUE)
  BY DEF do_punch_hole
<1> DEFINE len == TRIM_LEN(off, l, file_size)
           max_len == IF off + len <= file_size THEN len ELSE file_size - off
<1>2. off \in Nat /\ len \in Nat /\ off + len <= file_size
  BY TrimFact, OpLensFact DEF Types
<1>3. CASE len = 0 \/ file_size <= off
  <2>1. Skip(TRUE)
    BY <1>1, <1>3
  <2> QED
    BY <2>1, SkipKeeps
<1>4. CASE ~(len = 0 \/ file_size <= off)
  <2> DEFINE d == Touched(Zeroed(Disk0, off, len))
  <2>1. /\ good_buf' = IF Real THEN Zeroed(good_buf, off, max_len) ELSE good_buf
        /\ file_size' = file_size
        /\ Verdict(d, Size0, FALSE, TRUE)
    BY <1>1, <1>4
  <2>2. max_len = len
    BY <1>2
  <2> HIDE DEF len, max_len
  <2>3. good_buf' \in [Idx -> Byte] /\ file_size' \in 0 .. maxfilelen
    BY <2>1, ZeroedType DEF Types
  <2>4. faults = 0 => d \in [Idx -> Byte]
    BY StartType, ZeroedType DEF Touched
  <2>5. faults = 0 /\ Real => Exact(d, Size0, good_buf', file_size')
    BY <1>2, <2>1, <2>2, StartExact, StartType, ZeroExact DEF Touched, Types
  <2> HIDE DEF d
  <2> QED
    BY <2>1, <2>3, <2>4, <2>5, StartType, VerdictKeeps
<1> QED
  BY <1>3, <1>4

\* do_zero_range() keeps it.
LEMMA ZeroRangeKeeps ==
  ASSUME Types, ExactInv, do_zero_range
  PROVE  Types' /\ ExactInv'
<1>1. PICK off \in TRIM_OFF(file_size), l \in OpLens :
        LET len == TRIM_LEN(off, l, file_size)
        IN IF len = 0
           THEN Skip(TRUE)
           ELSE /\ skipped' = FALSE
                /\ good_buf' = IF Real THEN Zeroed(good_buf, off, len) ELSE good_buf
                /\ UNCHANGED file_size
                /\ Verdict(Touched(Zeroed(Disk0, off, len)),
                           Resized(Most(Size0, off + len)), FALSE, TRUE)
  BY DEF do_zero_range
<1> DEFINE len == TRIM_LEN(off, l, file_size)
<1>2. off \in Nat /\ len \in Nat /\ off + len <= file_size
  BY TrimFact, OpLensFact DEF Types
<1>3. CASE len = 0
  <2>1. Skip(TRUE)
    BY <1>1, <1>3
  <2> QED
    BY <2>1, SkipKeeps
<1>4. CASE len # 0
  <2> DEFINE d == Touched(Zeroed(Disk0, off, len))
             ds == Resized(Most(Size0, off + len))
  <2>1. /\ good_buf' = IF Real THEN Zeroed(good_buf, off, len) ELSE good_buf
        /\ file_size' = file_size
        /\ Verdict(d, ds, FALSE, TRUE)
    BY <1>1, <1>4
  <2> HIDE DEF len
  <2>2. good_buf' \in [Idx -> Byte] /\ file_size' \in 0 .. maxfilelen
    BY <2>1, ZeroedType DEF Types
  <2>3. faults = 0 => d \in [Idx -> Byte] /\ ds \in 0 .. maxfilelen
    <3> SUFFICES ASSUME faults = 0 PROVE d \in [Idx -> Byte] /\ ds \in 0 .. maxfilelen
      OBVIOUS
    <3>1. d \in [Idx -> Byte]
      BY StartType, ZeroedType DEF Touched
    <3>2. off + len \in 0 .. maxfilelen
      BY <1>2, FsxAssumption DEF Types
    <3>3. ds \in 0 .. maxfilelen
      BY <3>2, StartType DEF Resized, Most
    <3> QED
      BY <3>1, <3>3
  <2>4. faults = 0 /\ Real => Exact(d, ds, good_buf', file_size')
    <3> SUFFICES ASSUME faults = 0, Real PROVE Exact(d, ds, good_buf', file_size')
      OBVIOUS
    <3>1. Exact(Disk0, Size0, good_buf, file_size)
      BY StartExact
    <3>2. Exact(Zeroed(Disk0, off, len), Size0, Zeroed(good_buf, off, len), file_size)
      BY <3>1, <1>2, StartType, ZeroExact DEF Types
    <3>3. ds = Size0
      BY <3>1, <1>2 DEF Exact, Resized, Most, Types
    <3> QED
      BY <3>2, <3>3, <2>1 DEF Touched
  <2> HIDE DEF d, ds
  <2> QED
    BY <2>1, <2>2, <2>3, <2>4, VerdictKeeps
<1> QED
  BY <1>3, <1>4

\* do_collapse_range() keeps it, with the tail it leaves in good_buf.
LEMMA CollapseKeeps ==
  ASSUME Types, ExactInv, do_collapse_range
  PROVE  Types' /\ ExactInv'
<1> DEFINE last == Unsigned(file_size - 1)
<1>1. PICK o \in TRIM_OFF(last) \cap (0 .. RAND_MAX), l \in OpLens :
        LET off == Down(o, block_size)
            len == Down(TRIM_LEN(o, l, last), block_size)
        IN IF len = 0
           THEN Skip(FALSE)
           ELSE IF Unsigned(off + len) >= file_size
           THEN Skip(TRUE)
           ELSE /\ skipped' = FALSE
                /\ IF Real THEN CollapseGood(off, len) ELSE UNCHANGED <<good_buf, file_size>>
                /\ Verdict(Touched([i \in Idx |->
                                      IF i < off THEN Disk0[i]
                                      ELSE IF i + len < Size0 THEN Disk0[i + len] ELSE 0]),
                           Resized(Most(Size0 - len, 0)), Size0 <= off + len, TRUE)
  BY DEF do_collapse_range
<1> DEFINE off == Down(o, block_size)
           len == Down(TRIM_LEN(o, l, last), block_size)
<1>2. off \in Nat /\ len \in Nat /\ Unsigned(off + len) = off + len
  <2>1. last \in Nat /\ l \in 0 .. maxoplen /\ RAND_MAX \in Nat /\ maxoplen \in Nat
    BY UnsignedFact, FsxAssumption DEF OpLens, Types
  <2> HIDE DEF last
  <2>2. TRIM_LEN(o, l, last) \in 0 .. l /\ o \in 0 .. RAND_MAX
    BY <2>1, TrimFact
  <2>3. off \in 0 .. o /\ len \in 0 .. TRIM_LEN(o, l, last)
    BY <2>2, DownFact, FsxAssumption
  <2> HIDE DEF off, len
  <2>4. off + len \in 0 .. 2 * RAND_MAX
    BY <2>1, <2>2, <2>3, FsxAssumption
  <2>5. Unsigned(off + len) = off + len
    BY <2>4, UnsignedFact
  <2> QED
    BY <2>1, <2>2, <2>3, <2>5
<1> HIDE DEF off, len
<1>3. CASE len = 0 \/ off + len >= file_size
  <2>1. Skip(FALSE) \/ Skip(TRUE)
    BY <1>1, <1>2, <1>3 DEF off, len
  <2> QED
    BY <2>1, SkipKeeps
<1>4. CASE ~(len = 0 \/ off + len >= file_size)
  <2> DEFINE e == [i \in Idx |-> IF i < off THEN Disk0[i]
                                 ELSE IF i + len < Size0 THEN Disk0[i + len] ELSE 0]
             d == Touched(e)
             ds == Resized(Most(Size0 - len, 0))
  <2>1. /\ IF Real THEN CollapseGood(off, len) ELSE UNCHANGED <<good_buf, file_size>>
        /\ Verdict(d, ds, Size0 <= off + len, TRUE)
    BY <1>1, <1>2, <1>4 DEF off, len
  <2>2. good_buf' \in [Idx -> Byte] /\ file_size' \in 0 .. maxfilelen
    <3>1. CASE Real
      <4>1. file_size - (off + len) \in Nat /\ off + len + (file_size - (off + len)) <= maxfilelen
        BY <1>2, <1>4 DEF Types
      <4>2. good_buf' \in [Idx -> Byte]
        <5>1. good_buf' = Copied(good_buf, good_buf, off + len, file_size - (off + len), off)
          BY <2>1, <3>1 DEF CollapseGood
        <5>2. good_buf \in [Idx -> Byte] /\ off + len \in Nat
          BY <1>2 DEF Types
        <5> HIDE DEF e, d, ds
        <5> QED
          BY <5>1, <5>2, <4>1, <1>2, CopiedType
      <4>3. file_size' = file_size - len
        BY <2>1, <3>1 DEF CollapseGood
      <4> QED
        BY <4>2, <4>3, <1>2, <1>4, FsxAssumption DEF Types
    <3>2. CASE ~Real
      BY <3>2, <2>1 DEF Types
    <3> QED
      BY <3>1, <3>2
  <2>3. faults = 0 => d \in [Idx -> Byte] /\ ds \in 0 .. maxfilelen
    <3> SUFFICES ASSUME faults = 0 PROVE d \in [Idx -> Byte] /\ ds \in 0 .. maxfilelen
      OBVIOUS
    <3>1. ASSUME NEW i \in Idx PROVE e[i] \in Byte
      <4>1. i + len < Size0 => i + len \in Idx
        BY <1>2, StartType, FsxAssumption DEF Idx
      <4> QED
        BY <4>1, StartType, ByteFact
    <3>2. e \in [Idx -> Byte]
      BY <3>1
    <3> HIDE DEF e
    <3>3. d \in [Idx -> Byte]
      BY <3>2, StartType DEF Touched
    <3>4. ds \in 0 .. maxfilelen
      BY <1>2, StartType, FsxAssumption DEF Resized, Most
    <3> QED
      BY <3>3, <3>4
  <2>4. faults = 0 /\ Real => ~(Size0 <= off + len) /\ Exact(d, ds, good_buf', file_size')
    <3> SUFFICES ASSUME faults = 0, Real
                 PROVE  ~(Size0 <= off + len) /\ Exact(d, ds, good_buf', file_size')
      OBVIOUS
    <3>1. Exact(Disk0, Size0, good_buf, file_size)
      BY StartExact
    <3>2. d = e /\ ds = Most(Size0 - len, 0)
      BY DEF Touched, Resized
    <3>3. Size0 = file_size /\ off + len < file_size
      BY <3>1, <1>2, <1>4 DEF Exact, Types
    <3>4. ds = file_size'
      BY <3>2, <3>3, <2>1, <1>2 DEF CollapseGood, Most, Types
    <3>5. ASSUME NEW i \in Idx PROVE d[i] = IF i < file_size' THEN good_buf'[i] ELSE 0
      <4>1. file_size' = file_size - len
        BY <2>1 DEF CollapseGood
      <4>2. good_buf'[i] = IF In(i, off, file_size - (off + len))
                           THEN good_buf[i - off + (off + len)] ELSE good_buf[i]
        BY <2>1 DEF CollapseGood, Copied
      <4>3. CASE i < off
        BY <4>1, <4>2, <4>3, <3>1, <3>2, <3>3, <1>2, ByteFact DEF Exact, In, Types
      <4>4. CASE ~(i < off) /\ i + len < file_size
        <5>1. i - off + (off + len) = i + len /\ i + len \in Idx
          BY <4>4, <1>2, FsxAssumption DEF Idx, Types
        <5>2. d[i] = good_buf[i + len]
          BY <4>4, <5>1, <3>1, <3>2, <3>3 DEF Exact
        <5> QED
          BY <5>1, <5>2, <4>1, <4>2, <4>4, <1>2, ByteFact DEF In, Types
      <4>5. CASE ~(i < off) /\ ~(i + len < file_size)
        BY <4>1, <4>5, <3>2, <3>3, <1>2, ByteFact DEF Types
      <4> QED
        BY <4>3, <4>4, <4>5
    <3> HIDE DEF d, ds
    <3>6. ~(Size0 <= off + len)
      BY <3>3, <1>2 DEF Types
    <3> QED
      BY <3>4, <3>5, <3>6 DEF Exact
  <2>5. (Size0 <= off + len) \in BOOLEAN
    OBVIOUS
  <2> HIDE DEF d, ds, e
  <2> QED
    BY <2>1, <2>2, <2>3, <2>4, <2>5, VerdictKeeps
<1> QED
  BY <1>3, <1>4

\* do_insert_range() keeps it.
LEMMA InsertKeeps ==
  ASSUME Types, ExactInv, do_insert_range
  PROVE  Types' /\ ExactInv'
<1>1. PICK o \in TRIM_OFF(file_size), l \in OpLens :
        LET off == Down(o, block_size)
            len == Down(TRIM_LEN(file_size, l, maxfilelen), block_size)
        IN IF len = 0 \/ file_size + len > maxfilelen
           THEN Skip(FALSE)
           ELSE IF off >= file_size
           THEN Skip(TRUE)
           ELSE /\ skipped' = FALSE
                /\ IF Real
                   THEN /\ good_buf' = Zeroed(Copied(good_buf, good_buf, off,
                                                     file_size - off, off + len), off, len)
                        /\ file_size' = file_size + len
                   ELSE UNCHANGED <<good_buf, file_size>>
                /\ Verdict(Touched([i \in Idx |->
                                      IF i < off THEN Disk0[i]
                                      ELSE IF i < off + len THEN 0 ELSE Disk0[i - len]]),
                           Resized(Size0 + len), Size0 <= off, TRUE)
  BY DEF do_insert_range
<1> DEFINE off == Down(o, block_size)
           len == Down(TRIM_LEN(file_size, l, maxfilelen), block_size)
<1>2. off \in Nat /\ len \in Nat
  <2>1. o \in Nat
    BY TrimFact, OpLensFact DEF Types
  <2>2. TRIM_LEN(file_size, l, maxfilelen) \in Nat
    BY OpLensFact, FsxAssumption DEF TRIM_LEN, Types
  <2> QED
    BY <2>1, <2>2, DownFact, FsxAssumption
<1> HIDE DEF off, len
<1>3. CASE (len = 0 \/ file_size + len > maxfilelen) \/ off >= file_size
  <2>1. Skip(FALSE) \/ Skip(TRUE)
    BY <1>1, <1>3 DEF off, len
  <2> QED
    BY <2>1, SkipKeeps
<1>4. CASE ~((len = 0 \/ file_size + len > maxfilelen) \/ off >= file_size)
  <2> DEFINE e == [i \in Idx |-> IF i < off THEN Disk0[i]
                                 ELSE IF i < off + len THEN 0 ELSE Disk0[i - len]]
             c == Copied(good_buf, good_buf, off, file_size - off, off + len)
             d == Touched(e)
             ds == Resized(Size0 + len)
  <2>1. /\ IF Real THEN good_buf' = Zeroed(c, off, len) /\ file_size' = file_size + len
                   ELSE UNCHANGED <<good_buf, file_size>>
        /\ Verdict(d, ds, Size0 <= off, TRUE)
    BY <1>1, <1>4 DEF off, len
  <2>2. good_buf' \in [Idx -> Byte] /\ file_size' \in 0 .. maxfilelen
    <3>1. file_size - off \in Nat /\ off + (file_size - off) <= maxfilelen /\ off + len \in Nat
      BY <1>2, <1>4 DEF Types
    <3>2. c \in [Idx -> Byte]
      BY <3>1, <1>2, CopiedType DEF Types
    <3> HIDE DEF c
    <3>3. good_buf' \in [Idx -> Byte]
      BY <3>2, <2>1, ZeroedType DEF Types
    <3>4. file_size + len \in 0 .. maxfilelen
      BY <1>2, <1>4, FsxAssumption DEF Types
    <3> QED
      BY <3>3, <3>4, <2>1 DEF Types
  <2>3. faults = 0 => d \in [Idx -> Byte]
    <3> SUFFICES ASSUME faults = 0 PROVE d \in [Idx -> Byte]
      OBVIOUS
    <3>1. ASSUME NEW i \in Idx PROVE e[i] \in Byte
      <4>1. ~(i < off + len) => i - len \in Idx
        BY <1>2, FsxAssumption DEF Idx
      <4> QED
        BY <4>1, StartType, ByteFact
    <3>2. e \in [Idx -> Byte]
      BY <3>1
    <3> HIDE DEF e
    <3> QED
      BY <3>2, StartType DEF Touched
  <2>4. faults = 0 /\ Real => ~(Size0 <= off) /\ Exact(d, ds, good_buf', file_size')
    <3> SUFFICES ASSUME faults = 0, Real
                 PROVE  ~(Size0 <= off) /\ Exact(d, ds, good_buf', file_size')
      OBVIOUS
    <3>1. Exact(Disk0, Size0, good_buf, file_size)
      BY StartExact
    <3>2. d = e /\ ds = Size0 + len
      BY DEF Touched, Resized
    <3>3. Size0 = file_size /\ off < file_size
      BY <3>1, <1>2, <1>4 DEF Exact, Types
    <3>4. ds = file_size'
      BY <3>2, <3>3, <2>1
    <3>5. ASSUME NEW i \in Idx PROVE d[i] = IF i < file_size' THEN good_buf'[i] ELSE 0
      <4>1. file_size' = file_size + len
        BY <2>1
      <4>2. good_buf'[i] = IF In(i, off, len) THEN 0
                           ELSE IF In(i, off + len, file_size - off)
                           THEN good_buf[i - (off + len) + off] ELSE good_buf[i]
        BY <2>1 DEF Zeroed, Copied
      <4>3. CASE i < off
        BY <4>1, <4>2, <4>3, <3>1, <3>2, <3>3, <1>2, ByteFact DEF Exact, In, Types
      <4>4. CASE ~(i < off) /\ i < off + len
        BY <4>1, <4>2, <4>4, <3>2, <3>3, <1>2, ByteFact DEF In, Types
      <4>5. CASE ~(i < off) /\ ~(i < off + len)
        <5>1. i - (off + len) + off = i - len /\ i - len \in Idx
          BY <4>5, <1>2, FsxAssumption DEF Idx
        <5>2. d[i] = IF i - len < file_size THEN good_buf[i - len] ELSE 0
          BY <4>5, <5>1, <3>1, <3>2 DEF Exact
        <5> QED
          BY <5>1, <5>2, <4>1, <4>2, <4>5, <1>2, ByteFact DEF In, Types
      <4> QED
        BY <4>3, <4>4, <4>5
    <3> HIDE DEF d, ds
    <3>6. ~(Size0 <= off)
      BY <3>3, <1>2 DEF Types
    <3> QED
      BY <3>4, <3>5, <3>6 DEF Exact
  <2>5. (Size0 <= off) \in BOOLEAN
    OBVIOUS
  <2>6. faults = 0 => ds \in 0 .. maxfilelen
    <3>1. CASE Real
      <4>1. file_size + len \in 0 .. maxfilelen
        BY <1>2, <1>4, FsxAssumption DEF Types
      <4> QED
        BY <3>1, <4>1, StartExact DEF Exact, Resized
    <3>2. CASE ~Real
      BY <3>2, StartType DEF Resized
    <3> QED
      BY <3>1, <3>2
  <2> HIDE DEF d, ds, e, c
  <2> QED
    BY <2>1, <2>2, <2>3, <2>4, <2>5, <2>6, VerdictKeeps
<1> QED
  BY <1>3, <1>4

\* Copying a range inside the file, to the end of it or behind it.
LEMMA CloneExact ==
  ASSUME Types, NEW D \in [Idx -> Byte], NEW S, Exact(D, S, good_buf, file_size),
         NEW off \in Nat, NEW len \in Nat, NEW dest \in Nat,
         off + len <= file_size, dest + len <= maxfilelen, CloneGood(off, len, dest)
  PROVE  Exact(Copied(D, D, off, len, dest), Most(S, dest + len), good_buf', file_size')
<1> DEFINE d == Copied(D, D, off, len, dest)
<1>1. file_size' = Most(file_size, dest + len) /\ S = file_size
  BY DEF CloneGood, Exact
<1>2. ASSUME NEW i \in Idx PROVE d[i] = IF i < file_size' THEN good_buf'[i] ELSE 0
  <2>1. good_buf'[i] = IF dest > file_size /\ In(i, file_size, dest - file_size) THEN 0
                       ELSE IF In(i, dest, len) THEN good_buf[i - dest + off] ELSE good_buf[i]
    BY DEF CloneGood, Copied, Zeroed
  <2>2. CASE In(i, dest, len)
    <3>1. i - dest + off \in Idx /\ i - dest + off < file_size /\ i < dest + len
      BY <2>2, FsxAssumption, ByteFact DEF In, Idx, Types
    <3>2. d[i] = good_buf[i - dest + off]
      BY <2>2, <3>1 DEF Copied, Exact
    <3>3. ~In(i, file_size, dest - file_size) /\ i < file_size'
      BY <1>1, <2>2, ByteFact DEF In, Most, Types
    <3> QED
      BY <2>1, <2>2, <3>2, <3>3
  <2>3. CASE ~In(i, dest, len)
    <3>1. d[i] = IF i < file_size THEN good_buf[i] ELSE 0
      BY <2>3 DEF Copied, Exact
    <3> HIDE DEF d
    <3> QED
      BY <1>1, <2>1, <2>3, <3>1, ByteFact DEF In, Most, Types
  <2> QED
    BY <2>2, <2>3
<1> QED
  BY <1>1, <1>2 DEF Exact

\* do_clone_range() and do_copy_range() keep it.
LEMMA CloneKeeps ==
  ASSUME Types, ExactInv, NEW op, do_clone_range(op)
  PROVE  Types' /\ ExactInv'
<1>1. PICK o \in TRIM_OFF(file_size), l \in OpLens :
        LET off == Down(o, SourceBdy(op))
            len == SourceLen(op, TRIM_LEN(o, l, file_size))
        IN \E dest \in Dests(off, len, maxfilelen, DestBdy(op)) :
             /\ ~CopyStuck(op, off, len)
             /\ IF op \notin Enabled \/ len = 0
                THEN Skip(FALSE)
                ELSE IF off >= file_size
                THEN Skip(TRUE)
                ELSE /\ skipped' = FALSE
                     /\ IF Real THEN CloneGood(off, len, dest)
                                ELSE UNCHANGED <<good_buf, file_size>>
                     /\ Verdict(Touched(Copied(Disk0, Disk0, off, len, dest)),
                                Resized(Most(Size0, dest + len)), Size0 < off + len, TRUE)
  BY DEF do_clone_range
<1> DEFINE off == Down(o, SourceBdy(op))
           cut == TRIM_LEN(o, l, file_size)
           len == SourceLen(op, cut)
<1>2. off \in Nat /\ len \in Nat /\ off + len <= file_size
  <2>1. o \in Nat /\ cut \in Nat /\ o + cut <= file_size
    BY TrimFact, OpLensFact DEF Types
  <2>2. off \in 0 .. o /\ len \in 0 .. cut
    <3> HIDE DEF cut
    <3> QED
      BY <2>1, DownFact, FsxAssumption DEF SourceBdy, SourceLen
  <2> HIDE DEF off, cut, len
  <2> QED
    BY <2>1, <2>2 DEF Types
<1>3. PICK dest \in Dests(off, len, maxfilelen, DestBdy(op)) :
             IF op \notin Enabled \/ len = 0
             THEN Skip(FALSE)
             ELSE IF off >= file_size
             THEN Skip(TRUE)
             ELSE /\ skipped' = FALSE
                  /\ IF Real THEN CloneGood(off, len, dest)
                             ELSE UNCHANGED <<good_buf, file_size>>
                  /\ Verdict(Touched(Copied(Disk0, Disk0, off, len, dest)),
                             Resized(Most(Size0, dest + len)), Size0 < off + len, TRUE)
  BY <1>1
<1> HIDE DEF off, cut, len
<1>4. dest \in Nat /\ dest + len <= maxfilelen
  <2>1. PICK x \in TRIM_OFF(maxfilelen) : dest = Down(x, DestBdy(op))
    BY <1>3 DEF Dests
  <2>2. x \in Nat
    BY TrimFact, FsxAssumption DEF TRIM_OFF
  <2>3. DestBdy(op) \in Nat \ {0}
    BY FsxAssumption DEF DestBdy
  <2>4. dest \in Nat
    BY <2>1, <2>2, <2>3, DownFact
  <2>5. dest + len <= maxfilelen
    BY <1>3 DEF Dests
  <2> QED
    BY <2>4, <2>5
<1>5. CASE (op \notin Enabled \/ len = 0) \/ off >= file_size
  <2>1. Skip(FALSE) \/ Skip(TRUE)
    BY <1>3, <1>5
  <2> QED
    BY <2>1, SkipKeeps
<1>6. CASE ~((op \notin Enabled \/ len = 0) \/ off >= file_size)
  <2> DEFINE d == Touched(Copied(Disk0, Disk0, off, len, dest))
             ds == Resized(Most(Size0, dest + len))
  <2>1. /\ IF Real THEN CloneGood(off, len, dest) ELSE UNCHANGED <<good_buf, file_size>>
        /\ Verdict(d, ds, Size0 < off + len, TRUE)
    BY <1>3, <1>6
  <2>2. good_buf' \in [Idx -> Byte] /\ file_size' \in 0 .. maxfilelen
    <3>1. CASE Real
      <4>1. off + len <= maxfilelen
        BY <1>2, FsxAssumption DEF Types
      <4>2. Copied(good_buf, good_buf, off, len, dest) \in [Idx -> Byte]
        BY <4>1, <1>2, <1>4, CopiedType DEF Types
      <4>3. good_buf' \in [Idx -> Byte]
        BY <2>1, <3>1, <4>2, ZeroedType DEF CloneGood
      <4>4. file_size' \in 0 .. maxfilelen
        BY <2>1, <3>1, <1>2, <1>4 DEF CloneGood, Most, Types
      <4> QED
        BY <4>3, <4>4
    <3>2. CASE ~Real
      BY <3>2, <2>1 DEF Types
    <3> QED
      BY <3>1, <3>2
  <2>3. faults = 0 => d \in [Idx -> Byte] /\ ds \in 0 .. maxfilelen
    <3> SUFFICES ASSUME faults = 0 PROVE d \in [Idx -> Byte] /\ ds \in 0 .. maxfilelen
      OBVIOUS
    <3>1. off + len <= maxfilelen
      BY <1>2, FsxAssumption DEF Types
    <3>2. d \in [Idx -> Byte]
      BY <3>1, <1>2, <1>4, StartType, CopiedType DEF Touched
    <3>3. ds \in 0 .. maxfilelen
      BY <1>2, <1>4, StartType, FsxAssumption DEF Resized, Most
    <3> QED
      BY <3>2, <3>3
  <2>4. faults = 0 /\ Real => ~(Size0 < off + len) /\ Exact(d, ds, good_buf', file_size')
    <3> SUFFICES ASSUME faults = 0, Real
                 PROVE  ~(Size0 < off + len) /\ Exact(d, ds, good_buf', file_size')
      OBVIOUS
    <3>1. Exact(Disk0, Size0, good_buf, file_size)
      BY StartExact
    <3>2. ~(Size0 < off + len)
      BY <3>1, <1>2 DEF Exact, Types
    <3>3. CloneGood(off, len, dest) /\ Disk0 \in [Idx -> Byte]
      BY <2>1, StartType
    <3>4. Exact(Copied(Disk0, Disk0, off, len, dest), Most(Size0, dest + len),
                good_buf', file_size')
      BY <3>1, <3>3, <1>2, <1>4, CloneExact
    <3> QED
      BY <3>2, <3>4 DEF Touched, Resized
  <2>5. (Size0 < off + len) \in BOOLEAN
    OBVIOUS
  <2> HIDE DEF d, ds
  <2> QED
    BY <2>1, <2>2, <2>3, <2>4, <2>5, VerdictKeeps
<1> QED
  BY <1>5, <1>6

\* do_dedupe_range() keeps it: both ranges have the same contents already.
LEMMA DedupeKeeps ==
  ASSUME Types, ExactInv, do_dedupe_range
  PROVE  Types' /\ ExactInv'
<1>1. CASE Skip(FALSE)
  BY <1>1, SkipKeeps
<1>2. CASE good_buf' = good_buf /\ file_size' = file_size /\ Verdict(Disk0, Size0, FALSE, TRUE)
  <2>1. good_buf' \in [Idx -> Byte] /\ file_size' \in 0 .. maxfilelen
    BY <1>2 DEF Types
  <2>2. faults = 0 /\ Real => Exact(Disk0, Size0, good_buf', file_size')
    BY <1>2, StartExact
  <2> QED
    BY <1>2, <2>1, <2>2, StartType, VerdictKeeps
<1> QED
  BY <1>1, <1>2 DEF do_dedupe_range

-----------------------------------------------------------------------------
(* The invariant *)

\* The start is exact.
LEMMA Initial == Init => Types /\ ExactInv
<1> SUFFICES ASSUME Init PROVE Types /\ ExactInv
  OBVIOUS
<1>1. file_size \in {0, maxfilelen} /\ good_buf \in [Idx -> Byte]
  BY DEF Init, Byte
<1>2. Types
  <2>1. file_size \in 0 .. maxfilelen
    BY <1>1, FsxAssumption
  <2>2. testcalls = 0 /\ faults = 0 /\ failed = FALSE
    BY DEF Init
  <2> QED
    BY <1>1, <2>1, <2>2 DEF Types
<1>3. disk = good_buf /\ disk_size = file_size /\ ~failed
  BY DEF Init
<1>4. ASSUME NEW i \in Idx PROVE disk[i] = IF i < file_size THEN good_buf[i] ELSE 0
  <2>1. CASE file_size = 0
    BY <2>1, <1>3, ByteFact DEF Init
  <2>2. CASE file_size = maxfilelen
    BY <2>2, <1>3, FsxAssumption DEF Idx
  <2> QED
    BY <1>1, <2>1, <2>2
<1>5. disk \in [Idx -> Byte] /\ disk_size \in 0 .. maxfilelen
  BY <1>1, <1>2, <1>3 DEF Types
<1> QED
  BY <1>2, <1>3, <1>4, <1>5 DEF ExactInv, Exact

\* So does every call of test().
LEMMA TestKeeps ==
  ASSUME Types, ExactInv, Test
  PROVE  Types' /\ ExactInv'
<1>1. ASSUME NEW op, Disabled(op) PROVE Types' /\ ExactInv'
  BY <1>1, SkipKeeps DEF Disabled
<1> QED
  BY <1>1, ReadKeeps, WriteKeeps, TruncateKeeps, PreallocateKeeps, PunchKeeps,
     ZeroRangeKeeps, CollapseKeeps, InsertKeeps, CloneKeeps, DedupeKeeps DEF Test

\* Every step keeps the types and the agreement of copy and file.
LEMMA Inductive == Types /\ ExactInv /\ [Next]_vars => Types' /\ ExactInv'
<1> SUFFICES ASSUME Types, ExactInv, [Next]_vars PROVE Types' /\ ExactInv'
  OBVIOUS
<1>1. CASE Test
  BY <1>1, TestKeeps
<1>2. CASE \E op \in {"clone_range", "copy_range"} : CloneHangs(op)
  BY <1>2 DEF CloneHangs, Types, ExactInv, Exact, Late
<1>3. CASE FsCorrupts
  <2>1. /\ good_buf' = good_buf /\ file_size' = file_size /\ testcalls' = testcalls
        /\ failed' = failed /\ faults' = faults + 1
    BY <1>3 DEF FsCorrupts
  <2>2. faults' # 0 /\ faults' \in Nat
    BY <2>1 DEF Types
  <2> QED
    BY <2>1, <2>2 DEF Types, ExactInv
<1>4. CASE UNCHANGED vars
  BY <1>4 DEF vars, Types, ExactInv, Exact, Late
<1> QED
  BY <1>1, <1>2, <1>3, <1>4 DEF Next

-----------------------------------------------------------------------------
(* The theorems *)

\* On a file system that does what it promises, good_buf and file_size are the
\* contents and the size of the file after every call that is not simulated.
THEOREM Shadow == Spec => []ShadowExact
<1>1. Types /\ ExactInv => ShadowExact
  <2> SUFFICES ASSUME Types, ExactInv, faults = 0, Late PROVE Same(disk, disk_size)
    BY DEF ShadowExact, Late
  <2>1. Exact(disk, disk_size, good_buf, file_size)
    BY DEF ExactInv
  <2> QED
    BY <2>1 DEF Exact, Same
<1> QED
  BY <1>1, Initial, Inductive, PTL DEF Spec

\* fsx never reports a failure of a file system that does what it promises.
THEOREM Trusted == Spec => []NoFalseAlarm
<1>1. ExactInv => NoFalseAlarm
  BY DEF ExactInv, NoFalseAlarm
<1> QED
  BY <1>1, Initial, Inductive, PTL DEF Spec
-----------------------------------------------------------------------------
(* The loops of CLONE_RANGE and COPY_RANGE *)

\* test() leaves the flag of the hung loops and the count of the faults alone.
LEMMA TestLeavesLoops ==
  ASSUME Test
  PROVE  hung' = hung /\ faults' = faults
<1>1. \A contents :
        Skip(contents) => hung' = hung /\ faults' = faults
  BY DEF Skip, Verdict
<1>2. \A d, ds, bad, contents :
        Verdict(d, ds, bad, contents) => hung' = hung /\ faults' = faults
  BY DEF Verdict
<1>3. CASE \E op \in {"read", "mapread"} : doread(op)
  BY <1>1, <1>2, <1>3, Zenon DEF doread
<1>4. CASE \E op \in {"write", "mapwrite"} : dowrite(op)
  BY <1>1, <1>2, <1>4, Zenon DEF dowrite
<1>5. CASE dotruncate \/ do_preallocate
  BY <1>1, <1>2, <1>5, Zenon DEF dotruncate, do_preallocate
<1>6. CASE do_punch_hole \/ do_zero_range
  BY <1>1, <1>2, <1>6, Zenon DEF do_punch_hole, do_zero_range
<1>7. CASE do_collapse_range \/ do_insert_range
  BY <1>1, <1>2, <1>7, Zenon DEF do_collapse_range, do_insert_range
<1>8. CASE \E op \in {"clone_range", "copy_range"} : do_clone_range(op)
  <2>1. PICK op \in {"clone_range", "copy_range"} : do_clone_range(op)
    BY <1>8
  <2>2. PICK o \in TRIM_OFF(file_size), l \in OpLens :
          LET off == Down(o, SourceBdy(op))
              len == SourceLen(op, TRIM_LEN(o, l, file_size))
          IN \E d, ds, bad :       \/ Skip(FALSE)
                                   \/ Skip(TRUE)
                                   \/ Verdict(d, ds, bad, TRUE)
    BY <2>1, Zenon DEF do_clone_range
  <2> QED
    BY <1>1, <1>2, <2>2, Zenon
<1>9. CASE do_dedupe_range \/ \E op \in FullOps \ {"clone_range", "copy_range"} : Disabled(op)
  BY <1>1, <1>2, <1>9, Zenon DEF do_dedupe_range, Disabled
<1> QED
  BY <1>3, <1>4, <1>5, <1>6, <1>7, <1>8, <1>9 DEF Test

\* The next boundary behind x.
LEMMA UpFact ==
  ASSUME NEW x \in Nat, NEW b \in Nat \ {0}
  PROVE  /\ Down(x + b - 1, b) \in x .. x + b - 1
         /\ Down(Down(x + b - 1, b), b) = Down(x + b - 1, b)
<1> DEFINE y == x + b - 1
           q == y \div b
<1>1. y \in Nat /\ q \in Nat /\ y = b * q + (y % b) /\ y % b \in 0 .. b - 1
  OBVIOUS
<1>2. q * b \in Nat /\ b * q = q * b
  BY <1>1
<1>3. (q * b) \div b = q
  <2>1. \A n \in Nat : \A m \in Nat \ {0} : (n * m) \div m = n
    OBVIOUS
  <2> QED
    BY <1>1, <2>1
<1> HIDE DEF q
<1>4. Down(y, b) = q * b
  BY DEF Down, q
<1>5. q * b \in x .. y
  BY <1>1, <1>2
<1> QED
  BY <1>3, <1>4, <1>5 DEF Down

\* There is a destination for every source when there is room.
LEMMA DestExists ==
  ASSUME NEW off \in Nat, NEW len \in Nat, NEW b \in Nat \ {0},
         len <= maxoplen, 3 * maxoplen + b <= maxfilelen
  PROVE  Dests(off, len, maxfilelen, b) # {}
<1> DEFINE ds == {Down(x, b) : x \in TRIM_OFF(maxfilelen)}
<1>1. maxfilelen \in Nat /\ maxoplen \in Nat /\ TRIM_OFF(maxfilelen) = 0 .. maxfilelen - 1
  BY FsxAssumption DEF TRIM_OFF
<1>2. CASE off >= len
  <2>1. Down(0, b) = 0
    BY DownFact
  <2>2. 0 \in ds
    BY <1>1, <2>1
  <2>3. off >= 0 + len /\ 0 + len <= maxfilelen
    BY <1>1, <1>2
  <2> QED
    BY <2>2, <2>3, Zenon DEF Dests
<1>3. CASE ~(off >= len)
  <2> DEFINE d == Down(off + len + b - 1, b)
  <2>1. d \in off + len .. off + len + b - 1 /\ Down(d, b) = d
    <3>1. off + len \in Nat
      OBVIOUS
    <3> QED
      BY <3>1, UpFact
  <2> HIDE DEF d
  <2>2. d >= off + len /\ d + len <= maxfilelen /\ d \in 0 .. maxfilelen - 1
    BY <1>1, <1>3, <2>1
  <2>3. d \in ds
    BY <1>1, <2>1, <2>2
  <2> QED
    BY <2>2, <2>3 DEF Dests
<1> QED
  BY <1>2, <1>3

\* With room for three operations and a correct file system, no loop goes on for ever.
THEOREM NoEndlessLoop == Spec => []NeverHangs
<1>1. Init => NeverHangs
  BY DEF Init, NeverHangs
<1>2. Types /\ ExactInv /\ NeverHangs /\ [Next]_vars => NeverHangs'
  <2> SUFFICES ASSUME Types, ExactInv, NeverHangs, [Next]_vars, RoomToCopy, faults' = 0
               PROVE  ~hung'
    BY DEF NeverHangs, RoomToCopy
  <2>1. CASE Test
    BY <2>1, TestLeavesLoops DEF NeverHangs
  <2>2. ASSUME NEW op \in {"clone_range", "copy_range"}, CloneHangs(op) PROVE FALSE
    <3>1. PICK o \in TRIM_OFF(file_size), l \in OpLens :
            LET off == Down(o, SourceBdy(op))
                len == SourceLen(op, TRIM_LEN(o, l, file_size))
            IN Dests(off, len, maxfilelen, DestBdy(op)) = {} \/ CopyStuck(op, off, len)
      BY <2>2 DEF CloneHangs
    <3> DEFINE off == Down(o, SourceBdy(op))
               cut == TRIM_LEN(o, l, file_size)
               len == SourceLen(op, cut)
    <3>2. o \in Nat /\ cut \in Nat /\ o + cut <= file_size /\ cut <= l
      BY TrimFact, OpLensFact DEF Types
    <3>3. l <= maxoplen /\ l \in Nat /\ maxoplen \in Nat
      BY FsxAssumption DEF OpLens
    <3>4. Dests(off, len, maxfilelen, DestBdy(op)) = {} \/ CopyStuck(op, off, len)
      BY <3>1
    <3> HIDE DEF cut
    <3>5. off \in 0 .. o /\ len \in 0 .. cut
      BY <3>2, DownFact, FsxAssumption DEF SourceBdy, SourceLen
    <3> HIDE DEF off, len
    <3>6. off \in Nat /\ len \in Nat /\ off + len <= file_size /\ len <= maxoplen
      BY <3>2, <3>3, <3>5 DEF Types
    <3>7. DestBdy(op) \in Nat \ {0} /\ 3 * maxoplen + DestBdy(op) <= maxfilelen
      BY FsxAssumption DEF RoomToCopy, DestBdy
    <3>8. Dests(off, len, maxfilelen, DestBdy(op)) # {}
      BY <3>6, <3>7, DestExists
    <3>9. CopyStuck(op, off, len)
      BY <3>4, <3>8
    <3>10. faults = 0 /\ Real /\ Size0 < off + len
      BY <2>2, <3>9 DEF CloneHangs, CopyStuck
    <3>11. Size0 = file_size
      BY <3>10, StartExact DEF Exact
    <3> QED
      BY <3>6, <3>10, <3>11 DEF Types
  <2>3. CASE FsCorrupts
    BY <2>3 DEF FsCorrupts, Types
  <2>4. CASE UNCHANGED vars
    BY <2>4 DEF vars, NeverHangs
  <2> QED
    BY <2>1, <2>2, <2>3, <2>4 DEF Next
<1> QED
  BY <1>1, <1>2, Initial, Inductive, PTL DEF Spec

-----------------------------------------------------------------------------
(* What the checks at the end of test() find *)

\* A call of test() that carries its operation out ends with the checks of the contents
\* and of the size.
LEMMA CarriedOutIsChecked ==
  ASSUME Test, ~skipped'
  PROVE  \E d, ds, bad : Verdict(d, ds, bad, TRUE)
<1>1. \A contents : ~Skip(contents)
  BY Zenon DEF Skip
<1>2. CASE \E op \in {"read", "mapread"} : doread(op)
  BY <1>1, <1>2, Zenon DEF doread
<1>3. CASE \E op \in {"write", "mapwrite"} : dowrite(op)
  BY <1>1, <1>3, Zenon DEF dowrite
<1>4. CASE dotruncate \/ do_preallocate
  BY <1>1, <1>4, Zenon DEF dotruncate, do_preallocate
<1>5. CASE do_punch_hole \/ do_zero_range
  BY <1>1, <1>5, Zenon DEF do_punch_hole, do_zero_range
<1>6. CASE do_collapse_range \/ do_insert_range
  BY <1>1, <1>6, Zenon DEF do_collapse_range, do_insert_range
<1>7. CASE \E op \in {"clone_range", "copy_range"} : do_clone_range(op)
  <2>1. PICK op \in {"clone_range", "copy_range"} : do_clone_range(op)
    BY <1>7
  <2>2. PICK o \in TRIM_OFF(file_size), l \in OpLens :
          \E d, ds, bad : Skip(FALSE) \/ Skip(TRUE) \/ Verdict(d, ds, bad, TRUE)
    BY <2>1, Zenon DEF do_clone_range
  <2> QED
    BY <1>1, <2>2, Zenon
<1>8. CASE do_dedupe_range \/ \E op \in FullOps \ {"clone_range", "copy_range"} : Disabled(op)
  BY <1>1, <1>8, Zenon DEF do_dedupe_range, Disabled
<1> QED
  BY <1>2, <1>3, <1>4, <1>5, <1>6, <1>7, <1>8, Zenon DEF Test

\* The bytes in front of n are those of the range of length n at 0.
LEMMA InFact == \A i, n \in Nat : i < n => In(i, 0, n)
BY DEF In

\* Checks that find nothing show that the file is fsx's copy of it, whatever the file
\* system did before.
LEMMA CheckedIsSame ==
  ASSUME NEW d, NEW ds, NEW bad, Verdict(d, ds, bad, TRUE),
         file_size' \in 0 .. maxfilelen,
         check_file, ~o_direct, sizechecks, Real, ~failed'
  PROVE  Same(disk, disk_size)'
<1>1. ~Differs(d, ds, 0, file_size') /\ ds = file_size'
  BY DEF Verdict, CheckedLen
<1>2. disk' = d /\ disk_size' = ds
  BY DEF Verdict
<1>3. ASSUME NEW i \in Idx, i < file_size' PROVE d[i] = good_buf'[i]
  <2>1. i \in Nat /\ file_size' \in Nat
    BY ByteFact, FsxAssumption
  <2>2. In(i, 0, file_size')
    BY <1>3, <2>1, InFact
  <2> QED
    BY <1>1, <2>2, Zenon DEF Differs
<1> QED
  BY <1>1, <1>2, <1>3 DEF Same

\* With -X an operation that was carried out and ends without a failure leaves no
\* corruption in the file, whatever the file system did to it before, and however many
\* times.
THEOREM CorruptionDetected == Spec => Detected
<1> DEFINE A == check_file /\ ~o_direct /\ testcalls' # testcalls /\ Real /\ ~skipped'
                  /\ ~failed' /\ sizechecks => Same(disk, disk_size)'
<1>1. Types /\ ExactInv /\ Types' /\ [Next]_vars => [A]_vars
  <2> SUFFICES ASSUME Types, Types', Next, check_file, ~o_direct, testcalls' # testcalls,
                      Real, ~skipped', ~failed', sizechecks
               PROVE  Same(disk, disk_size)'
    OBVIOUS
  <2>1. Test
    BY DEF Next, CloneHangs, FsCorrupts, vars
  <2>2. PICK d, ds, bad : Verdict(d, ds, bad, TRUE)
    BY <2>1, CarriedOutIsChecked
  <2> QED
    BY <2>2, CheckedIsSame DEF Types
<1> QED
  BY <1>1, Initial, Inductive, PTL DEF Spec, Detected

-----------------------------------------------------------------------------
(* The ring of operations (FsxLog) *)

Entries == [operation : Operations, nr_args : Nat, skipped : BOOLEAN, id : Nat]

TypeInv ==
  /\ run \in Nat \ {0}
  /\ state \in {"test", "eof", "dumped", "parse error"}
  /\ oplog \in [0 .. LOGSIZE - 1 -> Entries]
  /\ logptr \in 0 .. LOGSIZE - 1
  /\ logcount \in Nat
  /\ opsfile \in Seq(Entries)
  /\ replayed \in Nat
  /\ past \in Seq(Entries)

\* The slot that was written j entries ago; 1 is the last one.
Back(j) == IF j <= logptr THEN logptr - j ELSE logptr - j + LOGSIZE

\* The ring holds the last entries of the past, the latest one before logptr,
\* and until it is full nothing has come round.
RingInv ==
  /\ Len(past) = logcount
  /\ logcount < LOGSIZE => logptr = logcount
  /\ \A j \in 1 .. DumpCount : oplog[Back(j)] = past[logcount - j + 1]

\* A replay is never ahead of its file.
ReplayInv ==
  /\ ReplayFollows
  /\ state \in {"test", "eof"} /\ run > 1 => replayed <= Len(opsfile)

IInv == TypeInv /\ RingInv /\ DumpIsRecent /\ ReplayInv

-----------------------------------------------------------------------------

\* What % does to an index that is at most once round a ring.
LEMMA OnceRound ==
  ASSUME NEW L \in Nat \ {0}, NEW a \in 0 .. 2 * L - 1
  PROVE  a % L = IF a < L THEN a ELSE a - L
  OBVIOUS

\* logdump() starts at the oldest entry: its k-th line is the entry that was
\* logged DumpCount - k entries before the last.
LEMMA DumpOrder ==
  ASSUME TypeInv, RingInv, NEW k \in 1 .. DumpCount
  PROVE  /\ DumpCount - k + 1 \in 1 .. DumpCount
         /\ DumpIndex(k) = Back(DumpCount - k + 1)
<1> USE FsxLogAssumption
<1>0. /\ logcount \in Nat /\ logptr \in 0 .. LOGSIZE - 1
      /\ logcount < LOGSIZE => logptr = logcount
  BY DEF TypeInv, RingInv
<1>1. DumpCount \in 0 .. LOGSIZE /\ DumpStart \in 0 .. LOGSIZE - 1
  BY <1>0 DEF DumpCount, DumpStart
<1>2. k \in 1 .. LOGSIZE /\ DumpStart + k - 1 \in 0 .. 2 * LOGSIZE - 1
  BY <1>1
<1> DEFINE a == DumpStart + k - 1
<1>3. a \in 0 .. 2 * LOGSIZE - 1 /\ LOGSIZE \in Nat \ {0} /\ DumpIndex(k) = a % LOGSIZE
  BY <1>2 DEF DumpIndex
<1> HIDE DEF a
<1>4. DumpIndex(k) = IF a < LOGSIZE THEN a ELSE a - LOGSIZE
  BY <1>3, OnceRound
<1>5. CASE logcount < LOGSIZE
  BY <1>0, <1>5, <1>4 DEF DumpCount, DumpStart, Back, a
<1>6. CASE ~(logcount < LOGSIZE)
  BY <1>0, <1>6, <1>4 DEF DumpCount, DumpStart, Back, a
<1> QED BY <1>5, <1>6

\* An entry that is logged goes to the slot that nothing recent is in.
LEMMA LogRing ==
  ASSUME TypeInv, RingInv, FsxLogAssumption,
         NEW operation \in Operations, NEW nr_args \in Nat,
         NEW skip \in BOOLEAN, NEW id \in Nat,
         Log(operation, nr_args, skip, id)
  PROVE  /\ oplog' \in [0 .. LOGSIZE - 1 -> Entries]
         /\ logptr' \in 0 .. LOGSIZE - 1 /\ logcount' = logcount + 1
         /\ past' \in Seq(Entries) /\ Len(past') = Len(past) + 1
         /\ past'[Len(past) + 1] =
              [operation |-> operation, nr_args |-> nr_args, skipped |-> skip,
               id |-> id]
         /\ \A k \in 1 .. Len(past) : past'[k] = past[k]
         /\ RingInv'
<1> DEFINE le == [operation |-> operation, nr_args |-> nr_args,
                  skipped |-> skip, id |-> id]
<1>a. /\ LOGSIZE \in Nat \ {0}
      /\ logptr \in 0 .. LOGSIZE - 1 /\ logcount \in Nat
      /\ oplog \in [0 .. LOGSIZE - 1 -> Entries]
      /\ past \in Seq(Entries) /\ Len(past) = logcount
      /\ logcount < LOGSIZE => logptr = logcount
  BY FsxLogAssumption DEF TypeInv, RingInv
<1>0. le \in Entries
  BY DEF Entries
<1>1. /\ oplog' = [oplog EXCEPT ![logptr] = le] /\ logptr' = Advance
      /\ logcount' = logcount + 1 /\ past' = Append(past, le)
  BY DEF Log
<1> HIDE DEF le
<1>2. /\ oplog' \in [0 .. LOGSIZE - 1 -> Entries]
      /\ logptr' \in 0 .. LOGSIZE - 1
  BY <1>a, <1>0, <1>1 DEF Advance
<1>3. /\ past' \in Seq(Entries) /\ Len(past') = Len(past) + 1
      /\ past'[Len(past) + 1] = le
      /\ \A k \in 1 .. Len(past) : past'[k] = past[k]
  BY <1>a, <1>0, <1>1
<1>4. RingInv'
  <2>1. Len(past') = logcount'
    BY <1>a, <1>1, <1>3
  <2>2. logcount' < LOGSIZE => logptr' = logcount'
    BY <1>a, <1>1 DEF Advance
  <2>3. ASSUME NEW j \in 1 .. DumpCount' PROVE oplog'[Back(j)'] = past'[logcount' - j + 1]
    <3>0. /\ logcount \in Nat /\ logptr \in 0 .. LOGSIZE - 1 /\ j \in Nat \ {0}
          /\ j <= LOGSIZE /\ j <= logcount + 1
      BY <1>a, <1>1 DEF DumpCount
    <3>1. CASE j = 1
      <4>1. Back(j)' = logptr
        BY <1>1, <3>0, <3>1 DEF Back, Advance
      <4> QED BY <1>a, <1>1, <1>3, <3>0, <3>1, <4>1
    <3>2. CASE j > 1
      <4>1. /\ j - 1 \in 1 .. DumpCount
            /\ Back(j)' = Back(j - 1) /\ Back(j - 1) # logptr
            /\ Back(j - 1) \in 0 .. LOGSIZE - 1
        <5>1. j - 1 \in 1 .. DumpCount
          BY <3>0, <3>2 DEF DumpCount
        <5>2. CASE logptr + 1 >= LOGSIZE
          BY <1>1, <3>0, <3>2, <5>1, <5>2 DEF Back, Advance
        <5>3. CASE ~(logptr + 1 >= LOGSIZE)
          BY <1>1, <3>0, <3>2, <5>1, <5>3 DEF Back, Advance
        <5> QED BY <5>1, <5>2, <5>3
      <4>2. oplog'[Back(j)'] = oplog[Back(j - 1)]
        BY <1>a, <1>1, <4>1
      <4>3. oplog[Back(j - 1)] = past[logcount - (j - 1) + 1]
        BY <4>1 DEF RingInv
      <4>4. /\ logcount - (j - 1) + 1 = logcount' - j + 1
            /\ logcount' - j + 1 \in 1 .. Len(past)
        BY <1>a, <1>1, <3>0, <3>2
      <4> QED BY <1>3, <4>2, <4>3, <4>4
    <3> QED BY <3>0, <3>1, <3>2
  <2> QED BY <2>1, <2>2, <2>3 DEF RingInv
<1> QED BY <1>1, <1>2, <1>3, <1>4 DEF le

\* What logdump() writes are the last entries of the past.
LEMMA DumpWritesPast ==
  ASSUME TypeInv, RingInv
  PROVE  LET lines == [k \in 1 .. DumpCount |-> oplog[DumpIndex(k)]] IN
         /\ lines \in Seq(Entries)
         /\ lines = LastOf(past, IF Len(past) < LOGSIZE THEN Len(past) ELSE LOGSIZE)
<1> USE FsxLogAssumption
<1> DEFINE lines == [k \in 1 .. DumpCount |-> oplog[DumpIndex(k)]]
           last == LastOf(past, DumpCount)
<1>0. /\ DumpCount \in 0 .. LOGSIZE /\ DumpCount <= Len(past)
      /\ DumpCount = IF Len(past) < LOGSIZE THEN Len(past) ELSE LOGSIZE
      /\ Len(past) = logcount /\ Len(past) \in Nat
  <2>1. past \in Seq(Entries) /\ logcount \in Nat /\ Len(past) = logcount
    BY DEF TypeInv, RingInv
  <2> QED BY <2>1 DEF DumpCount
<1>1. ASSUME NEW k \in 1 .. DumpCount
      PROVE  oplog[DumpIndex(k)] = past[Len(past) - DumpCount + k]
  <2>1. /\ DumpCount - k + 1 \in 1 .. DumpCount
        /\ DumpIndex(k) = Back(DumpCount - k + 1)
    BY DumpOrder
  <2>2. oplog[DumpIndex(k)] = past[logcount - (DumpCount - k + 1) + 1]
    BY <2>1 DEF RingInv
  <2>3. logcount - (DumpCount - k + 1) + 1 = Len(past) - DumpCount + k
    BY <1>0
  <2> QED BY <2>2, <2>3
<1>2. ASSUME NEW k \in 1 .. DumpCount PROVE past[Len(past) - DumpCount + k] \in Entries
  <2>1. Len(past) - DumpCount + k \in 1 .. Len(past)
    BY <1>0
  <2> QED BY <2>1, ElementOfSeq DEF TypeInv
<1>3. lines \in Seq(Entries) /\ Len(lines) = DumpCount
  <2>1. DumpCount \in Nat /\ \A k \in 1 .. DumpCount : oplog[DumpIndex(k)] \in Entries
    BY <1>0, <1>1, <1>2
  <2> HIDE DEF DumpCount, DumpIndex
  <2> QED BY <2>1, IsASeq
<1>4. last \in Seq(Entries) /\ Len(last) = DumpCount
      /\ \A k \in 1 .. DumpCount : last[k] = past[Len(past) - DumpCount + k]
  <2> DEFINE m == Len(past) - DumpCount + 1
             n == Len(past)
  <2>0. DumpCount \in Nat /\ Len(past) \in Nat /\ DumpCount <= Len(past)
    BY <1>0
  <2> HIDE DEF last
  <2>1. m \in Int /\ n \in Int /\ n - m + 1 = DumpCount /\ (m <= n \/ DumpCount = 0)
    BY <2>0
  <2>2. \A i \in m .. n : past[i] \in Entries
    <3>1. \A i \in m .. n : i \in 1 .. Len(past)
      BY <2>0
    <3> QED BY <3>1, ElementOfSeq DEF TypeInv
  <2>3. last = SubSeq(past, m, n)
    BY DEF LastOf, last
  <2> HIDE DEF m, n
  <2>4. /\ last \in Seq(Entries)
        /\ Len(last) = IF m <= n THEN n - m + 1 ELSE 0
        /\ \A i \in 1 .. n - m + 1 : last[i] = past[m + i - 1]
    BY <2>1, <2>2, <2>3, SubSeqProperties
  <2>5. Len(last) = DumpCount
    BY <1>0, <2>1, <2>4
  <2>6. ASSUME NEW k \in 1 .. DumpCount
        PROVE  last[k] = past[Len(past) - DumpCount + k]
    <3>1. k \in 1 .. n - m + 1 /\ m + k - 1 = Len(past) - DumpCount + k
      BY <2>0, <2>1 DEF m
    <3> QED BY <2>4, <3>1
  <2> QED BY <2>4, <2>5, <2>6
<1>5. lines = last
  BY <1>1, <1>3, <1>4, SeqEqual
<1> QED BY <1>0, <1>3, <1>5

-----------------------------------------------------------------------------

\* An empty ring and an empty past agree.
LEMMA EmptyRing ==
  ASSUME logptr = 0, logcount = 0, past = <<>>,
         oplog = [i \in 0 .. LOGSIZE - 1 |-> Nowhere]
  PROVE  /\ RingInv /\ past \in Seq(Entries)
         /\ oplog \in [0 .. LOGSIZE - 1 -> Entries]
<1>1. Nowhere \in Entries
  BY DEF Nowhere, Entries, Operations
<1>2. \A j : j \notin 1 .. DumpCount
  BY FsxLogAssumption DEF DumpCount
<1> QED BY <1>1, <1>2, FsxLogAssumption DEF RingInv

\* The first run starts with nothing logged and no file.
LEMMA InitIInv == LogInit => IInv
<1> SUFFICES ASSUME LogInit PROVE IInv
  OBVIOUS
<1>1. /\ RingInv /\ past \in Seq(Entries)
      /\ oplog \in [0 .. LOGSIZE - 1 -> Entries]
  BY EmptyRing DEF LogInit
<1>2. TypeInv
  BY <1>1, FsxLogAssumption DEF LogInit, TypeInv
<1>3. DumpIsRecent /\ ReplayInv
  BY DEF LogInit, DumpIsRecent, ReplayInv, ReplayFollows
<1> QED BY <1>1, <1>2, <1>3 DEF IInv

\* The number of arguments that read_op() asks for is a number.
LEMMA ArgsCount == \A operation : op_args_count(operation) \in Nat
  BY DEF op_args_count

\* An operation of the first run is chosen and logged.
LEMMA TestRandomStep == IInv /\ TestRandom => IInv'
<1> SUFFICES ASSUME IInv, TestRandom PROVE IInv'
  OBVIOUS
<1>0. logcount \in Nat /\ logcount + 1 \in Nat
  <2>1. logcount \in Nat
    BY DEF IInv, TypeInv
  <2> QED BY <2>1
<1>1. PICK operation \in Operations, skip \in BOOLEAN :
        Log(operation, op_args_count(operation), skip, logcount + 1)
  BY DEF TestRandom
<1>2. op_args_count(operation) \in Nat /\ logcount + 1 \in Nat
  BY <1>0, ArgsCount
<1>3. /\ oplog' \in [0 .. LOGSIZE - 1 -> Entries]
      /\ logptr' \in 0 .. LOGSIZE - 1 /\ logcount' = logcount + 1
      /\ past' \in Seq(Entries)
      /\ RingInv'
  BY <1>1, <1>2, LogRing, FsxLogAssumption DEF IInv
<1>4. TypeInv'
  BY <1>3 DEF TestRandom, IInv, TypeInv
<1>5. DumpIsRecent' /\ ReplayInv'
  BY DEF TestRandom, IInv, TypeInv, DumpIsRecent, ReplayInv, ReplayFollows
<1> QED BY <1>3, <1>4, <1>5 DEF IInv

\* A line of the file is logged, as what it is or as skipped: the ring is kept,
\* and the entry stands for the line.
LEMMA ReplayLogs ==
  ASSUME IInv, MoreLines, NEW nr_args \in Nat, NEW skip \in BOOLEAN,
         Line.skipped => skip,
         Log(Line.operation, nr_args, skip, Line.id),
         replayed' = replayed + 1,
         UNCHANGED <<run, state, opsfile>>
  PROVE  IInv'
<1>0. /\ replayed \in Nat /\ opsfile \in Seq(Entries) /\ logcount \in Nat
      /\ state = "test" /\ run > 1 /\ replayed < Len(opsfile)
      /\ replayed + 1 \in 1 .. Len(opsfile) /\ Len(opsfile) \in Nat
  BY DEF IInv, TypeInv, MoreLines
<1>1. Line \in Entries
  BY <1>0, ElementOfSeq DEF Line
<1>2. Line.operation \in Operations /\ Line.id \in Nat
  BY <1>1 DEF Entries
<1>3. /\ oplog' \in [0 .. LOGSIZE - 1 -> Entries]
      /\ logptr' \in 0 .. LOGSIZE - 1 /\ logcount' = logcount + 1
      /\ past' \in Seq(Entries) /\ Len(past') = Len(past) + 1
      /\ past'[Len(past) + 1] =
           [operation |-> Line.operation, nr_args |-> nr_args,
            skipped |-> skip, id |-> Line.id]
      /\ \A k \in 1 .. Len(past) : past'[k] = past[k]
      /\ RingInv'
  BY <1>2, LogRing, FsxLogAssumption DEF IInv
<1>4. TypeInv'
  BY <1>0, <1>3 DEF IInv, TypeInv
<1>5. DumpIsRecent'
  BY <1>0 DEF DumpIsRecent
<1>6. /\ Len(past) = replayed
      /\ \A k \in 1 .. replayed : /\ past[k].id = opsfile[k].id
                                  /\ opsfile[k].skipped => past[k].skipped
  BY <1>0 DEF IInv, ReplayInv, ReplayFollows
<1>7. ASSUME NEW k \in 1 .. replayed'
      PROVE  /\ past'[k].id = opsfile'[k].id
             /\ opsfile'[k].skipped => past'[k].skipped
  <2>1. CASE k = replayed + 1
    BY <1>3, <1>6, <2>1 DEF Line
  <2>2. CASE k \in 1 .. replayed
    BY <1>3, <1>6, <2>2
  <2> QED BY <1>0, <2>1, <2>2
<1>8. ReplayInv'
  BY <1>0, <1>3, <1>6, <1>7 DEF ReplayInv, ReplayFollows
<1> QED BY <1>3, <1>4, <1>5, <1>8 DEF IInv

\* Every step of either kind of run preserves the invariant.
LEMMA NextIInv == IInv /\ [LogNext]_logvars => IInv'
<1> SUFFICES ASSUME IInv, [LogNext]_logvars PROVE IInv'
  OBVIOUS
<1>1. CASE TestRandom
  BY <1>1, TestRandomStep
<1>2. CASE ReplaySkip
  BY <1>2, ReplayLogs DEF ReplaySkip
<1>3. CASE ReplayOp
  <2>1. op_args_count(Line.operation) \in Nat
    BY ArgsCount
  <2>2. PICK skip \in BOOLEAN :
          Log(Line.operation, op_args_count(Line.operation), skip, Line.id)
    BY <1>3 DEF ReplayOp
  <2> QED BY <1>3, <2>1, <2>2, ReplayLogs DEF ReplayOp
<1>4. CASE ReplayFails
  BY <1>4 DEF ReplayFails, MoreLines, IInv, TypeInv, RingInv, DumpCount, Back,
              DumpIsRecent, ReplayInv, ReplayFollows
<1>5. CASE ReplayEnds
  BY <1>5 DEF ReplayEnds, IInv, TypeInv, RingInv, DumpCount, Back,
              DumpIsRecent, ReplayInv, ReplayFollows
<1>6. CASE logdump
  <2>1. /\ opsfile' \in Seq(Entries)
        /\ opsfile' = LastOf(past, IF Len(past) < LOGSIZE THEN Len(past) ELSE LOGSIZE)
    BY <1>6, DumpWritesPast DEF logdump, IInv
  <2>2. TypeInv'
    BY <1>6, <2>1 DEF logdump, IInv, TypeInv
  <2>3. RingInv'
    BY <1>6 DEF logdump, IInv, RingInv, DumpCount, Back
  <2>4. DumpIsRecent' /\ ReplayInv'
    BY <1>6, <2>1 DEF logdump, DumpIsRecent, ReplayInv, ReplayFollows, LastOf
  <2> QED BY <2>2, <2>3, <2>4 DEF IInv
<1>7. CASE StartReplay
  <2>1. (/\ RingInv /\ past \in Seq(Entries)
         /\ oplog \in [0 .. LOGSIZE - 1 -> Entries])'
    <3>1. /\ logptr' = 0 /\ logcount' = 0 /\ past' = <<>>
          /\ oplog' = [i \in 0 .. LOGSIZE - 1 |-> Nowhere]
      BY <1>7 DEF StartReplay
    <3>2. Nowhere \in Entries
      BY DEF Nowhere, Entries, Operations
    <3>3. \A j : j \notin 1 .. DumpCount'
      BY <3>1, FsxLogAssumption DEF DumpCount
    <3> QED BY <3>1, <3>2, <3>3, FsxLogAssumption DEF RingInv
  <2>2. TypeInv'
    <3>1. run \in Nat \ {0} /\ opsfile \in Seq(Entries)
      BY DEF IInv, TypeInv
    <3>2. /\ run' = run + 1 /\ state' = "test" /\ logptr' = 0
          /\ logcount' = 0 /\ replayed' = 0 /\ opsfile' = opsfile
      BY <1>7 DEF StartReplay
    <3>3. /\ oplog' \in [0 .. LOGSIZE - 1 -> Entries] /\ past' \in Seq(Entries)
      BY <2>1
    <3>4. /\ run' \in Nat \ {0} /\ logptr' \in 0 .. LOGSIZE - 1
          /\ logcount' \in Nat /\ replayed' \in Nat
      BY <3>1, <3>2, FsxLogAssumption
    <3> QED BY <3>1, <3>2, <3>3, <3>4 DEF TypeInv
  <2>3. DumpIsRecent' /\ ReplayInv'
    BY <1>7 DEF StartReplay, IInv, TypeInv, DumpIsRecent, ReplayInv, ReplayFollows
  <2> QED BY <2>1, <2>2, <2>3 DEF IInv
<1>8. CASE UNCHANGED logvars
  BY <1>8 DEF logvars, IInv, TypeInv, RingInv, DumpCount, Back, DumpIsRecent, LastOf,
              ReplayInv, ReplayFollows
<1> QED BY <1>1, <1>2, <1>3, <1>4, <1>5, <1>6, <1>7, <1>8 DEF LogNext, Over

-----------------------------------------------------------------------------

\* The ops file that logdump() (fsx.c) writes holds the last LOGSIZE operations
\* in the order in which they were logged, wherever in the ring logptr is.
THEOREM DumpRecent == LogSpec => []DumpIsRecent
<1>1. IInv => DumpIsRecent
  BY DEF IInv
<1> QED BY <1>1, InitIInv, NextIInv, PTL DEF LogSpec

\* A run with --replay-ops logs the lines of its file in their order, each once,
\* and what the file has as skipped as skipped.
THEOREM ReplayFaithful == LogSpec => []ReplayFollows
<1>1. IInv => ReplayFollows
  BY DEF IInv, ReplayInv
<1> QED BY <1>1, InitIInv, NextIInv, PTL DEF LogSpec

-----------------------------------------------------------------------------
(* What can be read of a record *)

\* read_op() finds as many arguments as the operation has.
Whole(le) == le.nr_args = op_args_count(le.operation)

\* The entry of a clone or copy that was skipped.
SkippedCopy(le) == le.skipped /\ op_args_count(le.operation) = 4

\* The run that has recorded the ops file.
Maker == IF state = "dumped" THEN run ELSE run - 1

\* Only a replay logs an entry that is not whole.
ReadInv ==
  /\ \A k \in 1 .. Len(past) : Whole(past[k]) \/ (run > 1 /\ SkippedCopy(past[k]))
  /\ \A k \in 1 .. Len(opsfile) : Whole(opsfile[k]) \/ (Maker > 1 /\ SkippedCopy(opsfile[k]))
  /\ ReplayReadable

\* An entry that is whole, or of a copy that a replay has skipped, is logged.
LEMMA LogReadable ==
  ASSUME IInv, ReadInv, NEW operation \in Operations, NEW nr_args \in Nat,
         NEW skip \in BOOLEAN, NEW id \in Nat, Log(operation, nr_args, skip, id),
         nr_args = op_args_count(operation)
           \/ (run > 1 /\ skip /\ op_args_count(operation) = 4),
         UNCHANGED <<run, state, opsfile>>, state = "test"
  PROVE  ReadInv'
<1> DEFINE le == [operation |-> operation, nr_args |-> nr_args, skipped |-> skip, id |-> id]
<1>1. /\ Len(past') = Len(past) + 1 /\ past'[Len(past) + 1] = le
      /\ \A k \in 1 .. Len(past) : past'[k] = past[k]
  BY LogRing, FsxLogAssumption DEF IInv
<1>2. Len(past) \in Nat
  BY DEF IInv, TypeInv
<1>3. Whole(le) \/ (run > 1 /\ SkippedCopy(le))
  BY DEF Whole, SkippedCopy
<1> HIDE DEF le
<1>4. ASSUME NEW k \in 1 .. Len(past') PROVE Whole(past'[k]) \/ (run > 1 /\ SkippedCopy(past'[k]))
  <2>1. CASE k \in 1 .. Len(past)
    BY <1>1, <2>1 DEF ReadInv
  <2>2. CASE k = Len(past) + 1
    BY <1>1, <1>3, <2>2
  <2> QED BY <1>1, <1>2, <2>1, <2>2
<1>5. \A k \in 1 .. Len(opsfile') : Whole(opsfile'[k]) \/ (Maker' > 1 /\ SkippedCopy(opsfile'[k]))
  BY DEF ReadInv, Maker
<1>6. ReplayReadable'
  BY DEF ReplayReadable
<1>7. run' = run
  OBVIOUS
<1>8. \A k \in 1 .. Len(past') :
        Whole(past'[k]) \/ (run' > 1 /\ SkippedCopy(past'[k]))
  BY <1>4, <1>7
<1> QED BY <1>5, <1>6, <1>8 DEF ReadInv, Whole, SkippedCopy

\* The lines that logdump() writes are entries of the past.
LEMMA DumpReadable ==
  ASSUME IInv, ReadInv, logdump
  PROVE  ReadInv'
<1>1. /\ state' = "dumped" /\ opsfile' = [k \in 1 .. DumpCount |-> oplog[DumpIndex(k)]]
      /\ UNCHANGED <<run, past>>
  BY DEF logdump
<1>2. Len(past) \in Nat /\ DumpCount \in 0 .. Len(past) /\ logcount = Len(past)
  <2>1. past \in Seq(Entries) /\ logcount = Len(past)
    BY DEF IInv, TypeInv, RingInv
  <2>2. Len(past) \in Nat
    BY <2>1
  <2> QED BY <2>1, <2>2, FsxLogAssumption DEF DumpCount
<1>3. ASSUME NEW k \in 1 .. DumpCount
      PROVE  \E m \in 1 .. Len(past) : oplog[DumpIndex(k)] = past[m]
  <2>1. DumpCount - k + 1 \in 1 .. DumpCount /\ DumpIndex(k) = Back(DumpCount - k + 1)
    BY DumpOrder DEF IInv
  <2>2. oplog[DumpIndex(k)] = past[logcount - (DumpCount - k + 1) + 1]
    BY <2>1 DEF IInv, RingInv
  <2>3. logcount - (DumpCount - k + 1) + 1 \in 1 .. Len(past)
    BY <1>2
  <2> QED BY <2>2, <2>3
<1>4. Maker' = run /\ run' = run
  BY <1>1 DEF Maker
<1>5. ASSUME NEW k \in 1 .. DumpCount
      PROVE  Whole(oplog[DumpIndex(k)]) \/ (run > 1 /\ SkippedCopy(oplog[DumpIndex(k)]))
  BY <1>3 DEF ReadInv
<1>6. \A k \in 1 .. Len(opsfile') :
        Whole(opsfile'[k]) \/ (Maker' > 1 /\ SkippedCopy(opsfile'[k]))
  <2>1. Len(opsfile') = DumpCount
    BY <1>1, <1>2
  <2> HIDE DEF DumpCount, DumpIndex
  <2> QED BY <1>1, <1>4, <1>5, <2>1
<1>7. ReplayReadable'
  BY <1>1 DEF ReplayReadable
<1>8. \A k \in 1 .. Len(past') : Whole(past'[k]) \/ (run' > 1 /\ SkippedCopy(past'[k]))
  BY <1>1 DEF ReadInv
<1> QED BY <1>6, <1>7, <1>8 DEF ReadInv, Whole, SkippedCopy

\* Every step of either kind of run keeps it.
LEMMA NextReadable == IInv /\ ReadInv /\ [LogNext]_logvars => ReadInv'
<1> SUFFICES ASSUME IInv, ReadInv, [LogNext]_logvars PROVE ReadInv'
  OBVIOUS
<1>0. /\ run \in Nat \ {0} /\ opsfile \in Seq(Entries) /\ replayed \in Nat
      /\ Len(opsfile) \in Nat /\ logcount + 1 \in Nat
  <2>1. /\ run \in Nat \ {0} /\ opsfile \in Seq(Entries) /\ replayed \in Nat
        /\ past \in Seq(Entries) /\ logcount = Len(past)
    BY DEF IInv, TypeInv, RingInv
  <2>2. Len(opsfile) \in Nat /\ Len(past) \in Nat
    BY <2>1
  <2> QED BY <2>1, <2>2
<1>a. ASSUME MoreLines
      PROVE  /\ Line.operation \in Operations /\ Line.id \in Nat
             /\ replayed + 1 \in 1 .. Len(opsfile) /\ state = "test" /\ run > 1
  <2>1. replayed + 1 \in 1 .. Len(opsfile) /\ state = "test" /\ run > 1
    BY <1>0, <1>a DEF MoreLines
  <2>2. Line \in Entries
    BY <1>0, <2>1, ElementOfSeq DEF Line
  <2> QED BY <2>1, <2>2 DEF Entries
<1>1. CASE TestRandom
  <2>1. PICK operation \in Operations, skip \in BOOLEAN :
          Log(operation, op_args_count(operation), skip, logcount + 1)
    BY <1>1 DEF TestRandom
  <2>2. op_args_count(operation) \in Nat
    BY ArgsCount
  <2>3. UNCHANGED <<run, state, opsfile>> /\ state = "test"
    BY <1>1 DEF TestRandom
  <2> QED BY <1>0, <2>1, <2>2, <2>3, LogReadable
<1>2. CASE ReplaySkip
  <2>1. /\ MoreLines /\ Log(Line.operation, 3, TRUE, Line.id)
        /\ UNCHANGED <<run, state, opsfile>>
    BY <1>2 DEF ReplaySkip
  <2>2. op_args_count(Line.operation) = 3 \/ op_args_count(Line.operation) = 4
    BY DEF op_args_count
  <2> QED BY <1>a, <2>1, <2>2, LogReadable
<1>3. CASE ReplayOp
  <2>1. PICK skip \in BOOLEAN :
          Log(Line.operation, op_args_count(Line.operation), skip, Line.id)
    BY <1>3 DEF ReplayOp
  <2>2. op_args_count(Line.operation) \in Nat
    BY ArgsCount
  <2>3. MoreLines /\ UNCHANGED <<run, state, opsfile>>
    BY <1>3 DEF ReplayOp
  <2> QED BY <1>a, <2>1, <2>2, <2>3, LogReadable
<1>4. CASE ReplayFails
  <2>1. /\ MoreLines /\ ~Parses /\ state' = "parse error"
        /\ UNCHANGED <<run, opsfile, replayed, past>>
    BY <1>4 DEF ReplayFails
  <2>2. state = "test" /\ replayed + 1 \in 1 .. Len(opsfile)
    BY <1>a, <2>1
  <2>3. Maker = run - 1 /\ Maker' = run - 1
    BY <2>1, <2>2 DEF Maker
  <2>4. run - 1 > 1 /\ SkippedCopy(Line)
    <3>1. ~Whole(opsfile[replayed + 1])
      BY <2>1 DEF Parses, Line, Whole
    <3> QED BY <2>2, <2>3, <3>1 DEF ReadInv, Line
  <2>5. run' > 2 /\ Line' = Line
    <3>1. run' = run /\ run \in Nat
      BY <1>0, <2>1
    <3>2. run' > 2
      BY <2>4, <3>1
    <3>3. Line' = Line
      BY <2>1 DEF Line
    <3> QED BY <3>2, <3>3
  <2>6. ReplayReadable'
    BY <2>4, <2>5 DEF ReplayReadable, SkippedCopy, op_args_count
  <2> QED BY <2>1, <2>3, <2>6 DEF ReadInv, Whole, SkippedCopy
<1>5. CASE ReplayEnds
  BY <1>5 DEF ReplayEnds, ReadInv, Maker, ReplayReadable, Whole, SkippedCopy
<1>6. CASE logdump
  BY <1>6, DumpReadable
<1>7. CASE StartReplay
  <2>1. /\ run' = run + 1 /\ state = "dumped" /\ state' = "test" /\ past' = <<>>
        /\ opsfile' = opsfile
    BY <1>7 DEF StartReplay
  <2>2. Maker' = Maker /\ Maker = run
    BY <1>0, <2>1 DEF Maker
  <2>3. \A k \in 1 .. Len(opsfile') :
          Whole(opsfile'[k]) \/ (Maker' > 1 /\ SkippedCopy(opsfile'[k]))
    BY <2>1, <2>2 DEF ReadInv
  <2>4. \A k : k \notin 1 .. Len(past')
    BY <2>1
  <2>5. ReplayReadable'
    BY <2>1 DEF ReplayReadable
  <2> QED BY <2>3, <2>4, <2>5 DEF ReadInv, Whole, SkippedCopy
<1>8. CASE UNCHANGED logvars
  BY <1>8 DEF logvars, ReadInv, Maker, ReplayReadable, Line, Whole, SkippedCopy
<1> QED BY <1>1, <1>2, <1>3, <1>4, <1>5, <1>6, <1>7, <1>8 DEF LogNext, Over

\* What the first run has recorded can be read to its end (read_op() in fsx.c),
\* and what a replay has recorded can, but for a clone or copy that the replay
\* passed over as skipped: that one is logged by log4(), without its third argument.
THEOREM Readable == LogSpec => []ReplayReadable
<1>1. LogInit => ReadInv
  <2> SUFFICES ASSUME LogInit PROVE ReadInv
    OBVIOUS
  <2>1. past = <<>> /\ opsfile = <<>> /\ state = "test"
    BY DEF LogInit
  <2> QED BY <2>1 DEF ReadInv, ReplayReadable
<1>2. ReadInv => ReplayReadable
  BY DEF ReadInv
<1> QED BY <1>1, <1>2, InitIInv, NextIInv, NextReadable, PTL DEF LogSpec
=============================================================================

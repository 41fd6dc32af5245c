--------------------------- MODULE GrowfilesProofs ---------------------------
(***************************************************************************)
(* Proofs about growfiles.c for any number of copies and files, any sizes, *)
(* intervals and settings: what the file locks protect.                    *)
(***************************************************************************)
EXTENDS Growfiles, SequenceTheorems, FiniteSetTheorems, WellFoundedInduction, TLAPS

\* Where a copy has a file open.
VisitPcs == {"visit", "fstat", "seek", "write", "cwrite", "cwread", "cfile",
             "cfread", "shrink", "close", "gfail"}
Pcs == VisitPcs \cup {"head", "open", "unlink", "notify", "cleanup", "exit"}

Byte == Int \X Int

Sigs == {"none", "SIGINT", "SIGTERM", "SIGUSR2"}

Copies ==
  [pc : Pcs, ind : Nat, iter : Nat, ino : Nat,
   lk : {"un", "sh", "ex"}, pos : Nat, fsize : Nat, Woffset : Nat,
   Grow_incr : Nat, count : Nat, bytes_consumed : Int, Errors : Nat,
   told : BOOLEAN, status : 0 .. 2, sig : Sigs, kills : Nat]

\* The state of a copy, with n files made so far: its file is one of them, and
\* the lock it has goes with where it is.
CopyOK(r, n) ==
  /\ r.ind \in Files /\ r.ino \in 0 .. n
  /\ r.pc \in VisitPcs => r.ino # 0
  /\ r.pc \in {"visit", "fstat"} => r.pos = 0
  /\ r.pc \in {"seek", "write"} => r.Grow_incr > 0
  /\ r.pc \in {"head", "open", "unlink", "visit", "exit"} => r.lk = "un"
  /\ set.lockfile = 2 /\ r.pc \in VisitPcs \ {"visit"} => r.lk = "ex"
  /\ set.lockfile = 1 /\ set.append /\ set.lseek # "w" /\ r.pc = "write" => r.lk = "ex"

TypeInv ==
  /\ set \in Settings
  /\ pr \in [Procs -> Copies]
  /\ data \in Seq(Seq(Byte))
  /\ name \in [Files -> 0 .. Len(data)]
  /\ signals \in SUBSET Procs
  /\ faults \in 0 .. MaxFaults

\* The kernel's locks: who has a file for itself is the only one with a lock on it.
Excl ==
  \A p, q \in Procs :
    p # q /\ pr[p].ino = pr[q].ino /\ pr[p].ino # 0 /\ pr[p].lk = "ex"
      => pr[q].lk = "un"

LockInv == (\A p \in Procs : CopyOK(pr[p], Len(data))) /\ Excl

-----------------------------------------------------------------------------
(* Operators.                                                              *)

\* The larger and the smaller of two numbers.
LEMMA MaxTwo ==
  ASSUME NEW a \in Int, NEW b \in Int
  PROVE  Max({a, b}) = IF a >= b THEN a ELSE b
  BY DEF Max

\* The least of two numbers.
LEMMA MinTwo ==
  ASSUME NEW a \in Int, NEW b \in Int
  PROVE  Min({a, b}) = IF a <= b THEN a ELSE b
  BY DEF Min

\* A write keeps the bytes outside of it, and fills what it skips with a hole.
LEMMA WriteAtBytes ==
  ASSUME NEW c \in Seq(Byte), NEW off \in Nat, NEW bytes \in Seq(Byte)
  PROVE  /\ WriteAt(c, off, bytes) \in Seq(Byte)
         /\ Len(WriteAt(c, off, bytes)) =
              (IF Len(c) >= off + Len(bytes) THEN Len(c) ELSE off + Len(bytes))
         /\ \A i \in 1 .. Len(WriteAt(c, off, bytes)) :
              WriteAt(c, off, bytes)[i] =
                IF i > off /\ i <= off + Len(bytes) THEN bytes[i - off]
                ELSE IF i <= Len(c) THEN c[i] ELSE Hole
<1> DEFINE m == IF Len(c) >= off + Len(bytes) THEN Len(c) ELSE off + Len(bytes)
           e(i) == IF i > off /\ i <= off + Len(bytes) THEN bytes[i - off]
                   ELSE IF i <= Len(c) THEN c[i] ELSE Hole
           w == [i \in 1 .. m |-> e(i)]
<1>1. Max({Len(c), off + Len(bytes)}) = m /\ m \in Nat
  <2>1. Len(c) \in Int /\ off + Len(bytes) \in Int
    OBVIOUS
  <2>2. Max({Len(c), off + Len(bytes)}) = m
    BY <2>1, MaxTwo
  <2> QED BY <2>2
<1>2. WriteAt(c, off, bytes) = w
  BY <1>1 DEF WriteAt
<1>3. Hole \in Byte
  BY DEF Hole, Byte
<1>4. ASSUME NEW i \in 1 .. m PROVE e(i) \in Byte
  <2>0. i \in Nat \ {0} /\ Len(c) \in Nat /\ Len(bytes) \in Nat
    BY <1>1
  <2>1. CASE i > off /\ i <= off + Len(bytes)
    <3>1. i - off \in 1 .. Len(bytes)
      BY <2>0, <2>1
    <3> QED BY <2>1, <3>1, ElementOfSeq
  <2>2. CASE ~(i > off /\ i <= off + Len(bytes)) /\ i <= Len(c)
    <3>1. i \in 1 .. Len(c)
      BY <2>0, <2>2
    <3> QED BY <2>2, <3>1, ElementOfSeq
  <2>3. CASE ~(i > off /\ i <= off + Len(bytes)) /\ ~(i <= Len(c))
    BY <1>3, <2>3
  <2> QED BY <2>1, <2>2, <2>3
<1> HIDE DEF m, e
<1>5. w \in Seq(Byte) /\ Len(w) = m /\ \A i \in 1 .. m : w[i] = e(i)
  BY <1>1, <1>4, IsASeq
<1> HIDE DEF w
<1> QED BY <1>2, <1>5 DEF m, e

\* A truncation keeps the bytes before the new size.
LEMMA TruncateToBytes ==
  ASSUME NEW c \in Seq(Byte), NEW n \in Nat
  PROVE  /\ TruncateTo(c, n) \in Seq(Byte)
         /\ Len(TruncateTo(c, n)) = n
         /\ \A i \in 1 .. n : TruncateTo(c, n)[i] = IF i <= Len(c) THEN c[i] ELSE Hole
<1> DEFINE e(i) == IF i <= Len(c) THEN c[i] ELSE Hole
           w == [i \in 1 .. n |-> e(i)]
<1>1. Hole \in Byte
  BY DEF Hole, Byte
<1>2. \A i \in 1 .. n : e(i) \in Byte
  BY <1>1, ElementOfSeq
<1>3. TruncateTo(c, n) = w
  BY DEF TruncateTo
<1> HIDE DEF e
<1>4. w \in Seq(Byte) /\ Len(w) = n /\ \A i \in 1 .. n : w[i] = e(i)
  BY <1>2, IsASeq
<1> HIDE DEF w
<1> QED BY <1>3, <1>4 DEF e

\* What a copy writes: at least one byte.
LEMMA BufBytes ==
  ASSUME NEW p \in Procs, pr[p] \in Copies, pr[p].Grow_incr > 0, num_procs \in Nat
  PROVE  /\ Buf(p) \in Seq(Byte)
         /\ Len(Buf(p)) = IF set.lseek = "w" THEN 1 ELSE pr[p].Grow_incr
         /\ set.lseek = "w" => Buf(p) = <<W>>
         /\ set.lseek # "w" => \A i \in 1 .. pr[p].Grow_incr :
                                 Buf(p)[i] = PatternByte(p, pr[p].Woffset + i - 1)
<1>0. pr[p].Grow_incr \in Nat /\ pr[p].Woffset \in Nat /\ p \in Int
  BY DEF Copies, Procs
<1>1. CASE set.lseek = "w"
  <2>1. W \in Byte /\ Buf(p) = <<W>>
    BY <1>1 DEF W, Byte, Buf
  <2> QED BY <1>1, <2>1
<1>2. CASE set.lseek # "w"
  <2> DEFINE n == pr[p].Grow_incr
             e(i) == PatternByte(p, pr[p].Woffset + i - 1)
             w == [i \in 1 .. n |-> e(i)]
  <2>1. \A i \in 1 .. n : e(i) \in Byte
    BY <1>0 DEF PatternByte, Byte, STATIC_NUM
  <2>2. Buf(p) = w
    BY <1>2 DEF Buf
  <2>3. n \in Nat
    BY <1>0
  <2> HIDE DEF e, n
  <2>4. w \in Seq(Byte) /\ Len(w) = n /\ \A i \in 1 .. n : w[i] = e(i)
    BY <2>1, <2>3, IsASeq
  <2> HIDE DEF w
  <2> QED BY <1>2, <2>2, <2>4 DEF e, n
<1> QED BY <1>1, <1>2

-----------------------------------------------------------------------------
(* Types and locks.                                                        *)

L1 == TypeInv /\ LockInv

\* A record that was updated by one of the helpers.
LEMMA NextFileOK ==
  ASSUME set \in SettingType, NEW r \in Copies, r.ind \in Files
  PROVE  /\ NextFile(r) \in Copies /\ NextFile(r).ind \in Files
         /\ NextFile(r).pc \in {"open", "head"}
         /\ NextFile(r).ino = r.ino /\ NextFile(r).lk = r.lk
         /\ NextFile(r).bytes_consumed = r.bytes_consumed
         /\ NextFile(r).Errors = r.Errors
<1>0. set.num_files \in Nat /\ Files = 1 .. set.num_files
  BY DEF SettingType, Files
<1>1. CASE r.ind < set.num_files
  <2>1. NextFile(r) = [r EXCEPT !.ind = @ + 1, !.pc = "open"]
    BY <1>1 DEF NextFile
  <2>2. r.ind + 1 \in Nat /\ r.ind + 1 \in Files
    BY <1>0, <1>1
  <2> DEFINE n == r.ind + 1
  <2>3. NextFile(r) = [r EXCEPT !.ind = n, !.pc = "open"]
    BY <2>1
  <2> HIDE DEF n
  <2> QED BY <2>2, <2>3 DEF Copies, Pcs, n
<1>2. CASE ~(r.ind < set.num_files)
  <2>1. NextFile(r) = [r EXCEPT !.pc = "head", !.iter = @ + 1]
    BY <1>2 DEF NextFile
  <2> DEFINE n == r.iter + 1
  <2>2. n \in Nat
    BY DEF Copies
  <2>3. NextFile(r) = [r EXCEPT !.pc = "head", !.iter = n]
    BY <2>1
  <2> HIDE DEF n
  <2> QED BY <2>2, <2>3, ZenonT(60) DEF Copies, Pcs
<1> QED BY <1>1, <1>2

\* handle_error() counts, and either stops the copy or sends it on to pc.
LEMMA HandleErrorOK ==
  ASSUME NEW r \in Copies, NEW pc \in Pcs
  PROVE  LET s == HandleError(r, pc) IN
         /\ s \in Copies /\ s.Errors = r.Errors + 1
         /\ s.pc = pc \/ (s.pc = "notify" /\ s.status = 1)
         /\ s.ind = r.ind /\ s.ino = r.ino /\ s.lk = r.lk /\ s.pos = r.pos
         /\ s.fsize = r.fsize /\ s.Woffset = r.Woffset /\ s.Grow_incr = r.Grow_incr
         /\ s.count = r.count /\ s.bytes_consumed = r.bytes_consumed
<1> DEFINE n == r.Errors + 1
<1>1. n \in Nat
  BY DEF Copies
<1> HIDE DEF n
<1>2. HandleError(r, pc) = [r EXCEPT !.Errors = n, !.pc = "notify", !.status = 1]
      \/ HandleError(r, pc) = [r EXCEPT !.Errors = n, !.pc = pc]
  BY DEF HandleError, n
<1> DEFINE s == HandleError(r, pc)
<1>3. /\ s \in Copies /\ s.Errors = n
      /\ s.pc = pc \/ (s.pc = "notify" /\ s.status = 1)
      /\ s.ind = r.ind /\ s.ino = r.ino /\ s.lk = r.lk /\ s.pos = r.pos
      /\ s.fsize = r.fsize /\ s.Woffset = r.Woffset /\ s.Grow_incr = r.Grow_incr
      /\ s.count = r.count /\ s.bytes_consumed = r.bytes_consumed
  <2> HIDE DEF s
  <2>1. CASE s = [r EXCEPT !.Errors = n, !.pc = "notify", !.status = 1]
    <3>0. "notify" \in Pcs /\ 1 \in 0 .. 2
      BY DEF Pcs
    <3>1. s \in Copies
      BY <1>1, <2>1, <3>0 DEF Copies
    <3> QED BY <2>1, <3>1 DEF Copies
  <2>2. CASE s = [r EXCEPT !.Errors = n, !.pc = pc]
    BY <1>1, <2>2 DEF Copies
  <2> QED BY <1>2, <2>1, <2>2 DEF s
<1> HIDE DEF s
<1> QED BY <1>3 DEF n, s

\* After close() a copy has no file and no lock.
LEMMA ClosedOK ==
  ASSUME NEW r \in Copies
  PROVE  LET s == Closed(r) IN
         /\ s \in Copies /\ s.ino = 0 /\ s.lk = "un" /\ s.ind = r.ind /\ s.pc = r.pc
         /\ s.bytes_consumed = r.bytes_consumed
         /\ s.Errors = r.Errors /\ s.status = r.status /\ s.iter = r.iter
         /\ s.sig = r.sig
  BY DEF Closed, Copies

\* What lkfile() leaves in the record of a copy.
LEMMA LkOK ==
  ASSUME NEW r \in Copies, NEW kind \in {"un", "sh", "ex"}, NEW level
  PROVE  LET s == Lk(r, kind, level) IN
         /\ s \in Copies
         /\ s.lk = (IF set.lockfile = level THEN kind ELSE r.lk)
         /\ s.pc = r.pc /\ s.ind = r.ind /\ s.ino = r.ino /\ s.pos = r.pos
         /\ s.iter = r.iter
         /\ s.fsize = r.fsize /\ s.Woffset = r.Woffset /\ s.Grow_incr = r.Grow_incr
         /\ s.count = r.count /\ s.bytes_consumed = r.bytes_consumed
         /\ s.Errors = r.Errors /\ s.status = r.status
  BY DEF Lk, Copies

\* What a step of a copy leaves alone: what it knows of the file; its account.
Place(r, s) ==
  /\ s.ino = r.ino /\ s.lk = r.lk /\ s.pos = r.pos /\ s.fsize = r.fsize
  /\ s.Woffset = r.Woffset /\ s.Grow_incr = r.Grow_incr /\ s.count = r.count
Account(r, s) ==
  s.bytes_consumed = r.bytes_consumed /\ s.Errors = r.Errors

Disk == <<name, data>>

\* The names of the places in the program are in Pcs.
LEMMA PcsAre ==
  /\ VisitPcs \subseteq Pcs
  /\ {"visit", "fstat", "seek", "write", "cwrite", "cwread", "cfile", "cfread",
      "shrink", "close", "gfail", "head", "open", "unlink", "notify", "cleanup",
      "exit"} \subseteq Pcs
  /\ {0, 1, 2} \subseteq 0 .. 2
  BY DEF Pcs, VisitPcs

\* The other copies do not notice.
LEMMA StepOnly ==
  ASSUME TypeInv, NEW p \in Procs, NEW s, Step(p, s)
  PROVE  pr'[p] = s /\ \A q \in Procs \ {p} : pr'[q] = pr[q]
  BY DEF TypeInv, Step

\* The types of the options.
LEMMA SetType ==
  ASSUME TypeInv
  PROVE  /\ set \in SettingType /\ set.num_files \in Nat \ {0} /\ set.lockfile \in 0 .. 2
         /\ set.append \in BOOLEAN /\ set.trunc_inter \in Nat /\ set.min_lseek \in Nat
         /\ set.lseek \in {"end", "w", "eof", "plus", "minus", "range"}
  BY GrowfilesAssumption DEF TypeInv, SettingType

\* The types of what a copy keeps.
LEMMA CopyType ==
  ASSUME TypeInv, NEW p \in Procs
  PROVE  /\ pr[p] \in Copies /\ pr[p].pc \in Pcs /\ pr[p].ino \in Nat
         /\ pr[p].pos \in Nat /\ pr[p].fsize \in Nat /\ pr[p].Woffset \in Nat
         /\ pr[p].Grow_incr \in Nat /\ pr[p].count \in Nat
         /\ pr[p].bytes_consumed \in Int /\ pr[p].Errors \in Nat
         /\ pr[p].lk \in {"un", "sh", "ex"}
<1>1. pr[p] \in Copies
  BY DEF TypeInv
<1> QED BY <1>1 DEF Copies

\* The file of a copy that has one open.
LEMMA FileType ==
  ASSUME L1, NEW p \in Procs, pr[p].pc \in VisitPcs
  PROVE  /\ pr[p].ino \in 1 .. Len(data) /\ data[pr[p].ino] \in Seq(Byte)
         /\ Size(p) = Len(data[pr[p].ino]) /\ Size(p) \in Nat
<1>1. pr[p].ino \in 1 .. Len(data)
  BY CopyType DEF L1, LockInv, CopyOK, TypeInv
<1>2. data[pr[p].ino] \in Seq(Byte)
  BY <1>1, ElementOfSeq DEF L1, TypeInv
<1> QED BY <1>1, <1>2 DEF Size

\* What random_range() returns lies between its arguments.
LEMMA RandomRange ==
  ASSUME NEW a \in Nat, NEW b \in Nat, NEW x \in random_range(a, b)
  PROVE  x \in Nat /\ (x <= a \/ x <= b) /\ (a <= x \/ b <= x)
<1>1. Min({a, b}) = (IF a <= b THEN a ELSE b) /\ Max({a, b}) = (IF a >= b THEN a ELSE b)
  BY MaxTwo, MinTwo
<1> QED BY <1>1 DEF random_range

\* The offsets of -R.
LEMMA RandOffsetsAre ==
  ASSUME NEW r, r.fsize \in Nat, r.Grow_incr \in Nat, set.min_lseek \in Nat,
         max_lseek \in Nat, set.lseek \in {"eof", "plus", "minus", "range"},
         NEW off \in RandOffsets(r)
  PROVE  /\ off \in Nat
         /\ set.lseek \in {"eof", "minus"} /\ set.min_lseek = 0 => off <= r.fsize
<1> DEFINE min == set.min_lseek
<1>1. CASE set.lseek = "eof"
  <2>1. off \in random_range(min, r.fsize)
    BY <1>1 DEF RandOffsets
  <2> QED BY <1>1, <2>1, RandomRange
<1>2. CASE set.lseek = "plus"
  <2>1. off \in random_range(min, r.fsize + r.Grow_incr) /\ r.fsize + r.Grow_incr \in Nat
    BY <1>2 DEF RandOffsets
  <2> QED BY <1>2, <2>1, RandomRange
<1>3. CASE set.lseek = "minus"
  <2>1. off \in (IF r.fsize <= min + r.Grow_incr THEN {min}
                 ELSE random_range(min, r.fsize - r.Grow_incr))
    BY <1>3 DEF RandOffsets
  <2>2. CASE r.fsize <= min + r.Grow_incr
    BY <1>3, <2>1, <2>2
  <2>3. CASE ~(r.fsize <= min + r.Grow_incr)
    <3>1. /\ r.fsize - r.Grow_incr \in Nat /\ r.fsize - r.Grow_incr <= r.fsize
          /\ off \in random_range(min, r.fsize - r.Grow_incr)
      BY <2>1, <2>3
    <3>2. off \in Nat /\ (off <= min \/ off <= r.fsize - r.Grow_incr)
      BY <3>1, RandomRange
    <3> QED BY <3>1, <3>2
  <2> QED BY <2>2, <2>3
<1>4. CASE set.lseek = "range"
  <2>1. off \in random_range(min, max_lseek)
    BY <1>4 DEF RandOffsets
  <2> QED BY <1>4, <2>1, RandomRange
<1> QED BY <1>1, <1>2, <1>3, <1>4

\* The sizes that shrinkfile() truncates to.
LEMMA NewSizesAre ==
  ASSUME NEW p, pr[p].pos \in Nat, Size(p) \in Nat, set.min_lseek \in Nat,
         max_lseek \in Nat, trunc_incr \in Nat, NEW n \in NewSizes(p)
  PROVE  /\ n \in Nat
         /\ set.lseek \in {"eof", "minus"} /\ set.min_lseek = 0 => n <= Size(p)
<1> DEFINE min == set.min_lseek
           m == Max({0, pr[p].pos - trunc_incr})
<1>1. m \in Nat
  <2>1. pr[p].pos - trunc_incr \in Int
    OBVIOUS
  <2> QED BY <2>1, MaxTwo
<1>2. CASE set.lseek = "range"
  <2>1. n \in random_range(min, max_lseek)
    BY <1>2 DEF NewSizes
  <2> QED BY <1>2, <2>1, RandomRange
<1>3. CASE set.lseek \in {"end", "w"}
  <2>1. n = m
    BY <1>3 DEF NewSizes
  <2> QED BY <1>1, <1>3, <2>1
<1>4. CASE set.lseek \notin {"range", "end", "w"}
  <2>1. n \in (IF Size(p) < min THEN {min} ELSE random_range(min, Size(p)))
    BY <1>4 DEF NewSizes
  <2>2. CASE Size(p) < min
    BY <2>1, <2>2
  <2>3. CASE ~(Size(p) < min)
    <3>1. n \in random_range(min, Size(p))
      BY <2>1, <2>3
    <3>2. n \in Nat /\ (n <= min \/ n <= Size(p))
      BY <3>1, RandomRange
    <3> QED BY <3>2
  <2> QED BY <2>2, <2>3
<1> QED BY <1>2, <1>3, <1>4

-----------------------------------------------------------------------------
(* What each action does to the record of its copy.                        *)

\* The end of the loops: the copy goes to its clean-up, with 1 for errors.
LEMMA StopDoes ==
  ASSUME L1, NEW p \in Procs, Stop(p)
  PROVE  LET r == pr[p]
             s == pr'[p] IN
         /\ r.pc = "head" /\ s.pc = "cleanup" /\ s \in Copies /\ s.ind = r.ind
         /\ Place(r, s) /\ Account(r, s) /\ (r.Errors # 0 => s.status = 1)
         /\ \A q \in Procs \ {p} : pr'[q] = pr[q]
         /\ UNCHANGED <<set, name, data, signals, faults>>
<1> DEFINE st == IF pr[p].Errors # 0 THEN 1 ELSE 0
<1>1. st \in {0, 1} /\ st \in 0 .. 2 /\ (pr[p].Errors # 0 => st = 1)
  OBVIOUS
<1>2. /\ pr[p].pc = "head" /\ Step(p, [pr[p] EXCEPT !.pc = "cleanup", !.status = st])
      /\ UNCHANGED <<set, name, data, signals, faults>>
  BY DEF Stop
<1> HIDE DEF st
<1>3. /\ pr'[p] = [pr[p] EXCEPT !.pc = "cleanup", !.status = st]
      /\ \A q \in Procs \ {p} : pr'[q] = pr[q]
  BY <1>2, StepOnly DEF L1
<1>4. pr[p] \in Copies /\ "cleanup" \in Pcs
  BY CopyType, PcsAre DEF L1
<1>5. /\ pr'[p] \in Copies /\ pr'[p].pc = "cleanup" /\ pr'[p].status = st
      /\ pr'[p].ind = pr[p].ind /\ Place(pr[p], pr'[p]) /\ Account(pr[p], pr'[p])
  BY <1>1, <1>3, <1>4, ZenonT(60) DEF Copies, Place, Account
<1> QED BY <1>1, <1>2, <1>3, <1>5

\* The next iteration begins at the first file.
LEMMA IterateDoes ==
  ASSUME L1, NEW p \in Procs, Iterate(p)
  PROVE  LET r == pr[p]
             s == pr'[p] IN
         /\ r.pc = "head" /\ s.pc = "open" /\ s \in Copies /\ s.ind \in Files
         /\ Place(r, s) /\ Account(r, s)
         /\ \A q \in Procs \ {p} : pr'[q] = pr[q]
         /\ UNCHANGED <<set, name, data, signals, faults>>
<1>1. /\ pr[p].pc = "head" /\ Step(p, [pr[p] EXCEPT !.pc = "open", !.ind = 1])
      /\ UNCHANGED <<set, name, data, signals, faults>>
  BY DEF Iterate
<1>2. 1 \in Nat /\ 1 \in Files
  BY SetType DEF L1, Files
<1>3. /\ pr'[p] = [pr[p] EXCEPT !.pc = "open", !.ind = 1]
      /\ \A q \in Procs \ {p} : pr'[q] = pr[q]
  BY <1>1, StepOnly DEF L1
<1>4. pr[p] \in Copies /\ "open" \in Pcs
  BY CopyType, PcsAre DEF L1
<1>5. /\ pr'[p] \in Copies /\ pr'[p].pc = "open" /\ pr'[p].ind = 1
      /\ Place(pr[p], pr'[p]) /\ Account(pr[p], pr'[p])
  BY <1>2, <1>3, <1>4, ZenonT(60) DEF Copies, Place, Account
<1> QED BY <1>1, <1>2, <1>3, <1>5

\* open(): the file is there, or it is made empty; or the call fails.
LEMMA OpenDoes ==
  ASSUME L1, NEW p \in Procs, Open(p)
  PROVE  LET r == pr[p]
             s == pr'[p] IN
         /\ r.pc = "open" /\ s \in Copies /\ s.ind \in Files /\ s.lk = r.lk
         /\ s.bytes_consumed = r.bytes_consumed
         /\ \/ /\ s.pc = "visit" /\ s.pos = 0 /\ Account(r, s)
               /\ s.ino \in 1 .. Len(data') /\ UNCHANGED faults
               /\ name' = [name EXCEPT ![r.ind] = s.ino]
               /\ data' = data \/ data' = Append(data, <<>>)
            \/ /\ s.pc \in {"open", "head", "notify"} /\ s.ino = r.ino
               /\ s.Errors = r.Errors + 1 /\ (s.pc = "notify" => s.status = 1)
               /\ UNCHANGED Disk /\ faults' = faults + 1 /\ faults < MaxFaults
         /\ \A q \in Procs \ {p} : pr'[q] = pr[q]
         /\ UNCHANGED <<set, signals>>
<1> DEFINE f == pr[p].ind
           i == IF name[f] = 0 THEN Len(data) + 1 ELSE name[f]
<1>0. /\ pr[p] \in Copies /\ f \in Files /\ name[f] \in 0 .. Len(data)
      /\ Len(data) \in Nat /\ set \in SettingType /\ pr[p].pc = "open"
      /\ UNCHANGED <<set, signals>>
  BY CopyType, SetType DEF L1, LockInv, CopyOK, TypeInv, Open
<1>1. CASE /\ name' = [name EXCEPT ![f] = i]
           /\ data' = IF name[f] = 0 THEN Append(data, <<>>) ELSE data
           /\ Step(p, [pr[p] EXCEPT !.pc = "visit", !.ino = i, !.pos = 0])
           /\ UNCHANGED faults
  <2>1. i \in 1 .. Len(data') /\ i \in Nat
    <3>1. CASE name[f] = 0
      <4>1. Len(data') = Len(data) + 1
        BY <1>1, <3>1 DEF L1, TypeInv
      <4> QED BY <1>0, <3>1, <4>1
    <3>2. CASE name[f] # 0
      BY <1>0, <1>1, <3>2
    <3> QED BY <3>1, <3>2
  <2>2. data' = data \/ data' = Append(data, <<>>)
    BY <1>1
  <2>3. /\ pr'[p] = [pr[p] EXCEPT !.pc = "visit", !.ino = i, !.pos = 0]
        /\ \A q \in Procs \ {p} : pr'[q] = pr[q]
    BY <1>1, StepOnly DEF L1
  <2> HIDE DEF i
  <2>4. /\ pr'[p] \in Copies /\ pr'[p].pc = "visit" /\ pr'[p].ino = i /\ pr'[p].pos = 0
        /\ pr'[p].ind = f /\ pr'[p].lk = pr[p].lk /\ Account(pr[p], pr'[p])
    <3>1. "visit" \in Pcs /\ 0 \in Nat
      BY PcsAre
    <3> QED BY <1>0, <2>1, <2>3, <3>1, ZenonT(60) DEF Copies, Account
  <2> QED BY <1>0, <1>1, <2>1, <2>2, <2>3, <2>4 DEF Account
<1>2. CASE /\ Fault /\ UNCHANGED <<name, data>>
           /\ Step(p, LET r == HandleError(pr[p], "open") IN
                      IF r.pc = "open" THEN NextFile(r) ELSE r)
  <2> DEFINE h == HandleError(pr[p], "open")
  <2>1. /\ h \in Copies /\ h.Errors = pr[p].Errors + 1
        /\ h.pc = "open" \/ (h.pc = "notify" /\ h.status = 1)
        /\ h.ind = f /\ h.ino = pr[p].ino /\ h.lk = pr[p].lk
        /\ h.bytes_consumed = pr[p].bytes_consumed
    <3>1. "open" \in Pcs
      BY PcsAre
    <3> QED BY <1>0, <3>1, HandleErrorOK
  <2>2. /\ pr'[p] = IF h.pc = "open" THEN NextFile(h) ELSE h
        /\ \A q \in Procs \ {p} : pr'[q] = pr[q]
    BY <1>2, StepOnly DEF L1
  <2> HIDE DEF h
  <2>3. /\ pr'[p] \in Copies /\ pr'[p].ind \in Files /\ pr'[p].lk = pr[p].lk
        /\ pr'[p].bytes_consumed = pr[p].bytes_consumed
        /\ pr'[p].pc \in {"open", "head", "notify"} /\ pr'[p].ino = pr[p].ino
        /\ pr'[p].Errors = pr[p].Errors + 1 /\ (pr'[p].pc = "notify" => pr'[p].status = 1)
    <3>1. CASE h.pc = "open"
      <4>1. /\ NextFile(h) \in Copies /\ NextFile(h).ind \in Files
            /\ NextFile(h).pc \in {"open", "head"}
            /\ NextFile(h).ino = h.ino /\ NextFile(h).lk = h.lk
            /\ NextFile(h).bytes_consumed = h.bytes_consumed
            /\ NextFile(h).Errors = h.Errors
        BY <1>0, <2>1, NextFileOK
      <4> QED BY <2>1, <2>2, <3>1, <4>1
    <3>2. CASE h.pc # "open"
      BY <1>0, <2>1, <2>2, <3>2
    <3> QED BY <3>1, <3>2
  <2> QED BY <1>0, <1>2, <2>2, <2>3 DEF Fault, Disk
<1> QED BY <1>1, <1>2 DEF Open

\* The start of a visit takes the lock of the whole visit, before growfile().
LEMMA VisitDoes ==
  ASSUME L1, NEW p \in Procs, Visit(p)
  PROVE  LET r == pr[p]
             s == pr'[p] IN
         /\ r.pc = "visit" /\ s \in Copies /\ s.ind \in Files /\ Account(r, s)
         /\ lkfile(p, "ex", 2) /\ s.pc = "fstat" /\ s.ino = r.ino /\ s.pos = r.pos
         /\ s.lk = (IF set.lockfile = 2 THEN "ex" ELSE r.lk)
         /\ \A q \in Procs \ {p} : pr'[q] = pr[q]
         /\ UNCHANGED <<set, name, data, signals, faults>>
<1> DEFINE r == pr[p]
           l == Lk(r, "ex", 2)
<1>0. /\ r \in Copies /\ r.ind \in Files /\ r.pc = "visit" /\ lkfile(p, "ex", 2)
      /\ Step(p, [l EXCEPT !.pc = "fstat"])
      /\ UNCHANGED <<set, name, data, signals, faults>>
  BY CopyType DEF L1, LockInv, CopyOK, TypeInv, Visit
<1>1. /\ l \in Copies /\ l.lk = (IF set.lockfile = 2 THEN "ex" ELSE r.lk)
      /\ l.ind = r.ind /\ l.ino = r.ino /\ l.pos = r.pos /\ Account(r, l)
  BY <1>0, LkOK DEF Account
<1> HIDE DEF l
<1>2. pr'[p] = [l EXCEPT !.pc = "fstat"] /\ \A q \in Procs \ {p} : pr'[q] = pr[q]
  BY <1>0, StepOnly DEF L1
<1>3. /\ pr'[p] \in Copies /\ pr'[p].ind = l.ind /\ Account(l, pr'[p])
      /\ pr'[p].pc = "fstat" /\ pr'[p].ino = l.ino /\ pr'[p].pos = l.pos
      /\ pr'[p].lk = l.lk
  BY <1>1, <1>2, PcsAre DEF Copies, Account
<1> QED BY <1>0, <1>1, <1>2, <1>3 DEF Account

\* growfile() has failed: an error is counted.
LEMMA GrowFailedDoes ==
  ASSUME L1, NEW p \in Procs, GrowFailed(p)
  PROVE  LET r == pr[p]
             s == pr'[p] IN
         /\ r.pc = "gfail" /\ s \in Copies /\ s.ind \in Files
         /\ s.Errors = r.Errors + 1 /\ s.bytes_consumed = r.bytes_consumed
         /\ \/ s.pc \in {"open", "head"} /\ s.ino = 0 /\ s.lk = "un"
            \/ s.pc = "notify" /\ s.status = 1 /\ s.ino = r.ino /\ s.lk = r.lk
         /\ \A q \in Procs \ {p} : pr'[q] = pr[q]
         /\ UNCHANGED <<set, name, data, signals, faults>>
<1> DEFINE r == pr[p]
           h == HandleError(r, "open")
           c == Closed(h)
           n == NextFile(c)
<1>0. /\ r \in Copies /\ r.ind \in Files /\ set \in SettingType /\ r.pc = "gfail"
      /\ UNCHANGED <<set, name, data, signals, faults>>
  BY CopyType, SetType DEF L1, LockInv, CopyOK, TypeInv, GrowFailed
<1>1. /\ h \in Copies /\ h.Errors = r.Errors + 1
      /\ h.pc = "open" \/ (h.pc = "notify" /\ h.status = 1)
      /\ h.ind = r.ind /\ h.ino = r.ino /\ h.lk = r.lk
      /\ h.bytes_consumed = r.bytes_consumed
  <2>1. "open" \in Pcs
    BY PcsAre
  <2> QED BY <1>0, <2>1, HandleErrorOK
<1>2. /\ pr'[p] = IF h.pc = "open" THEN n ELSE h
      /\ \A q \in Procs \ {p} : pr'[q] = pr[q]
  BY StepOnly DEF L1, GrowFailed
<1> HIDE DEF h
<1>3. /\ c \in Copies /\ c.ino = 0 /\ c.lk = "un" /\ c.ind = h.ind
      /\ Account(h, c)
  BY <1>1, ClosedOK DEF Account
<1> HIDE DEF c
<1>4. /\ n \in Copies /\ n.ind \in Files /\ n.pc \in {"open", "head"}
      /\ n.ino = 0 /\ n.lk = "un" /\ Account(c, n)
  BY <1>0, <1>1, <1>3, NextFileOK DEF Account
<1> HIDE DEF n
<1>5. CASE h.pc = "open"
  BY <1>0, <1>1, <1>2, <1>3, <1>4, <1>5 DEF Account
<1>6. CASE h.pc # "open"
  BY <1>0, <1>1, <1>2, <1>6
<1> QED BY <1>5, <1>6

\* close() gives the file and its lock back.
LEMMA CloseDoes ==
  ASSUME L1, NEW p \in Procs, Close(p)
  PROVE  LET r == pr[p]
             s == pr'[p] IN
         /\ r.pc = "close" /\ s \in Copies /\ s.ind \in Files /\ Account(r, s)
         /\ s.pc \in {"unlink", "open", "head"} /\ s.ino = 0 /\ s.lk = "un"
         /\ \A q \in Procs \ {p} : pr'[q] = pr[q]
         /\ UNCHANGED <<set, name, data, signals, faults>>
<1> DEFINE r == pr[p]
           c == Closed(r)
           n == NextFile(c)
           u == [c EXCEPT !.pc = "unlink"]
<1>0. /\ r \in Copies /\ r.ind \in Files /\ set \in SettingType /\ r.pc = "close"
      /\ UNCHANGED <<set, name, data, signals, faults>>
  BY CopyType, SetType DEF L1, LockInv, CopyOK, TypeInv, Close
<1>1. /\ pr'[p] = n \/ pr'[p] = u
      /\ \A q \in Procs \ {p} : pr'[q] = pr[q]
  <2> DEFINE s == IF unlink_inter # 0 /\ pr[p].iter % unlink_inter = 0 THEN u ELSE n
  <2>1. Step(p, s)
    BY DEF Close
  <2>2. s = n \/ s = u
    OBVIOUS
  <2> HIDE DEF s, n, u
  <2> QED BY <2>1, <2>2, StepOnly DEF L1
<1>2. c \in Copies /\ c.ino = 0 /\ c.lk = "un" /\ c.ind = r.ind /\ Account(r, c)
  BY <1>0, ClosedOK DEF Account
<1> HIDE DEF c
<1>3. /\ n \in Copies /\ n.ind \in Files /\ n.pc \in {"open", "head"}
      /\ n.ino = 0 /\ n.lk = "un" /\ Account(c, n)
  BY <1>0, <1>2, NextFileOK DEF Account
<1>4. /\ u \in Copies /\ u.ind = c.ind /\ u.pc = "unlink"
      /\ u.ino = 0 /\ u.lk = "un" /\ Account(c, u)
  <2>1. "unlink" \in Pcs
    BY PcsAre
  <2> QED BY <1>2, <2>1 DEF Copies, Account
<1> HIDE DEF n, u
<1> QED BY <1>0, <1>1, <1>2, <1>3, <1>4 DEF Account

\* unlink() takes the name away, never the bytes.
LEMMA UnlinkDoes ==
  ASSUME L1, NEW p \in Procs, Unlink(p)
  PROVE  LET r == pr[p]
             s == pr'[p] IN
         /\ r.pc = "unlink" /\ s \in Copies /\ s.ind \in Files /\ Account(r, s)
         /\ s.pc \in {"open", "head"} /\ s.ino = r.ino /\ s.lk = r.lk
         /\ name' = [name EXCEPT ![r.ind] = 0] /\ r.ind \in Files
         /\ \A q \in Procs \ {p} : pr'[q] = pr[q]
         /\ UNCHANGED <<set, data, signals, faults>>
<1> DEFINE r == pr[p]
           n == NextFile(r)
<1>0. /\ r \in Copies /\ r.ind \in Files /\ set \in SettingType /\ r.pc = "unlink"
      /\ UNCHANGED <<set, data, signals, faults>> /\ name' = [name EXCEPT ![r.ind] = 0]
  BY CopyType, SetType DEF L1, LockInv, CopyOK, TypeInv, Unlink
<1>1. pr'[p] = n /\ \A q \in Procs \ {p} : pr'[q] = pr[q]
  BY StepOnly DEF L1, Unlink
<1>2. /\ n \in Copies /\ n.ind \in Files /\ n.pc \in {"open", "head"}
      /\ n.ino = r.ino /\ n.lk = r.lk /\ Account(r, n)
  BY <1>0, NextFileOK DEF Account
<1> HIDE DEF n
<1> QED BY <1>0, <1>1, <1>2

\* fstat() in growfile() gives the size that the visit relies on.
LEMMA FstatDoes ==
  ASSUME L1, NEW p \in Procs, Fstat(p)
  PROVE  LET r == pr[p]
             s == pr'[p] IN
         /\ r.pc = "fstat" /\ s \in Copies /\ s.ind = r.ind /\ Account(r, s)
         /\ s.ino = r.ino /\ s.lk = r.lk /\ s.pos = r.pos
         /\ \/ /\ UNCHANGED faults /\ s.Grow_incr \in Sizes /\ s.fsize = Size(p)
               /\ \/ s.Grow_incr = 0 /\ s.pc = "cwrite"
                  \/ s.Grow_incr # 0 /\ s.pc = "seek"
            \/ Fault /\ s.pc = "gfail"
         /\ \A q \in Procs \ {p} : pr'[q] = pr[q]
         /\ UNCHANGED <<set, name, data, signals>>
<1> DEFINE r == pr[p]
<1>0. /\ r \in Copies /\ r.pc = "fstat" /\ r.count \in Nat
      /\ UNCHANGED <<set, name, data, signals>>
  BY CopyType DEF L1, Fstat
<1>1. ASSUME NEW g \in Sizes, UNCHANGED faults,
             Step(p, [pr[p] EXCEPT !.pc = IF g = 0 THEN "cwrite" ELSE "seek",
                                   !.Grow_incr = g, !.fsize = Size(p),
                                   !.count = IF g = 0 THEN @ + 1 ELSE @])
      PROVE  /\ pr'[p] \in Copies /\ pr'[p].ind = r.ind /\ Account(r, pr'[p])
             /\ pr'[p].ino = r.ino /\ pr'[p].lk = r.lk /\ pr'[p].pos = r.pos
             /\ pr'[p].Grow_incr = g /\ pr'[p].fsize = Size(p)
             /\ pr'[p].pc = (IF g = 0 THEN "cwrite" ELSE "seek")
             /\ \A q \in Procs \ {p} : pr'[q] = pr[q]
  <2> DEFINE a == IF g = 0 THEN "cwrite" ELSE "seek"
             n == IF g = 0 THEN r.count + 1 ELSE r.count
             z == Size(p)
             s == [r EXCEPT !.pc = a, !.Grow_incr = g, !.fsize = z, !.count = n]
  <2>1. g \in Nat /\ n \in Nat
    BY <1>0, GrowfilesAssumption
  <2>2. a \in Pcs
    BY PcsAre
  <2>3. z \in Nat
    <3>1. pr[p].pc \in VisitPcs
      BY <1>0 DEF VisitPcs
    <3> QED BY <3>1, FileType
  <2>4. pr'[p] = s /\ \A q \in Procs \ {p} : pr'[q] = pr[q]
    BY <1>1, StepOnly DEF L1
  <2> HIDE DEF a, n, z
  <2>5. /\ s \in Copies /\ s.ind = r.ind /\ Account(r, s)
        /\ s.ino = r.ino /\ s.lk = r.lk /\ s.pos = r.pos
        /\ s.Grow_incr = g /\ s.fsize = z /\ s.pc = a
    BY <1>0, <2>1, <2>2, <2>3 DEF Copies, Account
  <2> HIDE DEF s
  <2> QED BY <2>4, <2>5 DEF a, z
<1>2. ASSUME Fault, Step(p, [pr[p] EXCEPT !.pc = "gfail"])
      PROVE  /\ pr'[p] \in Copies /\ pr'[p].ind = r.ind /\ Account(r, pr'[p])
             /\ pr'[p].ino = r.ino /\ pr'[p].lk = r.lk /\ pr'[p].pos = r.pos
             /\ pr'[p].pc = "gfail" /\ \A q \in Procs \ {p} : pr'[q] = pr[q]
  <2>1. pr'[p] = [r EXCEPT !.pc = "gfail"] /\ \A q \in Procs \ {p} : pr'[q] = pr[q]
    BY <1>2, StepOnly DEF L1
  <2>2. "gfail" \in Pcs
    BY PcsAre
  <2> QED BY <1>0, <2>1, <2>2 DEF Copies, Account
<1>3. CASE \E g \in Sizes :
             Step(p, [pr[p] EXCEPT !.pc = IF g = 0 THEN "cwrite" ELSE "seek",
                                   !.Grow_incr = g, !.fsize = Size(p),
                                   !.count = IF g = 0 THEN @ + 1 ELSE @])
           /\ UNCHANGED faults
  BY <1>0, <1>1, <1>3
<1>4. CASE Fault /\ Step(p, [pr[p] EXCEPT !.pc = "gfail"])
  BY <1>0, <1>2, <1>4
<1> QED BY <1>3, <1>4 DEF Fstat

\* The seek before the write, one way for each option.
LEMMA SeekDoes ==
  ASSUME L1, NEW p \in Procs, Seek(p)
  PROVE  LET r == pr[p]
             s == pr'[p] IN
         /\ r.pc = "seek" /\ s \in Copies /\ s.ind = r.ind /\ Account(r, s)
         /\ s.ino = r.ino /\ s.fsize = r.fsize /\ s.Grow_incr = r.Grow_incr
         /\ s.count = r.count
         /\ \/ /\ s.pc = "write" /\ set.lseek = "w" /\ s.lk = r.lk /\ UNCHANGED faults
               /\ s.Woffset = r.fsize /\ s.pos = Size(p) + r.Grow_incr - 1
            \/ /\ s.pc = "write" /\ set.lseek # "w" /\ set.append /\ lkfile(p, "ex", 1)
               /\ s.lk = (IF set.lockfile = 1 THEN "ex" ELSE r.lk) /\ UNCHANGED faults
               /\ s.Woffset = Size(p)
            \/ /\ s.pc = "write" /\ set.lseek \notin {"w", "end"} /\ ~set.append
               /\ s.lk = r.lk /\ UNCHANGED faults
               /\ s.Woffset = s.pos /\ s.pos \in RandOffsets(r)
            \/ /\ s.pc = "write" /\ set.lseek = "end" /\ ~set.append
               /\ s.lk = r.lk /\ UNCHANGED faults
               /\ s.Woffset = Size(p) /\ s.pos = Size(p)
            \/ s.pc = "gfail" /\ s.lk = r.lk /\ Fault
         /\ \A q \in Procs \ {p} : pr'[q] = pr[q]
         /\ UNCHANGED <<set, name, data, signals>>
<1> DEFINE r == pr[p]
           w == [r EXCEPT !.pc = "write"]
           z == Size(p)
           Same(s) == /\ s \in Copies /\ s.ind = r.ind /\ Account(r, s)
                      /\ s.ino = r.ino /\ s.fsize = r.fsize /\ s.Grow_incr = r.Grow_incr
                      /\ s.count = r.count
<1>0. /\ r \in Copies /\ r.pc = "seek" /\ r.Grow_incr \in Nat \ {0} /\ r.fsize \in Nat
      /\ UNCHANGED <<set, name, data, signals>>
  <2>1. r \in Copies /\ r.pc = "seek" /\ UNCHANGED <<set, name, data, signals>>
    BY CopyType DEF L1, Seek
  <2>2. r.Grow_incr \in Nat /\ r.fsize \in Nat
    BY CopyType DEF L1
  <2>3. r.Grow_incr > 0
    BY <2>1 DEF L1, LockInv, CopyOK
  <2> QED BY <2>1, <2>2, <2>3
<1>1. z \in Nat
  <2>1. pr[p].pc \in VisitPcs
    BY <1>0 DEF VisitPcs
  <2> QED BY <2>1, FileType
<1>2. Same(w) /\ w.pc = "write" /\ w.lk = r.lk
  <2>1. "write" \in Pcs
    BY PcsAre
  <2> QED BY <1>0, <2>1 DEF Copies, Account
<1>3. RandOffsets(w) = RandOffsets(r)
  <2>1. w.fsize = r.fsize /\ w.Grow_incr = r.Grow_incr
    BY <1>2
  <2> HIDE DEF w
  <2> QED BY <2>1 DEF RandOffsets
<1>4. \A s : Step(p, s) => pr'[p] = s /\ \A q \in Procs \ {p} : pr'[q] = pr[q]
  BY StepOnly DEF L1
<1> HIDE DEF z
<1>5. CASE /\ set.lseek = "w" /\ UNCHANGED faults
           /\ Step(p, [w EXCEPT !.Woffset = w.fsize, !.pos = z + w.Grow_incr - 1])
  <2> DEFINE k == z + r.Grow_incr - 1
             s == [w EXCEPT !.Woffset = r.fsize, !.pos = k]
  <2>1. k \in Nat
    BY <1>0, <1>1
  <2>2. pr'[p] = s /\ \A q \in Procs \ {p} : pr'[q] = pr[q]
    BY <1>2, <1>4, <1>5
  <2> HIDE DEF k, w
  <2>3. Same(s) /\ s.pc = "write" /\ s.lk = r.lk /\ s.Woffset = r.fsize /\ s.pos = k
    BY <1>0, <1>2, <2>1 DEF Copies, Account
  <2> HIDE DEF s
  <2> QED BY <1>0, <1>5, <2>2, <2>3 DEF k, z
<1>6. CASE /\ set.lseek # "w" /\ set.append /\ lkfile(p, "ex", 1) /\ UNCHANGED faults
           /\ Step(p, [Lk(w, "ex", 1) EXCEPT !.Woffset = z])
  <2> DEFINE l == Lk(w, "ex", 1)
             s == [l EXCEPT !.Woffset = z]
  <2> HIDE DEF w
  <2>1. Same(l) /\ l.pc = "write" /\ l.lk = IF set.lockfile = 1 THEN "ex" ELSE r.lk
    BY <1>2, LkOK DEF Account
  <2> HIDE DEF l
  <2>2. Same(s) /\ s.pc = l.pc /\ s.lk = l.lk /\ s.Woffset = z
    BY <1>1, <2>1 DEF Copies, Account
  <2>3. pr'[p] = s /\ \A q \in Procs \ {p} : pr'[q] = pr[q]
    BY <1>4, <1>6 DEF l
  <2> HIDE DEF s
  <2> QED BY <1>0, <1>6, <2>1, <2>2, <2>3 DEF z
<1>7. CASE /\ set.lseek \notin {"w", "end"} /\ ~set.append /\ UNCHANGED faults
           /\ \E off \in RandOffsets(w) : Step(p, [w EXCEPT !.Woffset = off, !.pos = off])
  <2>1. PICK off \in RandOffsets(r) : Step(p, [w EXCEPT !.Woffset = off, !.pos = off])
    BY <1>3, <1>7
  <2> DEFINE s == [w EXCEPT !.Woffset = off, !.pos = off]
  <2>2. off \in Nat
    <3>1. set.min_lseek \in Nat /\ max_lseek \in Nat
      BY SetType, GrowfilesAssumption DEF L1
    <3>2. set.lseek \in {"eof", "plus", "minus", "range"}
      BY <1>7, SetType DEF L1
    <3> QED BY <1>0, <2>1, <3>1, <3>2, RandOffsetsAre
  <2>3. pr'[p] = s /\ \A q \in Procs \ {p} : pr'[q] = pr[q]
    BY <1>4, <2>1
  <2> HIDE DEF w
  <2>4. Same(s) /\ s.pc = "write" /\ s.lk = r.lk /\ s.Woffset = off /\ s.pos = off
    BY <1>2, <2>2 DEF Copies, Account
  <2> HIDE DEF s
  <2> QED BY <1>0, <1>7, <2>1, <2>3, <2>4
<1>8. CASE /\ set.lseek = "end" /\ ~set.append /\ UNCHANGED faults
           /\ Step(p, [w EXCEPT !.Woffset = z, !.pos = z])
  <2> DEFINE s == [w EXCEPT !.Woffset = z, !.pos = z]
  <2> HIDE DEF w
  <2>1. pr'[p] = s /\ \A q \in Procs \ {p} : pr'[q] = pr[q]
    BY <1>4, <1>8
  <2>2. Same(s) /\ s.pc = "write" /\ s.lk = r.lk /\ s.Woffset = z /\ s.pos = z
    BY <1>1, <1>2 DEF Copies, Account
  <2> HIDE DEF s
  <2> QED BY <1>0, <1>8, <2>1, <2>2 DEF z
<1>9. CASE Fault /\ Step(p, [pr[p] EXCEPT !.pc = "gfail"])
  <2> DEFINE s == [r EXCEPT !.pc = "gfail"]
  <2>1. pr'[p] = s /\ \A q \in Procs \ {p} : pr'[q] = pr[q]
    BY <1>4, <1>9
  <2>2. "gfail" \in Pcs
    BY PcsAre
  <2>3. Same(s) /\ s.pc = "gfail" /\ s.lk = r.lk
    BY <1>0, <2>2 DEF Copies, Account
  <2> HIDE DEF s
  <2> QED BY <1>0, <1>9, <2>1, <2>3
<1> QED BY <1>5, <1>6, <1>7, <1>8, <1>9 DEF Seek, z

\* The file with inode i, and no other one, gets the contents x.
FileBecomes(i, x) ==
  /\ data' \in Seq(Seq(Byte)) /\ Len(data') = Len(data) /\ data'[i] = x
  /\ \A j \in 1 .. Len(data) : j # i => data'[j] = data[j]

\* A file that becomes a sequence of bytes leaves data a sequence of files.
LEMMA FileBecomesOK ==
  ASSUME TypeInv, NEW i \in 1 .. Len(data), NEW x \in Seq(Byte),
         data' = [data EXCEPT ![i] = x]
  PROVE  FileBecomes(i, x)
<1>1. data \in Seq(Seq(Byte))
  BY DEF TypeInv
<1>2. data' \in Seq(Seq(Byte)) /\ Len(data') = Len(data)
  BY <1>1, ExceptSeq
<1>3. DOMAIN data = 1 .. Len(data)
  BY <1>1
<1> QED BY <1>2, <1>3 DEF FileBecomes

\* Where a write goes, and where the copy says that it went.
WriteOff(p) == IF set.append THEN Size(p) ELSE pr[p].pos
SaidOff(r, end) ==
  IF set.lseek # "w" /\ end # r.Woffset + r.Grow_incr
  THEN Max({0, end - r.Grow_incr}) ELSE r.Woffset

\* What growfile() keeps after its write.
LEMMA GrownDoes ==
  ASSUME NEW r \in Copies, NEW end \in Nat
  PROVE  LET s == Grown(r, end) IN
         /\ s \in Copies /\ s.pc = "cwrite" /\ s.pos = end /\ s.Woffset = SaidOff(r, end)
         /\ s.count = r.count + 1 /\ s.ind = r.ind /\ s.ino = r.ino /\ s.lk = r.lk
         /\ s.fsize = r.fsize /\ s.Grow_incr = r.Grow_incr /\ s.Errors = r.Errors
         /\ s.bytes_consumed = r.bytes_consumed + (SaidOff(r, end) + r.Grow_incr) - r.fsize
         /\ s.status = r.status
<1> DEFINE w == SaidOff(r, end)
           b == r.bytes_consumed + (w + r.Grow_incr) - r.fsize
           k == r.count + 1
           s == [r EXCEPT !.pos = end, !.Woffset = w, !.pc = "cwrite", !.count = k,
                          !.bytes_consumed = b]
<1>1. /\ r.Woffset \in Nat /\ r.Grow_incr \in Nat /\ r.bytes_consumed \in Int
      /\ r.fsize \in Nat /\ r.count \in Nat
  BY DEF Copies
<1>2. w \in Nat
  <2>1. end - r.Grow_incr \in Int
    BY <1>1
  <2>2. Max({0, end - r.Grow_incr}) \in Nat
    BY <2>1, MaxTwo
  <2> QED BY <1>1, <2>2 DEF SaidOff
<1>3. Grown(r, end) = s
  BY DEF Grown, SaidOff
<1> HIDE DEF w
<1>4. b \in Int /\ k \in Nat
  BY <1>1, <1>2
<1>5. "cwrite" \in Pcs
  BY PcsAre
<1> HIDE DEF b, k
<1>6. /\ s \in Copies /\ s.pc = "cwrite" /\ s.pos = end /\ s.Woffset = w
      /\ s.count = k /\ s.ind = r.ind /\ s.ino = r.ino /\ s.lk = r.lk
      /\ s.fsize = r.fsize /\ s.Grow_incr = r.Grow_incr /\ s.Errors = r.Errors
      /\ s.bytes_consumed = b /\ s.status = r.status
  BY <1>2, <1>4, <1>5 DEF Copies
<1> HIDE DEF s
<1> QED BY <1>3, <1>6 DEF b, k, w

\* A wrong byte in what a copy writes.
LEMMA BadBuf ==
  ASSUME NEW b \in Seq(Byte), NEW i \in 1 .. Len(b), NEW p \in Procs
  PROVE  /\ [b EXCEPT ![i] = Bad(p)] \in Seq(Byte)
         /\ Len([b EXCEPT ![i] = Bad(p)]) = Len(b)
         /\ [b EXCEPT ![i] = Bad(p)][i] = Bad(p)
         /\ \A j \in 1 .. Len(b) : j # i => [b EXCEPT ![i] = Bad(p)][j] = b[j]
<1>1. Bad(p) \in Byte
  BY GrowfilesAssumption DEF Bad, Byte, Procs
<1>2. [b EXCEPT ![i] = Bad(p)] \in Seq(Byte) /\ Len([b EXCEPT ![i] = Bad(p)]) = Len(b)
  BY <1>1, ExceptSeq
<1>3. DOMAIN b = 1 .. Len(b)
  OBVIOUS
<1> QED BY <1>2, <1>3

\* What the file system may keep of a write instead of it: a wrong byte, or less.
Spoilt(p, b) ==
  \E i \in 1 .. Len(Buf(p)) : b = [Buf(p) EXCEPT ![i] = Bad(p)]
Short(p, b) ==
  \E n \in 1 .. Len(Buf(p)) - 1 : b = [i \in 1 .. n |-> Buf(p)[i]]

\* The write: it fails, it is kept, or it is kept with a wrong byte or in part.
LEMMA WriteDoes ==
  ASSUME L1, NEW p \in Procs, Write(p)
  PROVE  LET r == pr[p]
             s == pr'[p]
             c == data[r.ino]
             off == WriteOff(p)
             end == off + Len(Buf(p)) IN
         /\ r.pc = "write" /\ s \in Copies /\ s.ind = r.ind /\ s.ino = r.ino
         /\ s.fsize = r.fsize /\ s.Grow_incr = r.Grow_incr /\ s.Errors = r.Errors
         /\ lkfile(p, "ex", 1) /\ off \in Nat /\ end \in Nat
         /\ s.lk = (IF set.lockfile = 1 THEN "un" ELSE r.lk) \/ s.pc = "gfail"
         /\ s.lk = (IF set.lockfile = 1 THEN "un" ELSE r.lk)
            \/ s.lk = (IF set.lockfile = 1 THEN "ex" ELSE r.lk)
         /\ s.pc = "cleanup" => s.status = 2
         /\ \/ /\ UNCHANGED faults /\ FileBecomes(r.ino, WriteAt(c, off, Buf(p)))
               /\ s.pc = "cwrite" /\ s.pos = end /\ s.Woffset = SaidOff(r, end)
               /\ s.bytes_consumed = r.bytes_consumed + (SaidOff(r, end) + r.Grow_incr) - r.fsize
               /\ s.count = r.count + 1
            \/ /\ Fault /\ s.pc = "cwrite" /\ s.pos = end /\ s.Woffset = SaidOff(r, end)
               /\ \E b \in Seq(Byte) : Spoilt(p, b) /\ FileBecomes(r.ino, WriteAt(c, off, b))
            \/ /\ Fault /\ s.pc \in {"cwrite", "gfail", "cleanup"}
               /\ \/ data' = data
                  \/ \E b \in Seq(Byte) : /\ b = Buf(p) \/ Short(p, b)
                                         /\ FileBecomes(r.ino, WriteAt(c, off, b))
         /\ \A q \in Procs \ {p} : pr'[q] = pr[q]
         /\ UNCHANGED <<set, name, signals>>
<1> DEFINE r == pr[p]
           c == data[r.ino]
           l == Lk(r, "un", 1)
           off == WriteOff(p)
           buf == Buf(p)
           end == off + Len(buf)
           g == Grown(l, end)
           Same(s) == /\ s \in Copies /\ s.ind = r.ind /\ s.ino = r.ino
                      /\ s.fsize = r.fsize /\ s.Grow_incr = r.Grow_incr
                      /\ s.Errors = r.Errors
           unl == IF set.lockfile = 1 THEN "un" ELSE r.lk
<1>0. /\ r.pc = "write" /\ lkfile(p, "ex", 1) /\ UNCHANGED <<set, name, signals>>
  BY DEF Write
<1>1. /\ r \in Copies /\ r.Grow_incr > 0 /\ r.pos \in Nat
  BY <1>0, CopyType DEF L1, LockInv, CopyOK
<1>2. r.ino \in 1 .. Len(data) /\ c \in Seq(Byte) /\ Size(p) \in Nat
  <2>1. pr[p].pc \in VisitPcs
    BY <1>0 DEF VisitPcs
  <2> QED BY <2>1, FileType
<1>3. off \in Nat
  BY <1>1, <1>2 DEF WriteOff
<1>4. buf \in Seq(Byte) /\ Len(buf) > 0
  <2>1. num_procs \in Nat /\ r.Grow_incr \in Nat
    BY GrowfilesAssumption, CopyType DEF L1
  <2>2. buf \in Seq(Byte) /\ Len(buf) = IF set.lseek = "w" THEN 1 ELSE r.Grow_incr
    BY <1>1, <2>1, BufBytes
  <2> QED BY <1>1, <2>1, <2>2
<1>5. /\ \A i \in 1 .. Len(buf) : [buf EXCEPT ![i] = Bad(p)] \in Seq(Byte)
      /\ \A n \in 1 .. Len(buf) - 1 : [i \in 1 .. n |-> buf[i]] \in Seq(Byte)
  <2>1. \A i \in 1 .. Len(buf) : [buf EXCEPT ![i] = Bad(p)] \in Seq(Byte)
    <3> HIDE DEF buf
    <3> QED BY <1>4, BadBuf
  <2>2. ASSUME NEW n \in 1 .. Len(buf) - 1 PROVE [i \in 1 .. n |-> buf[i]] \in Seq(Byte)
    <3> HIDE DEF buf
    <3>1. n \in Nat /\ \A i \in 1 .. n : buf[i] \in Byte
      BY <1>4, ElementOfSeq
    <3> QED BY <3>1, IsASeq
  <2> QED BY <2>1, <2>2
<1>6. end \in Nat
  BY <1>3, <1>4
<1>7. /\ Same(l) /\ l.lk = unl /\ l.count = r.count /\ l.pos = r.pos
      /\ l.bytes_consumed = r.bytes_consumed /\ l.Woffset = r.Woffset
  BY <1>1, LkOK
<1>8. SaidOff(l, end) = SaidOff(r, end)
  BY <1>7 DEF SaidOff
<1>9. ASSUME NEW bytes \in Seq(Byte),
             data' = [data EXCEPT ![l.ino] = WriteAt(@, off, bytes)]
      PROVE  FileBecomes(r.ino, WriteAt(c, off, bytes))
  <2> DEFINE x == WriteAt(c, off, bytes)
  <2>1. x \in Seq(Byte)
    BY <1>2, <1>3, WriteAtBytes
  <2>2. data' = [data EXCEPT ![r.ino] = x]
    BY <1>7, <1>9
  <2> HIDE DEF x
  <2>3. FileBecomes(r.ino, x)
    BY <1>2, <2>1, <2>2, FileBecomesOK DEF L1
  <2> QED BY <2>3 DEF x
<1>10. /\ Same(g) /\ g.pc = "cwrite" /\ g.pos = end /\ g.Woffset = SaidOff(r, end)
       /\ g.count = r.count + 1 /\ g.lk = unl
       /\ g.bytes_consumed = r.bytes_consumed + (SaidOff(r, end) + r.Grow_incr) - r.fsize
  <2> HIDE DEF l, end, unl
  <2> QED BY <1>6, <1>7, <1>8, GrownDoes
<1>11. \A s : Step(p, s) => pr'[p] = s /\ \A q \in Procs \ {p} : pr'[q] = pr[q]
  BY StepOnly DEF L1
<1> DEFINE store(bytes) == data' = [data EXCEPT ![l.ino] = WriteAt(@, off, bytes)]
<1>12. CASE store(buf) /\ Step(p, g) /\ UNCHANGED faults
  <2>1. FileBecomes(r.ino, WriteAt(c, off, buf))
    BY <1>4, <1>9, <1>12
  <2>2. pr'[p] = g /\ \A q \in Procs \ {p} : pr'[q] = pr[q]
    BY <1>11, <1>12
  <2> HIDE DEF g, off, buf, c, l
  <2> QED BY <1>0, <1>3, <1>6, <1>10, <1>12, <2>1, <2>2 DEF off, buf, c
<1>13. CASE /\ Fault /\ Step(p, g)
            /\ \E i \in 1 .. Len(buf) : store([buf EXCEPT ![i] = Bad(p)])
  <2>1. PICK i \in 1 .. Len(buf) : store([buf EXCEPT ![i] = Bad(p)])
    BY <1>13
  <2> DEFINE b == [buf EXCEPT ![i] = Bad(p)]
  <2>2. b \in Seq(Byte) /\ Spoilt(p, b)
    BY <1>5 DEF Spoilt
  <2>3. FileBecomes(r.ino, WriteAt(c, off, b))
    BY <1>9, <2>1, <2>2
  <2>4. pr'[p] = g /\ \A q \in Procs \ {p} : pr'[q] = pr[q]
    BY <1>11, <1>13
  <2> HIDE DEF b, g, off, buf, c, l
  <2> QED BY <1>0, <1>3, <1>6, <1>10, <1>13, <2>2, <2>3, <2>4 DEF off, buf, c
<1>14. CASE /\ Fault /\ UNCHANGED data
            /\ Step(p, IF set.lseek = "w" THEN Grown(l, off) ELSE [l EXCEPT !.pc = "gfail"])
  <2> DEFINE o == Grown(l, off)
             e == [l EXCEPT !.pc = "gfail"]
  <2>1. pr'[p] \in {o, e} /\ \A q \in Procs \ {p} : pr'[q] = pr[q]
    BY <1>11, <1>14
  <2> HIDE DEF l, off, unl
  <2>2. Same(o) /\ o.pc = "cwrite" /\ o.lk = unl
    BY <1>3, <1>7, GrownDoes
  <2>3. "gfail" \in Pcs
    BY PcsAre
  <2>4. Same(e) /\ e.pc = "gfail" /\ e.lk = unl
    BY <1>7, <2>3 DEF Copies
  <2> HIDE DEF o, e
  <2> QED BY <1>0, <1>3, <1>6, <1>14, <2>1, <2>2, <2>4 DEF off, unl
<1>15. CASE /\ Fault /\ UNCHANGED data
            /\ Step(p, [l EXCEPT !.pc = "cleanup", !.status = 2])
  <2> DEFINE e == [l EXCEPT !.pc = "cleanup", !.status = 2]
  <2>1. pr'[p] = e /\ \A q \in Procs \ {p} : pr'[q] = pr[q]
    BY <1>11, <1>15
  <2> HIDE DEF l, off, unl
  <2>2. "cleanup" \in Pcs /\ 2 \in 0 .. 2
    BY PcsAre
  <2>3. Same(e) /\ e.pc = "cleanup" /\ e.lk = unl /\ e.status = 2
    BY <1>7, <2>2 DEF Copies
  <2> HIDE DEF e
  <2> QED BY <1>0, <1>3, <1>6, <1>15, <2>1, <2>3 DEF off, unl
<1>16. CASE /\ Fault /\ store(buf)
            /\ Step(p, [Lk(l, "ex", 1) EXCEPT !.pc = "gfail"])
  <2> DEFINE k == Lk(l, "ex", 1)
             e == [k EXCEPT !.pc = "gfail"]
  <2>1. pr'[p] = e /\ \A q \in Procs \ {p} : pr'[q] = pr[q]
    BY <1>11, <1>16
  <2>2. FileBecomes(r.ino, WriteAt(c, off, buf))
    BY <1>4, <1>9, <1>16
  <2> HIDE DEF l, off, buf, c
  <2>3. Same(k) /\ k.lk = (IF set.lockfile = 1 THEN "ex" ELSE r.lk)
    BY <1>7, LkOK
  <2>4. "gfail" \in Pcs
    BY PcsAre
  <2> HIDE DEF k
  <2>5. Same(e) /\ e.pc = "gfail" /\ e.lk = k.lk
    BY <2>3, <2>4 DEF Copies
  <2> HIDE DEF e
  <2> QED BY <1>0, <1>3, <1>4, <1>6, <1>16, <2>1, <2>2, <2>3, <2>5 DEF off, buf, c
<1>17. CASE /\ Fault /\ Step(p, [l EXCEPT !.pc = "gfail"])
            /\ \E n \in 1 .. Len(buf) - 1 : store([i \in 1 .. n |-> buf[i]])
  <2> DEFINE e == [l EXCEPT !.pc = "gfail"]
  <2>1. PICK n \in 1 .. Len(buf) - 1 : store([i \in 1 .. n |-> buf[i]])
    BY <1>17
  <2> DEFINE b == [i \in 1 .. n |-> buf[i]]
  <2>2. b \in Seq(Byte) /\ Short(p, b)
    BY <1>5 DEF Short
  <2>3. FileBecomes(r.ino, WriteAt(c, off, b))
    BY <1>9, <2>1, <2>2
  <2>4. pr'[p] = e /\ \A q \in Procs \ {p} : pr'[q] = pr[q]
    BY <1>11, <1>17
  <2> HIDE DEF b, off, buf, c, l, unl
  <2>5. "gfail" \in Pcs
    BY PcsAre
  <2>6. Same(e) /\ e.pc = "gfail" /\ e.lk = unl
    BY <1>7, <2>5 DEF Copies
  <2> HIDE DEF e
  <2> QED BY <1>0, <1>3, <1>6, <1>17, <2>2, <2>3, <2>4, <2>6 DEF off, buf, c, unl
<1>18. (IF set.append THEN Size(p) ELSE l.pos) = off
  BY <1>7 DEF WriteOff
<1> HIDE DEF off
<1>19. \/ store(buf) /\ Step(p, g) /\ UNCHANGED faults
       \/ /\ Fault /\ Step(p, g)
          /\ \E i \in 1 .. Len(buf) : store([buf EXCEPT ![i] = Bad(p)])
       \/ /\ Fault /\ UNCHANGED data
          /\ Step(p, IF set.lseek = "w" THEN Grown(l, off) ELSE [l EXCEPT !.pc = "gfail"])
       \/ /\ Fault /\ UNCHANGED data
          /\ Step(p, [l EXCEPT !.pc = "cleanup", !.status = 2])
       \/ /\ Fault /\ store(buf)
          /\ Step(p, [Lk(l, "ex", 1) EXCEPT !.pc = "gfail"])
       \/ /\ Fault /\ Step(p, [l EXCEPT !.pc = "gfail"])
          /\ \E n \in 1 .. Len(buf) - 1 : store([i \in 1 .. n |-> buf[i]])
  BY <1>18 DEF Write
<1> HIDE DEF l, c, buf, g, unl, end
<1> QED BY <1>12, <1>13, <1>14, <1>15, <1>16, <1>19, <1>17 DEF off, l, c, buf, g, unl, end

\* How much of its last write a copy can expect in the contents c.
Own(r, c) ==
  IF r.Grow_incr <= Len(c) - r.Woffset THEN r.Grow_incr ELSE Len(c) - r.Woffset

\* lkfile() of -l with a kind of lock.
Locked(r, kind) == IF set.lockfile = 1 THEN kind ELSE r.lk

\* check_write() up to its read: the turn, the lock and the size of the file.
LEMMA CheckWriteSizeDoes ==
  ASSUME L1, NEW p \in Procs, CheckWriteSize(p)
  PROVE  LET r == pr[p]
             s == pr'[p]
             c == data[r.ino]
             check == Due(write_check_inter, r.count) /\ r.Grow_incr > 0 IN
         /\ r.pc = "cwrite" /\ s \in Copies /\ s.ind = r.ind /\ s.ino = r.ino
         /\ s.pos = r.pos /\ s.fsize = r.fsize /\ s.Woffset = r.Woffset
         /\ s.count = r.count /\ s.bytes_consumed = r.bytes_consumed
         /\ \/ /\ ~check /\ s.pc = "cfile" /\ s.lk = r.lk
               /\ s.Errors = r.Errors /\ UNCHANGED faults
            \/ /\ check /\ Len(c) <= r.Woffset /\ s.pc = "cfile"
               /\ s.lk = Locked(r, "un") /\ s.Errors = r.Errors /\ UNCHANGED faults
            \/ /\ check /\ Len(c) > r.Woffset /\ lkfile(p, "sh", 1) /\ s.pc = "cwread"
               /\ s.lk = Locked(r, "sh") /\ s.Grow_incr = Own(r, c)
               /\ s.Errors = r.Errors /\ UNCHANGED faults
            \/ /\ s.pc = "cfile" \/ (s.pc = "notify" /\ s.status = 1)
               /\ s.lk = Locked(r, "un") /\ s.Errors = r.Errors + 1 /\ Fault
         /\ \A q \in Procs \ {p} : pr'[q] = pr[q]
         /\ UNCHANGED <<set, name, data, signals>>
<1> DEFINE r == pr[p]
           c == data[r.ino]
           check == Due(write_check_inter, r.count) /\ r.Grow_incr > 0
           Same(s) == /\ s \in Copies /\ s.ind = r.ind /\ s.ino = r.ino
                      /\ s.pos = r.pos /\ s.fsize = r.fsize /\ s.Woffset = r.Woffset
                      /\ s.count = r.count /\ s.bytes_consumed = r.bytes_consumed
                     
<1>0. r.pc = "cwrite" /\ r \in Copies /\ UNCHANGED <<set, name, data, signals>>
  BY CopyType DEF L1, CheckWriteSize
<1>1. /\ r.Grow_incr \in Nat /\ r.Woffset \in Nat /\ c \in Seq(Byte)
      /\ Size(p) = Len(c) /\ Size(p) \in Nat
  <2>1. pr[p].pc \in VisitPcs
    BY <1>0 DEF VisitPcs
  <2> QED BY <2>1, FileType, CopyType DEF L1
<1>2. \A s : Step(p, s) => pr'[p] = s /\ \A q \in Procs \ {p} : pr'[q] = pr[q]
  BY StepOnly DEF L1
<1>3. {"cfile", "cwread"} \subseteq Pcs
  BY PcsAre
<1>4. ASSUME NEW kind \in {"un", "sh"}
      PROVE  LET l == Lk(r, kind, 1) IN
             Same(l) /\ l.lk = Locked(r, kind) /\ l.Errors = r.Errors
  BY <1>0, LkOK DEF Locked
<1> HIDE DEF c
<1>5. CASE ~check /\ Step(p, [r EXCEPT !.pc = "cfile"]) /\ UNCHANGED faults
  <2> DEFINE s == [r EXCEPT !.pc = "cfile"]
  <2>1. pr'[p] = s /\ \A q \in Procs \ {p} : pr'[q] = pr[q]
    BY <1>2, <1>5
  <2>2. Same(s) /\ s.pc = "cfile" /\ s.lk = r.lk /\ s.Errors = r.Errors
    BY <1>0, <1>3 DEF Copies
  <2> HIDE DEF s
  <2> QED BY <1>0, <1>5, <2>1, <2>2
<1>6. CASE /\ check /\ lkfile(p, "sh", 1) /\ UNCHANGED faults
           /\ WriteGone(r, Size(p)) /\ Step(p, [Lk(r, "un", 1) EXCEPT !.pc = "cfile"])
  <2> DEFINE l == Lk(r, "un", 1)
             s == [l EXCEPT !.pc = "cfile"]
  <2>1. pr'[p] = s /\ \A q \in Procs \ {p} : pr'[q] = pr[q]
    BY <1>2, <1>6
  <2>2. Same(l) /\ l.lk = Locked(r, "un") /\ l.Errors = r.Errors
    BY <1>4
  <2> HIDE DEF l
  <2>3. Same(s) /\ s.pc = "cfile" /\ s.lk = l.lk /\ s.Errors = l.Errors
    BY <1>3, <2>2 DEF Copies
  <2>4. Len(c) <= r.Woffset
    BY <1>1, <1>6 DEF WriteGone
  <2> HIDE DEF s, check
  <2> QED BY <1>0, <1>6, <2>1, <2>2, <2>3, <2>4 DEF c, check
<1>7. CASE /\ check /\ lkfile(p, "sh", 1) /\ UNCHANGED faults
           /\ ~WriteGone(r, Size(p))
           /\ Step(p, [Lk(r, "sh", 1) EXCEPT
                         !.pc = "cwread",
                         !.Grow_incr = Min({@, Size(p) - r.Woffset})])
  <2> DEFINE l == Lk(r, "sh", 1)
             o == Own(r, c)
             s == [l EXCEPT !.pc = "cwread", !.Grow_incr = o]
  <2>1. Same(l) /\ l.lk = Locked(r, "sh") /\ l.Errors = r.Errors /\ l.Grow_incr = r.Grow_incr
    <3>1. l.Grow_incr = r.Grow_incr
      BY <1>0, LkOK
    <3> QED BY <1>4, <3>1
  <2>2. Len(c) > r.Woffset
    BY <1>1, <1>7 DEF WriteGone
  <2>3. Min({r.Grow_incr, Size(p) - r.Woffset}) = o
    <3>1. Size(p) - r.Woffset \in Int
      BY <1>1
    <3>2. Min({r.Grow_incr, Size(p) - r.Woffset})
            = IF r.Grow_incr <= Size(p) - r.Woffset THEN r.Grow_incr ELSE Size(p) - r.Woffset
      BY <1>1, <3>1, MinTwo
    <3> QED BY <1>1, <3>2 DEF Own
  <2>4. o \in Nat
    BY <1>1, <2>2 DEF Own
  <2>5. pr'[p] = s /\ \A q \in Procs \ {p} : pr'[q] = pr[q]
    BY <1>2, <1>7, <2>1, <2>3
  <2> HIDE DEF l, o
  <2>6. Same(s) /\ s.pc = "cwread" /\ s.lk = l.lk /\ s.Errors = l.Errors /\ s.Grow_incr = o
    BY <1>3, <2>1, <2>4 DEF Copies
  <2> HIDE DEF s, check
  <2> QED BY <1>0, <1>7, <2>1, <2>2, <2>5, <2>6 DEF c, check, o
<1>8. CASE Fault /\ Step(p, HandleError(Lk(r, "un", 1), "cfile"))
  <2> DEFINE l == Lk(r, "un", 1)
             s == HandleError(l, "cfile")
  <2>1. pr'[p] = s /\ \A q \in Procs \ {p} : pr'[q] = pr[q]
    BY <1>2, <1>8
  <2>2. Same(l) /\ l.lk = Locked(r, "un") /\ l.Errors = r.Errors
    BY <1>4
  <2> HIDE DEF l
  <2>3. "cfile" \in Pcs
    BY <1>3
  <2>4. /\ Same(s) /\ s.lk = l.lk /\ s.Errors = l.Errors + 1
        /\ s.pc = "cfile" \/ (s.pc = "notify" /\ s.status = 1)
    BY <2>2, <2>3, HandleErrorOK
  <2> HIDE DEF s
  <2> QED BY <1>0, <1>8, <2>1, <2>2, <2>4
<1>9. \/ ~check /\ Step(p, [r EXCEPT !.pc = "cfile"]) /\ UNCHANGED faults
      \/ /\ check /\ lkfile(p, "sh", 1) /\ UNCHANGED faults
         /\ Step(p, IF WriteGone(r, Size(p))
                    THEN [Lk(r, "un", 1) EXCEPT !.pc = "cfile"]
                    ELSE [Lk(r, "sh", 1) EXCEPT
                            !.pc = "cwread",
                            !.Grow_incr = Min({@, Size(p) - r.Woffset})])
      \/ Fault /\ Step(p, HandleError(Lk(r, "un", 1), "cfile"))
  BY DEF CheckWriteSize
<1> QED BY <1>5, <1>6, <1>7, <1>8, <1>9 DEF c

\* What read() returns for g bytes from the offset w of a file of size z.
LEMMA ReadLength ==
  ASSUME NEW g \in Nat, NEW w \in Nat, NEW z \in Nat
  PROVE  LET n == Max({0, Min({g, z - w})}) IN
         /\ n \in Nat /\ n <= g /\ (n = g /\ g > 0 => w + g <= z)
         /\ w + g <= z => n = g
         /\ w <= z => w + n <= z
<1> DEFINE d == z - w
           m == Min({g, d})
           n == Max({0, m})
<1>1. d \in Int /\ m = IF g <= d THEN g ELSE d
  BY MinTwo
<1>2. n = IF 0 >= m THEN 0 ELSE m
  <2>1. m \in Int
    BY <1>1
  <2> HIDE DEF m
  <2> QED BY <2>1, MaxTwo
<1> HIDE DEF m, n
<1>3. /\ n \in Nat /\ n <= g /\ (n = g /\ g > 0 => w + g <= z)
      /\ w + g <= z => n = g
      /\ w <= z => w + n <= z
  BY <1>1, <1>2
<1> QED BY <1>3 DEF m, n

\* check_write() reads the write back and compares it.
LEMMA CheckWriteReadDoes ==
  ASSUME L1, NEW p \in Procs, CheckWriteRead(p)
  PROVE  LET r == pr[p]
             s == pr'[p]
             c == data[r.ino]
             all == r.Woffset + r.Grow_incr <= Len(c) /\ Matches(p, r.Woffset, r.Grow_incr) IN
         /\ r.pc = "cwread" /\ s \in Copies /\ s.ind = r.ind /\ s.ino = r.ino
         /\ s.lk = Locked(r, "un") /\ s.fsize = r.fsize /\ s.Woffset = r.Woffset
         /\ s.Grow_incr = r.Grow_incr /\ s.count = r.count
         /\ s.bytes_consumed = r.bytes_consumed
         /\ \/ /\ (r.Grow_incr > 0 => all) /\ s.pc = "cfile" /\ s.Errors = r.Errors
               /\ s.pos = r.Woffset + r.Grow_incr /\ UNCHANGED faults
            \/ /\ ~all /\ (s.pc = "cfile" \/ (s.pc = "notify" /\ s.status = 1))
               /\ s.Errors = r.Errors + 1 /\ UNCHANGED faults
               /\ r.Woffset + r.Grow_incr <= Len(c) => s.pos = r.Woffset + r.Grow_incr
            \/ /\ s.pc = "cfile" \/ (s.pc = "notify" /\ s.status = 1)
               /\ s.Errors = r.Errors + 1 /\ Fault
         /\ \A q \in Procs \ {p} : pr'[q] = pr[q]
         /\ UNCHANGED <<set, name, data, signals>>
<1> DEFINE r == pr[p]
           c == data[r.ino]
           all == r.Woffset + r.Grow_incr <= Len(c) /\ Matches(p, r.Woffset, r.Grow_incr)
           l == Lk(r, "un", 1)
           n == Max({0, Min({r.Grow_incr, Size(p) - r.Woffset})})
           x == r.Woffset + n
           q0 == [l EXCEPT !.pos = x]
           Same(s) == /\ s \in Copies /\ s.ind = r.ind /\ s.ino = r.ino
                      /\ s.lk = Locked(r, "un") /\ s.fsize = r.fsize
                      /\ s.Woffset = r.Woffset /\ s.Grow_incr = r.Grow_incr
                      /\ s.count = r.count /\ s.bytes_consumed = r.bytes_consumed
                     
<1>0. r \in Copies /\ UNCHANGED <<set, name, data, signals>>
  BY CopyType DEF L1, CheckWriteRead
<1>1. Same(l) /\ l.pc = r.pc /\ l.Errors = r.Errors
  BY <1>0, LkOK DEF Locked
<1>2. r.pc = "cwread"
  <2>1. l.pc = "cwread"
    BY DEF CheckWriteRead
  <2> QED BY <1>1, <2>1
<1>3. /\ r.Grow_incr \in Nat /\ r.Woffset \in Nat /\ c \in Seq(Byte)
      /\ Size(p) = Len(c) /\ Size(p) \in Nat
  <2>1. pr[p].pc \in VisitPcs
    BY <1>2 DEF VisitPcs
  <2> QED BY <2>1, FileType, CopyType DEF L1
<1>4. /\ n \in Nat /\ n <= r.Grow_incr /\ (n = r.Grow_incr /\ r.Grow_incr > 0 => r.Woffset + r.Grow_incr <= Len(c))
      /\ r.Woffset + r.Grow_incr <= Len(c) => n = r.Grow_incr
      /\ r.Woffset <= Len(c) => r.Woffset + n <= Len(c)
  <2> DEFINE g == r.Grow_incr
             w == r.Woffset
             z == Size(p)
  <2>1. g \in Nat /\ w \in Nat /\ z \in Nat /\ z = Len(c)
    BY <1>3
  <2>2. n = Max({0, Min({g, z - w})})
    OBVIOUS
  <2> HIDE DEF g, w, z, n, c
  <2>3. /\ n \in Nat /\ n <= g /\ (n = g /\ g > 0 => w + g <= z)
        /\ w + g <= z => n = g
        /\ w <= z => w + n <= z
    BY <2>1, <2>2, ReadLength
  <2>4. /\ n \in Nat /\ n <= g /\ (n = g /\ g > 0 => w + g <= Len(c))
        /\ w + g <= Len(c) => n = g
        /\ w <= Len(c) => w + n <= Len(c)
    BY <2>1, <2>3
  <2> QED BY <2>4 DEF g, w
<1> HIDE DEF n
<1>5. x \in Nat
  BY <1>3, <1>4
<1>6. \A s : Step(p, s) => pr'[p] = s /\ \A q \in Procs \ {p} : pr'[q] = pr[q]
  BY StepOnly DEF L1
<1>7. "cfile" \in Pcs
  BY PcsAre
<1> HIDE DEF l, x, c
<1>8. Same(q0) /\ q0.pos = x /\ q0.Errors = r.Errors
  BY <1>1, <1>5 DEF Copies
<1> HIDE DEF q0
<1>9. CASE n = r.Grow_incr /\ Matches(p, r.Woffset, n) /\ UNCHANGED faults /\ Step(p, [q0 EXCEPT !.pc = "cfile"])
  <2> DEFINE s == [q0 EXCEPT !.pc = "cfile"]
  <2>1. pr'[p] = s /\ \A q \in Procs \ {p} : pr'[q] = pr[q]
    BY <1>6, <1>9
  <2>2. Same(s) /\ s.pc = "cfile" /\ s.pos = x /\ s.Errors = r.Errors
    BY <1>7, <1>8 DEF Copies
  <2>3. r.Grow_incr > 0 => all
    BY <1>4, <1>9
  <2> HIDE DEF s, all
  <2> QED BY <1>0, <1>2, <1>9, <2>1, <2>2, <2>3 DEF all, c, x
<1>10. CASE ~(n = r.Grow_incr /\ Matches(p, r.Woffset, n)) /\ UNCHANGED faults /\ Step(p, HandleError(q0, "cfile"))
  <2> DEFINE s == HandleError(q0, "cfile")
  <2>1. pr'[p] = s /\ \A q \in Procs \ {p} : pr'[q] = pr[q]
    BY <1>6, <1>10
  <2>2. /\ Same(s) /\ s.pos = x /\ s.Errors = r.Errors + 1
        /\ s.pc = "cfile" \/ (s.pc = "notify" /\ s.status = 1)
    BY <1>7, <1>8, HandleErrorOK
  <2>3. ~all /\ (r.Woffset + r.Grow_incr <= Len(c) => x = r.Woffset + r.Grow_incr)
    BY <1>4, <1>10 DEF x
  <2> HIDE DEF s, all
  <2> QED BY <1>0, <1>2, <1>10, <2>1, <2>2, <2>3 DEF all, c
<1>11. CASE Fault /\ Step(p, HandleError([l EXCEPT !.pos = l.Woffset], "cfile"))
  <2> DEFINE e == [l EXCEPT !.pos = l.Woffset]
             s == HandleError(e, "cfile")
  <2>1. pr'[p] = s /\ \A q \in Procs \ {p} : pr'[q] = pr[q]
    BY <1>6, <1>11
  <2>2. Same(e) /\ e.Errors = r.Errors
    BY <1>1, <1>3 DEF Copies
  <2> HIDE DEF e
  <2>3. /\ Same(s) /\ s.Errors = r.Errors + 1
        /\ s.pc = "cfile" \/ (s.pc = "notify" /\ s.status = 1)
    BY <1>7, <2>2, HandleErrorOK
  <2> HIDE DEF s
  <2> QED BY <1>0, <1>2, <1>11, <2>1, <2>3
<1>12. \/ /\ UNCHANGED faults
          /\ Step(p, IF n = r.Grow_incr /\ Matches(p, r.Woffset, n)
                     THEN [q0 EXCEPT !.pc = "cfile"] ELSE HandleError(q0, "cfile"))
       \/ Fault /\ Step(p, HandleError([l EXCEPT !.pos = l.Woffset], "cfile"))
  <2>1. l.Grow_incr = r.Grow_incr /\ l.Woffset = r.Woffset
    BY <1>1
  <2>2. n = Max({0, Min({l.Grow_incr, Size(p) - l.Woffset})})
    BY <2>1 DEF n
  <2>3. q0 = [l EXCEPT !.pos = l.Woffset + n]
    BY <2>1 DEF q0, x
  <2> HIDE DEF q0
  <2>4. \/ /\ UNCHANGED faults
           /\ Step(p, IF n = l.Grow_incr /\ Matches(p, l.Woffset, n)
                      THEN [q0 EXCEPT !.pc = "cfile"] ELSE HandleError(q0, "cfile"))
        \/ Fault /\ Step(p, HandleError([l EXCEPT !.pos = l.Woffset], "cfile"))
    BY <2>2, <2>3 DEF CheckWriteRead, l
  <2> QED BY <2>1, <2>4
<1> QED BY <1>9, <1>10, <1>11, <1>12 DEF c

\* check_file() up to its read: the turn, the lock and the size of the file.
LEMMA CheckFileSizeDoes ==
  ASSUME L1, NEW p \in Procs, CheckFileSize(p)
  PROVE  LET r == pr[p]
             s == pr'[p]
             c == data[r.ino] IN
         /\ r.pc = "cfile" /\ s \in Copies /\ s.ind = r.ind /\ s.ino = r.ino
         /\ s.pos = r.pos /\ s.Woffset = r.Woffset
         /\ s.Grow_incr = r.Grow_incr /\ s.count = r.count
         /\ s.bytes_consumed = r.bytes_consumed
         /\ \/ /\ s.pc = "shrink" /\ (s.lk = r.lk \/ s.lk = Locked(r, "un"))
               /\ s.Errors = r.Errors /\ UNCHANGED faults
            \/ /\ ~no_file_check /\ lkfile(p, "sh", 1) /\ s.pc = "cfread"
               /\ s.lk = Locked(r, "sh") /\ s.fsize = Len(c)
               /\ s.Errors = r.Errors /\ UNCHANGED faults
            \/ /\ s.pc = "shrink" \/ (s.pc = "notify" /\ s.status = 1)
               /\ s.lk = Locked(r, "un") \/ s.lk = Locked(r, "sh")
               /\ s.Errors = r.Errors + 1 /\ lkfile(p, "sh", 1) /\ Fault
         /\ \A q \in Procs \ {p} : pr'[q] = pr[q]
         /\ UNCHANGED <<set, name, data, signals>>
<1> DEFINE r == pr[p]
           c == data[r.ino]
           check == Due(file_check_inter, r.count) /\ ~no_file_check
           Same(s) == /\ s \in Copies /\ s.ind = r.ind /\ s.ino = r.ino
                      /\ s.pos = r.pos /\ s.Woffset = r.Woffset
                      /\ s.Grow_incr = r.Grow_incr /\ s.count = r.count
                      /\ s.bytes_consumed = r.bytes_consumed
<1>0. r.pc = "cfile" /\ r \in Copies /\ UNCHANGED <<set, name, data, signals>>
  BY CopyType DEF L1, CheckFileSize
<1>1. Size(p) = Len(c) /\ Size(p) \in Nat
  <2>1. pr[p].pc \in VisitPcs
    BY <1>0 DEF VisitPcs
  <2> QED BY <2>1, FileType
<1>2. \A s : Step(p, s) => pr'[p] = s /\ \A q \in Procs \ {p} : pr'[q] = pr[q]
  BY StepOnly DEF L1
<1>3. {"shrink", "cfread"} \subseteq Pcs
  BY PcsAre
<1>4. ASSUME NEW kind \in {"un", "sh"}
      PROVE  LET l == Lk(r, kind, 1) IN
             Same(l) /\ l.lk = Locked(r, kind) /\ l.Errors = r.Errors
  BY <1>0, LkOK DEF Locked
<1> HIDE DEF c, check
<1>5. CASE Step(p, [r EXCEPT !.pc = "shrink"]) /\ UNCHANGED faults
  <2> DEFINE s == [r EXCEPT !.pc = "shrink"]
  <2>1. pr'[p] = s /\ \A q \in Procs \ {p} : pr'[q] = pr[q]
    BY <1>2, <1>5
  <2>2. Same(s) /\ s.pc = "shrink" /\ s.lk = r.lk /\ s.Errors = r.Errors
    BY <1>0, <1>3 DEF Copies
  <2> HIDE DEF s
  <2> QED BY <1>0, <1>5, <2>1, <2>2
<1>6. CASE Step(p, [Lk(r, "un", 1) EXCEPT !.pc = "shrink"]) /\ UNCHANGED faults
  <2> DEFINE l == Lk(r, "un", 1)
             s == [l EXCEPT !.pc = "shrink"]
  <2>1. pr'[p] = s /\ \A q \in Procs \ {p} : pr'[q] = pr[q]
    BY <1>2, <1>6
  <2>2. Same(l) /\ l.lk = Locked(r, "un") /\ l.Errors = r.Errors
    BY <1>4
  <2> HIDE DEF l
  <2>3. Same(s) /\ s.pc = "shrink" /\ s.lk = l.lk /\ s.Errors = l.Errors
    BY <1>3, <2>2 DEF Copies
  <2> HIDE DEF s
  <2> QED BY <1>0, <1>6, <2>1, <2>2, <2>3
<1>7. CASE /\ check /\ lkfile(p, "sh", 1) /\ UNCHANGED faults
           /\ Step(p, [Lk(r, "sh", 1) EXCEPT !.pc = "cfread", !.fsize = Size(p)])
  <2> DEFINE l == Lk(r, "sh", 1)
             z == Size(p)
             s == [l EXCEPT !.pc = "cfread", !.fsize = z]
  <2>1. pr'[p] = s /\ \A q \in Procs \ {p} : pr'[q] = pr[q]
    BY <1>2, <1>7
  <2>2. Same(l) /\ l.lk = Locked(r, "sh") /\ l.Errors = r.Errors
    BY <1>4
  <2>3. z \in Nat /\ z = Len(c)
    BY <1>1
  <2> HIDE DEF l, z
  <2>4. Same(s) /\ s.pc = "cfread" /\ s.lk = l.lk /\ s.Errors = l.Errors /\ s.fsize = z
    BY <1>3, <2>2, <2>3 DEF Copies
  <2> HIDE DEF s
  <2> QED BY <1>0, <1>7, <2>1, <2>2, <2>3, <2>4 DEF c, check
<1>8. ASSUME NEW lk \in {"un", "sh"}, Fault, lkfile(p, "sh", 1),
             Step(p, HandleError(Lk(r, lk, 1), "shrink"))
      PROVE  /\ Same(pr'[p]) /\ pr'[p].lk = Locked(r, lk) /\ pr'[p].Errors = r.Errors + 1
             /\ pr'[p].pc = "shrink" \/ (pr'[p].pc = "notify" /\ pr'[p].status = 1)
             /\ \A q \in Procs \ {p} : pr'[q] = pr[q]
  <2> DEFINE l == Lk(r, lk, 1)
             s == HandleError(l, "shrink")
  <2>1. pr'[p] = s /\ \A q \in Procs \ {p} : pr'[q] = pr[q]
    BY <1>2, <1>8
  <2>2. Same(l) /\ l.lk = Locked(r, lk) /\ l.Errors = r.Errors
    BY <1>4
  <2> HIDE DEF l
  <2>3. "shrink" \in Pcs
    BY <1>3
  <2>4. /\ Same(s) /\ s.lk = l.lk /\ s.Errors = l.Errors + 1
        /\ s.pc = "shrink" \/ (s.pc = "notify" /\ s.status = 1)
    BY <2>2, <2>3, HandleErrorOK
  <2> HIDE DEF s
  <2> QED BY <2>1, <2>2, <2>4
<1>9. CASE \E lk \in {"un", "sh"} :
             /\ Fault /\ lkfile(p, "sh", 1)
             /\ Step(p, HandleError(Lk(r, lk, 1), "shrink"))
  <2>1. PICK lk \in {"un", "sh"} :
               /\ Fault /\ lkfile(p, "sh", 1)
               /\ Step(p, HandleError(Lk(r, lk, 1), "shrink"))
    BY <1>9
  <2>2. /\ Same(pr'[p]) /\ pr'[p].lk = Locked(r, lk) /\ pr'[p].Errors = r.Errors + 1
        /\ pr'[p].pc = "shrink" \/ (pr'[p].pc = "notify" /\ pr'[p].status = 1)
        /\ \A q \in Procs \ {p} : pr'[q] = pr[q]
    BY <1>8, <2>1
  <2>3. pr'[p].lk = Locked(r, "un") \/ pr'[p].lk = Locked(r, "sh")
    BY <2>2
  <2> QED BY <1>0, <2>1, <2>2, <2>3
<1>10. \/ ~check /\ Step(p, [r EXCEPT !.pc = "shrink"]) /\ UNCHANGED faults
       \/ /\ check /\ lkfile(p, "sh", 1) /\ UNCHANGED faults
          /\ Step(p, IF Size(p) = 0 THEN [Lk(r, "un", 1) EXCEPT !.pc = "shrink"]
                     ELSE [Lk(r, "sh", 1) EXCEPT !.pc = "cfread", !.fsize = Size(p)])
       \/ /\ check /\ lkfile(p, "sh", 1) /\ Fault
          /\ \E lk \in {"un"} \cup (IF Size(p) = 0 THEN {} ELSE {"sh"}) :
               Step(p, HandleError(Lk(r, lk, 1), "shrink"))
  BY DEF CheckFileSize, check
<1> QED BY <1>5, <1>6, <1>7, <1>9, <1>10 DEF c

\* check_file() reads the whole file and compares it.
LEMMA CheckFileReadDoes ==
  ASSUME L1, NEW p \in Procs, CheckFileRead(p)
  PROVE  LET r == pr[p]
             s == pr'[p]
             c == data[r.ino] IN
         /\ r.pc = "cfread" /\ s \in Copies /\ s.ind = r.ind /\ s.ino = r.ino
         /\ s.lk = Locked(r, "un") /\ s.fsize = r.fsize /\ s.Woffset = r.Woffset
         /\ s.Grow_incr = r.Grow_incr /\ s.count = r.count
         /\ s.bytes_consumed = r.bytes_consumed
         /\ \/ /\ s.pc = "shrink" /\ s.Errors = r.Errors /\ UNCHANGED faults
               /\ s.pos = r.fsize /\ r.fsize <= Len(c)
            \/ /\ ~(r.fsize <= Len(c) /\ Matches(p, 0, r.fsize))
               /\ s.pc = "shrink" \/ (s.pc = "notify" /\ s.status = 1)
               /\ s.Errors = r.Errors + 1 /\ UNCHANGED faults
               /\ r.fsize <= Len(c) => s.pos = r.fsize
            \/ /\ s.pc = "shrink" \/ (s.pc = "notify" /\ s.status = 1)
               /\ s.Errors = r.Errors + 1 /\ Fault
         /\ \A q \in Procs \ {p} : pr'[q] = pr[q]
         /\ UNCHANGED <<set, name, data, signals>>
<1> DEFINE r == pr[p]
           c == data[r.ino]
           l == Lk(r, "un", 1)
           n == Min({r.fsize, Size(p)})
           q0 == [l EXCEPT !.pos = n]
           Same(s) == /\ s \in Copies /\ s.ind = r.ind /\ s.ino = r.ino
                      /\ s.lk = Locked(r, "un") /\ s.fsize = r.fsize
                      /\ s.Woffset = r.Woffset /\ s.Grow_incr = r.Grow_incr
                      /\ s.count = r.count /\ s.bytes_consumed = r.bytes_consumed
                     
<1>0. r \in Copies /\ UNCHANGED <<set, name, data, signals>>
  BY CopyType DEF L1, CheckFileRead
<1>1. Same(l) /\ l.pc = r.pc /\ l.Errors = r.Errors
  BY <1>0, LkOK DEF Locked
<1>2. r.pc = "cfread"
  <2>1. l.pc = "cfread"
    BY DEF CheckFileRead
  <2> QED BY <1>1, <2>1
<1>3. r.fsize \in Nat /\ Size(p) = Len(c) /\ Size(p) \in Nat
  <2>1. pr[p].pc \in VisitPcs
    BY <1>2 DEF VisitPcs
  <2> QED BY <2>1, FileType, CopyType DEF L1
<1>4. /\ n \in Nat /\ n <= Len(c) /\ (n = r.fsize => r.fsize <= Len(c))
      /\ (r.fsize <= Len(c) => n = r.fsize)
  <2> DEFINE f == r.fsize
             z == Size(p)
  <2>1. f \in Nat /\ z \in Nat /\ z = Len(c)
    BY <1>3
  <2>2. n = Min({f, z})
    OBVIOUS
  <2> HIDE DEF f, z, c, n
  <2>3. n = IF f <= z THEN f ELSE z
    BY <2>1, <2>2, MinTwo
  <2>4. /\ n \in Nat /\ n <= z /\ (n = f => f <= z) /\ (f <= z => n = f)
    BY <2>1, <2>3
  <2> QED BY <2>1, <2>4 DEF f
<1> HIDE DEF n
<1>5. \A s : Step(p, s) => pr'[p] = s /\ \A q \in Procs \ {p} : pr'[q] = pr[q]
  BY StepOnly DEF L1
<1>6. "shrink" \in Pcs
  BY PcsAre
<1> HIDE DEF l, c
<1>7. Same(q0) /\ q0.pos = n /\ q0.Errors = r.Errors
  BY <1>1, <1>4 DEF Copies
<1> HIDE DEF q0
<1>8. CASE /\ n = r.fsize /\ Matches(p, 0, n) /\ UNCHANGED faults
           /\ Step(p, [q0 EXCEPT !.pc = "shrink"])
  <2> DEFINE s == [q0 EXCEPT !.pc = "shrink"]
  <2>1. pr'[p] = s /\ \A q \in Procs \ {p} : pr'[q] = pr[q]
    BY <1>5, <1>8
  <2>2. Same(s) /\ s.pc = "shrink" /\ s.pos = n /\ s.Errors = r.Errors
    BY <1>6, <1>7 DEF Copies
  <2> HIDE DEF s
  <2> QED BY <1>0, <1>2, <1>4, <1>8, <2>1, <2>2 DEF c
<1>9. CASE /\ ~(n = r.fsize /\ Matches(p, 0, n)) /\ UNCHANGED faults
           /\ Step(p, HandleError(q0, "shrink"))
  <2> DEFINE s == HandleError(q0, "shrink")
  <2>1. pr'[p] = s /\ \A q \in Procs \ {p} : pr'[q] = pr[q]
    BY <1>5, <1>9
  <2>2. /\ Same(s) /\ s.pos = n /\ s.Errors = r.Errors + 1
        /\ s.pc = "shrink" \/ (s.pc = "notify" /\ s.status = 1)
    BY <1>6, <1>7, HandleErrorOK
  <2>3. ~(r.fsize <= Len(c) /\ Matches(p, 0, r.fsize))
    BY <1>4, <1>9
  <2> HIDE DEF s
  <2> QED BY <1>0, <1>2, <1>4, <1>9, <2>1, <2>2, <2>3 DEF c
<1>10. CASE Fault /\ Step(p, HandleError([l EXCEPT !.pos = 0], "shrink"))
  <2> DEFINE e == [l EXCEPT !.pos = 0]
             s == HandleError(e, "shrink")
  <2>1. pr'[p] = s /\ \A q \in Procs \ {p} : pr'[q] = pr[q]
    BY <1>5, <1>10
  <2>2. Same(e) /\ e.Errors = r.Errors
    BY <1>1 DEF Copies
  <2> HIDE DEF e
  <2>3. /\ Same(s) /\ s.Errors = r.Errors + 1
        /\ s.pc = "shrink" \/ (s.pc = "notify" /\ s.status = 1)
    BY <1>6, <2>2, HandleErrorOK
  <2> HIDE DEF s
  <2> QED BY <1>0, <1>2, <1>10, <2>1, <2>3
<1>11. \/ /\ UNCHANGED faults
          /\ Step(p, IF n = r.fsize /\ Matches(p, 0, n)
                     THEN [q0 EXCEPT !.pc = "shrink"] ELSE HandleError(q0, "shrink"))
       \/ Fault /\ Step(p, HandleError([l EXCEPT !.pos = 0], "shrink"))
  <2>1. l.fsize = r.fsize
    BY <1>1
  <2>2. n = Min({l.fsize, Size(p)})
    BY <2>1 DEF n
  <2>3. q0 = [l EXCEPT !.pos = n]
    BY DEF q0
  <2> HIDE DEF q0
  <2>4. \/ /\ UNCHANGED faults
           /\ Step(p, IF n = l.fsize /\ Matches(p, 0, n)
                      THEN [q0 EXCEPT !.pc = "shrink"] ELSE HandleError(q0, "shrink"))
        \/ Fault /\ Step(p, HandleError([l EXCEPT !.pos = 0], "shrink"))
    BY <2>2, <2>3 DEF CheckFileRead, l
  <2> QED BY <2>1, <2>4
<1> QED BY <1>8, <1>9, <1>10, <1>11 DEF c

\* shrinkfile() truncates where it is its turn, and counts what it takes away.
LEMMA ShrinkDoes ==
  ASSUME L1, NEW p \in Procs, shrinkfile(p)
  PROVE  LET r == pr[p]
             s == pr'[p]
             c == data[r.ino] IN
         /\ r.pc = "shrink" /\ s \in Copies /\ s.ind = r.ind /\ s.ino = r.ino
         /\ s.lk = r.lk \/ s.lk = Locked(r, "un")
        
         /\ \/ /\ s.pc = "close" /\ Account(r, s) /\ UNCHANGED <<data, faults>>
            \/ /\ s.pc = "close" /\ s.Errors = r.Errors /\ UNCHANGED faults
               /\ Due(set.trunc_inter, r.count)
               /\ \E n \in NewSizes(p) \cap Nat :
                    /\ FileBecomes(r.ino, TruncateTo(c, n))
                    /\ s.bytes_consumed = r.bytes_consumed - (r.pos - n)
            \/ /\ s.pc = "close" \/ (s.pc = "notify" /\ s.status = 1)
               /\ s.Errors = r.Errors + 1 /\ Fault /\ UNCHANGED data
         /\ \A q \in Procs \ {p} : pr'[q] = pr[q]
         /\ UNCHANGED <<set, name, signals>>
<1> DEFINE r == pr[p]
           c == data[r.ino]
           e == [r EXCEPT !.pc = "close"]
           l == Lk(e, "un", 1)
           Same(s) == s \in Copies /\ s.ind = r.ind /\ s.ino = r.ino
<1>0. r.pc = "shrink" /\ r \in Copies /\ UNCHANGED <<set, name, signals>>
  BY CopyType DEF L1, shrinkfile
<1>1. /\ r.ino \in 1 .. Len(data) /\ c \in Seq(Byte) /\ Size(p) \in Nat
      /\ r.pos \in Nat /\ r.bytes_consumed \in Int
  <2>1. pr[p].pc \in VisitPcs
    BY <1>0 DEF VisitPcs
  <2> QED BY <2>1, FileType, CopyType DEF L1
<1>2. \A s : Step(p, s) => pr'[p] = s /\ \A q \in Procs \ {p} : pr'[q] = pr[q]
  BY StepOnly DEF L1
<1>3. "close" \in Pcs
  BY PcsAre
<1>4. /\ Same(e) /\ e.pc = "close" /\ e.lk = r.lk /\ e.Errors = r.Errors
      /\ e.bytes_consumed = r.bytes_consumed /\ e.count = r.count /\ e.pos = r.pos
  BY <1>0, <1>3 DEF Copies
<1>5. Locked(e, "un") = Locked(r, "un")
  BY <1>4 DEF Locked
<1> HIDE DEF e
<1>6. /\ Same(l) /\ l.pc = "close" /\ l.lk = Locked(r, "un") /\ l.Errors = r.Errors
      /\ l.bytes_consumed = r.bytes_consumed /\ l.count = r.count /\ l.pos = r.pos
  BY <1>4, <1>5, LkOK DEF Locked
<1> HIDE DEF c
<1>7. CASE Step(p, e) /\ UNCHANGED <<data, faults>>
  <2>1. pr'[p] = e /\ \A q \in Procs \ {p} : pr'[q] = pr[q]
    BY <1>2, <1>7
  <2> QED BY <1>0, <1>4, <1>7, <2>1 DEF Account
<1>8. ASSUME NEW n \in NewSizes(p),
             data' = [data EXCEPT ![l.ino] = TruncateTo(@, n)],
             Step(p, [l EXCEPT !.bytes_consumed = @ - Released(l, n)])
      PROVE  /\ n \in Nat /\ FileBecomes(r.ino, TruncateTo(c, n))
             /\ Same(pr'[p]) /\ pr'[p].pc = "close" /\ pr'[p].lk = Locked(r, "un")
             /\ pr'[p].Errors = r.Errors
             /\ pr'[p].bytes_consumed = r.bytes_consumed - (r.pos - n)
             /\ \A q \in Procs \ {p} : pr'[q] = pr[q]
  <2>1. n \in Nat
    <3>1. max_lseek \in Nat /\ trunc_incr \in Nat /\ set.min_lseek \in Nat
      BY SetType, GrowfilesAssumption DEF L1
    <3> QED BY <1>1, <3>1, NewSizesAre
  <2> DEFINE x == TruncateTo(c, n)
  <2>2. x \in Seq(Byte)
    BY <1>1, <2>1, TruncateToBytes
  <2>3. data' = [data EXCEPT ![r.ino] = x]
    BY <1>6, <1>8 DEF c
  <2>4. FileBecomes(r.ino, x)
    <3> HIDE DEF x
    <3> QED BY <1>1, <2>2, <2>3, FileBecomesOK DEF L1
  <2> DEFINE b == r.bytes_consumed - (r.pos - n)
             s == [l EXCEPT !.bytes_consumed = b]
  <2>5. b \in Int
    BY <1>1, <2>1
  <2>6. l.bytes_consumed - Released(l, n) = b
    BY <1>6 DEF Released
  <2> HIDE DEF b, l
  <2>7. pr'[p] = s /\ \A q \in Procs \ {p} : pr'[q] = pr[q]
    BY <1>2, <1>8, <2>6
  <2>8. Same(s) /\ s.pc = l.pc /\ s.lk = l.lk /\ s.Errors = l.Errors /\ s.bytes_consumed = b
    BY <1>6, <2>5 DEF Copies
  <2> HIDE DEF s
  <2> QED BY <1>6, <2>1, <2>4, <2>7, <2>8 DEF b
<1>9. CASE /\ Due(set.trunc_inter, l.count) /\ UNCHANGED faults
           /\ \E n \in NewSizes(p) :
                /\ data' = [data EXCEPT ![l.ino] = TruncateTo(@, n)]
                /\ Step(p, [l EXCEPT !.bytes_consumed = @ - Released(l, n)])
  <2>1. PICK n \in NewSizes(p) :
                /\ data' = [data EXCEPT ![l.ino] = TruncateTo(@, n)]
                /\ Step(p, [l EXCEPT !.bytes_consumed = @ - Released(l, n)])
    BY <1>9
  <2>2. /\ n \in Nat /\ FileBecomes(r.ino, TruncateTo(c, n))
        /\ Same(pr'[p]) /\ pr'[p].pc = "close" /\ pr'[p].lk = Locked(r, "un")
        /\ pr'[p].Errors = r.Errors
        /\ pr'[p].bytes_consumed = r.bytes_consumed - (r.pos - n)
        /\ \A q \in Procs \ {p} : pr'[q] = pr[q]
    BY <1>8, <2>1
  <2>3. Due(set.trunc_inter, r.count)
    BY <1>6, <1>9
  <2> HIDE DEF l
  <2> QED BY <1>0, <1>9, <2>1, <2>2, <2>3 DEF c
<1>10. CASE Fault /\ UNCHANGED data /\ Step(p, HandleError(l, "close"))
  <2> DEFINE s == HandleError(l, "close")
  <2>1. pr'[p] = s /\ \A q \in Procs \ {p} : pr'[q] = pr[q]
    BY <1>2, <1>10
  <2> HIDE DEF l
  <2>2. /\ Same(s) /\ s.lk = l.lk /\ s.Errors = l.Errors + 1
        /\ s.pc = "close" \/ (s.pc = "notify" /\ s.status = 1)
    BY <1>3, <1>6, HandleErrorOK
  <2> HIDE DEF s
  <2> QED BY <1>0, <1>6, <1>10, <2>1, <2>2
<1>11. \/ Step(p, e) /\ UNCHANGED <<data, faults>>
       \/ /\ Due(set.trunc_inter, l.count) /\ UNCHANGED faults
          /\ \E n \in NewSizes(p) :
               /\ data' = [data EXCEPT ![l.ino] = TruncateTo(@, n)]
               /\ Step(p, [l EXCEPT !.bytes_consumed = @ - Released(l, n)])
       \/ Fault /\ UNCHANGED data /\ Step(p, HandleError(l, "close"))
  BY DEF shrinkfile, e
<1> HIDE DEF l
<1> QED BY <1>7, <1>9, <1>10, <1>11 DEF c

\* notify_others() and sig_handler() leave what the copy knows as it is.
LEMMA EndDoes ==
  ASSUME L1, NEW p \in Procs, notify_others(p) \/ sig_handler(p)
  PROVE  LET r == pr[p]
             s == pr'[p] IN
         /\ s \in Copies /\ s.ind = r.ind /\ Place(r, s) /\ Account(r, s)
         /\ \/ /\ r.pc = "notify" /\ s.pc = "cleanup" /\ s.status = r.status
               /\ s.sig = r.sig
            \/ /\ r.pc # "exit" /\ s.pc = "notify"
               /\ s.status = 2 \/ s.sig = "SIGINT"
         /\ \A q \in Procs \ {p} : pr'[q] = pr[q]
         /\ signals' \in SUBSET Procs
         /\ UNCHANGED <<set, name, data, faults>>
<1> DEFINE r == pr[p]
<1>0. r \in Copies /\ signals \in SUBSET Procs
  BY CopyType DEF L1, TypeInv
<1>1. \A s : Step(p, s) => pr'[p] = s /\ \A q \in Procs \ {p} : pr'[q] = pr[q]
  BY StepOnly DEF L1
<1>2. {"cleanup", "notify"} \subseteq Pcs
  BY PcsAre
<1>3. CASE notify_others(p)
  <2> DEFINE t == r.told \/ set.y
             s == [r EXCEPT !.pc = "cleanup", !.told = t]
  <2>1. /\ r.pc = "notify" /\ Step(p, s) /\ UNCHANGED <<set, name, data, faults>>
    BY <1>3 DEF notify_others
  <2>2. signals' \in SUBSET Procs
    <3>1. Forker_pids(p) \subseteq Procs
      BY GrowfilesAssumption DEF Forker_pids, Procs
    <3> QED BY <1>0, <1>3, <3>1 DEF notify_others
  <2>3. t \in BOOLEAN
    OBVIOUS
  <2>4. pr'[p] = s /\ \A q \in Procs \ {p} : pr'[q] = pr[q]
    BY <1>1, <2>1
  <2> HIDE DEF t
  <2>5. /\ s \in Copies /\ s.ind = r.ind /\ Place(r, s) /\ Account(r, s)
        /\ s.pc = "cleanup" /\ s.status = r.status /\ s.sig = r.sig
    BY <1>0, <1>2, <2>3 DEF Copies, Place, Account
  <2> HIDE DEF s
  <2> QED BY <2>1, <2>2, <2>4, <2>5
<1>4. CASE sig_handler(p)
  <2>1. ASSUME NEW k \in Nat, NEW sig \in Sigs \ {"none"},
               Step(p, Handled([r EXCEPT !.kills = k], sig))
        PROVE  /\ pr'[p] \in Copies /\ pr'[p].ind = r.ind /\ Place(r, pr'[p])
               /\ Account(r, pr'[p]) /\ pr'[p].pc = "notify"
               /\ pr'[p].status = 2 \/ pr'[p].sig = "SIGINT"
               /\ \A q \in Procs \ {p} : pr'[q] = pr[q]
    <3> DEFINE st == IF sig = "SIGINT" THEN 0 ELSE 2
               s == [r EXCEPT !.kills = k, !.pc = "notify", !.sig = sig, !.status = st]
    <3>1. st \in 0 .. 2 /\ (st = 2 \/ sig = "SIGINT")
      OBVIOUS
    <3>2. pr'[p] = s /\ \A q \in Procs \ {p} : pr'[q] = pr[q]
      BY <1>1, <2>1 DEF Handled
    <3> HIDE DEF st
    <3>3. /\ s \in Copies /\ s.ind = r.ind /\ Place(r, s) /\ Account(r, s)
          /\ s.pc = "notify" /\ s.status = st /\ s.sig = sig
      BY <1>0, <1>2, <3>1 DEF Copies, Place, Account
    <3> HIDE DEF s
    <3> QED BY <3>1, <3>2, <3>3
  <2>2. /\ r.pc # "exit" /\ UNCHANGED <<set, name, data, faults>>
        /\ signals' \in SUBSET Procs
    BY <1>0, <1>4 DEF sig_handler
  <2>3. \E k \in Nat : \E sig \in Sigs \ {"none"} :
          Step(p, Handled([r EXCEPT !.kills = k], sig))
    <3>1. r.kills \in Nat /\ r.kills + 1 \in Nat /\ [r EXCEPT !.kills = r.kills] = r
      BY <1>0 DEF Copies
    <3>2. CASE Step(p, Handled(r, "SIGUSR2"))
      <4>1. Step(p, Handled([r EXCEPT !.kills = r.kills], "SIGUSR2"))
        BY <3>1, <3>2
      <4> QED BY <3>1, <4>1 DEF Sigs
    <3>3. CASE \E sig \in {"SIGINT", "SIGTERM"} :
                 Step(p, Handled([r EXCEPT !.kills = @ + 1], sig))
      <4>1. PICK sig \in {"SIGINT", "SIGTERM"} :
                   Step(p, Handled([r EXCEPT !.kills = r.kills + 1], sig))
        BY <3>3
      <4> QED BY <3>1, <4>1 DEF Sigs
    <3> QED BY <1>4, <3>2, <3>3 DEF sig_handler
  <2> QED BY <2>1, <2>2, <2>3
<1> QED BY <1>3, <1>4

\* The exit, with the files removed where that was asked for.
LEMMA ExitDoes ==
  ASSUME L1, NEW p \in Procs, Exit(p)
  PROVE  LET r == pr[p]
             s == pr'[p] IN
         /\ r.pc = "cleanup" /\ s.pc = "exit" /\ s \in Copies /\ s.ind = r.ind
         /\ s.ino = 0 /\ s.lk = "un" /\ Account(r, s) /\ s.status = r.status
         /\ s.sig = r.sig
         /\ \A q \in Procs \ {p} : pr'[q] = pr[q]
         /\ name' = name \/ name' = [f \in Files |-> 0]
         /\ signals' \in SUBSET Procs
         /\ UNCHANGED <<set, data, faults>>
<1> DEFINE r == pr[p]
           c == Closed(r)
           s == [c EXCEPT !.pc = "exit", !.iter = 0, !.count = 0]
<1>0. r \in Copies /\ signals \in SUBSET Procs
  BY CopyType DEF L1, TypeInv
<1>1. /\ r.pc = "cleanup" /\ Step(p, s) /\ UNCHANGED <<set, data, faults>>
      /\ name' = name \/ name' = [f \in Files |-> 0]
      /\ signals' \in SUBSET Procs
  BY <1>0 DEF Exit, cleanup
<1>2. pr'[p] = s /\ \A q \in Procs \ {p} : pr'[q] = pr[q]
  BY <1>1, StepOnly DEF L1
<1>3. /\ c \in Copies /\ c.ino = 0 /\ c.lk = "un" /\ c.ind = r.ind
      /\ Account(r, c) /\ c.status = r.status /\ c.sig = r.sig
  BY <1>0, ClosedOK DEF Account
<1>4. "exit" \in Pcs
  BY PcsAre
<1> HIDE DEF c
<1>5. /\ s \in Copies /\ s.pc = "exit" /\ s.ino = 0 /\ s.lk = "un" /\ s.ind = r.ind
      /\ Account(c, s) /\ s.status = r.status /\ s.sig = c.sig
  BY <1>3, <1>4 DEF Copies, Account
<1> HIDE DEF s
<1> QED BY <1>1, <1>2, <1>3, <1>5 DEF Account

-----------------------------------------------------------------------------
(* The types and the locks are kept.                                       *)

\* Every action changes the record of one copy.
LEMMA OneCopy ==
  ASSUME TypeInv, NEW p \in Procs, Work(p) \/ sig_handler(p)
  PROVE  pr' = [pr EXCEPT ![p] = pr'[p]]
<1>1. ASSUME NEW s, Step(p, s) PROVE pr' = [pr EXCEPT ![p] = pr'[p]]
  BY <1>1 DEF Step, TypeInv
<1>2. CASE Stop(p) \/ Iterate(p) \/ GrowFailed(p) \/ Close(p) \/ Unlink(p)
  BY <1>1, <1>2 DEF Stop, Iterate, GrowFailed, Close, Unlink
<1>3. CASE Open(p)
  BY <1>1, <1>3 DEF Open
<1>4. CASE Visit(p)
  BY <1>1, <1>4 DEF Visit
<1>5. CASE Fstat(p)
  BY <1>1, <1>5 DEF Fstat
<1>6. CASE Seek(p)
  BY <1>1, <1>6 DEF Seek
<1>7. CASE Write(p)
  BY <1>1, <1>7 DEF Write
<1>8. CASE CheckWriteSize(p) \/ CheckWriteRead(p)
  BY <1>1, <1>8 DEF CheckWriteSize, CheckWriteRead
<1>9. CASE CheckFileSize(p)
  BY <1>1, <1>9 DEF CheckFileSize
<1>10. CASE CheckFileRead(p)
  BY <1>1, <1>10 DEF CheckFileRead
<1>11. CASE shrinkfile(p)
  BY <1>1, <1>11 DEF shrinkfile
<1>12. CASE notify_others(p) \/ Exit(p)
  BY <1>1, <1>12 DEF notify_others, Exit
<1>13. CASE sig_handler(p)
  BY <1>1, <1>13 DEF sig_handler
<1> QED BY <1>2, <1>3, <1>4, <1>5, <1>6, <1>7, <1>8, <1>9, <1>10, <1>11, <1>12, <1>13
        DEF Work

\* A lock that the copy gives up, keeps, or was granted.
LockStep(p) ==
  \/ pr'[p].lk = "un"
  \/ pr'[p].ino = pr[p].ino /\ pr'[p].lk = pr[p].lk
  \/ /\ pr'[p].ino = pr[p].ino
     /\ \A q \in Procs \ {p} :
          pr[q].ino = pr[p].ino =>
            pr[q].lk = "un" \/ (pr'[p].lk = "sh" /\ pr[q].lk = "sh")

\* What an action must do for types and locks to be kept.
LEMMA L1Step ==
  ASSUME L1, NEW p \in Procs, set' = set, pr' = [pr EXCEPT ![p] = pr'[p]],
         pr'[p] \in Copies, data' \in Seq(Seq(Byte)), Len(data') >= Len(data),
         name' \in [Files -> 0 .. Len(data')], signals' \in SUBSET Procs,
         faults' \in 0 .. MaxFaults, CopyOK(pr'[p], Len(data')), LockStep(p)
  PROVE  L1'
<1>0. \A q \in Procs \ {p} : pr'[q] = pr[q]
  BY DEF L1, TypeInv
<1>1. pr' \in [Procs -> Copies]
  BY DEF L1, TypeInv
<1>2. Files' = Files
  BY DEF Files
<1>3. TypeInv'
  BY <1>1, <1>2 DEF L1, TypeInv
<1>4. ASSUME NEW q \in Procs PROVE CopyOK(pr[q], Len(data))
  BY DEF L1, LockInv
<1>5. ASSUME NEW q \in Procs PROVE CopyOK(pr[q], Len(data'))
  <2>1. Len(data) \in Nat /\ Len(data') \in Nat /\ pr[q].ino \in 0 .. Len(data)
    BY <1>4 DEF CopyOK, L1, TypeInv
  <2>2. pr[q].ino \in 0 .. Len(data')
    BY <2>1
  <2> QED BY <1>4, <2>2 DEF CopyOK
<1>6. ASSUME NEW q \in Procs PROVE CopyOK(pr'[q], Len(data'))
  BY <1>0, <1>5
<1>7. ASSUME NEW q \in Procs PROVE CopyOK(pr[q], Len(data))'
  BY <1>2, <1>6 DEF CopyOK
<1>8. Excl'
  <2> SUFFICES ASSUME NEW a \in Procs, NEW b \in Procs, a # b,
                      pr'[a].ino = pr'[b].ino, pr'[a].ino # 0, pr'[a].lk = "ex"
               PROVE  pr'[b].lk = "un"
    BY DEF Excl
  <2>0. pr[p].lk \in {"un", "sh", "ex"} /\ pr[b].lk \in {"un", "sh", "ex"}
        /\ pr'[p].lk \in {"un", "sh", "ex"}
    BY DEF L1, TypeInv, Copies
  <2>1. CASE a = p
    <3>1. b # p /\ pr'[b] = pr[b]
      BY <1>0, <2>1
    <3> QED BY <2>1, <3>1 DEF LockStep, L1, LockInv, Excl
  <2>2. CASE b = p
    <3>1. a # p /\ pr'[a] = pr[a]
      BY <1>0, <2>2
    <3> QED BY <2>0, <2>2, <3>1 DEF LockStep, L1, LockInv, Excl
  <2>3. CASE a # p /\ b # p
    <3>1. pr'[a] = pr[a] /\ pr'[b] = pr[b]
      BY <1>0, <2>3
    <3> QED BY <3>1 DEF L1, LockInv, Excl
  <2> QED BY <2>1, <2>2, <2>3
<1> QED BY <1>3, <1>7, <1>8 DEF L1, LockInv

\* What every action starts from.
LEMMA Before ==
  ASSUME L1, NEW p \in Procs
  PROVE  /\ data \in Seq(Seq(Byte)) /\ Len(data) \in Nat
         /\ name \in [Files -> 0 .. Len(data)]
         /\ signals \in SUBSET Procs /\ faults \in 0 .. MaxFaults /\ MaxFaults \in Nat
         /\ CopyOK(pr[p], Len(data)) /\ pr[p].ind \in Files
         /\ pr[p].ino \in 0 .. Len(data) /\ set.lockfile \in 0 .. 2
  BY GrowfilesAssumption, SetType DEF L1, TypeInv, LockInv, CopyOK

\* A failure that is still allowed.
LEMMA FaultCount ==
  ASSUME L1, Fault
  PROVE  faults' \in 0 .. MaxFaults /\ faults' = faults + 1 /\ faults \in Nat
<1>1. faults \in 0 .. MaxFaults /\ MaxFaults \in Nat
  BY GrowfilesAssumption DEF L1, TypeInv
<1> QED BY <1>1 DEF Fault

\* A step of a copy keeps the types and the locks.
LEMMA L1Next ==
  ASSUME L1, NEW p \in Procs, Work(p) \/ sig_handler(p)
  PROVE  L1'
<1> DEFINE r == pr[p]
           s == pr'[p]
<1>0. /\ pr' = [pr EXCEPT ![p] = pr'[p]]
  BY OneCopy DEF L1
<1>b. /\ data \in Seq(Seq(Byte)) /\ Len(data) \in Nat
      /\ name \in [Files -> 0 .. Len(data)]
      /\ signals \in SUBSET Procs /\ faults \in 0 .. MaxFaults
      /\ CopyOK(r, Len(data)) /\ r.ind \in Files
      /\ r.ino \in 0 .. Len(data) /\ set.lockfile \in 0 .. 2
  BY Before
<1>l. s \in Copies => s.lk \in {"un", "sh", "ex"}
  BY DEF Copies
\* The actions that change no file and no name.
<1>u. ASSUME s \in Copies, UNCHANGED <<set, name, data, signals>>,
             faults' = faults \/ Fault, CopyOK(s, Len(data)), LockStep(p)
      PROVE  L1'
  <2>1. faults' \in 0 .. MaxFaults
    BY <1>b, <1>u, FaultCount
  <2>2. Len(data') >= Len(data)
    BY <1>b, <1>u
  <2> QED BY <1>0, <1>b, <1>u, <2>1, <2>2, L1Step
<1>1. CASE Stop(p)
  <2>1. /\ r.pc = "head" /\ s.pc = "cleanup" /\ s \in Copies /\ s.ind = r.ind
        /\ Place(r, s) /\ UNCHANGED <<set, name, data, signals, faults>>
    BY <1>1, StopDoes
  <2>2. CopyOK(s, Len(data))
    BY <1>b, <2>1 DEF CopyOK, VisitPcs, Place
  <2>3. LockStep(p)
    BY <2>1 DEF LockStep, Place
  <2> QED BY <1>u, <2>1, <2>2, <2>3
<1>2. CASE Iterate(p)
  <2>1. /\ r.pc = "head" /\ s.pc = "open" /\ s \in Copies /\ s.ind \in Files
        /\ Place(r, s) /\ UNCHANGED <<set, name, data, signals, faults>>
    BY <1>2, IterateDoes
  <2>2. CopyOK(s, Len(data))
    BY <1>b, <2>1 DEF CopyOK, VisitPcs, Place
  <2>3. LockStep(p)
    BY <2>1 DEF LockStep, Place
  <2> QED BY <1>u, <2>1, <2>2, <2>3
<1>3. CASE Open(p)
  <2>1. /\ r.pc = "open" /\ s \in Copies /\ s.ind \in Files /\ s.lk = r.lk
        /\ \/ /\ s.pc = "visit" /\ s.pos = 0
              /\ s.ino \in 1 .. Len(data') /\ UNCHANGED faults
              /\ name' = [name EXCEPT ![r.ind] = s.ino]
              /\ data' = data \/ data' = Append(data, <<>>)
           \/ /\ s.pc \in {"open", "head", "notify"} /\ s.ino = r.ino
              /\ UNCHANGED Disk /\ faults' = faults + 1 /\ faults < MaxFaults
        /\ UNCHANGED <<set, signals>>
    BY <1>3, OpenDoes
  <2>2. s.lk = "un"
    BY <1>b, <2>1 DEF CopyOK
  <2>3. LockStep(p)
    BY <2>2 DEF LockStep
  <2>4. CASE /\ s.pc = "visit" /\ s.pos = 0
             /\ s.ino \in 1 .. Len(data') /\ UNCHANGED faults
             /\ name' = [name EXCEPT ![r.ind] = s.ino]
             /\ data' = data \/ data' = Append(data, <<>>)
    <3>1. <<>> \in Seq(Byte)
      OBVIOUS
    <3>2. data' \in Seq(Seq(Byte)) /\ (Len(data') = Len(data) \/ Len(data') = Len(data) + 1)
      <4>1. CASE data' = data
        BY <1>b, <4>1
      <4>2. CASE data' = Append(data, <<>>)
        <5> DEFINE x == <<>>
        <5>1. x \in Seq(Byte) /\ data' = Append(data, x)
          BY <3>1, <4>2
        <5> HIDE DEF x
        <5> QED BY <1>b, <5>1, AppendProperties
      <4> QED BY <2>4, <4>1, <4>2
    <3>3. Len(data') \in Nat /\ Len(data') >= Len(data)
      BY <1>b, <3>2
    <3>4. name' \in [Files -> 0 .. Len(data')]
      <4>1. s.ino \in 0 .. Len(data')
        BY <2>4, <3>3
      <4>2. 0 .. Len(data) \subseteq 0 .. Len(data')
        BY <1>b, <3>3
      <4> QED BY <1>b, <2>4, <4>1, <4>2
    <3>5. s.ino \in 0 .. Len(data') /\ s.ino # 0
      BY <2>4, <3>3
    <3>6. CopyOK(s, Len(data'))
      BY <2>1, <2>2, <2>4, <3>5 DEF CopyOK, VisitPcs
    <3> QED BY <1>0, <1>b, <2>1, <2>3, <2>4, <3>2, <3>3, <3>4, <3>6, L1Step
  <2>5. CASE /\ s.pc \in {"open", "head", "notify"} /\ s.ino = r.ino
             /\ UNCHANGED Disk /\ faults' = faults + 1 /\ faults < MaxFaults
    <3>1. CopyOK(s, Len(data))
      BY <1>b, <2>1, <2>2, <2>5 DEF CopyOK, VisitPcs
    <3> QED BY <1>u, <2>1, <2>3, <2>5, <3>1 DEF Disk, Fault
  <2> QED BY <2>1, <2>4, <2>5
<1>4. CASE Visit(p)
  <2>1. /\ r.pc = "visit" /\ s \in Copies /\ s.ind \in Files
        /\ lkfile(p, "ex", 2) /\ s.pc = "fstat" /\ s.ino = r.ino /\ s.pos = r.pos
        /\ s.lk = (IF set.lockfile = 2 THEN "ex" ELSE r.lk)
        /\ UNCHANGED <<set, name, data, signals, faults>>
    BY <1>4, VisitDoes
  <2>2. CopyOK(s, Len(data))
    BY <1>b, <2>1 DEF CopyOK, VisitPcs
  <2>3. LockStep(p)
    BY <1>b, <2>1 DEF LockStep, lkfile
  <2> QED BY <1>u, <2>1, <2>2, <2>3
<1>5. CASE GrowFailed(p)
  <2>1. /\ r.pc = "gfail" /\ s \in Copies /\ s.ind \in Files
        /\ \/ s.pc \in {"open", "head"} /\ s.ino = 0 /\ s.lk = "un"
           \/ s.pc = "notify" /\ s.ino = r.ino /\ s.lk = r.lk
        /\ UNCHANGED <<set, name, data, signals, faults>>
    BY <1>5, GrowFailedDoes
  <2>2. CopyOK(s, Len(data))
    BY <1>b, <2>1 DEF CopyOK, VisitPcs
  <2>3. LockStep(p)
    BY <2>1 DEF LockStep
  <2> QED BY <1>u, <2>1, <2>2, <2>3
<1>6. CASE Close(p)
  <2>1. /\ r.pc = "close" /\ s \in Copies /\ s.ind \in Files
        /\ s.pc \in {"unlink", "open", "head"} /\ s.ino = 0 /\ s.lk = "un"
        /\ UNCHANGED <<set, name, data, signals, faults>>
    BY <1>6, CloseDoes
  <2>2. CopyOK(s, Len(data))
    BY <1>b, <2>1 DEF CopyOK, VisitPcs
  <2>3. LockStep(p)
    BY <2>1 DEF LockStep
  <2> QED BY <1>u, <2>1, <2>2, <2>3
<1>7. CASE Unlink(p)
  <2>1. /\ r.pc = "unlink" /\ s \in Copies /\ s.ind \in Files
        /\ s.pc \in {"open", "head"} /\ s.ino = r.ino /\ s.lk = r.lk
        /\ name' = [name EXCEPT ![r.ind] = 0]
        /\ UNCHANGED <<set, data, signals, faults>>
    BY <1>7, UnlinkDoes
  <2>2. CopyOK(s, Len(data'))
    BY <1>b, <2>1 DEF CopyOK, VisitPcs
  <2>3. LockStep(p)
    BY <2>1 DEF LockStep
  <2>4. name' \in [Files -> 0 .. Len(data')] /\ Len(data') >= Len(data)
    BY <1>b, <2>1
  <2> QED BY <1>0, <1>b, <2>1, <2>2, <2>3, <2>4, L1Step
<1>8. CASE Fstat(p)
  <2>1. /\ r.pc = "fstat" /\ s \in Copies /\ s.ind = r.ind
        /\ s.ino = r.ino /\ s.lk = r.lk /\ s.pos = r.pos
        /\ \/ /\ UNCHANGED faults /\ s.Grow_incr \in Sizes
              /\ \/ s.Grow_incr = 0 /\ s.pc = "cwrite"
                 \/ s.Grow_incr # 0 /\ s.pc = "seek"
           \/ Fault /\ s.pc = "gfail"
        /\ UNCHANGED <<set, name, data, signals>>
    BY <1>8, FstatDoes
  <2>2. s.pc = "seek" => s.Grow_incr > 0
    <3>1. s.Grow_incr \in Nat
      BY <2>1 DEF Copies
    <3>2. s.pc = "seek" => s.Grow_incr # 0
      BY <2>1
    <3> QED BY <3>1, <3>2
  <2>3. CopyOK(s, Len(data))
    BY <1>b, <2>1, <2>2 DEF CopyOK, VisitPcs
  <2>4. LockStep(p)
    BY <2>1 DEF LockStep
  <2> QED BY <1>u, <2>1, <2>3, <2>4
<1>9. CASE Seek(p)
  <2>1. /\ r.pc = "seek" /\ s \in Copies /\ s.ind = r.ind
        /\ s.ino = r.ino /\ s.Grow_incr = r.Grow_incr
        /\ \/ s.pc = "write" /\ set.lseek = "w" /\ s.lk = r.lk /\ UNCHANGED faults
           \/ /\ s.pc = "write" /\ lkfile(p, "ex", 1)
              /\ s.lk = (IF set.lockfile = 1 THEN "ex" ELSE r.lk) /\ UNCHANGED faults
           \/ s.pc = "write" /\ ~set.append /\ s.lk = r.lk /\ UNCHANGED faults
           \/ s.pc = "gfail" /\ s.lk = r.lk /\ Fault
        /\ UNCHANGED <<set, name, data, signals>>
    BY <1>9, SeekDoes
  <2>2. CopyOK(s, Len(data))
    BY <1>b, <2>1 DEF CopyOK, VisitPcs
  <2>3. LockStep(p)
    BY <2>1 DEF LockStep, lkfile
  <2>4. faults' = faults \/ Fault
    BY <2>1
  <2> QED BY <1>u, <2>1, <2>2, <2>3, <2>4
<1>10. CASE Write(p)
  <2>1. /\ r.pc = "write" /\ s \in Copies /\ s.ind = r.ind /\ s.ino = r.ino
        /\ s.Grow_incr = r.Grow_incr /\ lkfile(p, "ex", 1)
        /\ s.lk = (IF set.lockfile = 1 THEN "un" ELSE r.lk)
           \/ s.lk = (IF set.lockfile = 1 THEN "ex" ELSE r.lk)
        /\ s.pc \in {"cwrite", "gfail", "cleanup"}
        /\ UNCHANGED <<set, name, signals>>
    BY <1>10, WriteDoes
  <2>2. faults' = faults \/ Fault
    BY <1>10, WriteDoes
  <2>3. data' \in Seq(Seq(Byte)) /\ Len(data') = Len(data)
    BY <1>10, <1>b, WriteDoes DEF FileBecomes
  <2>4. CopyOK(s, Len(data'))
    <3>1. set.lockfile = 2 => s.lk = "ex"
      BY <1>b, <2>1 DEF CopyOK, VisitPcs
    <3>2. s.ino # 0 /\ s.ino \in 0 .. Len(data')
      BY <1>b, <2>1, <2>3 DEF CopyOK, VisitPcs
    <3> QED BY <1>b, <2>1, <3>1, <3>2 DEF CopyOK, VisitPcs
  <2>5. LockStep(p)
    BY <2>1 DEF LockStep, lkfile
  <2>6. faults' \in 0 .. MaxFaults
    BY <1>b, <2>2, FaultCount
  <2>7. name' \in [Files -> 0 .. Len(data')] /\ Len(data') >= Len(data)
    BY <1>b, <2>1, <2>3
  <2> QED BY <1>0, <1>b, <2>1, <2>3, <2>4, <2>5, <2>6, <2>7, L1Step
<1>11. CASE CheckWriteSize(p)
  <2>1. /\ r.pc = "cwrite" /\ s \in Copies /\ s.ind = r.ind /\ s.ino = r.ino
        /\ \/ s.lk = r.lk \/ s.lk = Locked(r, "un")
           \/ s.lk = Locked(r, "sh") /\ lkfile(p, "sh", 1)
        /\ s.pc \in {"cfile", "cwread", "notify"}
        /\ faults' = faults \/ Fault
        /\ UNCHANGED <<set, name, data, signals>>
    BY <1>11, CheckWriteSizeDoes
  <2>2. CopyOK(s, Len(data))
    BY <1>b, <2>1 DEF CopyOK, VisitPcs, Locked
  <2>3. LockStep(p)
    BY <2>1 DEF LockStep, lkfile, Locked
  <2> QED BY <1>u, <2>1, <2>2, <2>3
<1>12. CASE CheckWriteRead(p)
  <2>1. /\ r.pc = "cwread" /\ s \in Copies /\ s.ind = r.ind /\ s.ino = r.ino
        /\ s.lk = Locked(r, "un") /\ s.pc \in {"cfile", "notify"}
        /\ faults' = faults \/ Fault
        /\ UNCHANGED <<set, name, data, signals>>
    BY <1>12, CheckWriteReadDoes
  <2>2. CopyOK(s, Len(data))
    BY <1>b, <2>1 DEF CopyOK, VisitPcs, Locked
  <2>3. LockStep(p)
    BY <2>1 DEF LockStep, Locked
  <2> QED BY <1>u, <2>1, <2>2, <2>3
<1>13. CASE CheckFileSize(p)
  <2>1. /\ r.pc = "cfile" /\ s \in Copies /\ s.ind = r.ind /\ s.ino = r.ino
        /\ \/ s.lk = r.lk \/ s.lk = Locked(r, "un")
           \/ s.lk = Locked(r, "sh") /\ lkfile(p, "sh", 1)
        /\ s.pc \in {"shrink", "cfread", "notify"}
        /\ faults' = faults \/ Fault
        /\ UNCHANGED <<set, name, data, signals>>
    BY <1>13, CheckFileSizeDoes
  <2>2. CopyOK(s, Len(data))
    BY <1>b, <2>1 DEF CopyOK, VisitPcs, Locked
  <2>3. LockStep(p)
    BY <2>1 DEF LockStep, lkfile, Locked
  <2> QED BY <1>u, <2>1, <2>2, <2>3
<1>14. CASE CheckFileRead(p)
  <2>1. /\ r.pc = "cfread" /\ s \in Copies /\ s.ind = r.ind /\ s.ino = r.ino
        /\ s.lk = Locked(r, "un") /\ s.pc \in {"shrink", "notify"}
        /\ faults' = faults \/ Fault
        /\ UNCHANGED <<set, name, data, signals>>
    BY <1>14, CheckFileReadDoes
  <2>2. CopyOK(s, Len(data))
    BY <1>b, <2>1 DEF CopyOK, VisitPcs, Locked
  <2>3. LockStep(p)
    BY <2>1 DEF LockStep, Locked
  <2> QED BY <1>u, <2>1, <2>2, <2>3
<1>15. CASE shrinkfile(p)
  <2>1. /\ r.pc = "shrink" /\ s \in Copies /\ s.ind = r.ind /\ s.ino = r.ino
        /\ s.lk = r.lk \/ s.lk = Locked(r, "un")
        /\ s.pc \in {"close", "notify"}
        /\ faults' = faults \/ Fault
        /\ UNCHANGED <<set, name, signals>>
    BY <1>15, ShrinkDoes
  <2>2. data' \in Seq(Seq(Byte)) /\ Len(data') = Len(data)
    BY <1>15, <1>b, ShrinkDoes DEF FileBecomes
  <2>3. CopyOK(s, Len(data'))
    BY <1>b, <2>1, <2>2 DEF CopyOK, VisitPcs, Locked
  <2>4. LockStep(p)
    BY <2>1 DEF LockStep, Locked
  <2>5. faults' \in 0 .. MaxFaults
    BY <1>b, <2>1, FaultCount
  <2>6. name' \in [Files -> 0 .. Len(data')] /\ Len(data') >= Len(data)
    BY <1>b, <2>1, <2>2
  <2> QED BY <1>0, <1>b, <2>1, <2>2, <2>3, <2>4, <2>5, <2>6, L1Step
<1>16. CASE notify_others(p) \/ sig_handler(p)
  <2>1. /\ s \in Copies /\ s.ind = r.ind /\ Place(r, s)
        /\ s.pc \in {"cleanup", "notify"}
        /\ signals' \in SUBSET Procs /\ UNCHANGED <<set, name, data, faults>>
    BY <1>16, EndDoes
  <2>2. CopyOK(s, Len(data'))
    BY <1>b, <2>1 DEF CopyOK, VisitPcs, Place
  <2>3. LockStep(p)
    BY <2>1 DEF LockStep, Place
  <2>4. name' \in [Files -> 0 .. Len(data')] /\ Len(data') >= Len(data)
    BY <1>b, <2>1
  <2> QED BY <1>0, <1>b, <2>1, <2>2, <2>3, <2>4, L1Step
<1>17. CASE Exit(p)
  <2>1. /\ s.pc = "exit" /\ s \in Copies /\ s.ind = r.ind /\ s.ino = 0 /\ s.lk = "un"
        /\ name' = name \/ name' = [f \in Files |-> 0]
        /\ signals' \in SUBSET Procs /\ UNCHANGED <<set, data, faults>>
    BY <1>17, ExitDoes
  <2>2. CopyOK(s, Len(data'))
    BY <1>b, <2>1 DEF CopyOK, VisitPcs
  <2>3. LockStep(p)
    BY <2>1 DEF LockStep
  <2>4. name' \in [Files -> 0 .. Len(data')] /\ Len(data') >= Len(data)
    <3>1. 0 \in 0 .. Len(data)
      BY <1>b
    <3> QED BY <1>b, <2>1, <3>1
  <2> QED BY <1>0, <1>b, <2>1, <2>2, <2>3, <2>4, L1Step
<1> QED BY <1>1, <1>2, <1>3, <1>4, <1>5, <1>6, <1>7, <1>8, <1>9, <1>10, <1>11, <1>12,
           <1>13, <1>14, <1>15, <1>16, <1>17 DEF Work

-----------------------------------------------------------------------------
(* What a step of one copy is to the others.                               *)

\* A step writes to no file but the one that its copy has open, and only where
\* it writes or truncates; a file that it makes is empty.
LEMMA Touched ==
  ASSUME L1, NEW p \in Procs, Work(p) \/ sig_handler(p)
  PROVE  /\ set' = set /\ \A q \in Procs \ {p} : pr'[q] = pr[q]
         /\ Len(data) \in Nat /\ Len(data') \in Nat /\ Len(data') >= Len(data)
         /\ \A i \in 1 .. Len(data) :
              data'[i] = data[i] \/ (i = pr[p].ino /\ (Write(p) \/ shrinkfile(p)))
         /\ \A i \in 1 .. Len(data') : i > Len(data) => data'[i] = <<>>
<1>0. data \in Seq(Seq(Byte)) /\ Len(data) \in Nat
  BY Before
<1> DEFINE New == \A q \in Procs \ {p} : pr'[q] = pr[q]
           Goal == /\ set' = set /\ New
                   /\ Len(data) \in Nat /\ Len(data') \in Nat /\ Len(data') >= Len(data)
                   /\ \A i \in 1 .. Len(data) :
                        data'[i] = data[i] \/ (i = pr[p].ino /\ (Write(p) \/ shrinkfile(p)))
                   /\ \A i \in 1 .. Len(data') : i > Len(data) => data'[i] = <<>>
<1>1. ASSUME set' = set, New, data' = data PROVE Goal
  BY <1>0, <1>1
<1>2. ASSUME set' = set, New, NEW x, FileBecomes(pr[p].ino, x),
             Write(p) \/ shrinkfile(p)
      PROVE  Goal
  <2>1. /\ Len(data') = Len(data)
        /\ \A i \in 1 .. Len(data) : i # pr[p].ino => data'[i] = data[i]
    BY <1>2 DEF FileBecomes
  <2>2. \A i \in 1 .. Len(data) :
          data'[i] = data[i] \/ (i = pr[p].ino /\ (Write(p) \/ shrinkfile(p)))
    BY <1>2, <2>1, Zenon
  <2>3. Len(data') \in Nat /\ Len(data') >= Len(data)
    BY <1>0, <2>1
  <2>4. \A i \in 1 .. Len(data') : i > Len(data) => data'[i] = <<>>
    BY <1>0, <2>1
  <2> QED BY <1>0, <1>2, <2>2, <2>3, <2>4
<1>3. ASSUME set' = set, New, data' = Append(data, <<>>) PROVE Goal
  <2> DEFINE x == <<>>
  <2>1. x \in Seq(Byte) /\ data' = Append(data, x)
    BY <1>3
  <2>2. /\ Len(data') = Len(data) + 1 /\ data'[Len(data) + 1] = x
        /\ \A i \in 1 .. Len(data) : data'[i] = data[i]
    <3> HIDE DEF x
    <3> QED BY <1>0, <2>1, AppendProperties
  <2>3. \A i \in 1 .. Len(data') : i > Len(data) => data'[i] = <<>>
    <3>1. \A i \in 1 .. Len(data') : i > Len(data) => i = Len(data) + 1
      BY <1>0, <2>2
    <3> QED BY <2>2, <3>1
  <2> QED BY <1>0, <1>3, <2>2, <2>3
<1> SUFFICES Goal
  OBVIOUS
<1> HIDE DEF Goal
<1>4. CASE Stop(p)
  BY <1>1, <1>4, StopDoes
<1>5. CASE Iterate(p)
  BY <1>1, <1>5, IterateDoes
<1>6. CASE Open(p)
  <2>1. set' = set /\ New /\ (data' = data \/ data' = Append(data, <<>>))
    BY <1>6, OpenDoes DEF Disk
  <2> QED BY <1>1, <1>3, <2>1
<1>7. CASE Visit(p)
  BY <1>1, <1>7, VisitDoes
<1>8. CASE GrowFailed(p)
  BY <1>1, <1>8, GrowFailedDoes
<1>9. CASE Close(p)
  BY <1>1, <1>9, CloseDoes
<1>10. CASE Unlink(p)
  BY <1>1, <1>10, UnlinkDoes
<1>11. CASE Fstat(p)
  BY <1>1, <1>11, FstatDoes
<1>12. CASE Seek(p)
  BY <1>1, <1>12, SeekDoes
<1>13. CASE Write(p)
  <2>1. /\ set' = set /\ New
        /\ data' = data \/ \E x : FileBecomes(pr[p].ino, x)
    BY <1>13, WriteDoes
  <2> QED BY <1>1, <1>2, <1>13, <2>1
<1>14. CASE CheckWriteSize(p)
  BY <1>1, <1>14, CheckWriteSizeDoes
<1>15. CASE CheckWriteRead(p)
  BY <1>1, <1>15, CheckWriteReadDoes
<1>16. CASE CheckFileSize(p)
  BY <1>1, <1>16, CheckFileSizeDoes
<1>17. CASE CheckFileRead(p)
  BY <1>1, <1>17, CheckFileReadDoes
<1>18. CASE shrinkfile(p)
  <2>1. /\ set' = set /\ New
        /\ data' = data \/ \E x : FileBecomes(pr[p].ino, x)
    BY <1>18, ShrinkDoes
  <2> QED BY <1>1, <1>2, <1>18, <2>1
<1>19. CASE notify_others(p) \/ sig_handler(p)
  BY <1>1, <1>19, EndDoes
<1>20. CASE Exit(p)
  BY <1>1, <1>20, ExitDoes
<1> QED BY <1>4, <1>5, <1>6, <1>7, <1>8, <1>9, <1>10, <1>11, <1>12, <1>13, <1>14,
           <1>15, <1>16, <1>17, <1>18, <1>19, <1>20 DEF Work

\* Under the lock of the whole visit nobody touches the file of another copy
\* that is past its lkfile().
LEMMA Apart ==
  ASSUME L1, NEW p \in Procs, Work(p) \/ sig_handler(p), set.lockfile = 2,
         NEW q \in Procs \ {p}, pr[q].pc \in VisitPcs \ {"visit"}
  PROVE  data'[pr[q].ino] = data[pr[q].ino]
<1>1. pr[q].ino \in 1 .. Len(data) /\ pr[q].ino # 0
  BY FileType
<1>2. pr[q].lk = "ex"
  BY DEF L1, LockInv, CopyOK
<1> SUFFICES ASSUME pr[q].ino = pr[p].ino, pr[p].pc \in {"write", "shrink"} PROVE FALSE
  <2>1. /\ Write(p) => pr[p].pc = "write"
        /\ shrinkfile(p) => pr[p].pc = "shrink"
    BY DEF Write, shrinkfile
  <2>2. \/ data'[pr[q].ino] = data[pr[q].ino]
        \/ pr[q].ino = pr[p].ino /\ (Write(p) \/ shrinkfile(p))
    BY <1>1, Touched
  <2> QED BY <2>1, <2>2
<1>3. pr[p].lk = "ex"
  BY DEF L1, LockInv, CopyOK, VisitPcs
<1> QED BY <1>1, <1>2, <1>3 DEF L1, LockInv, Excl

-----------------------------------------------------------------------------
(* What a copy knows of its file under the lock of the whole visit.        *)

\* The size that fstat() gave is the size, also when the 'w' is written.
VisitOK(r, c) ==
  /\ r.pc \in {"seek", "write"} => r.fsize = Len(c)
  /\ r.pc = "write" /\ set.lseek = "w" =>
       r.Woffset = Len(c) /\ r.pos = Len(c) + r.Grow_incr - 1

VisitInv ==
  set.lockfile = 2 => \A p \in Procs : VisitOK(pr[p], data[pr[p].ino])

\* A step of a copy keeps what the copies know of the sizes of their files.
LEMMA VisitNext ==
  ASSUME L1, VisitInv, NEW p \in Procs, Work(p) \/ sig_handler(p)
  PROVE  VisitInv'
<1> SUFFICES ASSUME set.lockfile = 2, NEW q \in Procs
             PROVE  VisitOK(pr'[q], data'[pr'[q].ino])
  BY Touched DEF VisitInv, VisitOK
<1> DEFINE r == pr[p]
           s == pr'[p]
<1>1. VisitOK(pr[q], data[pr[q].ino])
  BY DEF VisitInv
<1>2. CASE q # p
  <2>1. pr'[q] = pr[q]
    BY <1>2, Touched
  <2>2. CASE pr[q].pc \in {"seek", "write"}
    <3>1. data'[pr[q].ino] = data[pr[q].ino]
      BY <1>2, <2>2, Apart DEF VisitPcs
    <3> QED BY <1>1, <2>1, <3>1
  <2>3. CASE pr[q].pc \notin {"seek", "write"}
    BY <2>1, <2>3 DEF VisitOK
  <2> QED BY <2>2, <2>3
<1>3. CASE q = p
  <2> SUFFICES ASSUME s.pc \in {"seek", "write"} PROVE VisitOK(s, data'[s.ino])
    BY <1>3 DEF VisitOK
  <2>1. CASE Fstat(p)
    <3>1. /\ r.pc = "fstat" /\ s.ino = r.ino /\ s.pc = "seek" /\ s.fsize = Size(p)
          /\ data' = data
      BY <2>1, FstatDoes
    <3> QED BY <3>1 DEF VisitOK, Size
  <2>2. CASE Seek(p)
    <3>1. /\ r.pc = "seek" /\ s.ino = r.ino /\ s.fsize = r.fsize
          /\ s.Grow_incr = r.Grow_incr /\ s.pc = "write" /\ data' = data
          /\ set.lseek = "w" => s.Woffset = r.fsize /\ s.pos = Size(p) + r.Grow_incr - 1
      BY <2>2, SeekDoes
    <3> QED BY <1>1, <1>3, <3>1 DEF VisitOK, Size
  <2>3. CASE Stop(p) \/ Iterate(p) \/ Open(p) \/ Visit(p)
    BY <2>3, StopDoes, IterateDoes, OpenDoes, VisitDoes
  <2>4. CASE GrowFailed(p) \/ Close(p) \/ Unlink(p)
    BY <2>4, GrowFailedDoes, CloseDoes, UnlinkDoes
  <2>5. CASE Write(p)
    BY <2>5, WriteDoes
  <2>6. CASE CheckWriteSize(p) \/ CheckWriteRead(p)
    BY <2>6, CheckWriteSizeDoes, CheckWriteReadDoes
  <2>7. CASE CheckFileSize(p) \/ CheckFileRead(p)
    BY <2>7, CheckFileSizeDoes, CheckFileReadDoes
  <2>8. CASE shrinkfile(p)
    BY <2>8, ShrinkDoes
  <2>9. CASE notify_others(p) \/ sig_handler(p) \/ Exit(p)
    BY <2>9, EndDoes, ExitDoes
  <2> QED BY <2>1, <2>2, <2>3, <2>4, <2>5, <2>6, <2>7, <2>8, <2>9 DEF Work
<1> QED BY <1>2, <1>3

-----------------------------------------------------------------------------
(* No false alarm.                                                         *)

\* The n bytes of the contents c from off on are what copy p expects.
Fits(c, p, off, n) ==
  \A i \in 1 .. n :
    IF set.lseek = "w" THEN c[off + i] = (IF i = n THEN W ELSE Hole)
    ELSE set.pattern # "random" /\ c[off + i] = PatternByte(p, off + i - 1)

\* Every byte is the pattern for its own place.
Tiled(c) == \A k \in 1 .. Len(c) : c[k] = <<STATIC_NUM, k - 1>>

\* What a copy may rely on while it visits a file with the contents c, though
\* others write to it: the file still has what the copy wrote, and it is as long
\* as the copy takes it to be.
QuietOK(p, r, c) ==
  /\ r.pc # "gfail"
  /\ r.pc = "seek" => r.fsize <= Len(c)
  /\ r.pc = "write" /\ set.lseek # "w" =>
       /\ set.append => r.Woffset = Len(c)
       /\ ~set.append => r.pos = r.Woffset
       /\ set.lseek # "plus" => r.Woffset <= Len(c)
  /\ r.pc \in {"cwrite", "cwread"} /\ r.Grow_incr > 0 =>
       /\ r.Woffset < Len(c)
       /\ set.lseek # "w" => r.Woffset + r.Grow_incr <= Len(c)
       /\ Fits(c, p, r.Woffset, Own(r, c))
  /\ r.pc = "cwread" => r.Grow_incr > 0 /\ r.Woffset + r.Grow_incr <= Len(c)
  /\ r.pc = "cfread" => r.fsize <= Len(c) /\ set.lseek \in {"end", "eof", "minus"}
  /\ /\ set.lockfile = 2 /\ set.lseek = "end"
     /\ r.pc \in {"cwrite", "cwread", "cfile", "cfread", "shrink"}
     => r.pos <= Len(c)

QuietInv ==
  Safe /\ faults = 0 =>
    /\ \A p \in Procs :
         /\ pr[p].Errors = 0
         /\ pr[p].pc \in VisitPcs => QuietOK(p, pr[p], data[pr[p].ino])
    /\ set.lseek \in {"end", "eof", "minus"} =>
         \A i \in 1 .. Len(data) : Tiled(data[i])

\* The bytes b are the pattern for the offset w.
PatternFor(b, w) == \A i \in 1 .. Len(b) : b[i] = <<STATIC_NUM, w + i - 1>>

\* The contents x are c after g bytes of the pattern for w were written at w.
Patterned(c, w, g, x) ==
  /\ Len(x) \in Nat /\ Len(x) >= Len(c) /\ Len(x) >= w + g
  /\ \A k \in 1 .. Len(c) : x[k] = c[k] \/ x[k] = <<STATIC_NUM, k - 1>>
  /\ \A i \in 1 .. g : x[w + i] = <<STATIC_NUM, w + i - 1>>
  /\ w <= Len(c) /\ Tiled(c) => Tiled(x)

\* A write of the pattern for the place where it goes.
LEMMA PatternWrite ==
  ASSUME NEW c \in Seq(Byte), NEW w \in Nat, NEW g \in Nat \ {0}, NEW b \in Seq(Byte),
         Len(b) = g, PatternFor(b, w)
  PROVE  Patterned(c, w, g, WriteAt(c, w, b))
<1> DEFINE x == WriteAt(c, w, b)
<1>0. Len(c) \in Nat
  OBVIOUS
<1>1. /\ Len(x) = (IF Len(c) >= w + g THEN Len(c) ELSE w + g)
      /\ \A i \in 1 .. Len(x) :
           x[i] = IF i > w /\ i <= w + g THEN b[i - w]
                  ELSE IF i <= Len(c) THEN c[i] ELSE Hole
  BY WriteAtBytes, SMTT(30)
<1> HIDE DEF x
<1>2. Len(x) \in Nat /\ Len(x) >= Len(c) /\ Len(x) >= w + g
  BY <1>0, <1>1
<1>3. ASSUME NEW k \in 1 .. Len(x), k > w, k <= w + g PROVE x[k] = <<STATIC_NUM, k - 1>>
  <2>1. k - w \in 1 .. g
    BY <1>2, <1>3
  <2>2. x[k] = b[k - w]
    BY <1>1, <1>3
  <2>3. b[k - w] = <<STATIC_NUM, w + (k - w) - 1>>
    BY <2>1 DEF PatternFor
  <2>4. w + (k - w) - 1 = k - 1
    BY <1>2
  <2> QED BY <2>2, <2>3, <2>4
<1>4. ASSUME NEW k \in 1 .. Len(c) PROVE x[k] = c[k] \/ x[k] = <<STATIC_NUM, k - 1>>
  <2>1. k \in 1 .. Len(x)
    BY <1>0, <1>2
  <2>2. CASE k > w /\ k <= w + g
    BY <1>3, <2>1, <2>2
  <2>3. CASE ~(k > w /\ k <= w + g)
    BY <1>0, <1>1, <2>1, <2>3
  <2> QED BY <2>2, <2>3
<1>5. ASSUME NEW i \in 1 .. g PROVE x[w + i] = <<STATIC_NUM, w + i - 1>>
  <2> DEFINE k == w + i
  <2>1. k \in 1 .. Len(x) /\ k > w /\ k <= w + g
    BY <1>2
  <2>2. x[k] = <<STATIC_NUM, k - 1>>
    <3> HIDE DEF k
    <3> QED BY <1>3, <2>1
  <2> QED BY <2>2
<1>6. ASSUME w <= Len(c), Tiled(c) PROVE Tiled(x)
  <2> SUFFICES ASSUME NEW k \in 1 .. Len(x) PROVE x[k] = <<STATIC_NUM, k - 1>>
    BY DEF Tiled
  <2>1. CASE k > w /\ k <= w + g
    BY <1>3, <2>1
  <2>2. CASE ~(k > w /\ k <= w + g)
    <3>1. k \in 1 .. Len(c)
      BY <1>0, <1>1, <1>6, <2>2
    <3>2. x[k] = c[k]
      BY <1>1, <2>2, <3>1
    <3> QED BY <1>6, <3>1, <3>2 DEF Tiled
  <2> QED BY <2>1, <2>2
<1>7. Patterned(c, w, g, x)
  BY <1>2, <1>4, <1>5, <1>6 DEF Patterned
<1> QED BY <1>7 DEF x

\* A byte that is written behind the end of the file leaves a hole before it.
LEMMA HoleWrite ==
  ASSUME NEW c \in Seq(Byte), NEW off \in Nat, off >= Len(c), NEW b \in Seq(Byte), Len(b) = 1
  PROVE  LET x == WriteAt(c, off, b)
             n == off + 1 - Len(c) IN
         /\ Len(x) = off + 1
         /\ \A i \in 1 .. n : x[Len(c) + i] = IF i = n THEN b[1] ELSE Hole
<1> DEFINE x == WriteAt(c, off, b)
           n == off + 1 - Len(c)
<1>0. Len(c) \in Nat
  OBVIOUS
<1>1. /\ Len(x) = (IF Len(c) >= off + 1 THEN Len(c) ELSE off + 1)
      /\ \A i \in 1 .. Len(x) :
           x[i] = IF i > off /\ i <= off + 1 THEN b[i - off]
                  ELSE IF i <= Len(c) THEN c[i] ELSE Hole
  <2>1. /\ Len(x) = (IF Len(c) >= off + Len(b) THEN Len(c) ELSE off + Len(b))
        /\ \A i \in 1 .. Len(x) :
             x[i] = IF i > off /\ i <= off + Len(b) THEN b[i - off]
                    ELSE IF i <= Len(c) THEN c[i] ELSE Hole
    BY WriteAtBytes
  <2> HIDE DEF x
  <2> QED BY <2>1
<1> HIDE DEF x
<1>2. Len(x) = off + 1
  BY <1>0, <1>1
<1>3. ASSUME NEW i \in 1 .. n PROVE x[Len(c) + i] = IF i = n THEN b[1] ELSE Hole
  <2> DEFINE k == Len(c) + i
  <2>1. k \in 1 .. Len(x) /\ k > Len(c) /\ (i = n <=> k = off + 1) /\ k <= off + 1
    BY <1>0, <1>2
  <2> HIDE DEF k
  <2>2. x[k] = IF k > off /\ k <= off + 1 THEN b[k - off]
               ELSE IF k <= Len(c) THEN c[k] ELSE Hole
    BY <1>1, <2>1
  <2>3. CASE i = n
    <3>1. k > off /\ k <= off + 1 /\ k - off = 1
      BY <2>1, <2>3
    <3> QED BY <2>2, <2>3, <3>1 DEF k
  <2>4. CASE i # n
    <3>1. ~(k > off) /\ ~(k <= Len(c))
      BY <1>0, <1>2, <2>1, <2>4
    <3> QED BY <2>2, <2>4, <3>1 DEF k
  <2> QED BY <2>3, <2>4
<1>4. Len(x) = off + 1 /\ \A i \in 1 .. n : x[Len(c) + i] = IF i = n THEN b[1] ELSE Hole
  BY <1>2, <1>3
<1> QED BY <1>4 DEF x

\* The write of a copy in a quiet run: a pattern goes where it was made for, a
\* 'w' behind what the file had.
LEMMA QuietWrite ==
  ASSUME L1, VisitInv, QuietInv, Safe, faults = 0, NEW p \in Procs, pr[p].pc = "write"
  PROVE  LET r == pr[p]
             c == data[r.ino]
             off == WriteOff(p)
             end == off + Len(Buf(p))
             x == WriteAt(c, off, Buf(p)) IN
         /\ x \in Seq(Byte) /\ SaidOff(r, end) = r.Woffset /\ Len(x) >= Len(c)
         /\ r.Woffset < Len(x)
         /\ set.lseek # "w" =>
              /\ r.Woffset + r.Grow_incr <= Len(x) /\ end <= Len(x)
              /\ \A k \in 1 .. Len(c) : x[k] = c[k] \/ x[k] = <<STATIC_NUM, k - 1>>
              /\ \A i \in 1 .. r.Grow_incr : x[r.Woffset + i] = <<STATIC_NUM, r.Woffset + i - 1>>
              /\ set.lseek # "plus" /\ Tiled(c) => Tiled(x)
         /\ set.lseek = "w" =>
              \A i \in 1 .. Len(x) - r.Woffset :
                /\ x[r.Woffset + i] = IF i = Len(x) - r.Woffset THEN W ELSE Hole
                /\ Len(x) - r.Woffset <= r.Grow_incr
<1> DEFINE r == pr[p]
           c == data[r.ino]
           off == WriteOff(p)
           w == r.Woffset
           g == r.Grow_incr
           b == Buf(p)
           end == off + Len(b)
           x == WriteAt(c, off, b)
<1>0. r.pc \in VisitPcs
  BY DEF VisitPcs
<1>1. c \in Seq(Byte) /\ Size(p) = Len(c) /\ Len(c) \in Nat
  BY <1>0, FileType
<1>2. r \in Copies /\ w \in Nat /\ g \in Nat \ {0} /\ r.pos \in Nat
  <2>1. r \in Copies /\ w \in Nat /\ g \in Nat /\ r.pos \in Nat
    BY CopyType DEF L1
  <2>2. g > 0
    BY DEF L1, LockInv, CopyOK
  <2> QED BY <2>1, <2>2
<1>3. /\ b \in Seq(Byte) /\ Len(b) = (IF set.lseek = "w" THEN 1 ELSE g)
      /\ set.lseek = "w" => b = <<W>>
      /\ set.lseek # "w" => \A i \in 1 .. g : b[i] = PatternByte(p, w + i - 1)
  <2>1. num_procs \in Nat /\ g > 0
    BY <1>2, GrowfilesAssumption
  <2> QED BY <1>2, <2>1, BufBytes
<1>4. QuietOK(p, r, c)
  BY <1>0 DEF QuietInv
<1>5. CASE set.lseek # "w"
  <2>1. off = w /\ (set.lseek # "plus" => w <= Len(c))
    BY <1>1, <1>4, <1>5 DEF QuietOK, WriteOff
  <2>3. Len(b) = g
    BY <1>3, <1>5
  <2>2. PatternFor(b, w)
    BY <1>3, <1>5, <2>3 DEF PatternByte, Safe, PatternFor
  <2>4. x = WriteAt(c, w, b) /\ end = w + g
    BY <2>1, <2>3
  <2>5. SaidOff(r, end) = w
    BY <2>4 DEF SaidOff
  <2>6. x \in Seq(Byte)
    BY <1>1, <1>2, <1>3, <2>4, WriteAtBytes
  <2> HIDE DEF w, g, x, end, b, c
  <2>7. /\ Len(x) \in Nat /\ Len(x) >= Len(c) /\ Len(x) >= w + g
        /\ \A k \in 1 .. Len(c) : x[k] = c[k] \/ x[k] = <<STATIC_NUM, k - 1>>
        /\ \A i \in 1 .. g : x[w + i] = <<STATIC_NUM, w + i - 1>>
        /\ w <= Len(c) /\ Tiled(c) => Tiled(x)
    <3>1. c \in Seq(Byte) /\ w \in Nat /\ g \in Nat \ {0} /\ b \in Seq(Byte)
      BY <1>1, <1>2, <1>3 DEF w, g
    <3>2. x = WriteAt(c, w, b)
      BY <2>4
    <3>3. Patterned(c, w, g, x)
      BY <2>2, <2>3, <3>1, <3>2, PatternWrite
    <3> QED BY <3>3 DEF Patterned
  <2>8. w + g <= Len(x) /\ end <= Len(x) /\ w < Len(x)
    BY <1>2, <2>4, <2>7
  <2>9. set.lseek # "plus" /\ Tiled(c) => Tiled(x)
    BY <2>1, <2>7
  <2> QED BY <1>5, <2>5, <2>6, <2>7, <2>8, <2>9 DEF w, g, x, end, b, c
<1>6. CASE set.lseek = "w"
  <2>1. w = Len(c) /\ r.pos = Len(c) + g - 1
    BY <1>6 DEF VisitInv, VisitOK, Safe
  <2>2. off \in Nat /\ off >= Len(c) /\ off + 1 - w <= g
    <3>1. off = Len(c) \/ off = Len(c) + g - 1
      BY <1>1, <2>1 DEF WriteOff
    <3> HIDE DEF off, g, c
    <3> QED BY <1>1, <1>2, <2>1, <3>1
  <2>3. Len(b) = 1 /\ b[1] = W
    <3>1. b = <<W>>
      BY <1>3, <1>6
    <3> QED BY <3>1
  <2>4. SaidOff(r, end) = w
    BY <1>6 DEF SaidOff
  <2>5. x \in Seq(Byte)
    BY <1>1, <1>3, <2>2, WriteAtBytes
  <2>6. x = WriteAt(c, off, b)
    OBVIOUS
  <2> HIDE DEF w, g, x, end, b, c, off
  <2>7. /\ Len(x) = off + 1
        /\ \A i \in 1 .. off + 1 - Len(c) :
             x[Len(c) + i] = IF i = off + 1 - Len(c) THEN b[1] ELSE Hole
    BY <1>1, <1>3, <2>2, <2>3, <2>6, HoleWrite, ZenonT(60)
  <2>8. Len(x) >= Len(c) /\ w < Len(x) /\ Len(x) - w = off + 1 - Len(c)
    BY <1>1, <2>1, <2>2, <2>7
  <2>9. \A i \in 1 .. Len(x) - w :
          /\ x[w + i] = IF i = Len(x) - w THEN W ELSE Hole
          /\ Len(x) - w <= g
    <3>1. Len(x) - w <= g
      BY <2>1, <2>2, <2>8
    <3> QED BY <2>1, <2>3, <2>7, <2>8, <3>1
  <2> QED BY <1>6, <2>4, <2>5, <2>8, <2>9 DEF w, g, x, end, b, c, off
<1> QED BY <1>5, <1>6

\* Without a failure no action takes one of its ways out.
LEMMA NoFault ==
  ASSUME L1, faults = 0, faults' = 0
  PROVE  ~Fault
  BY DEF Fault

\* What the copy that takes a step relies on, after it.
LEMMA QuietOwn ==
  ASSUME L1, VisitInv, QuietInv, Safe, faults = 0, faults' = 0,
         NEW p \in Procs, Work(p) \/ sig_handler(p)
  PROVE  /\ pr'[p].Errors = 0
         /\ pr'[p].pc \in VisitPcs => QuietOK(p, pr'[p], data'[pr'[p].ino])
<1> DEFINE r == pr[p]
           s == pr'[p]
           c == data[r.ino]
<1>0. r.Errors = 0 /\ (r.pc \in VisitPcs => QuietOK(p, r, c)) /\ ~Fault
  BY NoFault DEF QuietInv
<1>t. /\ r.pos \in Nat /\ r.fsize \in Nat /\ r.Woffset \in Nat /\ r.Grow_incr \in Nat
      /\ r.pc \in VisitPcs => Size(p) = Len(c) /\ Len(c) \in Nat
  <2>1. r.pc \in VisitPcs => Size(p) = Len(c) /\ Len(c) \in Nat
    BY FileType
  <2> QED BY <2>1, CopyType DEF L1
\* Where the copy has no file, or nothing to rely on yet or any more.
<1>n. ASSUME s.Errors = 0,
             s.pc \in {"head", "open", "unlink", "notify", "cleanup", "exit", "visit",
                       "fstat", "close"}
      PROVE  s.Errors = 0 /\ (s.pc \in VisitPcs => QuietOK(p, s, data'[s.ino]))
  BY <1>n DEF QuietOK, VisitPcs
<1>1. CASE Stop(p) \/ Iterate(p)
  BY <1>0, <1>1, <1>n, StopDoes, IterateDoes DEF Account
<1>2. CASE Open(p)
  <2>1. s.Errors = 0 /\ s.pc = "visit"
    BY <1>0, <1>2, OpenDoes DEF Account, Fault
  <2> QED BY <1>n, <2>1
<1>3. CASE Visit(p)
  <2>1. s.Errors = 0 /\ s.pc = "fstat"
    BY <1>0, <1>3, VisitDoes DEF Account
  <2> QED BY <1>n, <2>1
<1>4. CASE GrowFailed(p)
  <2>1. r.pc = "gfail"
    BY <1>4, GrowFailedDoes
  <2> QED BY <1>0, <2>1 DEF QuietOK, VisitPcs
<1>5. CASE Close(p) \/ Unlink(p)
  <2>1. s.Errors = 0 /\ s.pc \in {"unlink", "open", "head"}
    BY <1>0, <1>5, CloseDoes, UnlinkDoes DEF Account
  <2> QED BY <1>n, <2>1
<1>6. CASE Fstat(p)
  <2>1. /\ r.pc = "fstat" /\ s.Errors = r.Errors /\ s.ino = r.ino /\ s.pos = r.pos
        /\ s.fsize = Size(p) /\ data' = data
        /\ (s.Grow_incr = 0 /\ s.pc = "cwrite") \/ s.pc = "seek"
    BY <1>0, <1>6, FstatDoes DEF Account
  <2>2. r.pos = 0 /\ Size(p) = Len(c) /\ Len(c) \in Nat
    BY <1>t, <2>1 DEF L1, LockInv, CopyOK, VisitPcs
  <2>3. data'[s.ino] = c
    BY <2>1
  <2> HIDE DEF c
  <2>4. CASE s.Grow_incr = 0 /\ s.pc = "cwrite"
    BY <1>0, <2>1, <2>2, <2>3, <2>4 DEF QuietOK
  <2>5. CASE s.pc = "seek"
    BY <1>0, <2>1, <2>2, <2>3, <2>5 DEF QuietOK
  <2> QED BY <2>1, <2>4, <2>5
<1>7. CASE Seek(p)
  <2>1. /\ r.pc = "seek" /\ s.Errors = r.Errors /\ s.ino = r.ino /\ s.pc = "write"
        /\ data' = data
        /\ \/ set.lseek = "w"
           \/ set.lseek # "w" /\ set.append /\ s.Woffset = Size(p)
           \/ /\ set.lseek \notin {"w", "end"} /\ ~set.append
              /\ s.Woffset = s.pos /\ s.pos \in RandOffsets(r)
           \/ set.lseek = "end" /\ ~set.append /\ s.Woffset = Size(p) /\ s.pos = Size(p)
    BY <1>0, <1>7, SeekDoes DEF Account
  <2>2. Size(p) = Len(c) /\ Len(c) \in Nat /\ r.fsize <= Len(c)
    BY <1>0, <1>t, <2>1 DEF QuietOK, VisitPcs
  <2>3. data'[s.ino] = c
    BY <2>1
  <2>4. ASSUME set.lseek \notin {"w", "end", "plus"}, s.pos \in RandOffsets(r)
        PROVE  s.pos <= Len(c)
    <3>1. set.lseek \in {"eof", "minus"}
      BY <2>4, SetType DEF L1, Safe
    <3>2. set.min_lseek = 0
      BY <3>1 DEF Safe
    <3>3. max_lseek \in Nat /\ r.fsize \in Nat /\ r.Grow_incr \in Nat
      BY <1>t, GrowfilesAssumption
    <3>4. s.pos \in Nat /\ s.pos <= r.fsize
      BY <2>4, <3>1, <3>2, <3>3, RandOffsetsAre
    <3> HIDE DEF c
    <3> QED BY <1>t, <2>2, <3>4
  <2> HIDE DEF c
  <2>5. set.lseek # "w" =>
          /\ set.append => s.Woffset = Len(c)
          /\ ~set.append => s.pos = s.Woffset
          /\ set.lseek # "plus" => s.Woffset <= Len(c)
    BY <2>1, <2>2, <2>4
  <2> QED BY <1>0, <2>1, <2>3, <2>5 DEF QuietOK
<1>8. CASE Write(p)
  <2> DEFINE end == WriteOff(p) + Len(Buf(p))
             x == WriteAt(c, WriteOff(p), Buf(p))
  <2>1. /\ r.pc = "write" /\ s.Errors = r.Errors /\ s.ino = r.ino /\ s.pc = "cwrite"
        /\ s.Grow_incr = r.Grow_incr /\ s.pos = end /\ s.Woffset = SaidOff(r, end)
        /\ data'[r.ino] = x
    BY <1>0, <1>8, WriteDoes DEF FileBecomes
  <2>2. /\ x \in Seq(Byte) /\ SaidOff(r, end) = r.Woffset /\ r.Woffset < Len(x)
        /\ set.lseek # "w" =>
             /\ r.Woffset + r.Grow_incr <= Len(x) /\ end <= Len(x)
             /\ \A i \in 1 .. r.Grow_incr : x[r.Woffset + i] = <<STATIC_NUM, r.Woffset + i - 1>>
        /\ set.lseek = "w" =>
             \A i \in 1 .. Len(x) - r.Woffset :
               /\ x[r.Woffset + i] = IF i = Len(x) - r.Woffset THEN W ELSE Hole
               /\ Len(x) - r.Woffset <= r.Grow_incr
    BY <2>1, QuietWrite
  <2>3. Len(x) \in Nat
    BY <2>2
  <2> HIDE DEF end, x
  <2>4. Fits(x, p, s.Woffset, Own(s, x))
    <3>1. CASE set.lseek # "w"
      <4>1. Own(s, x) = r.Grow_incr
        BY <1>t, <2>1, <2>2, <2>3, <3>1 DEF Own
      <4>2. set.pattern = "offset"
        BY DEF Safe
      <4>3. \A i \in 1 .. r.Grow_incr : x[r.Woffset + i] = PatternByte(p, r.Woffset + i - 1)
        BY <2>2, <3>1, <4>2 DEF PatternByte
      <4> QED BY <2>1, <2>2, <3>1, <4>1, <4>2, <4>3 DEF Fits
    <3>2. CASE set.lseek = "w"
      <4>1. Len(x) - r.Woffset \in Nat \ {0}
        BY <1>t, <2>2, <2>3
      <4>2. Len(x) - r.Woffset <= r.Grow_incr
        <5>1. 1 \in 1 .. Len(x) - r.Woffset
          BY <4>1
        <5> QED BY <2>2, <3>2, <5>1
      <4>3. Own(s, x) = Len(x) - r.Woffset
        BY <1>t, <2>1, <2>2, <4>1, <4>2 DEF Own
      <4> QED BY <2>1, <2>2, <3>2, <4>3 DEF Fits
    <3> QED BY <3>1, <3>2
  <2>5. data'[s.ino] = x
    BY <2>1
  <2>6. /\ s.Woffset < Len(x)
        /\ set.lseek # "w" => s.Woffset + s.Grow_incr <= Len(x) /\ s.pos <= Len(x)
    BY <2>1, <2>2
  <2>7. set.lseek = "end" => set.lseek # "w"
    OBVIOUS
  <2> QED BY <1>0, <2>1, <2>4, <2>5, <2>6, <2>7 DEF QuietOK
<1>9. CASE CheckWriteSize(p)
  <2>1. /\ r.pc = "cwrite" /\ s.Errors = r.Errors /\ s.ino = r.ino /\ s.pos = r.pos
        /\ s.Woffset = r.Woffset /\ data' = data
        /\ \/ s.pc = "cfile"
           \/ /\ s.pc = "cwread" /\ s.Grow_incr = Own(r, c)
              /\ Len(c) > r.Woffset /\ r.Grow_incr > 0
    BY <1>0, <1>9, CheckWriteSizeDoes
  <2>2. /\ QuietOK(p, r, c) /\ Len(c) \in Nat /\ data'[s.ino] = c
    BY <1>0, <1>t, <2>1 DEF VisitPcs
  <2> HIDE DEF c
  <2>3. CASE s.pc = "cfile"
    BY <1>0, <2>1, <2>2, <2>3 DEF QuietOK
  <2>4. CASE s.pc = "cwread" /\ s.Grow_incr = Own(r, c) /\ Len(c) > r.Woffset /\ r.Grow_incr > 0
    <3>1. s.Grow_incr > 0 /\ s.Woffset + s.Grow_incr <= Len(c) /\ Own(s, c) = s.Grow_incr
      BY <1>t, <2>1, <2>2, <2>4 DEF Own
    <3>2. Fits(c, p, s.Woffset, Own(s, c))
      BY <2>1, <2>2, <2>4, <3>1 DEF QuietOK
    <3>3. s.Woffset < Len(c) /\ (set.lseek = "end" /\ set.lockfile = 2 => s.pos <= Len(c))
      BY <2>1, <2>2, <2>4 DEF QuietOK
    <3> QED BY <1>0, <2>1, <2>2, <2>4, <3>1, <3>2, <3>3 DEF QuietOK
  <2> QED BY <2>1, <2>3, <2>4
<1>10. CASE CheckWriteRead(p)
  <2>1. r.pc = "cwread"
    BY <1>10, CheckWriteReadDoes
  <2>2. /\ QuietOK(p, r, c) /\ Len(c) \in Nat
    BY <1>0, <1>t, <2>1 DEF VisitPcs
  <2>3. /\ r.Grow_incr > 0 /\ r.Woffset + r.Grow_incr <= Len(c)
        /\ Fits(c, p, r.Woffset, Own(r, c))
    BY <2>1, <2>2 DEF QuietOK
  <2>4. Own(r, c) = r.Grow_incr
    <3> HIDE DEF c
    <3> QED BY <1>t, <2>2, <2>3 DEF Own
  <2>5. Matches(p, r.Woffset, r.Grow_incr)
    BY <2>3, <2>4 DEF Matches, Fits
  <2>6. /\ s.Errors = r.Errors /\ s.ino = r.ino /\ s.pc = "cfile"
        /\ s.pos = r.Woffset + r.Grow_incr /\ data' = data
    BY <1>0, <1>10, <2>3, <2>5, CheckWriteReadDoes
  <2>7. data'[s.ino] = c
    BY <2>6
  <2> HIDE DEF c
  <2> QED BY <1>0, <2>3, <2>6, <2>7 DEF QuietOK
<1>11. CASE CheckFileSize(p)
  <2>1. /\ r.pc = "cfile" /\ s.Errors = r.Errors /\ s.ino = r.ino /\ s.pos = r.pos
        /\ data' = data
        /\ \/ s.pc = "shrink"
           \/ s.pc = "cfread" /\ s.fsize = Len(c) /\ ~no_file_check
    BY <1>0, <1>11, CheckFileSizeDoes
  <2>2. QuietOK(p, r, c) /\ Len(c) \in Nat /\ data'[s.ino] = c
    BY <1>0, <1>t, <2>1 DEF VisitPcs
  <2>3. ~no_file_check => set.lseek \in {"end", "eof", "minus"}
    BY SetType DEF L1, Safe, no_file_check
  <2> HIDE DEF c
  <2>4. CASE s.pc = "shrink"
    BY <1>0, <2>1, <2>2, <2>4 DEF QuietOK
  <2>5. CASE s.pc = "cfread" /\ s.fsize = Len(c) /\ ~no_file_check
    BY <1>0, <2>1, <2>2, <2>3, <2>5 DEF QuietOK
  <2> QED BY <2>1, <2>4, <2>5
<1>12. CASE CheckFileRead(p)
  <2>1. r.pc = "cfread"
    BY <1>12, CheckFileReadDoes
  <2>2. QuietOK(p, r, c) /\ Len(c) \in Nat
    BY <1>0, <1>t, <2>1 DEF VisitPcs
  <2>3. r.fsize <= Len(c) /\ set.lseek \in {"end", "eof", "minus"}
    BY <2>1, <2>2 DEF QuietOK
  <2>4. Tiled(c)
    <3>1. r.ino \in 1 .. Len(data)
      BY <2>1, FileType DEF VisitPcs
    <3> QED BY <2>3, <3>1 DEF QuietInv
  <2>5. Matches(p, 0, r.fsize)
    <3> SUFFICES ASSUME NEW i \in 1 .. r.fsize
                 PROVE  set.pattern # "random" /\ c[0 + i] = PatternByte(p, 0 + i - 1)
      BY <2>3 DEF Matches
    <3>1. i \in 1 .. Len(c) /\ 0 + i = i
      BY <1>t, <2>2, <2>3
    <3>2. c[i] = <<STATIC_NUM, i - 1>>
      BY <2>4, <3>1 DEF Tiled
    <3> QED BY <3>1, <3>2 DEF PatternByte, Safe
  <2>6. /\ s.Errors = r.Errors /\ s.ino = r.ino /\ s.pc = "shrink"
        /\ s.pos = r.fsize /\ data' = data
    BY <1>0, <1>12, <2>3, <2>5, CheckFileReadDoes
  <2>7. data'[s.ino] = c
    BY <2>6
  <2> HIDE DEF c
  <2> QED BY <1>0, <2>3, <2>6, <2>7 DEF QuietOK
<1>13. CASE shrinkfile(p)
  <2>1. s.Errors = 0 /\ s.pc = "close"
    BY <1>0, <1>13, ShrinkDoes DEF Account
  <2> QED BY <1>n, <2>1
<1>14. CASE notify_others(p) \/ sig_handler(p)
  <2>1. s.Errors = 0 /\ s.pc \in {"notify", "cleanup"}
    BY <1>0, <1>14, EndDoes DEF Account
  <2> QED BY <1>n, <2>1
<1>15. CASE Exit(p)
  <2>1. s.Errors = 0 /\ s.pc = "exit"
    BY <1>0, <1>15, ExitDoes DEF Account
  <2> QED BY <1>n, <2>1
<1> QED BY <1>1, <1>2, <1>3, <1>4, <1>5, <1>6, <1>7, <1>8, <1>9, <1>10, <1>11, <1>12,
           <1>13, <1>14, <1>15 DEF Work

\* The number of failures never goes down.
LEMMA FaultsGrow ==
  ASSUME L1, NEW p \in Procs, Work(p) \/ sig_handler(p)
  PROVE  faults \in Nat /\ (faults' = faults \/ faults' = faults + 1)
<1>0. faults \in Nat
  BY DEF L1, TypeInv
<1>1. CASE Stop(p) \/ Iterate(p) \/ GrowFailed(p) \/ Close(p) \/ Unlink(p)
  BY <1>0, <1>1 DEF Stop, Iterate, GrowFailed, Close, Unlink
<1>2. CASE Open(p) \/ Visit(p)
  BY <1>0, <1>2 DEF Open, Visit, Fault
<1>3. CASE Fstat(p)
  BY <1>0, <1>3, FstatDoes DEF Fault
<1>10. CASE Seek(p)
  <2>1. faults' = faults \/ Fault
    BY <1>10, SeekDoes
  <2> QED BY <1>0, <2>1 DEF Fault
<1>4. CASE Write(p)
  BY <1>0, <1>4 DEF Write, Fault
<1>5. CASE CheckWriteSize(p) \/ CheckWriteRead(p)
  BY <1>0, <1>5 DEF CheckWriteSize, CheckWriteRead, Fault
<1>6. CASE CheckFileSize(p) \/ CheckFileRead(p)
  BY <1>0, <1>6 DEF CheckFileSize, CheckFileRead, Fault
<1>7. CASE shrinkfile(p)
  BY <1>0, <1>7 DEF shrinkfile, Fault
<1>8. CASE notify_others(p) \/ Exit(p)
  BY <1>0, <1>8 DEF notify_others, Exit
<1>9. CASE sig_handler(p)
  BY <1>0, <1>9 DEF sig_handler, Fault
<1> QED BY <1>1, <1>2, <1>3, <1>4, <1>5, <1>6, <1>7, <1>8, <1>9, <1>10 DEF Work

\* The pattern of the offsets is the same for every copy.
LEMMA PatternIs ==
  ASSUME set.pattern = "offset", NEW p, NEW o
  PROVE  PatternByte(p, o) = <<STATIC_NUM, o>>
<1>1. (IF set.pattern = "pid" THEN p ELSE STATIC_NUM) = STATIC_NUM
  OBVIOUS
<1> QED BY <1>1, Zenon DEF PatternByte

\* What a copy relies on survives another one's write of the pattern.
LEMMA QuietKept ==
  ASSUME NEW p \in Procs, NEW r \in Copies, NEW c \in Seq(Byte), NEW x \in Seq(Byte),
         Len(x) >= Len(c), set.pattern = "offset", set.lseek # "w", set.lockfile # 2,
         \A k \in 1 .. Len(c) : x[k] = c[k] \/ x[k] = <<STATIC_NUM, k - 1>>,
         ~(r.pc = "write" /\ set.append), QuietOK(p, r, c)
  PROVE  QuietOK(p, r, x)
<1>0. /\ r.fsize \in Nat /\ r.Woffset \in Nat /\ r.Grow_incr \in Nat /\ r.pos \in Nat
      /\ Len(c) \in Nat /\ Len(x) \in Nat
  BY DEF Copies
<1>1. r.pc \in {"cwrite", "cwread"} /\ r.Grow_incr > 0 =>
        /\ r.Woffset < Len(x) /\ r.Woffset + r.Grow_incr <= Len(x)
        /\ Fits(x, p, r.Woffset, Own(r, x))
  <2> SUFFICES ASSUME r.pc \in {"cwrite", "cwread"}, r.Grow_incr > 0
               PROVE  /\ r.Woffset < Len(x) /\ r.Woffset + r.Grow_incr <= Len(x)
                      /\ Fits(x, p, r.Woffset, Own(r, x))
    OBVIOUS
  <2>1. r.Woffset + r.Grow_incr <= Len(c) /\ Fits(c, p, r.Woffset, Own(r, c))
    BY DEF QuietOK
  <2>2. Own(r, c) = r.Grow_incr /\ Own(r, x) = r.Grow_incr
    BY <1>0, <2>1 DEF Own
  <2>3. ASSUME NEW i \in 1 .. r.Grow_incr
        PROVE  x[r.Woffset + i] = PatternByte(p, r.Woffset + i - 1)
    <3> DEFINE k == r.Woffset + i
    <3>1. k \in 1 .. Len(c)
      BY <1>0, <2>1
    <3> DEFINE o == r.Woffset + i - 1
    <3>2. c[k] = PatternByte(p, o)
      <4>1. \A j \in 1 .. r.Grow_incr :
              c[r.Woffset + j] = PatternByte(p, r.Woffset + j - 1)
        BY <2>1, <2>2 DEF Fits
      <4> QED BY <4>1
    <3>3. k - 1 = o
      BY <1>0
    <3> HIDE DEF k, o
    <3>4. PatternByte(p, o) = <<STATIC_NUM, o>>
      BY PatternIs
    <3>5. x[k] = PatternByte(p, o)
      BY <3>1, <3>2, <3>3, <3>4
    <3> QED BY <3>5 DEF k, o
  <2>4. Fits(x, p, r.Woffset, Own(r, x))
    BY <2>2, <2>3 DEF Fits
  <2> QED BY <1>0, <2>1, <2>4
<1>2. /\ r.fsize <= Len(c) => r.fsize <= Len(x)
      /\ r.Woffset <= Len(c) => r.Woffset <= Len(x)
      /\ r.Woffset + r.Grow_incr <= Len(c) => r.Woffset + r.Grow_incr <= Len(x)
  BY <1>0
<1> QED BY <1>1, <1>2 DEF QuietOK

\* The same for a copy that takes no part in the step.
LEMMA QuietOther ==
  ASSUME L1, VisitInv, QuietInv, Safe, faults = 0, faults' = 0,
         NEW p \in Procs, Work(p) \/ sig_handler(p),
         NEW q \in Procs \ {p}, pr[q].pc \in VisitPcs
  PROVE  QuietOK(q, pr[q], data'[pr[q].ino])
<1> DEFINE r == pr[q]
           i == r.ino
           c == data[i]
<1>1. i \in 1 .. Len(data) /\ i # 0 /\ c \in Seq(Byte)
  BY FileType
<1>2. QuietOK(q, r, c) /\ r \in Copies
  BY CopyType DEF QuietInv, L1
<1>3. CASE data'[i] = c
  BY <1>2, <1>3
<1>4. CASE set.lockfile = 2 /\ data'[i] # c
  <2>1. r.pc = "visit"
    BY <1>4, Apart
  <2> QED BY <2>1 DEF QuietOK
<1>5. CASE set.lockfile # 2 /\ i = pr[p].ino /\ Write(p)
  <2> DEFINE x == WriteAt(c, WriteOff(p), Buf(p))
  <2>0. pr[p].pc = "write" /\ lkfile(p, "ex", 1)
    BY <1>5 DEF Write
  <2>1. data'[i] = x
    <3>1. FileBecomes(pr[p].ino, WriteAt(data[pr[p].ino], WriteOff(p), Buf(p)))
      BY <1>5, NoFault, WriteDoes
    <3> QED BY <1>5, <3>1 DEF FileBecomes
  <2>2. set.pattern = "offset" /\ set.lseek # "w" /\ (set.append => set.lockfile = 1)
    BY <1>5 DEF Safe
  <2>3. /\ x \in Seq(Byte) /\ Len(x) >= Len(c)
        /\ \A k \in 1 .. Len(c) : x[k] = c[k] \/ x[k] = <<STATIC_NUM, k - 1>>
    BY <1>5, <2>0, <2>2, QuietWrite
  <2>4. ~(r.pc = "write" /\ set.append)
    <3> SUFFICES ASSUME r.pc = "write", set.append PROVE FALSE
      OBVIOUS
    <3>1. r.lk = "ex"
      BY <2>2 DEF L1, LockInv, CopyOK
    <3> QED BY <1>5, <2>0, <2>2, <3>1 DEF lkfile
  <2> HIDE DEF x, c
  <2>5. QuietOK(q, r, x)
    BY <1>1, <1>2, <1>5, <2>2, <2>3, <2>4, QuietKept
  <2> QED BY <2>1, <2>5
<1>6. CASE set.lockfile # 2 /\ shrinkfile(p)
  <2>1. set.trunc_inter = 0
    BY <1>6 DEF Safe
  <2>2. ~Due(set.trunc_inter, pr[p].count)
    BY <2>1 DEF Due
  <2>3. data' = data
    BY <1>6, <2>2, NoFault, ShrinkDoes
  <2> QED BY <1>2, <2>3
<1>7. data'[i] = c \/ (i = pr[p].ino /\ (Write(p) \/ shrinkfile(p)))
  BY <1>1, Touched
<1> QED BY <1>3, <1>4, <1>5, <1>6, <1>7

\* The files stay full of the pattern: a write leaves no hole, a truncation
\* makes no file longer.
LEMMA QuietFiles ==
  ASSUME L1, VisitInv, QuietInv, Safe, faults = 0, faults' = 0,
         NEW p \in Procs, Work(p) \/ sig_handler(p),
         set.lseek \in {"end", "eof", "minus"}, NEW i \in 1 .. Len(data')
  PROVE  Tiled(data'[i])
<1>0. /\ Len(data) \in Nat /\ Len(data') \in Nat /\ Len(data') >= Len(data)
      /\ \A k \in 1 .. Len(data) :
           data'[k] = data[k] \/ (k = pr[p].ino /\ (Write(p) \/ shrinkfile(p)))
      /\ \A k \in 1 .. Len(data') : k > Len(data) => data'[k] = <<>>
  BY Touched
<1>1. CASE i > Len(data)
  <2>1. data'[i] = <<>>
    BY <1>0, <1>1
  <2> QED BY <2>1 DEF Tiled
<1>2. CASE ~(i > Len(data))
  <2> DEFINE c == data[i]
  <2>1. i \in 1 .. Len(data) /\ Tiled(c)
    <3>1. i \in 1 .. Len(data)
      BY <1>0, <1>2
    <3> QED BY <3>1 DEF QuietInv
  <2>2. CASE data'[i] = c
    BY <2>1, <2>2
  <2>3. CASE i = pr[p].ino /\ Write(p)
    <3>1. pr[p].pc = "write"
      BY <2>3 DEF Write
    <3>2. data'[i] = WriteAt(c, WriteOff(p), Buf(p))
      <4>1. FileBecomes(pr[p].ino, WriteAt(data[pr[p].ino], WriteOff(p), Buf(p)))
        BY <2>3, NoFault, WriteDoes
      <4> QED BY <2>3, <4>1 DEF FileBecomes
    <3>3. set.lseek # "w" /\ set.lseek # "plus"
      OBVIOUS
    <3>4. Tiled(WriteAt(c, WriteOff(p), Buf(p)))
      BY <2>1, <2>3, <3>1, <3>3, QuietWrite
    <3> QED BY <3>2, <3>4
  <2>4. CASE i = pr[p].ino /\ shrinkfile(p) /\ data'[i] # c
    <3> DEFINE r == pr[p]
    <3>1. PICK n \in NewSizes(p) \cap Nat :
            FileBecomes(r.ino, TruncateTo(c, n)) /\ Due(set.trunc_inter, r.count)
      BY <2>4, NoFault, ShrinkDoes
    <3>2. r.pc = "shrink" /\ c \in Seq(Byte) /\ Len(c) \in Nat /\ Size(p) = Len(c)
      <4>1. r.pc = "shrink"
        BY <2>4 DEF shrinkfile
      <4> QED BY <2>4, <4>1, FileType DEF VisitPcs
    <3>3. set.lockfile = 2
      BY <3>1 DEF Safe, Due
    <3>4. n <= Len(c)
      <4>1. CASE set.lseek = "end"
        <5>1. QuietOK(p, r, c)
          BY <2>4, <3>2 DEF QuietInv, VisitPcs
        <5>2. r.pos <= Len(c)
          BY <3>2, <3>3, <4>1, <5>1 DEF QuietOK
        <5>3. r.pos \in Nat /\ trunc_incr \in Nat
          BY GrowfilesAssumption, CopyType DEF L1
        <5> DEFINE d == r.pos - trunc_incr
        <5>4. d \in Int /\ d <= r.pos
          BY <5>3
        <5>5. n = Max({0, d})
          BY <3>1, <4>1 DEF NewSizes
        <5>6. n = IF 0 >= d THEN 0 ELSE d
          <6> HIDE DEF d
          <6> QED BY <5>4, <5>5, MaxTwo
        <5> HIDE DEF d, c
        <5> QED BY <3>2, <5>2, <5>3, <5>4, <5>6
      <4>2. CASE set.lseek \in {"eof", "minus"}
        <5>1. set.min_lseek = 0 /\ n \in NewSizes(p)
          BY <3>1, <4>2 DEF Safe
        <5>2. r.pos \in Nat /\ trunc_incr \in Nat /\ max_lseek \in Nat
          BY GrowfilesAssumption, CopyType DEF L1
        <5>3. n <= Size(p)
          BY <3>2, <4>2, <5>1, <5>2, NewSizesAre
        <5> QED BY <3>2, <5>3
      <4> QED BY <4>1, <4>2
    <3>5. /\ Len(TruncateTo(c, n)) = n
          /\ \A k \in 1 .. n : TruncateTo(c, n)[k] = IF k <= Len(c) THEN c[k] ELSE Hole
      BY <3>1, <3>2, TruncateToBytes
    <3>6. Tiled(TruncateTo(c, n))
      <4> DEFINE x == TruncateTo(c, n)
      <4> HIDE DEF x, c
      <4> SUFFICES ASSUME NEW k \in 1 .. Len(x) PROVE x[k] = <<STATIC_NUM, k - 1>>
        BY DEF Tiled, x
      <4>1. k \in 1 .. n /\ k \in 1 .. Len(c) /\ k <= Len(c)
        BY <3>1, <3>2, <3>4, <3>5 DEF x
      <4>2. x[k] = c[k]
        BY <3>5, <4>1 DEF x
      <4> QED BY <2>1, <4>1, <4>2 DEF Tiled
    <3> QED BY <2>4, <3>1, <3>6 DEF FileBecomes
  <2> QED BY <1>0, <2>1, <2>2, <2>3, <2>4
<1> QED BY <1>1, <1>2

\* A step of a copy keeps every run quiet that was.
LEMMA QuietNext ==
  ASSUME L1, VisitInv, QuietInv, NEW p \in Procs, Work(p) \/ sig_handler(p)
  PROVE  QuietInv'
<1>0. set' = set /\ \A q \in Procs \ {p} : pr'[q] = pr[q]
  BY Touched
<1>1. Safe' <=> Safe
  BY <1>0 DEF Safe
<1> SUFFICES ASSUME Safe, faults' = 0
             PROVE  /\ \A q \in Procs :
                         /\ pr'[q].Errors = 0
                         /\ pr'[q].pc \in VisitPcs => QuietOK(q, pr'[q], data'[pr'[q].ino])
                    /\ set.lseek \in {"end", "eof", "minus"} =>
                         \A i \in 1 .. Len(data') : Tiled(data'[i])
  <2>1. ASSUME NEW q, NEW r, NEW c PROVE QuietOK(q, r, c)' <=> QuietOK(q, r, c)
    <3>1. Fits(c, q, r.Woffset, Own(r, c))' <=> Fits(c, q, r.Woffset, Own(r, c))
      BY <1>0 DEF Fits, PatternByte, Own
    <3> QED BY <1>0, <3>1 DEF QuietOK
  <2> QED BY <1>0, <1>1, <2>1 DEF QuietInv, Tiled
<1>2. faults = 0
  BY FaultsGrow
<1>3. ASSUME NEW q \in Procs
      PROVE  /\ pr'[q].Errors = 0
             /\ pr'[q].pc \in VisitPcs => QuietOK(q, pr'[q], data'[pr'[q].ino])
  <2>1. CASE q = p
    BY <1>2, <2>1, QuietOwn
  <2>2. CASE q # p
    <3>1. pr[q].Errors = 0
      BY <1>2 DEF QuietInv
    <3>2. pr[q].pc \in VisitPcs => QuietOK(q, pr[q], data'[pr[q].ino])
      BY <1>2, <2>2, QuietOther
    <3> QED BY <1>0, <2>2, <3>1, <3>2
  <2> QED BY <2>1, <2>2
<1>4. set.lseek \in {"end", "eof", "minus"} => \A i \in 1 .. Len(data') : Tiled(data'[i])
  BY <1>2, QuietFiles
<1> QED BY <1>3, <1>4

\* The start has the types, and no lock.
LEMMA InitL1 == Init => L1
<1> SUFFICES ASSUME Init PROVE L1
  OBVIOUS
<1>0. set \in SettingType /\ set.num_files \in Nat \ {0}
  BY GrowfilesAssumption DEF Init, SettingType
<1>1. Copy0 \in Copies
  <2>1. "head" \in Pcs /\ 0 \in 0 .. 2
    BY PcsAre
  <2> QED BY <2>1 DEF Copy0, Copies, Sigs
<1>2. data = <<>> /\ data \in Seq(Seq(Byte)) /\ Len(data) = 0
  BY DEF Init
<1>3. TypeInv
  <2>1. pr \in [Procs -> Copies]
    BY <1>1 DEF Init
  <2>2. name \in [Files -> 0 .. Len(data)]
    BY <1>2 DEF Init
  <2> QED BY <1>2, <2>1, <2>2, GrowfilesAssumption DEF Init, TypeInv
<1>4. ASSUME NEW p \in Procs PROVE pr[p] = Copy0
  BY DEF Init
<1>5. 1 \in Files
  BY <1>0 DEF Files
<1>6. CopyOK(Copy0, Len(data))
  BY <1>2, <1>5 DEF CopyOK, Copy0, VisitPcs
<1>7. Excl
  BY <1>4 DEF Excl, Copy0
<1> QED BY <1>3, <1>4, <1>6, <1>7 DEF L1, LockInv

\* At the start no copy is in a visit and no file is there.
LEMMA InitQuiet == Init => VisitInv /\ QuietInv
<1> SUFFICES ASSUME Init PROVE VisitInv /\ QuietInv
  OBVIOUS
<1>1. ASSUME NEW p \in Procs PROVE pr[p].pc = "head" /\ pr[p].Errors = 0
  BY DEF Init, Copy0
<1>2. Len(data) = 0
  BY DEF Init
<1>3. VisitInv
  BY <1>1 DEF VisitInv, VisitOK
<1>4. \A i \in 1 .. Len(data) : Tiled(data[i])
  BY <1>2
<1>5. QuietInv
  BY <1>1, <1>4 DEF QuietInv, VisitPcs
<1> QED BY <1>3, <1>5

\* A step that changes nothing keeps what is said of the state.
LEMMA Unchanged ==
  ASSUME UNCHANGED vars
  PROVE  (L1 => L1') /\ (VisitInv => VisitInv') /\ (QuietInv => QuietInv')
<1>1. UNCHANGED <<set, pr, name, data, signals, faults>>
  BY DEF vars
<1>2. L1 => L1'
  BY <1>1 DEF L1, TypeInv, LockInv, CopyOK, Excl, Files
<1>3. VisitInv => VisitInv'
  BY <1>1 DEF VisitInv, VisitOK
<1>4. QuietInv => QuietInv'
  BY <1>1 DEF QuietInv, QuietOK, Safe, Fits, PatternByte, Own, Tiled
<1> QED BY <1>2, <1>3, <1>4

\* Types; a copy past the lkfile() of the whole visit has the only lock on its file.
THEOREM TypesAndLocks == Spec => [](TypeInv /\ LockInv)
<1>1. Init => L1
  BY InitL1
<1>2. L1 /\ [Next]_vars => L1'
  BY L1Next, Unchanged DEF Next
<1> QED BY <1>1, <1>2, PTL DEF Spec, L1

\* Where Safe holds, no copy ever counts an error as long as the file system
\* does not fail: every byte that check_write() and check_file() compare is what
\* the copy expects, whatever the other copies write, truncate and unlink between
\* its own calls.
THEOREM QuietRun == Spec => []NoFalseAlarm
<1> DEFINE I == L1 /\ VisitInv /\ QuietInv
<1>1. Init => I
  BY InitL1, InitQuiet
<1>2. I /\ [Next]_vars => I'
  <2> SUFFICES ASSUME I, [Next]_vars PROVE I'
    OBVIOUS
  <2>1. ASSUME NEW p \in Procs, Work(p) \/ sig_handler(p) PROVE I'
    BY <2>1, L1Next, VisitNext, QuietNext
  <2>2. CASE UNCHANGED vars
    BY <2>2, Unchanged
  <2> QED BY <2>1, <2>2 DEF Next
<1>3. I => NoFalseAlarm
  BY DEF QuietInv, NoFalseAlarm
<1> QED BY <1>1, <1>2, <1>3, PTL DEF Spec

-----------------------------------------------------------------------------
(* Corruption is caught.                                                   *)

\* There is a byte at k in the file i that copy p wrote and that is wrong.
Wrong(p, i, k) ==
  i \in 1 .. Len(data) /\ k \in 1 .. Len(data[i]) /\ data[i][k] = Bad(p)

EndPcs == {"notify", "cleanup", "exit"}

\* The copy will exit with an error, has done so, or was told to stop by SIGINT.
Told(r) ==
  IF r.pc \in EndPcs THEN r.status # 0 \/ r.sig = "SIGINT" ELSE r.Errors # 0

\* The copy still has to look at the byte k of the file i: its last write.
Unchecked(r, i, k) ==
  /\ r.pc \in {"cwrite", "cwread"} /\ r.ino = i
  /\ r.Woffset < k /\ k <= r.Woffset + r.Grow_incr

AllChecked == write_check_inter = 1 /\ (set.lseek = "w" => set.lockfile = 2)

WrongInv ==
  AllChecked =>
    \A p \in Procs : \A i, k \in Nat :
      Wrong(p, i, k) => Told(pr[p]) \/ Unchecked(pr[p], i, k)

\* A wrong byte is told from the other bytes, and from another copy's.
LEMMA BadIs ==
  ASSUME NEW p \in Procs, NEW q \in Procs, NEW off
  PROVE  /\ Bad(p) = Bad(q) => p = q
         /\ Bad(p) # Hole /\ Bad(p) # W /\ Bad(p) # PatternByte(q, off)
<1>1. q \in Int /\ q >= 0
  BY GrowfilesAssumption DEF Procs
<1>2. PatternByte(q, off)[1] = q \/ PatternByte(q, off)[1] = -4
  BY DEF PatternByte, STATIC_NUM
<1>3. Bad(p)[1] = -3 /\ Bad(p)[2] = p /\ Bad(q)[2] = q /\ Hole[1] = -1 /\ W[1] = -2
  BY DEF Bad, Hole, W
<1> QED BY <1>1, <1>2, <1>3

\* What a copy writes is right.
LEMMA BufGood ==
  ASSUME L1, NEW p \in Procs, pr[p].pc = "write", NEW q \in Procs
  PROVE  /\ Buf(p) \in Seq(Byte)
         /\ Len(Buf(p)) = IF set.lseek = "w" THEN 1 ELSE pr[p].Grow_incr
         /\ \A j \in 1 .. Len(Buf(p)) : Buf(p)[j] # Bad(q)
<1>1. pr[p] \in Copies /\ pr[p].Grow_incr > 0 /\ num_procs \in Nat
  BY GrowfilesAssumption, CopyType DEF L1, LockInv, CopyOK
<1>2. /\ Buf(p) \in Seq(Byte)
      /\ Len(Buf(p)) = IF set.lseek = "w" THEN 1 ELSE pr[p].Grow_incr
      /\ set.lseek = "w" => Buf(p) = <<W>>
      /\ set.lseek # "w" => \A i \in 1 .. pr[p].Grow_incr :
                              Buf(p)[i] = PatternByte(p, pr[p].Woffset + i - 1)
  BY <1>1, BufBytes
<1>3. ASSUME NEW j \in 1 .. Len(Buf(p)) PROVE Buf(p)[j] # Bad(q)
  <2>1. CASE set.lseek = "w"
    <3>1. j = 1 /\ Buf(p)[j] = W
      BY <1>2, <2>1
    <3> QED BY <3>1, BadIs
  <2>2. CASE set.lseek # "w"
    <3>1. Buf(p)[j] = PatternByte(p, pr[p].Woffset + j - 1)
      BY <1>2, <2>2
    <3> DEFINE o == pr[p].Woffset + j - 1
    <3> HIDE DEF o
    <3>2. Buf(p)[j] = PatternByte(p, o)
      BY <3>1 DEF o
    <3> QED BY <3>2, BadIs
  <2> QED BY <2>1, <2>2
<1> QED BY <1>2, <1>3

\* A byte that was written lies where the copy will look for its write.
LEMMA WriteWindow ==
  ASSUME L1, VisitInv, set.lseek = "w" => set.lockfile = 2,
         NEW p \in Procs, pr[p].pc = "write", NEW k \in Nat,
         k > WriteOff(p), k <= WriteOff(p) + Len(Buf(p))
  PROVE  LET w == SaidOff(pr[p], WriteOff(p) + Len(Buf(p))) IN
         w < k /\ k <= w + pr[p].Grow_incr
<1> DEFINE r == pr[p]
           c == data[r.ino]
           off == WriteOff(p)
           g == r.Grow_incr
           end == off + Len(Buf(p))
           w == SaidOff(r, end)
<1>1. Size(p) = Len(c) /\ Len(c) \in Nat
  BY FileType DEF VisitPcs
<1>2. r.Woffset \in Nat /\ g \in Nat \ {0} /\ r.pos \in Nat
  BY CopyType DEF L1, LockInv, CopyOK
<1>3. Len(Buf(p)) = IF set.lseek = "w" THEN 1 ELSE g
  BY BufGood
<1>4. off \in Nat
  BY <1>1, <1>2 DEF WriteOff
<1>5. CASE set.lseek # "w"
  <2>1. end = off + g
    BY <1>3, <1>5
  <2>2. w = off
    <3>1. CASE end # r.Woffset + g
      <4>1. w = Max({0, end - g})
        BY <1>5, <3>1 DEF SaidOff
      <4>2. end - g = off
        BY <1>2, <1>4, <2>1
      <4>3. Max({0, off}) = off
        BY <1>4, MaxTwo
      <4> QED BY <4>1, <4>2, <4>3
    <3>2. CASE end = r.Woffset + g
      <4>1. w = r.Woffset
        BY <3>2 DEF SaidOff
      <4> HIDE DEF w, end, off, g
      <4> QED BY <1>2, <1>4, <2>1, <3>2, <4>1
    <3> QED BY <3>1, <3>2
  <2>3. k > off /\ k <= off + g
    BY <1>3, <1>5
  <2> QED BY <2>2, <2>3
<1>6. CASE set.lseek = "w"
  <2>1. r.Woffset = Len(c) /\ r.pos = Len(c) + g - 1
    BY <1>6 DEF VisitInv, VisitOK
  <2>2. off = Len(c) \/ off = Len(c) + g - 1
    BY <1>1, <2>1 DEF WriteOff
  <2>3. w = Len(c) /\ k > off /\ k <= off + 1
    BY <1>3, <1>6, <2>1 DEF SaidOff
  <2> HIDE DEF w, off, g, c
  <2>4. w < k /\ k <= w + g
    BY <1>1, <1>2, <1>4, <2>2, <2>3
  <2> QED BY <2>4 DEF w, g, off
<1> QED BY <1>5, <1>6

\* Only the file system makes a byte wrong, in a write that is still to be checked.
LEMMA NewWrong ==
  ASSUME L1, VisitInv, set.lseek = "w" => set.lockfile = 2,
         NEW p \in Procs, Work(p) \/ sig_handler(p), NEW q \in Procs,
         NEW i \in Nat, NEW k \in Nat, Wrong(q, i, k)', ~Wrong(q, i, k)
  PROVE  q = p /\ Unchecked(pr'[p], i, k)
<1> DEFINE r == pr[p]
           s == pr'[p]
           c == data[i]
<1>1. /\ Len(data) \in Nat /\ Len(data') \in Nat /\ Len(data') >= Len(data)
      /\ \A j \in 1 .. Len(data) :
           data'[j] = data[j] \/ (j = r.ino /\ (Write(p) \/ shrinkfile(p)))
      /\ \A j \in 1 .. Len(data') : j > Len(data) => data'[j] = <<>>
  BY Touched
<1>2. i \in 1 .. Len(data') /\ k \in 1 .. Len(data'[i]) /\ data'[i][k] = Bad(q)
  BY DEF Wrong, Bad
<1>3. i \in 1 .. Len(data)
  <2> SUFFICES ASSUME i > Len(data) PROVE FALSE
    BY <1>1, <1>2
  <2>1. data'[i] = <<>>
    BY <1>1, <1>2
  <2> QED BY <1>2, <2>1
<1>4. c \in Seq(Byte) /\ Len(c) \in Nat
  BY <1>3, ElementOfSeq DEF L1, TypeInv
<1>5. ~(k \in 1 .. Len(c) /\ c[k] = Bad(q))
  BY <1>3 DEF Wrong
<1>6. i = r.ino /\ (Write(p) \/ shrinkfile(p)) /\ data'[i] # c
  BY <1>1, <1>2, <1>3, <1>5
<1>7. Bad(q) # Hole
  BY BadIs
<1>8. CASE shrinkfile(p)
  <2>1. PICK n \in Nat : data'[i] = TruncateTo(c, n)
    BY <1>6, <1>8, ShrinkDoes DEF FileBecomes
  <2>2. /\ Len(TruncateTo(c, n)) = n
        /\ \A j \in 1 .. n : TruncateTo(c, n)[j] = IF j <= Len(c) THEN c[j] ELSE Hole
    BY <1>4, <2>1, TruncateToBytes
  <2>3. k \in 1 .. n /\ Bad(q) = IF k <= Len(c) THEN c[k] ELSE Hole
    BY <1>2, <2>1, <2>2
  <2> HIDE DEF c
  <2> QED BY <1>4, <1>5, <1>7, <2>3
<1>9. CASE Write(p)
  <2> DEFINE off == WriteOff(p)
             buf == Buf(p)
             end == off + Len(buf)
  <2>1. r.pc = "write" /\ off \in Nat /\ s.ino = r.ino /\ s.Grow_incr = r.Grow_incr
    BY <1>9, WriteDoes
  <2>2. PICK b \in Seq(Byte) :
          /\ data'[i] = WriteAt(c, off, b)
          /\ \/ b = buf \/ Short(p, b)
             \/ Spoilt(p, b) /\ s.pc = "cwrite" /\ s.Woffset = SaidOff(r, end)
    <3>1. buf \in Seq(Byte)
      BY <2>1, BufGood
    <3>2. \/ data' = data
          \/ \E b \in Seq(Byte) :
               /\ FileBecomes(r.ino, WriteAt(data[r.ino], off, b))
               /\ \/ b = buf \/ Short(p, b)
                  \/ Spoilt(p, b) /\ s.pc = "cwrite" /\ s.Woffset = SaidOff(r, end)
      <4> HIDE DEF off, end, buf
      <4> QED BY <1>9, <3>1, WriteDoes DEF off, end, buf
    <3>3. data' # data
      BY <1>6
    <3> QED BY <1>6, <3>2, <3>3 DEF FileBecomes
  <2>3. /\ buf \in Seq(Byte) /\ Len(buf) \in Nat
        /\ \A j \in 1 .. Len(buf) : buf[j] # Bad(q)
    BY <2>1, BufGood
  <2>4. /\ Len(WriteAt(c, off, b)) \in Nat
        /\ \A j \in 1 .. Len(WriteAt(c, off, b)) :
             WriteAt(c, off, b)[j] =
               IF j > off /\ j <= off + Len(b) THEN b[j - off]
               ELSE IF j <= Len(c) THEN c[j] ELSE Hole
    <3> HIDE DEF c, off, end, buf
    <3>1. WriteAt(c, off, b) \in Seq(Byte)
      BY <1>4, <2>1, WriteAtBytes
    <3>2. Len(WriteAt(c, off, b)) \in Nat
      BY <3>1, LenProperties
    <3> QED BY <1>4, <2>1, <3>2, WriteAtBytes
  <2>5. Bad(q) = IF k > off /\ k <= off + Len(b) THEN b[k - off]
                 ELSE IF k <= Len(c) THEN c[k] ELSE Hole
    BY <1>2, <2>2, <2>4
  <2>6. k \in 1 .. Len(c) => c[k] # Bad(q)
    BY <1>5
  <2> HIDE DEF c, off, end, buf
  <2>7. k \in Nat \ {0} /\ Len(b) \in Nat
    BY <1>2, <2>4
  <2>8. k > off /\ k <= off + Len(b) /\ b[k - off] = Bad(q)
    BY <1>4, <1>7, <2>1, <2>5, <2>6, <2>7
  <2>9. k - off \in 1 .. Len(b)
    BY <2>1, <2>7, <2>8
  <2>10. ~(b = buf)
    BY <2>3, <2>8, <2>9
  <2>11. ~Short(p, b)
    <3> SUFFICES ASSUME NEW n \in 1 .. Len(buf) - 1, b = [j \in 1 .. n |-> buf[j]]
                 PROVE  FALSE
      BY DEF Short, buf
    <3>1. DOMAIN b = 1 .. n /\ DOMAIN b = 1 .. Len(b)
      OBVIOUS
    <3>2. k - off \in 1 .. n /\ b[k - off] = buf[k - off]
      BY <2>9, <3>1
    <3>3. k - off \in 1 .. Len(buf)
      BY <2>3, <3>2
    <3> QED BY <2>3, <2>8, <3>2, <3>3
  <2>12. Spoilt(p, b) /\ s.pc = "cwrite" /\ s.Woffset = SaidOff(r, end)
    BY <2>2, <2>10, <2>11
  <2>13. PICK m \in 1 .. Len(buf) : b = [buf EXCEPT ![m] = Bad(p)]
    BY <2>12 DEF Spoilt, buf
  <2>14. /\ Len(b) = Len(buf) /\ b[m] = Bad(p)
         /\ \A j \in 1 .. Len(buf) : j # m => b[j] = buf[j]
    BY <2>3, <2>13, BadBuf
  <2>15. Bad(q) = Bad(p)
    BY <2>3, <2>8, <2>9, <2>14
  <2>16. q = p
    BY <2>15, BadIs
  <2>17. k > WriteOff(p) /\ k <= WriteOff(p) + Len(Buf(p))
    BY <2>8, <2>14 DEF off, buf
  <2>18. SaidOff(r, end) < k /\ k <= SaidOff(r, end) + r.Grow_incr
    BY <2>1, <2>17, WriteWindow DEF end, off, buf
  <2> QED BY <1>6, <2>1, <2>12, <2>16, <2>18 DEF Unchecked
<1> QED BY <1>6, <1>8, <1>9

\* A step in a visit keeps the count of errors or adds to it, and what ends the
\* visit at once is an error.
Onward(r, s) ==
  /\ r.pc \notin EndPcs
  /\ s.Errors = r.Errors \/ s.Errors = r.Errors + 1
  /\ s.pc \in EndPcs => s.status # 0 \/ s.sig = "SIGINT"

\* What a copy knows of an error it does not forget.
LEMMA ToldStays ==
  ASSUME L1, NEW p \in Procs, Work(p) \/ sig_handler(p), Told(pr[p])
  PROVE  Told(pr'[p])
<1> DEFINE r == pr[p]
           s == pr'[p]
<1>0. r.Errors \in Nat
  BY CopyType DEF L1
<1>1. Onward(r, s) => Told(s)
  <2>1. r.Errors + 1 # 0
    BY <1>0
  <2> QED BY <2>1 DEF Onward, Told
<1>2. CASE Stop(p)
  <2>1. r.pc = "head" /\ s.pc = "cleanup" /\ (r.Errors # 0 => s.status = 1)
    BY <1>2, StopDoes
  <2> QED BY <2>1 DEF Told, EndPcs
<1>3. CASE Iterate(p)
  BY <1>1, <1>3, IterateDoes DEF Onward, Account, EndPcs
<1>4. CASE Open(p)
  <2>1. /\ r.pc = "open" /\ (s.Errors = r.Errors \/ s.Errors = r.Errors + 1)
        /\ s.pc \in {"visit", "open", "head"} \/ (s.pc = "notify" /\ s.status = 1)
    BY <1>4, OpenDoes DEF Account
  <2> QED BY <1>1, <2>1 DEF Onward, EndPcs
<1>5. CASE Visit(p)
  BY <1>1, <1>5, VisitDoes DEF Onward, Account, EndPcs
<1>6. CASE GrowFailed(p)
  <2>1. /\ r.pc = "gfail" /\ s.Errors = r.Errors + 1
        /\ s.pc \in {"open", "head"} \/ (s.pc = "notify" /\ s.status = 1)
    BY <1>6, GrowFailedDoes
  <2> QED BY <1>1, <2>1 DEF Onward, EndPcs
<1>7. CASE Close(p) \/ Unlink(p)
  <2>1. /\ r.pc \in {"close", "unlink"} /\ s.Errors = r.Errors
        /\ s.pc \in {"unlink", "open", "head"}
    BY <1>7, CloseDoes, UnlinkDoes DEF Account
  <2> QED BY <1>1, <2>1 DEF Onward, EndPcs
<1>8. CASE Fstat(p)
  <2>1. r.pc = "fstat" /\ s.Errors = r.Errors /\ s.pc \in {"cwrite", "seek", "gfail"}
    BY <1>8, FstatDoes DEF Account
  <2> QED BY <1>1, <2>1 DEF Onward, EndPcs
<1>9. CASE Seek(p)
  <2>1. r.pc = "seek" /\ s.Errors = r.Errors /\ s.pc \in {"write", "gfail"}
    BY <1>9, SeekDoes DEF Account
  <2> QED BY <1>1, <2>1 DEF Onward, EndPcs
<1>10. CASE Write(p)
  <2>1. /\ r.pc = "write" /\ s.Errors = r.Errors
        /\ s.pc \in {"cwrite", "gfail"} \/ (s.pc = "cleanup" /\ s.status = 2)
    BY <1>10, WriteDoes
  <2> QED BY <1>1, <2>1 DEF Onward, EndPcs
<1>11. CASE CheckWriteSize(p)
  <2>1. /\ r.pc = "cwrite" /\ (s.Errors = r.Errors \/ s.Errors = r.Errors + 1)
        /\ s.pc \in {"cfile", "cwread"} \/ (s.pc = "notify" /\ s.status = 1)
    BY <1>11, CheckWriteSizeDoes
  <2> QED BY <1>1, <2>1 DEF Onward, EndPcs
<1>12. CASE CheckWriteRead(p)
  <2>1. /\ r.pc = "cwread" /\ (s.Errors = r.Errors \/ s.Errors = r.Errors + 1)
        /\ s.pc = "cfile" \/ (s.pc = "notify" /\ s.status = 1)
    BY <1>12, CheckWriteReadDoes
  <2> QED BY <1>1, <2>1 DEF Onward, EndPcs
<1>13. CASE CheckFileSize(p)
  <2>1. /\ r.pc = "cfile" /\ (s.Errors = r.Errors \/ s.Errors = r.Errors + 1)
        /\ s.pc \in {"cfread", "shrink"} \/ (s.pc = "notify" /\ s.status = 1)
    BY <1>13, CheckFileSizeDoes
  <2> QED BY <1>1, <2>1 DEF Onward, EndPcs
<1>14. CASE CheckFileRead(p)
  <2>1. /\ r.pc = "cfread" /\ (s.Errors = r.Errors \/ s.Errors = r.Errors + 1)
        /\ s.pc = "shrink" \/ (s.pc = "notify" /\ s.status = 1)
    BY <1>14, CheckFileReadDoes
  <2> QED BY <1>1, <2>1 DEF Onward, EndPcs
<1>15. CASE shrinkfile(p)
  <2>1. /\ r.pc = "shrink" /\ (s.Errors = r.Errors \/ s.Errors = r.Errors + 1)
        /\ s.pc = "close" \/ (s.pc = "notify" /\ s.status = 1)
    BY <1>15, ShrinkDoes DEF Account
  <2> QED BY <1>1, <2>1 DEF Onward, EndPcs
<1>16. CASE notify_others(p) \/ sig_handler(p)
  <2>1. \/ /\ r.pc = "notify" /\ s.pc = "cleanup" /\ s.status = r.status
           /\ s.sig = r.sig
        \/ s.pc = "notify" /\ (s.status = 2 \/ s.sig = "SIGINT")
    BY <1>16, EndDoes
  <2> QED BY <2>1 DEF Told, EndPcs
<1>17. CASE Exit(p)
  <2>1. r.pc = "cleanup" /\ s.pc = "exit" /\ s.status = r.status /\ s.sig = r.sig
    BY <1>17, ExitDoes
  <2> QED BY <2>1 DEF Told, EndPcs
<1> QED BY <1>2, <1>3, <1>4, <1>5, <1>6, <1>7, <1>8, <1>9, <1>10, <1>11, <1>12, <1>13,
           <1>14, <1>15, <1>16, <1>17 DEF Work

\* A copy that still has to look at a wrong byte does, and counts an error: the
\* byte is there, thus the file is not shorter, and the length of the write is cut
\* to what is left of it, the byte included.
LEMMA Checked ==
  ASSUME L1, write_check_inter = 1, NEW p \in Procs, Work(p) \/ sig_handler(p),
         NEW i \in Nat, NEW k \in Nat, Wrong(p, i, k), Unchecked(pr[p], i, k)
  PROVE  Told(pr'[p]) \/ Unchecked(pr'[p], i, k)
<1> DEFINE r == pr[p]
           s == pr'[p]
           c == data[r.ino]
<1>0. /\ r.Errors \in Nat /\ r.Errors + 1 # 0 /\ r.Woffset \in Nat
      /\ r.Grow_incr \in Nat /\ r.count \in Nat
  BY CopyType DEF L1
<1>1. /\ r.pc \in {"cwrite", "cwread"} /\ r.ino = i
      /\ r.Woffset < k /\ k <= r.Woffset + r.Grow_incr
  BY DEF Unchecked
<1>2. /\ i \in 1 .. Len(data) /\ c \in Seq(Byte) /\ Len(c) \in Nat
      /\ k \in 1 .. Len(c) /\ c[k] = Bad(p)
  BY <1>1, FileType DEF Wrong, VisitPcs
<1>3. Len(c) > r.Woffset /\ r.Grow_incr > 0
  BY <1>0, <1>1, <1>2
<1>4. Due(write_check_inter, r.count)
  <2>1. r.count % 1 = 0
    BY <1>0
  <2> QED BY <2>1 DEF Due
<1>5. CASE CheckWriteSize(p)
  <2>1. ~(Len(c) <= r.Woffset)
    BY <1>0, <1>2, <1>3
  <2>2. /\ s.Woffset = r.Woffset /\ s.ino = r.ino
        /\ \/ s.pc = "cwread" /\ s.Grow_incr = Own(r, c)
           \/ /\ s.pc = "cfile" \/ (s.pc = "notify" /\ s.status = 1)
              /\ s.Errors = r.Errors + 1
    BY <1>3, <1>4, <1>5, <2>1, CheckWriteSizeDoes
  <2>3. k <= r.Woffset + Own(r, c)
    <3> HIDE DEF c
    <3> QED BY <1>0, <1>1, <1>2 DEF Own
  <2>4. CASE s.pc = "cwread" /\ s.Grow_incr = Own(r, c)
    BY <1>1, <2>2, <2>3, <2>4 DEF Unchecked
  <2>5. CASE /\ s.pc = "cfile" \/ (s.pc = "notify" /\ s.status = 1)
             /\ s.Errors = r.Errors + 1
    BY <1>0, <2>5 DEF Told, EndPcs
  <2> QED BY <2>2, <2>4, <2>5
<1>6. CASE CheckWriteRead(p)
  <2>1. ~Matches(p, r.Woffset, r.Grow_incr)
    <3> SUFFICES ASSUME Matches(p, r.Woffset, r.Grow_incr) PROVE FALSE
      OBVIOUS
    <3> DEFINE j == k - r.Woffset
    <3>1. j \in 1 .. r.Grow_incr /\ r.Woffset + j = k
      BY <1>0, <1>1
    <3>2. \A o \in 1 .. r.Grow_incr :
            IF set.lseek = "w"
            THEN c[r.Woffset + o] = (IF o = r.Grow_incr THEN W ELSE Hole)
            ELSE c[r.Woffset + o] = PatternByte(p, r.Woffset + o - 1)
      BY DEF Matches
    <3> HIDE DEF c, j
    <3>3. c[k] = W \/ c[k] = Hole \/ c[k] = PatternByte(p, r.Woffset + j - 1)
      BY <3>1, <3>2
    <3> DEFINE o == r.Woffset + j - 1
    <3> HIDE DEF o
    <3>4. c[k] = W \/ c[k] = Hole \/ c[k] = PatternByte(p, o)
      BY <3>3 DEF o
    <3> QED BY <1>2, <3>4, BadIs
  <2>2. /\ s.pc = "cfile" \/ (s.pc = "notify" /\ s.status = 1)
        /\ s.Errors = r.Errors + 1
    BY <1>3, <1>6, <2>1, CheckWriteReadDoes
  <2> QED BY <1>0, <2>2 DEF Told, EndPcs
<1>7. CASE sig_handler(p)
  <2>1. s.pc = "notify" /\ (s.status = 2 \/ s.sig = "SIGINT")
    BY <1>1, <1>7, EndDoes
  <2> QED BY <2>1 DEF Told, EndPcs
<1>8. CASE Stop(p) \/ Iterate(p) \/ Open(p) \/ Visit(p) \/ GrowFailed(p) \/ Close(p) \/ Unlink(p)
  BY <1>1, <1>8 DEF Stop, Iterate, Open, Visit, GrowFailed, Close, Unlink
<1>9. CASE Fstat(p) \/ Seek(p) \/ Write(p)
  BY <1>1, <1>9, FstatDoes, SeekDoes, WriteDoes
<1>10. CASE CheckFileSize(p) \/ CheckFileRead(p) \/ shrinkfile(p)
  BY <1>1, <1>10, CheckFileSizeDoes, CheckFileReadDoes, ShrinkDoes
<1>11. CASE notify_others(p) \/ Exit(p)
  BY <1>1, <1>11 DEF notify_others, Exit
<1> QED BY <1>5, <1>6, <1>7, <1>8, <1>9, <1>10, <1>11 DEF Work

\* Every wrong byte in a file stays with a copy that knows or is to look.
LEMMA WrongNext ==
  ASSUME L1, VisitInv, WrongInv, NEW p \in Procs, Work(p) \/ sig_handler(p)
  PROVE  WrongInv'
<1>0. set' = set /\ \A q \in Procs \ {p} : pr'[q] = pr[q]
  BY Touched
<1> SUFFICES ASSUME AllChecked, NEW q \in Procs, NEW i \in Nat, NEW k \in Nat,
                    Wrong(q, i, k)'
             PROVE  Told(pr'[q]) \/ Unchecked(pr'[q], i, k)
  BY <1>0 DEF WrongInv, AllChecked, Told, Unchecked
<1>1. CASE ~Wrong(q, i, k)
  <2>1. q = p /\ Unchecked(pr'[p], i, k)
    BY <1>1, NewWrong DEF AllChecked
  <2> QED BY <2>1
<1>2. CASE Wrong(q, i, k)
  <2>1. Told(pr[q]) \/ Unchecked(pr[q], i, k)
    BY <1>2 DEF WrongInv
  <2>2. CASE q = p
    BY <1>2, <2>1, <2>2, ToldStays, Checked DEF AllChecked
  <2>3. CASE q # p
    BY <1>0, <2>1, <2>3
  <2> QED BY <2>2, <2>3
<1> QED BY <1>1, <1>2

\* growfiles finds what it is there to find.  Whenever every write is checked, a
\* copy whose write the file system kept with a wrong byte does not exit with 0
\* while that byte is still in a file, whatever else fails, whatever the other
\* copies write, truncate and unlink between the write and its check, and whatever
\* signals arrive, but for a SIGINT, after which the code means to exit with 0.
\* With -w the check needs the lock of the whole visit.
THEOREM Caught == Spec => []CorruptionCaught
<1> DEFINE I == L1 /\ VisitInv /\ WrongInv
<1>1. Init => I
  <2> SUFFICES ASSUME Init PROVE WrongInv
    BY InitL1, InitQuiet
  <2>1. Len(data) = 0
    BY DEF Init
  <2> QED BY <2>1 DEF WrongInv, Wrong
<1>2. I /\ [Next]_vars => I'
  <2> SUFFICES ASSUME I, [Next]_vars PROVE I'
    OBVIOUS
  <2>1. ASSUME NEW p \in Procs, Work(p) \/ sig_handler(p) PROVE I'
    BY <2>1, L1Next, VisitNext, WrongNext
  <2>2. CASE UNCHANGED vars
    <3>1. L1' /\ VisitInv'
      BY <2>2, Unchanged
    <3>2. WrongInv'
      BY <2>2 DEF vars, WrongInv, AllChecked, Wrong, Told, Unchecked, Bad
    <3> QED BY <3>1, <3>2
  <2> QED BY <2>1, <2>2 DEF Next
<1>3. I => CorruptionCaught
  <2> SUFFICES ASSUME I, AllChecked, NEW p \in Procs, pr[p].pc = "exit", pr[p].status = 0,
                      pr[p].sig # "SIGINT", NEW i \in DOMAIN data, NEW k \in DOMAIN data[i]
               PROVE  data[i][k] # Bad(p)
    BY DEF CorruptionCaught, AllChecked
  <2>1. i \in 1 .. Len(data) /\ data[i] \in Seq(Byte)
    BY ElementOfSeq DEF L1, TypeInv
  <2>2. k \in 1 .. Len(data[i]) /\ i \in Nat /\ k \in Nat
    BY <2>1
  <2>3. ~Told(pr[p]) /\ ~Unchecked(pr[p], i, k)
    BY DEF Told, EndPcs, Unchecked
  <2> QED BY <2>1, <2>2, <2>3 DEF WrongInv, Wrong
<1> QED BY <1>1, <1>2, <1>3, PTL DEF Spec

-----------------------------------------------------------------------------
(* Sums over finite sets.                                                  *)

\* A set of numbers that has 0, and n + 1 with n, is all of them: induction, with
\* what is to be shown written as a set.
LEMMA Induction ==
  ASSUME NEW T \in SUBSET Nat, 0 \in T, \A n \in T : n + 1 \in T
  PROVE  \A n \in Nat : n \in T
<1> DEFINE R == {ss \in Nat \X Nat : ss[1] < ss[2]}
<1> SUFFICES ASSUME Nat \ T # {} PROVE FALSE
  OBVIOUS
<1>1. IsWellFoundedOn(R, Nat)
  BY NatLessThanWellFounded DEF OpToRel
<1> HIDE DEF R
<1>2. PICK x \in Nat \ T : \A y \in Nat \ T : ~(<<y, x>> \in R)
  BY <1>1, WFMin
<1>3. x # 0 /\ x - 1 \in Nat /\ (x - 1) + 1 = x
  OBVIOUS
<1>4. <<x - 1, x>> \in R
  BY <1>3 DEF R
<1>5. x - 1 \in T
  BY <1>2, <1>3, <1>4
<1> QED BY <1>3, <1>5

Pick(s) == CHOOSE x \in s : TRUE

\* it is the sum of f over each subset of S, as MapThenSumSet() computes it.
Sums(f, S, it) ==
  it = [s \in SUBSET S |-> IF s = {} THEN 0 ELSE f[Pick(s)] + it[s \ {Pick(s)}]]

\* A part of a finite set, without one member.
LEMMA Smaller ==
  ASSUME NEW S, IsFiniteSet(S), NEW s \in SUBSET S
  PROVE  /\ IsFiniteSet(s) /\ Cardinality(s) \in Nat
         /\ Cardinality(s) = 0 <=> s = {}
         /\ s # {} => Pick(s) \in s
         /\ \A a \in s : s \ {a} \in SUBSET S /\ Cardinality(s \ {a}) = Cardinality(s) - 1
<1>1. IsFiniteSet(s)
  BY FS_Subset
<1>2. Cardinality(s) \in Nat /\ (Cardinality(s) = 0 <=> s = {})
  BY <1>1, FS_CardinalityType, FS_EmptySet
<1>3. \A a \in s : Cardinality(s \ {a}) = Cardinality(s) - 1
  BY <1>1, FS_RemoveElement
<1>4. s # {} => Pick(s) \in s
  BY DEF Pick
<1> QED BY <1>1, <1>2, <1>3, <1>4

\* What the equation for the sums says of one subset.
SumAt(f, it, s) == it[s] = IF s = {} THEN 0 ELSE f[Pick(s)] + it[s \ {Pick(s)}]

\* The equation of the sums, at one subset.
LEMMA SumsAt ==
  ASSUME NEW f, NEW S, NEW it, Sums(f, S, it), NEW s \in SUBSET S
  PROVE  SumAt(f, it, s)
<1> DEFINE jt == [z \in SUBSET S |-> IF z = {} THEN 0 ELSE f[Pick(z)] + it[z \ {Pick(z)}]]
<1>1. it = jt
  BY DEF Sums
<1>2. jt[s] = IF s = {} THEN 0 ELSE f[Pick(s)] + it[s \ {Pick(s)}]
  OBVIOUS
<1> HIDE DEF jt
<1> QED BY <1>1, <1>2 DEF SumAt

\* The sums exist: from those over the sets with n members come those over the
\* sets with n + 1.
LEMMA SumsExist ==
  ASSUME NEW S, IsFiniteSet(S), NEW f
  PROVE  \E it : Sums(f, S, it)
<1> DEFINE B(n) == {s \in SUBSET S : Cardinality(s) <= n}
           P(n, it) == \A s \in B(n) :
                         it[s] = IF s = {} THEN 0 ELSE f[Pick(s)] + it[s \ {Pick(s)}]
           T == {n \in Nat : \E it : P(n, it)}
           N == Cardinality(S)
<1>0. \A s \in SUBSET S :
        /\ Cardinality(s) \in Nat /\ (Cardinality(s) = 0 <=> s = {})
        /\ s # {} => /\ Pick(s) \in s /\ s \ {Pick(s)} \in SUBSET S
                     /\ Cardinality(s \ {Pick(s)}) = Cardinality(s) - 1
  BY Smaller
<1>1. 0 \in T
  <2> DEFINE it == [s \in SUBSET S |-> 0]
  <2>1. ASSUME NEW s \in B(0) PROVE s = {} /\ it[s] = 0
    <3>1. Cardinality(s) \in Nat /\ (Cardinality(s) = 0 <=> s = {})
      BY <1>0
    <3> QED BY <3>1
  <2> QED BY <2>1
<1>2. ASSUME NEW n \in T PROVE n + 1 \in T
  <2>1. PICK it : P(n, it)
    OBVIOUS
  <2> DEFINE e(s) == IF s = {} THEN 0 ELSE f[Pick(s)] + it[s \ {Pick(s)}]
             jt == [s \in SUBSET S |-> e(s)]
  <2>2. ASSUME NEW s \in B(n) PROVE jt[s] = it[s]
    BY <2>1
  <2>3. ASSUME NEW s \in B(n + 1), s # {} PROVE jt[s \ {Pick(s)}] = it[s \ {Pick(s)}]
    <3>1. s \ {Pick(s)} \in B(n)
      BY <1>0, <2>3
    <3> HIDE DEF B, jt
    <3> QED BY <2>2, <3>1
  <2>4. ASSUME NEW s \in B(n + 1) PROVE jt[s] = e(s)
    OBVIOUS
  <2> HIDE DEF jt
  <2>5. P(n + 1, jt)
    BY <2>3, <2>4
  <2>6. n + 1 \in Nat
    OBVIOUS
  <2> QED BY <2>5, <2>6
<1>3. N \in T
  <2>1. N \in Nat
    BY FS_CardinalityType
  <2> HIDE DEF T
  <2>2. T \in SUBSET Nat
    BY DEF T
  <2> QED BY <1>1, <1>2, <2>1, <2>2, Induction
<1>4. PICK it : P(N, it)
  BY <1>3
<1> DEFINE jt == [s \in SUBSET S |-> it[s]]
<1>5. ASSUME NEW s \in SUBSET S
      PROVE  jt[s] = IF s = {} THEN 0 ELSE f[Pick(s)] + jt[s \ {Pick(s)}]
  <2>1. s \in B(N)
    BY FS_Subset
  <2>2. it[s] = IF s = {} THEN 0 ELSE f[Pick(s)] + it[s \ {Pick(s)}]
    BY <1>4, <2>1
  <2>3. jt[s] = it[s] /\ jt[s \ {Pick(s)}] = it[s \ {Pick(s)}]
    OBVIOUS
  <2> QED BY <2>2, <2>3
<1>6. jt = [s \in SUBSET S |-> jt[s]]
  OBVIOUS
<1> HIDE DEF jt
<1>7. Sums(f, S, jt)
  BY <1>5, <1>6 DEF Sums
<1> QED BY <1>7

\* Any member may be taken out first.
Removes(f, it, s) == it[s] \in Int /\ \A a \in s : it[s] = f[a] + it[s \ {a}]

\* A sum is what any one member gives and the sum of the others.
LEMMA SumRemove ==
  ASSUME NEW S, IsFiniteSet(S), NEW f \in [S -> Int], NEW it, Sums(f, S, it)
  PROVE  \A s \in SUBSET S : Removes(f, it, s)
<1> DEFINE P(s) == it[s] \in Int /\ \A a \in s : it[s] = f[a] + it[s \ {a}]
           T == {n \in Nat : \A s \in SUBSET S : Cardinality(s) <= n => P(s)}
<1>0. \A s \in SUBSET S :
        /\ Cardinality(s) \in Nat /\ (Cardinality(s) = 0 <=> s = {})
        /\ s # {} => Pick(s) \in s
        /\ \A a \in s : s \ {a} \in SUBSET S /\ Cardinality(s \ {a}) = Cardinality(s) - 1
  BY Smaller
<1>1. \A s \in SUBSET S : it[s] = IF s = {} THEN 0 ELSE f[Pick(s)] + it[s \ {Pick(s)}]
  BY SumsAt DEF SumAt
<1>2. P({})
  <2>1. {} \in SUBSET S
    OBVIOUS
  <2>2. it[{}] = 0
    BY <1>1, <2>1
  <2> QED BY <2>2
<1>3. 0 \in T
  <2>1. \A s \in SUBSET S : Cardinality(s) <= 0 => s = {}
    BY <1>0
  <2> HIDE DEF P
  <2> QED BY <1>2, <2>1
<1>4. ASSUME NEW n \in T PROVE n + 1 \in T
  <2> SUFFICES ASSUME NEW s \in SUBSET S, Cardinality(s) <= n + 1, s # {} PROVE P(s)
    <3>1. n + 1 \in Nat
      OBVIOUS
    <3> HIDE DEF P
    <3> QED BY <1>2, <3>1
  <2> DEFINE c == Pick(s)
  <2>1. \A z \in SUBSET S : Cardinality(z) <= n => P(z)
    OBVIOUS
  <2>2. c \in s /\ it[s] = f[c] + it[s \ {c}] /\ f[c] \in Int
    BY <1>0, <1>1
  <2>3. \A a \in s : s \ {a} \in SUBSET S /\ P(s \ {a})
    BY <1>0, <2>1
  <2> HIDE DEF c
  <2>4. it[s] \in Int
    <3>1. it[s \ {c}] \in Int
      BY <2>2, <2>3
    <3> QED BY <2>2, <3>1
  <2>5. ASSUME NEW a \in s, a # c PROVE it[s] = f[a] + it[s \ {a}]
    <3>1. it[s \ {c}] = f[a] + it[(s \ {c}) \ {a}]
      BY <2>2, <2>3, <2>5
    <3>2. it[s \ {a}] = f[c] + it[(s \ {a}) \ {c}]
      BY <2>2, <2>3, <2>5
    <3>3. (s \ {c}) \ {a} = (s \ {a}) \ {c}
      OBVIOUS
    <3>4. f[a] \in Int /\ it[s \ {c}] \in Int /\ it[(s \ {c}) \ {a}] \in Int
      <4>1. f[a] \in Int /\ it[s \ {c}] \in Int
        BY <2>2, <2>3
      <4>2. a \in s \ {c} /\ (s \ {c}) \ {a} \in SUBSET S /\ Cardinality((s \ {c}) \ {a}) <= n
        BY <1>0, <2>2, <2>3, <2>5, SMTT(30)
      <4> QED BY <2>1, <4>1, <4>2
    <3> DEFINE x == it[(s \ {c}) \ {a}]
               y == it[s \ {c}]
               z == it[s \ {a}]
               fa == f[a]
               fc == f[c]
    <3>5. x \in Int /\ fa \in Int /\ fc \in Int /\ y = fa + x /\ z = fc + x /\ it[s] = fc + y
      BY <2>2, <3>1, <3>2, <3>3, <3>4
    <3> HIDE DEF x, y, z, fa, fc
    <3>6. it[s] = fa + z
      BY <3>5
    <3> QED BY <3>6 DEF z, fa
  <2> QED BY <2>2, <2>4, <2>5
<1>5. T \in SUBSET Nat
  OBVIOUS
<1> SUFFICES ASSUME NEW s \in SUBSET S PROVE P(s)
  BY DEF Removes
<1>6. Cardinality(s) \in T
  <2>1. Cardinality(s) \in Nat
    BY <1>0
  <2> HIDE DEF T
  <2> QED BY <1>3, <1>4, <1>5, <2>1, Induction
<1> QED BY <1>0, <1>6

\* Only the values on the set count.
LEMMA SumSame ==
  ASSUME NEW S, IsFiniteSet(S), NEW f, NEW it, Sums(f, S, it),
         NEW Z, NEW g, NEW jt, Sums(g, Z, jt),
         NEW U \in SUBSET S, U \subseteq Z, \A x \in U : f[x] = g[x]
  PROVE  it[U] = jt[U]
<1> DEFINE P(s) == it[s] = jt[s]
           T == {n \in Nat : \A s \in SUBSET U : Cardinality(s) <= n => P(s)}
<1>0. \A s \in SUBSET U :
        /\ Cardinality(s) \in Nat /\ (Cardinality(s) = 0 <=> s = {})
        /\ s # {} => /\ Pick(s) \in s /\ s \ {Pick(s)} \in SUBSET U
                     /\ Cardinality(s \ {Pick(s)}) = Cardinality(s) - 1
  BY Smaller
<1>1. \A s \in SUBSET U :
        /\ it[s] = IF s = {} THEN 0 ELSE f[Pick(s)] + it[s \ {Pick(s)}]
        /\ jt[s] = IF s = {} THEN 0 ELSE g[Pick(s)] + jt[s \ {Pick(s)}]
  <2>1. \A s \in SUBSET S : SumAt(f, it, s)
    BY SumsAt
  <2>2. \A s \in SUBSET Z : SumAt(g, jt, s)
    BY SumsAt
  <2>3. SUBSET U \subseteq SUBSET S /\ SUBSET U \subseteq SUBSET Z
    OBVIOUS
  <2> QED BY <2>1, <2>2, <2>3 DEF SumAt
<1>2. 0 \in T
  <2>1. ASSUME NEW s \in SUBSET U, Cardinality(s) <= 0 PROVE s = {}
    <3>1. Cardinality(s) \in Nat /\ (Cardinality(s) = 0 <=> s = {})
      BY <1>0
    <3> QED BY <2>1, <3>1
  <2>2. P({})
    <3>1. {} \in SUBSET U
      OBVIOUS
    <3>2. it[{}] = 0 /\ jt[{}] = 0
      BY <1>1, <3>1
    <3> QED BY <3>2
  <2> HIDE DEF P
  <2> QED BY <2>1, <2>2
<1>3. ASSUME NEW n \in T PROVE n + 1 \in T
  <2> SUFFICES ASSUME NEW s \in SUBSET U, Cardinality(s) <= n + 1, s # {} PROVE P(s)
    BY <1>1
  <2>1. Pick(s) \in s /\ f[Pick(s)] = g[Pick(s)]
    BY <1>0
  <2>2. it[s \ {Pick(s)}] = jt[s \ {Pick(s)}]
    BY <1>0
  <2> QED BY <1>1, <2>1, <2>2
<1>4. T \in SUBSET Nat
  OBVIOUS
<1>5. Cardinality(U) \in T
  <2>1. Cardinality(U) \in Nat
    BY <1>0
  <2> HIDE DEF T
  <2> QED BY <1>2, <1>3, <1>4, <2>1, Induction
<1> QED BY <1>0, <1>5

OnlyAt(f, g, S, a) == \A x \in S \ {a} : g[x] = f[x]

Summed(f, S, it) == IsFiniteSet(S) /\ f \in [S -> Int] /\ Sums(f, S, it)

Shifted(f, it, g, jt, S, a) == it[S] \in Int /\ jt[S] = it[S] + (g[a] - f[a])

\* One value changes, and the sum by as much.
LEMMA SumUpdate ==
  \A S, f, it, g, jt, a :
    Summed(f, S, it) /\ Summed(g, S, jt) /\ a \in S /\ OnlyAt(f, g, S, a)
      => Shifted(f, it, g, jt, S, a)
<1> SUFFICES ASSUME NEW S, NEW f, NEW it, NEW g, NEW jt, NEW a \in S,
                    Summed(f, S, it), Summed(g, S, jt), OnlyAt(f, g, S, a)
             PROVE  it[S] \in Int /\ jt[S] = it[S] + (g[a] - f[a])
  BY DEF Shifted
<1>0. /\ IsFiniteSet(S) /\ f \in [S -> Int] /\ Sums(f, S, it)
      /\ g \in [S -> Int] /\ Sums(g, S, jt)
  BY DEF Summed
<1>1. S \in SUBSET S /\ S \ {a} \in SUBSET S /\ S \ {a} \subseteq S
  OBVIOUS
<1>2. it[S] \in Int /\ it[S \ {a}] \in Int /\ it[S] = f[a] + it[S \ {a}]
  <2>1. \A s \in SUBSET S : Removes(f, it, s)
    BY <1>0, SumRemove
  <2> QED BY <1>1, <2>1 DEF Removes
<1>3. jt[S] = g[a] + jt[S \ {a}]
  <2>1. \A s \in SUBSET S : Removes(g, jt, s)
    BY <1>0, SumRemove
  <2> QED BY <1>1, <2>1 DEF Removes
<1>4. it[S \ {a}] = jt[S \ {a}]
  <2>1. \A x \in S \ {a} : f[x] = g[x]
    BY DEF OnlyAt
  <2> QED BY <1>0, <1>1, <2>1, SumSame
<1> DEFINE x == it[S \ {a}]
           b == f[a]
           c == g[a]
<1>5. x \in Int /\ b \in Int /\ c \in Int /\ it[S] = b + x /\ jt[S] = c + x
  BY <1>0, <1>2, <1>3, <1>4
<1> HIDE DEF x, b, c
<1>6. jt[S] = it[S] + (c - b)
  BY <1>5
<1> QED BY <1>2, <1>6 DEF b, c

\* One more member.
LEMMA SumAdd ==
  ASSUME NEW S, IsFiniteSet(S), NEW f, NEW it, Sums(f, S, it), NEW a, a \notin S,
         NEW Z, Z = S \cup {a}, NEW g \in [Z -> Int], NEW jt, Sums(g, Z, jt),
         \A x \in S : g[x] = f[x]
  PROVE  jt[Z] = g[a] + it[S]
<1>1. IsFiniteSet(Z)
  BY FS_AddElement
<1>2. Z \in SUBSET Z /\ a \in Z /\ Z \ {a} = S /\ S \in SUBSET S /\ S \subseteq Z
  OBVIOUS
<1>3. jt[Z] = g[a] + jt[S]
  <2>1. \A s \in SUBSET Z : Removes(g, jt, s)
    BY <1>1, SumRemove
  <2>2. Removes(g, jt, Z)
    BY <1>2, <2>1
  <2>3. jt[Z] = g[a] + jt[Z \ {a}]
    BY <1>2, <2>2 DEF Removes
  <2>4. jt[Z \ {a}] = jt[S]
    BY <1>2, Zenon
  <2> QED BY <2>3, <2>4
<1>4. it[S] = jt[S]
  <2>1. \A x \in S : f[x] = g[x]
    OBVIOUS
  <2> QED BY <1>2, <2>1, SumSame
<1> QED BY <1>3, <1>4

-----------------------------------------------------------------------------
(* The account of the bytes.                                               *)

\* What a copy knows of its file when it goes to the end of it: it is there.
EndOK(r, c) ==
  /\ r.pc \in {"seek", "write"} => r.Grow_incr \in Sizes
  /\ r.pc = "write" => r.Woffset = Len(c) /\ (~set.append => r.pos = Len(c))
  /\ r.pc \in {"cwrite", "cwread", "cfile", "cfread", "shrink"} => r.pos = Len(c)
  /\ r.pc \in {"cwrite", "cwread"} /\ r.Grow_incr > 0 => r.Woffset + r.Grow_incr = Len(c)
  /\ r.pc = "cwread" => r.Grow_incr > 0
  /\ r.pc = "cfread" => r.fsize = Len(c)

Consumed == [p \in Procs |-> pr[p].bytes_consumed]
Lengths  == [i \in 1 .. Len(data) |-> Len(data[i])]

\* What the copies have counted is what is in the files.
Balanced ==
  \E it, jt : /\ Sums(Consumed, Procs, it) /\ Sums(Lengths, 1 .. Len(data), jt)
              /\ it[Procs] = jt[1 .. Len(data)]

Counting == set.lockfile = 2 /\ set.lseek = "end" /\ faults = 0

CountInv ==
  Counting =>
    /\ \A p \in Procs : EndOK(pr[p], data[pr[p].ino])
    /\ 0 \in Sizes => \A i \in 1 .. Len(data) : Len(data[i]) = 0
    /\ Balanced

\* What the step of a copy does to its file and to its account: nothing, or as
\* much to the one as to the other.
Even(p) ==
  \/ /\ pr'[p].bytes_consumed = pr[p].bytes_consumed
     /\ data' = data \/ data' = Append(data, <<>>)
  \/ /\ pr[p].ino \in 1 .. Len(data)
     /\ \E x \in Seq(Byte) :
          /\ FileBecomes(pr[p].ino, x)
          /\ pr'[p].bytes_consumed = pr[p].bytes_consumed + (Len(x) - Len(data[pr[p].ino]))
          /\ 0 \in Sizes => Len(x) = 0

\* A write at the end of the file.
LEMMA EndWrite ==
  ASSUME L1, VisitInv, CountInv, Counting, faults' = 0, NEW p \in Procs, Write(p)
  PROVE  EndOK(pr'[p], data'[pr'[p].ino]) /\ Even(p)
<1> DEFINE r == pr[p]
           s == pr'[p]
           c == data[r.ino]
           g == r.Grow_incr
           off == WriteOff(p)
           end == off + Len(Buf(p))
           x == WriteAt(c, off, Buf(p))
<1>0. ~Fault
  BY NoFault DEF Counting
<1>1. /\ r.pc = "write" /\ s \in Copies /\ s.ino = r.ino /\ s.Grow_incr = g
      /\ FileBecomes(r.ino, x) /\ s.pc = "cwrite" /\ s.pos = end
      /\ s.Woffset = SaidOff(r, end)
      /\ s.bytes_consumed = r.bytes_consumed + (SaidOff(r, end) + r.Grow_incr) - r.fsize
  BY <1>0, WriteDoes
<1>2. r.ino \in 1 .. Len(data) /\ c \in Seq(Byte) /\ Size(p) = Len(c) /\ Len(c) \in Nat
  BY <1>1, FileType DEF VisitPcs
<1>3. r \in Copies /\ g \in Nat \ {0} /\ r.bytes_consumed \in Int
  <2>1. g > 0
    BY <1>1 DEF L1, LockInv, CopyOK
  <2> QED BY <2>1, CopyType DEF L1
<1>4. r.Woffset = Len(c) /\ off = Len(c) /\ r.fsize = Len(c) /\ g \in Sizes
  <2>1. EndOK(r, c) /\ VisitOK(r, c)
    BY DEF CountInv, VisitInv, Counting
  <2> QED BY <1>1, <1>2, <2>1 DEF EndOK, VisitOK, WriteOff
<1>5. Buf(p) \in Seq(Byte) /\ Len(Buf(p)) = g
  <2>1. num_procs \in Nat /\ g > 0 /\ set.lseek # "w"
    BY <1>3, GrowfilesAssumption DEF Counting
  <2> QED BY <1>3, <2>1, BufBytes
<1>6. end = Len(c) + g /\ SaidOff(r, end) = Len(c)
  <2>1. end = Len(c) + g
    BY <1>4, <1>5
  <2>2. end = r.Woffset + r.Grow_incr
    BY <1>4, <2>1
  <2> HIDE DEF end
  <2> QED BY <1>4, <2>1, <2>2 DEF SaidOff
<1>7. x \in Seq(Byte) /\ Len(x) = Len(c) + g
  <2>1. off \in Nat
    BY <1>2, <1>4
  <2>2. x \in Seq(Byte) /\ Len(x) = (IF Len(c) >= off + Len(Buf(p)) THEN Len(c) ELSE off + Len(Buf(p)))
    BY <1>2, <1>5, <2>1, WriteAtBytes
  <2> HIDE DEF x, c, g, off
  <2> QED BY <1>2, <1>3, <1>4, <1>5, <2>2
<1>8. ~(0 \in Sizes)
  BY <1>3, <1>4, GrowfilesAssumption
<1>9. data'[s.ino] = x
  BY <1>1 DEF FileBecomes
<1> HIDE DEF x, c, end, off, g
<1>10. EndOK(s, x)
  BY <1>1, <1>2, <1>3, <1>6, <1>7 DEF EndOK
<1>11. s.bytes_consumed = r.bytes_consumed + (Len(x) - Len(c))
  <2>1. s.bytes_consumed = r.bytes_consumed + (Len(c) + g) - Len(c)
    BY <1>1, <1>4, <1>6 DEF g
  <2> DEFINE b == r.bytes_consumed
             n == Len(c)
             m == Len(x)
  <2>2. b \in Int /\ n \in Nat /\ g \in Nat /\ m = n + g /\ s.bytes_consumed = b + (n + g) - n
    BY <1>2, <1>3, <1>7, <2>1
  <2> HIDE DEF b, n, m
  <2>3. s.bytes_consumed = b + (m - n)
    BY <2>2
  <2> QED BY <2>3 DEF b, n, m
<1> QED BY <1>1, <1>2, <1>7, <1>8, <1>9, <1>10, <1>11 DEF Even, c

\* A truncation from the end of the file.
LEMMA EndShrink ==
  ASSUME L1, CountInv, Counting, faults' = 0, NEW p \in Procs, shrinkfile(p)
  PROVE  EndOK(pr'[p], data'[pr'[p].ino]) /\ Even(p)
<1> DEFINE r == pr[p]
           s == pr'[p]
           c == data[r.ino]
<1>0. ~Fault
  BY NoFault DEF Counting
<1>1. r.pc = "shrink" /\ s.pc = "close"
  BY <1>0, ShrinkDoes
<1>2. EndOK(s, data'[s.ino])
  BY <1>1 DEF EndOK
<1>3. CASE data' = data /\ s.bytes_consumed = r.bytes_consumed
  BY <1>2, <1>3 DEF Even
<1>4. CASE \E n \in NewSizes(p) \cap Nat :
             /\ FileBecomes(r.ino, TruncateTo(c, n))
             /\ s.bytes_consumed = r.bytes_consumed - (r.pos - n)
  <2>1. PICK n \in NewSizes(p) \cap Nat :
             /\ FileBecomes(r.ino, TruncateTo(c, n))
             /\ s.bytes_consumed = r.bytes_consumed - (r.pos - n)
    BY <1>4
  <2>2. r.ino \in 1 .. Len(data) /\ c \in Seq(Byte) /\ Len(c) \in Nat
    BY <1>1, FileType DEF VisitPcs
  <2>3. r.pos = Len(c)
    <3>1. EndOK(r, c)
      BY DEF CountInv
    <3> QED BY <1>1, <3>1 DEF EndOK
  <2> DEFINE x == TruncateTo(c, n)
  <2>4. x \in Seq(Byte) /\ Len(x) = n
    BY <2>1, <2>2, TruncateToBytes
  <2>5. 0 \in Sizes => n = 0
    <3> SUFFICES ASSUME 0 \in Sizes PROVE n = 0
      OBVIOUS
    <3>1. r.pos = 0
      BY <2>2, <2>3 DEF CountInv
    <3> DEFINE d == r.pos - trunc_incr
    <3>2. d \in Int /\ d <= 0
      BY <3>1, GrowfilesAssumption
    <3>3. n = Max({0, d})
      BY <2>1 DEF NewSizes, Counting
    <3> HIDE DEF d
    <3>4. n = IF 0 >= d THEN 0 ELSE d
      BY <3>2, <3>3, MaxTwo
    <3> QED BY <3>2, <3>4
  <2>6. s.bytes_consumed = r.bytes_consumed + (Len(x) - Len(c))
    <3> DEFINE b == r.bytes_consumed
               m == Len(c)
    <3>1. b \in Int /\ m \in Nat /\ n \in Nat /\ s.bytes_consumed = b - (m - n)
      BY <2>1, <2>2, <2>3, CopyType DEF L1
    <3> HIDE DEF b, m
    <3>2. s.bytes_consumed = b + (n - m)
      BY <3>1
    <3> QED BY <2>4, <3>2 DEF b, m
  <2> HIDE DEF x
  <2> QED BY <1>2, <2>1, <2>2, <2>4, <2>5, <2>6 DEF Even, x
<1> QED BY <1>0, <1>3, <1>4, ShrinkDoes DEF Account

\* Every step of a copy that counts.
LEMMA EndStep ==
  ASSUME L1, VisitInv, CountInv, Counting, faults' = 0,
         NEW p \in Procs, Work(p) \/ sig_handler(p)
  PROVE  EndOK(pr'[p], data'[pr'[p].ino]) /\ Even(p)
<1> DEFINE r == pr[p]
           s == pr'[p]
           c == data[r.ino]
<1>0. ~Fault /\ EndOK(r, c)
  BY NoFault DEF Counting, CountInv
<1>t. /\ r.pos \in Nat /\ r.fsize \in Nat /\ r.Woffset \in Nat /\ r.Grow_incr \in Nat
      /\ r.pc \in VisitPcs => Size(p) = Len(c) /\ Len(c) \in Nat
  <2>1. r.pc \in VisitPcs => Size(p) = Len(c) /\ Len(c) \in Nat
    BY FileType
  <2> QED BY <2>1, CopyType DEF L1
\* Where the copy has no file, or nothing to rely on yet or any more.
<1>n. ASSUME s.bytes_consumed = r.bytes_consumed, data' = data \/ data' = Append(data, <<>>),
             s.pc \in {"head", "open", "unlink", "notify", "cleanup", "exit", "visit",
                       "fstat", "close"}
      PROVE  EndOK(s, data'[s.ino]) /\ Even(p)
  BY <1>n DEF EndOK, Even
<1>1. CASE Stop(p) \/ Iterate(p) \/ Close(p) \/ Unlink(p)
  BY <1>1, <1>n, StopDoes, IterateDoes, CloseDoes, UnlinkDoes DEF Account
<1>2. CASE Open(p)
  <2>1. /\ s.bytes_consumed = r.bytes_consumed /\ s.pc = "visit"
        /\ data' = data \/ data' = Append(data, <<>>)
    BY <1>0, <1>2, OpenDoes DEF Fault
  <2> QED BY <1>n, <2>1
<1>3. CASE Visit(p)
  <2>1. s.bytes_consumed = r.bytes_consumed /\ s.pc \in {"fstat", "open", "head"} /\ data' = data
    BY <1>0, <1>3, VisitDoes DEF Fault, Account
  <2> QED BY <1>n, <2>1
<1>4. CASE GrowFailed(p)
  <2>1. s.bytes_consumed = r.bytes_consumed /\ s.pc \in {"notify", "open", "head"} /\ data' = data
    BY <1>4, GrowFailedDoes
  <2> QED BY <1>n, <2>1
<1>5. CASE Fstat(p)
  <2>1. /\ r.pc = "fstat" /\ s.bytes_consumed = r.bytes_consumed /\ s.ino = r.ino
        /\ s.pos = r.pos /\ s.Grow_incr \in Sizes /\ data' = data
        /\ (s.Grow_incr = 0 /\ s.pc = "cwrite") \/ s.pc = "seek"
    BY <1>0, <1>5, FstatDoes DEF Account
  <2>2. r.pos = 0 /\ Len(c) \in Nat /\ r.ino \in 1 .. Len(data)
    BY <2>1, FileType DEF L1, LockInv, CopyOK, VisitPcs
  <2>3. s.Grow_incr = 0 => Len(c) = 0
    BY <2>1, <2>2 DEF CountInv
  <2>4. data'[s.ino] = c
    BY <2>1
  <2> HIDE DEF c
  <2>5. EndOK(s, c)
    BY <2>1, <2>2, <2>3 DEF EndOK
  <2> QED BY <2>1, <2>4, <2>5 DEF Even
<1>6. CASE Seek(p)
  <2>1. /\ r.pc = "seek" /\ s.bytes_consumed = r.bytes_consumed /\ s.ino = r.ino
        /\ s.pc = "write" /\ data' = data /\ s.Grow_incr = r.Grow_incr
        /\ s.Woffset = Size(p) /\ (~set.append => s.pos = Size(p))
    BY <1>0, <1>6, SeekDoes DEF Account, Counting
  <2>2. Size(p) = Len(c) /\ data'[s.ino] = c
    BY <1>t, <2>1 DEF VisitPcs
  <2> HIDE DEF c
  <2>3. EndOK(s, c)
    BY <1>0, <2>1, <2>2 DEF EndOK
  <2> QED BY <2>1, <2>2, <2>3 DEF Even
<1>7. CASE Write(p)
  BY <1>7, EndWrite
<1>8. CASE CheckWriteSize(p)
  <2>1. /\ r.pc = "cwrite" /\ s.bytes_consumed = r.bytes_consumed /\ s.ino = r.ino
        /\ s.pos = r.pos /\ s.Woffset = r.Woffset /\ data' = data
        /\ \/ s.pc = "cfile"
           \/ s.pc = "cwread" /\ s.Grow_incr = Own(r, c) /\ r.Grow_incr > 0
    BY <1>0, <1>8, CheckWriteSizeDoes
  <2>2. Len(c) \in Nat /\ data'[s.ino] = c
    BY <1>t, <2>1 DEF VisitPcs
  <2> HIDE DEF c
  <2>3. r.Grow_incr > 0 => Own(r, c) = r.Grow_incr /\ r.Woffset + r.Grow_incr = Len(c)
    <3>1. r.Grow_incr > 0 => r.Woffset + r.Grow_incr = Len(c)
      BY <1>0, <2>1 DEF EndOK
    <3> QED BY <1>t, <2>2, <3>1 DEF Own
  <2>4. EndOK(s, c)
    BY <1>0, <2>1, <2>3 DEF EndOK
  <2> QED BY <2>1, <2>2, <2>4 DEF Even
<1>9. CASE CheckWriteRead(p)
  <2>1. r.pc = "cwread" /\ s.bytes_consumed = r.bytes_consumed /\ s.ino = r.ino /\ data' = data
    BY <1>9, CheckWriteReadDoes
  <2>2. r.Woffset + r.Grow_incr = Len(c)
    BY <1>0, <2>1 DEF EndOK
  <2>3. Len(c) \in Nat /\ data'[s.ino] = c
    BY <1>t, <2>1 DEF VisitPcs
  <2>4. r.Woffset + r.Grow_incr <= Len(c)
    BY <2>2, <2>3
  <2>5. s.pc \in {"cfile", "notify"} /\ s.pos = r.Woffset + r.Grow_incr
    BY <1>0, <1>9, <2>4, CheckWriteReadDoes
  <2> HIDE DEF c
  <2>6. EndOK(s, c)
    BY <2>2, <2>5 DEF EndOK
  <2> QED BY <2>1, <2>3, <2>6 DEF Even
<1>10. CASE CheckFileSize(p)
  <2>1. /\ r.pc = "cfile" /\ s.bytes_consumed = r.bytes_consumed /\ s.ino = r.ino
        /\ s.pos = r.pos /\ data' = data
        /\ s.pc = "shrink" \/ (s.pc = "cfread" /\ s.fsize = Len(c))
    BY <1>0, <1>10, CheckFileSizeDoes
  <2>2. data'[s.ino] = c
    BY <2>1
  <2> HIDE DEF c
  <2>3. EndOK(s, c)
    BY <1>0, <2>1 DEF EndOK
  <2> QED BY <2>1, <2>2, <2>3 DEF Even
<1>11. CASE CheckFileRead(p)
  <2>1. r.pc = "cfread" /\ s.bytes_consumed = r.bytes_consumed /\ s.ino = r.ino /\ data' = data
    BY <1>11, CheckFileReadDoes
  <2>2. r.fsize = Len(c)
    BY <1>0, <2>1 DEF EndOK
  <2>3. Len(c) \in Nat /\ data'[s.ino] = c
    BY <1>t, <2>1 DEF VisitPcs
  <2>4. r.fsize <= Len(c)
    BY <2>2, <2>3
  <2>5. s.pc \in {"shrink", "notify"} /\ s.pos = r.fsize
    BY <1>0, <1>11, <2>4, CheckFileReadDoes
  <2> HIDE DEF c
  <2>6. EndOK(s, c)
    BY <2>2, <2>5 DEF EndOK
  <2> QED BY <2>1, <2>3, <2>6 DEF Even
<1>12. CASE shrinkfile(p)
  BY <1>12, EndShrink
<1>13. CASE notify_others(p) \/ sig_handler(p)
  BY <1>13, <1>n, EndDoes DEF Account
<1>14. CASE Exit(p)
  BY <1>14, <1>n, ExitDoes DEF Account
<1> QED BY <1>1, <1>2, <1>3, <1>4, <1>5, <1>6, <1>7, <1>8, <1>9, <1>10, <1>11, <1>12,
           <1>13, <1>14 DEF Work

\* The numbers that are summed.
LEMMA SummedTypes ==
  ASSUME NEW q \in [Procs -> Copies], NEW d \in Seq(Seq(Byte))
  PROVE  /\ IsFiniteSet(Procs) /\ [p \in Procs |-> q[p].bytes_consumed] \in [Procs -> Int]
         /\ Len(d) \in Nat /\ IsFiniteSet(1 .. Len(d))
         /\ [i \in 1 .. Len(d) |-> Len(d[i])] \in [1 .. Len(d) -> Int]
<1>1. Len(d) \in Nat /\ \A i \in 1 .. Len(d) : Len(d[i]) \in Nat
  <2>1. \A i \in 1 .. Len(d) : d[i] \in Seq(Byte)
    BY ElementOfSeq
  <2> QED BY <2>1
<1>2. IsFiniteSet(Procs)
  BY GrowfilesAssumption, FS_Interval DEF Procs
<1>3. IsFiniteSet(1 .. Len(d))
  BY <1>1, FS_Interval
<1>4. \A p \in Procs : q[p].bytes_consumed \in Int
  BY DEF Copies
<1> QED BY <1>1, <1>2, <1>3, <1>4

\* The account stays even.
LEMMA BalancedNext ==
  ASSUME L1, L1', Balanced, NEW p \in Procs, Even(p), \A q \in Procs \ {p} : pr'[q] = pr[q]
  PROVE  Balanced'
<1> DEFINE r == pr[p]
           s == pr'[p]
           f == Consumed
           f1 == Consumed'
           g == Lengths
           g1 == Lengths'
           D == 1 .. Len(data)
           D1 == 1 .. Len(data')
<1>1. /\ IsFiniteSet(Procs) /\ f \in [Procs -> Int] /\ Len(data) \in Nat /\ IsFiniteSet(D)
      /\ g \in [D -> Int]
  BY SummedTypes DEF L1, TypeInv, Consumed, Lengths
<1>2. f1 \in [Procs -> Int] /\ Len(data') \in Nat /\ IsFiniteSet(D1) /\ g1 \in [D1 -> Int]
  <2>1. pr' \in [Procs -> Copies] /\ data' \in Seq(Seq(Byte))
    BY DEF L1, TypeInv
  <2> QED BY <2>1, SummedTypes DEF Consumed, Lengths
<1>3. PICK it, jt : Sums(f, Procs, it) /\ Sums(g, D, jt) /\ it[Procs] = jt[D]
  BY DEF Balanced
<1>4. PICK it1 : Sums(f1, Procs, it1)
  BY <1>1, SumsExist
<1>5. PICK jt1 : Sums(g1, D1, jt1)
  BY <1>2, SumsExist
<1>6. /\ f[p] = r.bytes_consumed /\ f1[p] = s.bytes_consumed
      /\ \A q \in Procs \ {p} : f1[q] = f[q]
  BY DEF Consumed
<1>7. /\ \A i \in D : g[i] = Len(data[i])
      /\ \A i \in D1 : g1[i] = Len(data'[i])
  BY DEF Lengths
<1> SUFFICES it1[Procs] = jt1[D1]
  BY <1>4, <1>5 DEF Balanced
<1> HIDE DEF f, f1, g, g1
<1>8. it[Procs] \in Int /\ it1[Procs] = it[Procs] + (f1[p] - f[p])
  <2>1. OnlyAt(f, f1, Procs, p)
    BY <1>6 DEF OnlyAt
  <2>2. Summed(f, Procs, it)
    BY <1>1, <1>3 DEF Summed
  <2>3. Summed(f1, Procs, it1)
    BY <1>1, <1>2, <1>4 DEF Summed
  <2>4. Shifted(f, it, f1, it1, Procs, p)
    BY <2>1, <2>2, <2>3, SumUpdate, Zenon
  <2> QED BY <2>4, Zenon DEF Shifted
<1>9. CASE s.bytes_consumed = r.bytes_consumed /\ data' = data
  <2>1. D1 = D /\ \A i \in D : g1[i] = g[i]
    BY <1>7, <1>9
  <2>2. jt1[D] = jt[D]
    <3>1. D \in SUBSET D /\ D \subseteq D1
      BY <2>1
    <3>2. \A i \in D : g[i] = g1[i]
      BY <2>1
    <3> HIDE DEF D, D1
    <3>3. jt[D] = jt1[D]
      BY <1>1, <1>3, <1>5, <3>1, <3>2, SumSame
    <3> QED BY <3>3
  <2>3. f1[p] \in Int /\ f1[p] = f[p]
    BY <1>2, <1>6, <1>9
  <2> QED BY <1>3, <1>8, <2>1, <2>2, <2>3
<1>10. CASE s.bytes_consumed = r.bytes_consumed /\ data' = Append(data, <<>>)
  <2> DEFINE n == Len(data) + 1
  <2>1. data \in Seq(Seq(Byte)) /\ <<>> \in Seq(Byte)
    BY DEF L1, TypeInv
  <2>2. /\ Len(data') = n /\ data'[n] = <<>>
        /\ \A i \in D : data'[i] = data[i]
    BY <1>10, <2>1
  <2>3. D1 = D \cup {n} /\ n \notin D /\ n \in D1
    BY <1>1, <2>2
  <2>4. g1[n] = 0 /\ \A i \in D : g1[i] = g[i]
    <3>1. Len(<<>>) = 0 /\ D \subseteq D1
      BY <2>3
    <3> QED BY <1>7, <2>2, <2>3, <3>1
  <2> HIDE DEF D, D1, n
  <2>5. jt1[D1] = g1[n] + jt[D]
    BY <1>1, <1>2, <1>3, <1>5, <2>3, <2>4, SumAdd
  <2>6. f1[p] \in Int /\ f1[p] = f[p]
    BY <1>2, <1>6, <1>10
  <2> QED BY <1>3, <1>8, <2>4, <2>5, <2>6
<1>11. ASSUME r.ino \in D, NEW x \in Seq(Byte), FileBecomes(r.ino, x),
              s.bytes_consumed = r.bytes_consumed + (Len(x) - Len(data[r.ino]))
       PROVE  it1[Procs] = jt1[D1]
  <2> DEFINE i == r.ino
  <2>1. Len(data') = Len(data) /\ data'[i] = x /\ \A j \in D : j # i => data'[j] = data[j]
    BY <1>11 DEF FileBecomes
  <2>2. D1 = D /\ i \in D
    BY <1>11, <2>1
  <2>3. g1[i] = Len(x) /\ g[i] = Len(data[i]) /\ \A j \in D \ {i} : g1[j] = g[j]
    BY <1>7, <2>1, <2>2
  <2>4. f1[p] = f[p] + (g1[i] - g[i])
    BY <1>6, <1>11, <2>3
  <2>5. g1 \in [D -> Int] /\ Sums(g1, D, jt1)
    BY <1>2, <1>5, <2>2
  <2> HIDE DEF D, D1, i
  <2>6. jt1[D] = jt[D] + (g1[i] - g[i])
    <3>1. OnlyAt(g, g1, D, i)
      BY <2>3 DEF OnlyAt
    <3>2. Summed(g, D, jt)
      BY <1>1, <1>3 DEF Summed
    <3>3. Summed(g1, D, jt1)
      BY <1>1, <2>5 DEF Summed
    <3>4. Shifted(g, jt, g1, jt1, D, i)
      BY <2>2, <3>1, <3>2, <3>3, SumUpdate, Zenon
    <3> QED BY <3>4, Zenon DEF Shifted
  <2>7. f[p] \in Int /\ g1[i] \in Int /\ g[i] \in Int
    BY <1>1, <2>2, <2>5
  <2> DEFINE a == f[p]
             b == g1[i] - g[i]
             v == it[Procs]
  <2>8. a \in Int /\ b \in Int /\ v \in Int /\ it1[Procs] = v + ((a + b) - a) /\ jt1[D] = v + b
    BY <1>3, <1>8, <2>4, <2>6, <2>7
  <2> HIDE DEF a, b, v
  <2>9. it1[Procs] = jt1[D]
    BY <2>8
  <2> QED BY <2>2, <2>9
<1> QED BY <1>9, <1>10, <1>11 DEF Even

\* A step of a copy keeps the account, and what each copy knows of its file.
LEMMA CountNext ==
  ASSUME L1, VisitInv, CountInv, NEW p \in Procs, Work(p) \/ sig_handler(p)
  PROVE  CountInv'
<1>0. /\ set' = set /\ \A q \in Procs \ {p} : pr'[q] = pr[q]
      /\ Len(data) \in Nat /\ Len(data') \in Nat /\ Len(data') >= Len(data)
      /\ \A i \in 1 .. Len(data') : i > Len(data) => data'[i] = <<>>
  BY Touched
<1> SUFFICES ASSUME Counting, faults' = 0
             PROVE  /\ \A q \in Procs : EndOK(pr'[q], data'[pr'[q].ino])
                    /\ 0 \in Sizes => \A i \in 1 .. Len(data') : Len(data'[i]) = 0
                    /\ Balanced'
  <2>1. ASSUME NEW r, NEW c PROVE EndOK(r, c)' <=> EndOK(r, c)
    BY <1>0 DEF EndOK
  <2>2. Counting' => Counting /\ faults' = 0
    BY <1>0, FaultsGrow DEF Counting
  <2> QED BY <2>1, <2>2 DEF CountInv
<1>1. EndOK(pr'[p], data'[pr'[p].ino]) /\ Even(p)
  BY EndStep
<1>2. /\ \A q \in Procs : EndOK(pr[q], data[pr[q].ino])
      /\ 0 \in Sizes => \A i \in 1 .. Len(data) : Len(data[i]) = 0
      /\ Balanced
  BY DEF CountInv
<1>3. ASSUME NEW q \in Procs \ {p} PROVE EndOK(pr[q], data'[pr[q].ino])
  <2>1. CASE pr[q].pc \in VisitPcs \ {"visit"}
    BY <1>2, <2>1, Apart DEF Counting
  <2>2. CASE pr[q].pc \notin VisitPcs \ {"visit"}
    BY <2>2 DEF EndOK, VisitPcs
  <2> QED BY <2>1, <2>2
<1>4. ASSUME 0 \in Sizes, NEW i \in 1 .. Len(data') PROVE Len(data'[i]) = 0
  <2>1. CASE i > Len(data)
    BY <1>0, <2>1
  <2>2. CASE i \in 1 .. Len(data) /\ data'[i] = data[i]
    BY <1>2, <1>4, <2>2
  <2>3. CASE i \in 1 .. Len(data) /\ data'[i] # data[i]
    <3>1. ~(data' = data \/ data' = Append(data, <<>>))
      <4>1. data' = Append(data, <<>>) => data'[i] = data[i]
        <5>1. data \in Seq(Seq(Byte)) /\ <<>> \in Seq(Byte)
          BY DEF L1, TypeInv
        <5> QED BY <2>3, <5>1
      <4> QED BY <2>3, <4>1
    <3>2. PICK x \in Seq(Byte) : FileBecomes(pr[p].ino, x) /\ Len(x) = 0
      BY <1>1, <1>4, <3>1 DEF Even
    <3> QED BY <2>3, <3>2 DEF FileBecomes
  <2>4. i > Len(data) \/ i \in 1 .. Len(data)
    BY <1>0
  <2> QED BY <2>1, <2>2, <2>3, <2>4
<1>5. Balanced'
  <2>1. L1'
    BY L1Next
  <2> QED BY <1>0, <1>1, <1>2, <2>1, BalancedNext
<1> QED BY <1>0, <1>1, <1>3, <1>4, <1>5

\* At the start there is nothing to account for.
LEMMA InitCount == Init => CountInv
<1> SUFFICES ASSUME Init PROVE CountInv
  OBVIOUS
<1>1. \A p \in Procs : pr[p].pc = "head" /\ pr[p].bytes_consumed = 0
  BY DEF Init, Copy0
<1>2. Len(data) = 0 /\ 1 .. Len(data) = {}
  BY DEF Init
<1>3. ASSUME NEW f, NEW S, \A x \in S : f[x] = 0
      PROVE  Sums(f, S, [s \in SUBSET S |-> 0])
  <2> DEFINE it == [s \in SUBSET S |-> 0]
  <2>1. ASSUME NEW s \in SUBSET S
        PROVE  0 = IF s = {} THEN 0 ELSE f[Pick(s)] + it[s \ {Pick(s)}]
    <3>1. s # {} => Pick(s) \in S
      BY DEF Pick
    <3> QED BY <1>3, <3>1
  <2> QED BY <2>1 DEF Sums
<1>4. Balanced
  <2> DEFINE it == [s \in SUBSET Procs |-> 0]
             jt == [s \in SUBSET (1 .. Len(data)) |-> 0]
  <2>1. Sums(Consumed, Procs, it)
    <3>1. \A p \in Procs : Consumed[p] = 0
      BY <1>1 DEF Consumed
    <3> QED BY <1>3, <3>1
  <2>2. Sums(Lengths, 1 .. Len(data), jt)
    <3>1. \A i \in 1 .. Len(data) : Lengths[i] = 0
      BY <1>2
    <3> QED BY <1>3, <3>1
  <2>3. it[Procs] = 0 /\ jt[1 .. Len(data)] = 0
    OBVIOUS
  <2> HIDE DEF it, jt
  <2> QED BY <2>1, <2>2, <2>3 DEF Balanced
<1> QED BY <1>1, <1>2, <1>4 DEF CountInv, EndOK

\* The sums of ConsumedExact are those of the account.
LEMMA BothSums ==
  ASSUME L1, Balanced
  PROVE  MapThenSumSet(LAMBDA p : pr[p].bytes_consumed, Procs)
           = MapThenSumSet(LAMBDA i : Len(data[i]), DOMAIN data)
<1> DEFINE D == 1 .. Len(data)
<1>0. /\ IsFiniteSet(Procs) /\ Len(data) \in Nat /\ IsFiniteSet(D) /\ DOMAIN data = D
  BY SummedTypes DEF L1, TypeInv
<1>1. PICK it, jt : /\ Sums(Consumed, Procs, it) /\ Sums(Lengths, D, jt)
                    /\ it[Procs] = jt[D]
  BY DEF Balanced
<1> DEFINE kt == CHOOSE kt : kt = [s \in SUBSET Procs |->
                   IF s = {} THEN 0
                   ELSE pr[CHOOSE x \in s : TRUE].bytes_consumed
                          + kt[s \ {CHOOSE x \in s : TRUE}]]
           lt == CHOOSE lt : lt = [s \in SUBSET D |->
                   IF s = {} THEN 0
                   ELSE Len(data[CHOOSE x \in s : TRUE]) + lt[s \ {CHOOSE x \in s : TRUE}]]
<1>2. MapThenSumSet(LAMBDA p : pr[p].bytes_consumed, Procs) = kt[Procs]
  BY DEF MapThenSumSet, MapThenFoldSet
<1>3. MapThenSumSet(LAMBDA i : Len(data[i]), DOMAIN data) = lt[D]
  <2>1. MapThenSumSet(LAMBDA i : Len(data[i]), D) = lt[D]
    BY DEF MapThenSumSet, MapThenFoldSet
  <2> HIDE DEF lt, D
  <2> QED BY <1>0, <2>1
<1>5. Sums(Consumed, Procs, kt)
  <2> DEFINE E(mt) == [s \in SUBSET Procs |->
                         IF s = {} THEN 0
                         ELSE pr[CHOOSE x \in s : TRUE].bytes_consumed
                                + mt[s \ {CHOOSE x \in s : TRUE}]]
  <2>1. ASSUME NEW mt PROVE Sums(Consumed, Procs, mt) <=> mt = E(mt)
    <3> DEFINE F == [s \in SUBSET Procs |->
                       IF s = {} THEN 0 ELSE Consumed[Pick(s)] + mt[s \ {Pick(s)}]]
    <3>1. \A s \in SUBSET Procs : s # {} => Consumed[Pick(s)] = pr[Pick(s)].bytes_consumed
      BY DEF Pick, Consumed
    <3>2. F = E(mt)
      BY <3>1 DEF Pick
    <3>3. Sums(Consumed, Procs, mt) <=> mt = F
      BY DEF Sums
    <3> HIDE DEF E, F
    <3> QED BY <3>2, <3>3
  <2>2. kt = CHOOSE mt : mt = E(mt)
    OBVIOUS
  <2> HIDE DEF E, kt
  <2> QED BY <1>1, <2>1, <2>2
<1>6. Sums(Lengths, D, lt)
  <2> DEFINE E(mt) == [s \in SUBSET D |->
                         IF s = {} THEN 0
                         ELSE Len(data[CHOOSE x \in s : TRUE])
                                + mt[s \ {CHOOSE x \in s : TRUE}]]
  <2>1. ASSUME NEW mt PROVE Sums(Lengths, D, mt) <=> mt = E(mt)
    <3> DEFINE F == [s \in SUBSET D |->
                       IF s = {} THEN 0 ELSE Lengths[Pick(s)] + mt[s \ {Pick(s)}]]
    <3>1. \A s \in SUBSET D : s # {} => Lengths[Pick(s)] = Len(data[Pick(s)])
      BY DEF Pick, Lengths
    <3>2. F = E(mt)
      BY <3>1 DEF Pick
    <3>3. Sums(Lengths, D, mt) <=> mt = F
      BY DEF Sums
    <3> HIDE DEF E, F
    <3> QED BY <3>2, <3>3
  <2>2. lt = CHOOSE mt : mt = E(mt)
    OBVIOUS
  <2> HIDE DEF E, lt
  <2> QED BY <1>1, <2>1, <2>2
<1> HIDE DEF kt, lt, D
<1>7. it[Procs] = kt[Procs]
  BY <1>0, <1>1, <1>5, SumSame
<1>8. jt[D] = lt[D]
  <2> DEFINE f == Lengths
  <2>1. IsFiniteSet(D) /\ Sums(f, D, jt) /\ Sums(f, D, lt)
    BY <1>0, <1>1, <1>6
  <2>2. D \in SUBSET D /\ D \subseteq D /\ \A x \in D : f[x] = f[x]
    OBVIOUS
  <2> HIDE DEF f
  <2> QED BY <2>1, <2>2, SumSame
<1> QED BY <1>1, <1>2, <1>3, <1>7, <1>8

\* The limit of -B counts what is there: under the lock of the whole visit, with
\* no fault so far and no copy in a visit, the bytes that the copies have counted,
\* each for itself, with those it truncated of other copies taken off, add up to
\* the bytes in the files, the unlinked ones included.
THEOREM Accounted == Spec => []ConsumedExact
<1> DEFINE I == L1 /\ VisitInv /\ CountInv
<1>1. Init => I
  BY InitL1, InitQuiet, InitCount
<1>2. I /\ [Next]_vars => I'
  <2> SUFFICES ASSUME I, [Next]_vars PROVE I'
    OBVIOUS
  <2>1. ASSUME NEW p \in Procs, Work(p) \/ sig_handler(p) PROVE I'
    BY <2>1, L1Next, VisitNext, CountNext
  <2>2. CASE UNCHANGED vars
    <3>1. L1' /\ VisitInv'
      BY <2>2, Unchanged
    <3>2. CountInv'
      <4>1. UNCHANGED <<set, pr, data, faults>>
        BY <2>2 DEF vars
      <4>2. Consumed' = Consumed /\ Lengths' = Lengths
        BY <4>1 DEF Consumed, Lengths
      <4>3. Balanced => Balanced'
        BY <4>1, <4>2 DEF Balanced
      <4>4. ASSUME NEW q \in Procs
            PROVE  EndOK(pr[q], data[pr[q].ino]) => EndOK(pr[q], data[pr[q].ino])'
        BY <4>1 DEF EndOK
      <4> QED BY <4>1, <4>3, <4>4 DEF CountInv, Counting
    <3> QED BY <3>1, <3>2
  <2> QED BY <2>1, <2>2 DEF Next
<1>3. I => ConsumedExact
  <2> SUFFICES ASSUME I, Counting PROVE ConsumedExact
    BY DEF ConsumedExact, Counting
  <2>1. Balanced
    BY DEF CountInv
  <2> QED BY <2>1, BothSums DEF ConsumedExact
<1> QED BY <1>1, <1>2, <1>3, PTL DEF Spec
=============================================================================

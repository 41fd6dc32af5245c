--------------------------------- MODULE Fsx ---------------------------------
(***************************************************************************)
(* fsx, the file system exerciser (io_integration_test.sh.data/ltp/fsx.c). *)
(* fsx runs random operations on one file and repeats each of them on a    *)
(* buffer in memory, good_buf; a difference between the two is reported as *)
(* a failure of the file system.                                           *)
(*                                                                         *)
(* One call of test() is one step.  The file, with its size, is the file   *)
(* system's (disk, disk_size); it does what the system calls promise,      *)
(* except for at most MaxFaults corruptions.  random() is a choice.  The   *)
(* record of the operations (oplog) is in FsxLog.                          *)
(***************************************************************************)
EXTENDS Integers

CONSTANTS
  maxfilelen,       \* -l
  maxoplen,         \* -o
  randomoplen,      \* FALSE with -O
  readbdy, writebdy, truncbdy,  \* -r, -w, -t
  block_size,       \* st_blksize of the file
  simulatedopcount, \* -b, less one
  numops,           \* -N
  check_file,       \* -X
  opt_n, opt_m,     \* -n and -m
  lite,             \* -L
  o_direct,         \* -Z
  Enabled,          \* operations that the options and the file system allow
  Bytes,            \* byte values: 256 in the program
  original_buf,     \* random data
  RAND_MAX,         \* random() returns 0 .. RAND_MAX: 2^31 - 1 in the program
  MaxFaults         \* bound on corruptions by the file system

Idx == 0 .. maxfilelen - 1

LiteOps == {"read", "write", "mapread", "mapwrite"}
FullOps == LiteOps \cup {"truncate", "fallocate", "punch_hole", "zero_range",
             "collapse_range", "insert_range", "clone_range", "dedupe_range",
             "copy_range"}

ASSUME FsxAssumption ==
  /\ maxfilelen \in Nat \ {0} /\ maxoplen \in Nat \ {0}
  /\ readbdy \in Nat \ {0} /\ writebdy \in Nat \ {0} /\ truncbdy \in Nat \ {0}
  /\ block_size \in Nat \ {0}
  /\ simulatedopcount \in Nat /\ numops \in Nat /\ MaxFaults \in Nat
  /\ Bytes \in Nat \ {0}
  /\ RAND_MAX \in Nat /\ maxfilelen <= RAND_MAX /\ maxoplen <= RAND_MAX
  /\ \A i \in Idx : original_buf[i] \in 0 .. Bytes - 1
  /\ randomoplen \in BOOLEAN /\ check_file \in BOOLEAN /\ opt_n \in BOOLEAN
  /\ opt_m \in BOOLEAN /\ lite \in BOOLEAN /\ o_direct \in BOOLEAN
  /\ Enabled \subseteq FullOps

\* main(): case 'm' of the option switch falls through into case 'n'.
sizechecks == ~opt_n /\ ~opt_m

\* main() stores -s in a variable of its own: the one test() reads stays 0.
style == 0

VARIABLES
  disk, disk_size,       \* the file
  good_buf, file_size,   \* what fsx expects of it
  testcalls,
  failed,                \* report_failure() was called
  hung,                  \* test() goes round a loop it cannot leave
  skipped,               \* the last call of test() logged its operation as skipped
  faults                 \* history: corruptions so far

vars == <<disk, disk_size, good_buf, file_size, testcalls, failed, hung, skipped, faults>>

\* A new file, or with -k an old one, which is read into good_buf; -L zeroes it.
Init ==
  /\ file_size \in (IF lite THEN {} ELSE {0}) \cup {maxfilelen}
  /\ good_buf \in [Idx -> 0 .. Bytes - 1]
  /\ lite \/ file_size = 0 => \A i \in Idx : good_buf[i] = 0
  /\ disk = good_buf
  /\ disk_size = file_size
  /\ testcalls = 0
  /\ failed = FALSE
  /\ hung = FALSE
  /\ skipped = FALSE
  /\ faults = 0

-----------------------------------------------------------------------------
(* Helpers *)

Down(x, b) == (x \div b) * b
Most(a, b) == IF a < b THEN b ELSE a
In(i, a, n) == a <= i /\ i < a + n

\* An unsigned has one bit more than random(); in unsigned long the same holds.
Unsigned(x) == x % (2 * (RAND_MAX + 1))

\* The random offset after TRIM_OFF, and the length after TRIM_LEN.
TRIM_OFF(size) == IF size = 0 THEN {0} ELSE 0 .. size - 1
TRIM_LEN(off, len, size) == IF off + len > size THEN size - off ELSE len

OpLens == IF randomoplen THEN 0 .. maxoplen ELSE {maxoplen}

\* The call of test() is carried out on the file, not only simulated.
Real == testcalls >= simulatedopcount

\* Mutant of ImageDue: the image is written one call late.
ImageDueLate == simulatedopcount > 0 /\ testcalls = simulatedopcount + 1

\* writefileimage(): the first call after the simulated ones finds the file as
\* good_buf has it.
ImageDue == simulatedopcount > 0 /\ testcalls = simulatedopcount
Disk0 == IF ImageDue THEN [i \in Idx |-> IF i < file_size THEN good_buf[i] ELSE 0]
                     ELSE disk
Size0 == IF ImageDue THEN file_size ELSE disk_size

\* gendata()
gendata(off, len) ==
  [i \in Idx |->
     IF ~In(i, off, len) THEN good_buf[i]
     ELSE (testcalls + 1 + (IF i % 2 = 1 THEN original_buf[i] ELSE 0)) % Bytes]

\* memset(good_buf + off, 0, len), and the same for any byte array.
Zeroed(buf, off, len) == [i \in Idx |-> IF In(i, off, len) THEN 0 ELSE buf[i]]

\* A byte array with len bytes of another one at off put in its place at dest.
Copied(buf, src, off, len, dest) ==
  [i \in Idx |-> IF In(i, dest, len) THEN src[i - dest + off] ELSE buf[i]]

-----------------------------------------------------------------------------
(* The end of test(): check_contents(), check_size() *)

\* What check_contents() reads: with O_DIRECT only whole blocks.
CheckedLen(size) == IF o_direct THEN Down(size, readbdy) ELSE size

Differs(d, ds, off, len) == ds < off + len \/ \E i \in Idx : In(i, off, len) /\ d[i] # good_buf'[i]

\* Mutant of Verdict: the contents are not compared.
VerdictSizeOnly(d, ds, bad, contents) ==
  /\ disk' = d /\ disk_size' = ds
  /\ failed' = (Real /\ (bad \/ (sizechecks /\ ds # file_size')))
  /\ testcalls' = testcalls + 1
  /\ UNCHANGED <<hung, faults>>

\* The file is now d, ds; bad says that the operation itself saw a difference.
Verdict(d, ds, bad, contents) ==
  /\ disk' = d /\ disk_size' = ds
  /\ failed' = (Real /\ \/ bad
                        \/ contents /\ check_file /\ Differs(d, ds, 0, CheckedLen(file_size'))
                        \/ sizechecks /\ ds # file_size')
  /\ testcalls' = testcalls + 1
  /\ UNCHANGED <<hung, faults>>

\* The file is touched only by a call that is not simulated.
Touched(d) == IF Real THEN d ELSE Disk0
Resized(s) == IF Real THEN s ELSE Size0

\* An operation that is left out before ("goto out") or inside its function.
Skip(contents) ==
  /\ skipped' = TRUE
  /\ UNCHANGED <<good_buf, file_size>>
  /\ Verdict(Disk0, Size0, FALSE, contents)

Ready(op) == ~failed /\ ~hung /\ testcalls < numops /\ (lite => op \in LiteOps)

\* An operation that the options or the file system do not allow; a mapped read or
\* write that is not allowed is a plain one.
Disabled(op) ==
  /\ Ready(op) /\ op \notin Enabled \cup LiteOps \cup {"truncate"}
  /\ Skip(FALSE)

-----------------------------------------------------------------------------
(* The operations *)

\* doread() and domapread(): the data read is compared with good_buf.
doread(op) ==
  /\ Ready(op) /\ (op = "mapread" => op \in Enabled)
  /\ \E o \in TRIM_OFF(file_size), l \in OpLens :
       LET off == Down(o, readbdy)
           cut == TRIM_LEN(o, l, file_size)
           len == IF o_direct /\ op = "read" THEN Down(cut, readbdy) ELSE cut
       IN IF len = 0 \/ len + off > file_size
          THEN Skip(TRUE)
          ELSE /\ skipped' = FALSE
               /\ UNCHANGED <<good_buf, file_size>>
               /\ Verdict(Disk0, Size0, Differs(Disk0, Size0, off, len), TRUE)

\* Mutant of WriteGood: the hole before the write is not cleared.
WriteGoodNoHole(off, len) ==
  /\ good_buf' = gendata(off, len)
  /\ file_size' = Most(file_size, off + len)

\* The new data; a write behind the end leaves a hole of zeros.
WriteGood(off, len) ==
  /\ good_buf' = IF file_size < off THEN Zeroed(gendata(off, len), file_size, off - file_size)
                                    ELSE gendata(off, len)
  /\ file_size' = Most(file_size, off + len)

\* dowrite() and domapwrite() (which extends the file with ftruncate first): a
\* correct file system stores the bytes and fills a hole with zeros.
dowrite(op) ==
  /\ Ready(op) /\ (op = "mapwrite" => op \in Enabled)
  /\ \E o \in TRIM_OFF(maxfilelen), l \in OpLens :
       LET off == Down(o, writebdy)
           cut == TRIM_LEN(o, l, maxfilelen)
           len == IF o_direct /\ op = "write" THEN Down(cut, writebdy) ELSE cut
       IN IF len = 0
          THEN Skip(TRUE)
          ELSE /\ skipped' = FALSE
               /\ WriteGood(off, len)
               /\ Verdict(Touched(Copied(Disk0, good_buf', off, len, off)),
                          Resized(Most(Size0, off + len)), FALSE, TRUE)

TruncateGood(size) ==
  /\ good_buf' = IF size > file_size THEN Zeroed(good_buf, file_size, size - file_size)
                                     ELSE good_buf
  /\ file_size' = size

dotruncate ==
  /\ Ready("truncate")
  /\ \E s \in IF style = 0 THEN 0 .. maxfilelen - 1 ELSE OpLens :
       LET size == Down(s, truncbdy) IN
       /\ skipped' = FALSE
       /\ TruncateGood(size)
       /\ Verdict(Touched([i \in Idx |-> IF i < size THEN Disk0[i] ELSE 0]),
                  Resized(size), FALSE, TRUE)

\* do_preallocate(): extends good_buf unless the size is kept.
do_preallocate ==
  /\ Ready("fallocate") /\ "fallocate" \in Enabled
  /\ \E off \in TRIM_OFF(maxfilelen), l \in OpLens, keep_size \in BOOLEAN :
       LET len == TRIM_LEN(off, l, maxfilelen)
           end_offset == IF keep_size THEN 0 ELSE off + len
       IN IF len = 0
          THEN Skip(TRUE)
          ELSE /\ skipped' = FALSE
               /\ TruncateGood(Most(file_size, end_offset))
               /\ Verdict(Disk0, Resized(Most(Size0, end_offset)), FALSE, TRUE)

\* From here on a simulated call returns before good_buf and file_size change.

\* do_punch_hole()
do_punch_hole ==
  /\ Ready("punch_hole") /\ "punch_hole" \in Enabled
  /\ \E off \in TRIM_OFF(file_size), l \in OpLens :
       LET len == TRIM_LEN(off, l, file_size)
           max_len == IF off + len <= file_size THEN len ELSE file_size - off
       IN IF len = 0 \/ file_size <= off
          THEN Skip(TRUE)
          ELSE /\ skipped' = FALSE
               /\ good_buf' = IF Real THEN Zeroed(good_buf, off, max_len) ELSE good_buf
               /\ UNCHANGED file_size
               /\ Verdict(Touched(Zeroed(Disk0, off, len)), Size0, FALSE, TRUE)

\* do_zero_range(): the size is not kept whatever keep_size says, but the range
\* ends inside the file.
do_zero_range ==
  /\ Ready("zero_range") /\ "zero_range" \in Enabled
  /\ \E off \in TRIM_OFF(file_size), l \in OpLens :
       LET len == TRIM_LEN(off, l, file_size)
       IN IF len = 0
          THEN Skip(TRUE)
          ELSE /\ skipped' = FALSE
               /\ good_buf' = IF Real THEN Zeroed(good_buf, off, len) ELSE good_buf
               /\ UNCHANGED file_size
               /\ Verdict(Touched(Zeroed(Disk0, off, len)),
                          Resized(Most(Size0, off + len)), FALSE, TRUE)

\* memmove() of what follows the range; the tail of good_buf stays behind.
CollapseGood(off, len) ==
  /\ good_buf' = Copied(good_buf, good_buf, off + len, file_size - (off + len), off)
  /\ file_size' = file_size - len

\* do_collapse_range(): block-aligned, and not up to the end of the file, which of an
\* empty file is the largest unsigned number; the file system refuses it (EINVAL) if
\* the file it has is too short.
do_collapse_range ==
  /\ Ready("collapse_range") /\ "collapse_range" \in Enabled
  /\ \E o \in TRIM_OFF(Unsigned(file_size - 1)) \cap (0 .. RAND_MAX), l \in OpLens :
       LET off == Down(o, block_size)
           len == Down(TRIM_LEN(o, l, Unsigned(file_size - 1)), block_size)
       IN IF len = 0
          THEN Skip(FALSE)
          ELSE IF Unsigned(off + len) >= file_size
          THEN Skip(TRUE)
          ELSE /\ skipped' = FALSE
               /\ IF Real THEN CollapseGood(off, len) ELSE UNCHANGED <<good_buf, file_size>>
               /\ Verdict(Touched([i \in Idx |->
                                     IF i < off THEN Disk0[i]
                                     ELSE IF i + len < Size0 THEN Disk0[i + len] ELSE 0]),
                          Resized(Most(Size0 - len, 0)), Size0 <= off + len, TRUE)

\* do_insert_range(): makes room for a block-aligned range of zeros.
do_insert_range ==
  /\ Ready("insert_range") /\ "insert_range" \in Enabled
  /\ \E o \in TRIM_OFF(file_size), l \in OpLens :
       LET off == Down(o, block_size)
           len == Down(TRIM_LEN(file_size, l, maxfilelen), block_size)
       IN IF len = 0 \/ file_size + len > maxfilelen
          THEN Skip(FALSE)
          ELSE IF off >= file_size
          THEN Skip(TRUE)
          ELSE /\ skipped' = FALSE
               /\ IF Real
                  THEN /\ good_buf' = Zeroed(Copied(good_buf, good_buf, off,
                                                    file_size - off, off + len), off, len)
                       /\ file_size' = file_size + len
                  ELSE UNCHANGED <<good_buf, file_size>>
               /\ Verdict(Touched([i \in Idx |->
                                     IF i < off THEN Disk0[i]
                                     ELSE IF i < off + len THEN 0 ELSE Disk0[i - len]]),
                          Resized(Size0 + len), Size0 <= off, TRUE)

\* Mutant of Dests: the distance is not taken as an absolute value.
DestsAfter(off, len, limit, bdy) ==
  {d \in {Down(x, bdy) : x \in TRIM_OFF(limit)} : d >= off + len /\ d + len <= limit}

\* The destinations that the loop before a clone or a copy accepts.
Dests(off, len, limit, bdy) ==
  {d \in {Down(x, bdy) : x \in TRIM_OFF(limit)} :
     (d >= off + len \/ off >= d + len) /\ d + len <= limit}

\* CLONE_RANGE and COPY_RANGE choose a destination with a loop that nothing
\* bounds, before it is looked at whether the operation is enabled.
SourceBdy(op) == IF op = "clone_range" THEN block_size ELSE readbdy
DestBdy(op)   == IF op = "clone_range" THEN block_size ELSE writebdy
SourceLen(op, n) == IF op = "clone_range" THEN Down(n, block_size)
                    ELSE IF o_direct THEN Down(n, readbdy) ELSE n

CloneGood(off, len, dest) ==
  /\ good_buf' = LET copy == Copied(good_buf, good_buf, off, len, dest)
                 IN IF dest > file_size THEN Zeroed(copy, file_size, dest - file_size)
                                        ELSE copy
  /\ file_size' = Most(file_size, dest + len)

\* copy_file_range() returns 0 at the end of a file that is shorter than fsx
\* expects, and do_copy_range() goes on asking for the rest.
CopyStuck(op, off, len) ==
  op = "copy_range" /\ op \in Enabled /\ Real /\ len > 0 /\ off < file_size
    /\ Size0 < off + len

\* do_clone_range() and do_copy_range(): the kernel copies the whole range.
do_clone_range(op) ==
  /\ Ready(op)
  /\ \E o \in TRIM_OFF(file_size), l \in OpLens :
       LET off == Down(o, SourceBdy(op))
           len == SourceLen(op, TRIM_LEN(o, l, file_size))
       IN \E dest \in Dests(off, len, maxfilelen, DestBdy(op)) :
            /\ ~CopyStuck(op, off, len)
            /\ IF op \notin Enabled \/ len = 0
               THEN Skip(FALSE)
               ELSE IF off >= file_size
               THEN Skip(TRUE)
               ELSE /\ skipped' = FALSE
                    /\ IF Real THEN CloneGood(off, len, dest)
                               ELSE UNCHANGED <<good_buf, file_size>>
                    /\ Verdict(Touched(Copied(Disk0, Disk0, off, len, dest)),
                               Resized(Most(Size0, dest + len)), Size0 < off + len, TRUE)

\* No destination will do, or the copy gets nowhere: the loop never ends.
CloneHangs(op) ==
  /\ Ready(op)
  /\ \E o \in TRIM_OFF(file_size), l \in OpLens :
       LET off == Down(o, SourceBdy(op))
           len == SourceLen(op, TRIM_LEN(o, l, file_size))
       IN Dests(off, len, maxfilelen, DestBdy(op)) = {} \/ CopyStuck(op, off, len)
  /\ hung' = TRUE
  /\ UNCHANGED <<disk, disk_size, good_buf, file_size, testcalls, failed, skipped, faults>>

\* do_dedupe_range(): sharing equal blocks changes no data; after 30 tries for a
\* destination the length becomes zero.
do_dedupe_range ==
  /\ Ready("dedupe_range") /\ "dedupe_range" \in Enabled
  /\ \E o \in TRIM_OFF(file_size), l \in OpLens :
       LET off == Down(o, block_size)
           len == Down(TRIM_LEN(o, l, file_size), block_size)
       IN \/ Skip(FALSE)
          \/ \E dest \in Dests(off, len, file_size, block_size) :
               /\ len > 0
               /\ skipped' = FALSE
               /\ UNCHANGED <<good_buf, file_size>>
               /\ Verdict(Disk0, Size0, FALSE, TRUE)

-----------------------------------------------------------------------------
\* The file system loses a byte or the end of the file: what fsx is there to find.
FsCorrupts ==
  /\ ~failed /\ ~hung /\ faults < MaxFaults
  /\ testcalls > simulatedopcount
  /\ faults' = faults + 1
  /\ \/ /\ \E i \in Idx, b \in 0 .. Bytes - 1 :
             i < disk_size /\ b # disk[i] /\ disk' = [disk EXCEPT ![i] = b]
        /\ UNCHANGED disk_size
     \/ /\ disk_size' \in 0 .. disk_size - 1
        /\ disk' = [i \in Idx |-> IF i < disk_size' THEN disk[i] ELSE 0]
  /\ UNCHANGED <<good_buf, file_size, testcalls, failed, hung, skipped>>

Test ==
  \/ \E op \in {"read", "mapread"} : doread(op)
  \/ \E op \in {"write", "mapwrite"} : dowrite(op)
  \/ dotruncate
  \/ do_preallocate
  \/ do_punch_hole
  \/ do_zero_range
  \/ do_collapse_range
  \/ do_insert_range
  \/ \E op \in {"clone_range", "copy_range"} : do_clone_range(op)
  \/ do_dedupe_range
  \/ \E op \in FullOps \ {"clone_range", "copy_range"} : Disabled(op)

\* numops calls are done, or a failure was reported.
Ended == failed \/ testcalls = numops

Next ==
  \/ Test
  \/ \E op \in {"clone_range", "copy_range"} : CloneHangs(op)
  \/ FsCorrupts
  \/ (Ended \/ hung) /\ UNCHANGED vars

Spec == Init /\ [][Next]_vars

-----------------------------------------------------------------------------
(* Properties *)

\* fsx keeps offsets, sizes and bytes inside maxfilelen and the values of a byte, the
\* unsigned arithmetic of TRIM_OFF_LEN at an empty file included.
TypeOK ==
  /\ disk \in [Idx -> 0 .. Bytes - 1] /\ disk_size \in 0 .. maxfilelen
  /\ good_buf \in [Idx -> 0 .. Bytes - 1] /\ file_size \in 0 .. maxfilelen
  /\ testcalls \in 0 .. numops
  /\ failed \in BOOLEAN /\ hung \in BOOLEAN
  /\ skipped \in BOOLEAN
  /\ faults \in 0 .. MaxFaults

Same(d, ds) == ds = file_size /\ \A i \in Idx : i < file_size => d[i] = good_buf[i]

\* fsx's own copy is exact: on a file system that does what it promises, good_buf and
\* file_size are the contents and the size of the file after every call of test()
\* that is not simulated, however the offsets, lengths and stale bytes behind the
\* end of good_buf combine.
ShadowExact ==
  faults = 0 /\ (simulatedopcount = 0 \/ testcalls > simulatedopcount) =>
    Same(disk, disk_size)

\* No false alarm: fsx never calls report_failure() on a correct file system.
NoFalseAlarm == faults = 0 => ~failed

\* "-X: Read file and compare to good buffer after every operation": an operation that
\* was carried out and ends without a failure leaves no corruption in the file.
Detected ==
  [][check_file /\ ~o_direct /\ testcalls' # testcalls /\ Real /\ ~skipped'
       /\ ~failed' /\ sizechecks => Same(disk, disk_size)']_vars

\* With room for three operations, as the defaults leave (-l 256k, -o 64k), the
\* loop for a destination always has one to find: off = 0 when the source is far
\* enough from the start, otherwise the next boundary behind the source.
RoomToCopy ==
  3 * maxoplen + block_size <= maxfilelen /\ 3 * maxoplen + writebdy <= maxfilelen

\* fsx does not hang on a correct file system when there is room to copy.  hung is
\* the only state in which calls that -N asks for are left and none can be made.
NeverHangs == RoomToCopy /\ faults = 0 => ~hung
=============================================================================

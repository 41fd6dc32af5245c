----------------------------- MODULE Growfiles ------------------------------
(***************************************************************************)
(* growfiles (io_integration_test.sh.data/ltp/growfiles.c): num_procs      *)
(* copies visit the same files again and again.  A visit opens the file,   *)
(* grows it by a write of a pattern, reads the write back, reads the whole *)
(* file, truncates it and closes it; each part every so many visits.  What *)
(* keeps the copies apart is a file lock: none, one around each write,     *)
(* read and truncation (-l), or one from open to close (-l -l).            *)
(*                                                                         *)
(* One action is one system call of a copy with what it computes from the  *)
(* result; a lock is taken in the action of the call that it precedes.     *)
(* Bytes are abstracted to where their pattern comes from.                 *)
(***************************************************************************)
EXTENDS Integers, SequencesExt, FiniteSetsExt

CONSTANTS
  num_procs,
  iterations,         \* -i; 0 for ever
  bytes_to_consume,   \* -B; 0 for no limit
  Sizes,              \* -g or -r: the sizes of a write
  trunc_incr,         \* -t
  max_lseek,          \* -R min-max, when the setting has lseek = "range"
  write_check_inter, file_check_inter, unlink_inter,
  Settings,           \* the other options, one combination per behaviour
  MaxFaults           \* bound on failing calls and wrong bytes

Procs == 0 .. num_procs - 1

SettingType ==
  [num_files   : Nat \ {0},
   lockfile    : 0 .. 2,                \* 1 is LKLVL0, 2 is LKLVL1
   append      : BOOLEAN,               \* O_APPEND
   lseek       : {"end", "w", "eof", "plus", "minus", "range"},
   pattern     : {"offset", "pid", "random"},
   min_lseek   : Nat,                   \* -R min-max; -R max sets it to 1
   trunc_inter : Nat,                   \* -T
   L           : BOOLEAN,               \* a limit of the time
   Maxerrs     : Nat,                   \* -e; 0 for no limit
   y           : BOOLEAN,               \* -y: Sync_with_others
   u           : BOOLEAN,               \* -u: remove_files
   MaxSignals  : Nat]                   \* bound on the signals from outside to a copy

ASSUME GrowfilesAssumption ==
  /\ num_procs \in Nat \ {0}
  /\ iterations \in Nat /\ bytes_to_consume \in Nat
  /\ IsFiniteSet(Sizes) /\ Sizes \subseteq Nat /\ Sizes # {}
  /\ 0 \in Sizes => Sizes = {0}
  /\ trunc_incr \in Nat /\ max_lseek \in Nat
  /\ write_check_inter \in Nat /\ file_check_inter \in Nat /\ unlink_inter \in Nat
  /\ Settings \subseteq SettingType
  /\ MaxFaults \in Nat

VARIABLES
  set,       \* the setting of this run
  pr,        \* the state of each copy
  name,      \* file -> inode, 0 for none
  data,      \* inode -> bytes
  signals,   \* copies with a pending SIGUSR2
  faults

Files == 1 .. set.num_files

vars == <<set, pr, name, data, signals, faults>>

(* Bytes: <<key, offset the pattern was made for>>.                         *)
Hole == <<-1, 0>>
W    == <<-2, 0>>
Bad(p) == <<-3, p>>   \* what the file system made of a byte that copy p wrote
STATIC_NUM == -4

\* The byte that the pattern of copy p has at an offset; "random" is random.
PatternByte(p, off) ==
  <<IF set.pattern = "pid" THEN p ELSE STATIC_NUM, off>>

\* sig is the last signal that the copy has handled, kills counts the ones from
\* outside.
Copy0 == [pc |-> "head", ind |-> 1, iter |-> 1, ino |-> 0, lk |-> "un",
          pos |-> 0, fsize |-> 0, Woffset |-> 0, Grow_incr |-> 0, count |-> 0,
          bytes_consumed |-> 0, Errors |-> 0, told |-> FALSE, status |-> 0,
          sig |-> "none", kills |-> 0]

Init ==
  /\ set \in Settings
  /\ pr = [p \in Procs |-> Copy0]
  /\ name = [f \in Files |-> 0]
  /\ data = <<>>
  /\ signals = {} /\ faults = 0

-----------------------------------------------------------------------------
(* Helpers.                                                                *)

Size(p) == Len(data[pr[p].ino])

\* lkfile(): nothing unless the lock level is the one of this run.  The kernel
\* grants a lock when no other copy has one on the inode that excludes it.
lkfile(p, kind, level) ==
  set.lockfile = level =>
    \A q \in Procs \ {p} :
      pr[q].ino = pr[p].ino =>
        pr[q].lk = "un" \/ (kind = "sh" /\ pr[q].lk = "sh")

\* Mutant of Lk
LkInner(r, kind, level) ==
  IF set.lockfile >= level THEN [r EXCEPT !.lk = kind] ELSE r

\* What the record of a copy says after lkfile().
Lk(r, kind, level) == IF set.lockfile = level THEN [r EXCEPT !.lk = kind] ELSE r

\* A copy's step: its record becomes r.
Step(p, r) == pr' = [pr EXCEPT ![p] = r]

Fault == faults < MaxFaults /\ faults' = faults + 1

\* handle_error(): count, and stop at Maxerrs; else go on at pc.
HandleError(r, pc) ==
  LET n == r.Errors + 1 IN
  IF set.Maxerrs # 0 /\ n >= set.Maxerrs
  THEN [r EXCEPT !.Errors = n, !.pc = "notify", !.status = 1]
  ELSE [r EXCEPT !.Errors = n, !.pc = pc]

\* close() drops the lock with the descriptor; what the visit knew is dead.
Closed(r) == [r EXCEPT !.ino = 0, !.lk = "un", !.pos = 0, !.fsize = 0,
                       !.Woffset = 0, !.Grow_incr = 0]

\* On to the next file, or to the next iteration after the last file.
NextFile(r) ==
  IF r.ind < set.num_files THEN [r EXCEPT !.ind = @ + 1, !.pc = "open"]
  ELSE [r EXCEPT !.pc = "head", !.iter = @ + 1]

\* It is time for what is done at every inter-th call.  check_write(),
\* check_file() and shrinkfile() count their calls alike: one count serves all.
Due(inter, count) == inter # 0 /\ count % inter = 0

\* write() of bytes at an offset.
WriteAt(c, off, bytes) ==
  [i \in 1 .. Max({Len(c), off + Len(bytes)}) |->
     IF i > off /\ i <= off + Len(bytes) THEN bytes[i - off]
     ELSE IF i <= Len(c) THEN c[i] ELSE Hole]

\* ftruncate() to n bytes.
TruncateTo(c, n) == [i \in 1 .. n |-> IF i <= Len(c) THEN c[i] ELSE Hole]

-----------------------------------------------------------------------------
(* main(): the loops over iterations and files.                            *)

\* The loop ends for one of three reasons; the clock may say so at any time.
Stop(p) ==
  /\ pr[p].pc = "head"
  /\ \/ iterations # 0 /\ pr[p].iter >= iterations + 1
     \/ set.L
     \/ bytes_to_consume # 0 /\ pr[p].bytes_consumed >= bytes_to_consume
  /\ Step(p, [pr[p] EXCEPT !.pc = "cleanup",
                           !.status = IF pr[p].Errors # 0 THEN 1 ELSE 0])
  /\ UNCHANGED <<set, name, data, signals, faults>>

Iterate(p) ==
  /\ pr[p].pc = "head"
  /\ ~(iterations # 0 /\ pr[p].iter >= iterations + 1)
  /\ ~(bytes_to_consume # 0 /\ pr[p].bytes_consumed >= bytes_to_consume)
  /\ Step(p, [pr[p] EXCEPT !.pc = "open", !.ind = 1])
  /\ UNCHANGED <<set, name, data, signals, faults>>

Open(p) ==
  LET f == pr[p].ind
      new == name[f] = 0
      i == IF new THEN Len(data) + 1 ELSE name[f] IN
  /\ pr[p].pc = "open"
  /\ \/ /\ name' = [name EXCEPT ![f] = i]
        /\ data' = IF new THEN Append(data, <<>>) ELSE data
        /\ Step(p, [pr[p] EXCEPT !.pc = "visit", !.ino = i, !.pos = 0])
        /\ UNCHANGED faults
     \/ /\ Fault
        /\ Step(p, LET r == HandleError(pr[p], "open") IN
                   IF r.pc = "open" THEN NextFile(r) ELSE r)
        /\ UNCHANGED <<name, data>>
  /\ UNCHANGED <<set, signals>>

\* The lock of the whole visit.
Visit(p) ==
  /\ pr[p].pc = "visit"
  /\ lkfile(p, "ex", 2)
  /\ Step(p, [Lk(pr[p], "ex", 2) EXCEPT !.pc = "fstat"])
  /\ UNCHANGED <<set, name, data, signals, faults>>

\* growfile() did not work.
GrowFailed(p) ==
  /\ pr[p].pc = "gfail"
  /\ Step(p, LET r == HandleError(pr[p], "open") IN
             IF r.pc = "open" THEN NextFile(Closed(r)) ELSE r)
  /\ UNCHANGED <<set, name, data, signals, faults>>

Close(p) ==
  LET due == unlink_inter # 0 /\ pr[p].iter % unlink_inter = 0
      r == Closed(pr[p]) IN
  /\ pr[p].pc = "close"
  /\ Step(p, IF due THEN [r EXCEPT !.pc = "unlink"] ELSE NextFile(r))
  /\ UNCHANGED <<set, name, data, signals, faults>>

Unlink(p) ==
  /\ pr[p].pc = "unlink"
  /\ name' = [name EXCEPT ![pr[p].ind] = 0]
  /\ Step(p, NextFile(pr[p]))
  /\ UNCHANGED <<set, data, signals, faults>>

-----------------------------------------------------------------------------
(* growfile().                                                             *)

\* The size before the write, asked for without the lock of -l; a size of 0
\* (-g 0) is no write.  Here and below a call that fails is an error.
Fstat(p) ==
  /\ pr[p].pc = "fstat"
  /\ \/ /\ \E g \in Sizes :
             Step(p, [pr[p] EXCEPT !.pc = IF g = 0 THEN "cwrite" ELSE "seek",
                                   !.Grow_incr = g, !.fsize = Size(p),
                                   !.count = IF g = 0 THEN @ + 1 ELSE @])
        /\ UNCHANGED faults
     \/ Fault /\ Step(p, [pr[p] EXCEPT !.pc = "gfail"])
  /\ UNCHANGED <<set, name, data, signals>>

\* The code also asks for a range whose first bound is the larger one, in a file
\* that is shorter than min_lseek.
random_range(a, b) == Min({a, b}) .. Max({a, b})

\* Where the write may go with -R, from the size that fstat() gave.
RandOffsets(r) ==
  LET min == set.min_lseek IN
  CASE set.lseek = "eof"   -> random_range(min, r.fsize)
    [] set.lseek = "plus"  -> random_range(min, r.fsize + r.Grow_incr)
    [] set.lseek = "minus" -> IF r.fsize <= min + r.Grow_incr THEN {min}
                              ELSE random_range(min, r.fsize - r.Grow_incr)
    [] set.lseek = "range" -> random_range(min, max_lseek)

\* Find the offset of the write, for which the pattern is made.  With O_APPEND
\* the lock of -l is taken before this, else after it.
Seek(p) ==
  LET r == [pr[p] EXCEPT !.pc = "write"] IN
  /\ pr[p].pc = "seek"
  /\ \/ /\ set.lseek = "w"
        /\ Step(p, [r EXCEPT !.Woffset = r.fsize,
                             !.pos = Size(p) + r.Grow_incr - 1])
        /\ UNCHANGED faults
     \/ /\ set.lseek # "w" /\ set.append
        /\ lkfile(p, "ex", 1)
        /\ Step(p, [Lk(r, "ex", 1) EXCEPT !.Woffset = Size(p)])
        /\ UNCHANGED faults
     \/ /\ set.lseek \notin {"w", "end"} /\ ~set.append
        /\ \E off \in RandOffsets(r) :
             Step(p, [r EXCEPT !.Woffset = off, !.pos = off])
        /\ UNCHANGED faults
     \/ /\ set.lseek = "end" /\ ~set.append
        /\ Step(p, [r EXCEPT !.Woffset = Size(p), !.pos = Size(p)])
        /\ UNCHANGED faults
     \/ Fault /\ Step(p, [pr[p] EXCEPT !.pc = "gfail"])
  /\ UNCHANGED <<set, name, data, signals>>

\* The bytes of the write: one 'w' at the end of a hole, or the pattern.
Buf(p) ==
  IF set.lseek = "w" THEN <<W>>
  ELSE [i \in 1 .. pr[p].Grow_incr |-> PatternByte(p, pr[p].Woffset + i - 1)]

\* After the write: the offset tells where it really went.  bytes_consumed
\* takes the growth from the size before the write, which may be negative.
Grown(r, end) ==
  LET off == IF set.lseek # "w" /\ end # r.Woffset + r.Grow_incr
             THEN Max({0, end - r.Grow_incr}) ELSE r.Woffset IN
  [r EXCEPT !.pos = end, !.Woffset = off, !.pc = "cwrite", !.count = @ + 1,
            !.bytes_consumed = @ + (off + r.Grow_incr) - r.fsize]

Write(p) ==
  LET r == Lk(pr[p], "un", 1)
      off == IF set.append THEN Size(p) ELSE r.pos
      store(bytes) == data' = [data EXCEPT ![r.ino] = WriteAt(@, off, bytes)]
      end == off + Len(Buf(p)) IN
  /\ pr[p].pc = "write"
  /\ lkfile(p, "ex", 1)
  /\ \/ /\ store(Buf(p)) /\ Step(p, Grown(r, end)) /\ UNCHANGED faults
     \* The file system keeps a wrong byte.
     \/ /\ Fault
        /\ \E i \in 1 .. Len(Buf(p)) : store([Buf(p) EXCEPT ![i] = Bad(p)])
        /\ Step(p, Grown(r, end))
     \* The write fails; a failed 'w' is only reported.
     \/ /\ Fault /\ UNCHANGED data
        /\ Step(p, IF set.lseek = "w" THEN Grown(r, off)
                   ELSE [r EXCEPT !.pc = "gfail"])
     \* The write is short.
     \/ /\ Fault /\ set.lseek # "w"
        /\ \E n \in 1 .. Len(Buf(p)) - 1 : store([i \in 1 .. n |-> Buf(p)[i]])
        /\ Step(p, [r EXCEPT !.pc = "gfail"])
     \* No space: exit(2) at once.
     \/ /\ Fault /\ UNCHANGED data
        /\ Step(p, [r EXCEPT !.pc = "cleanup", !.status = 2])
     \* The offset is not to be had: back without lkfile(LOCK_UN).
     \/ /\ Fault /\ set.lseek # "w"
        /\ store(Buf(p))
        /\ Step(p, [Lk(r, "ex", 1) EXCEPT !.pc = "gfail"])
  /\ UNCHANGED <<set, name, signals>>

-----------------------------------------------------------------------------
(* check_write(), check_file(), shrinkfile().                              *)

\* Mutant of WriteGone
WriteGoneInPart(r, size) == size < r.Woffset + r.Grow_incr

\* The last write was truncated away.
WriteGone(r, size) == size <= r.Woffset

\* The size, under the lock; a part of the write may be gone.
CheckWriteSize(p) ==
  LET r == pr[p]
      check == Due(write_check_inter, r.count) /\ r.Grow_incr > 0 IN
  /\ r.pc = "cwrite"
  /\ \/ /\ ~check /\ Step(p, [r EXCEPT !.pc = "cfile"]) /\ UNCHANGED faults
     \/ /\ check /\ lkfile(p, "sh", 1)
        /\ Step(p, IF WriteGone(r, Size(p))
                   THEN [Lk(r, "un", 1) EXCEPT !.pc = "cfile"]
                   ELSE [Lk(r, "sh", 1) EXCEPT
                           !.pc = "cwread",
                           !.Grow_incr = Min({@, Size(p) - r.Woffset})])
        /\ UNCHANGED faults
     \/ /\ check /\ lkfile(p, "sh", 1) /\ Fault
        /\ Step(p, HandleError(Lk(r, "un", 1), "cfile"))
  /\ UNCHANGED <<set, name, data, signals>>

\* The n bytes from off are what copy p expects there.  A random pattern leaves
\* the length that was read as the result, which counts as a mismatch.
Matches(p, off, n) ==
  LET c == data[pr[p].ino] IN
  \A i \in 1 .. n :
    IF set.lseek = "w" THEN c[off + i] = (IF i = n THEN W ELSE Hole)
    ELSE set.pattern # "random" /\ c[off + i] = PatternByte(p, off + i - 1)

CheckWriteRead(p) ==
  LET r == Lk(pr[p], "un", 1)
      n == Max({0, Min({r.Grow_incr, Size(p) - r.Woffset})})
      q == [r EXCEPT !.pos = r.Woffset + n] IN
  /\ r.pc = "cwread"
  /\ \/ /\ Step(p, IF n = r.Grow_incr /\ Matches(p, r.Woffset, n)
                   THEN [q EXCEPT !.pc = "cfile"] ELSE HandleError(q, "cfile"))
        /\ UNCHANGED faults
     \/ Fault /\ Step(p, HandleError([r EXCEPT !.pos = r.Woffset], "cfile"))
  /\ UNCHANGED <<set, name, data, signals>>

no_file_check == set.pattern = "random" \/ set.lseek \in {"plus", "w"}

\* The size, under the lock.  After a failed fstat() the lock is released, without
\* memory for the bytes it is not.
CheckFileSize(p) ==
  LET r == pr[p]
      check == Due(file_check_inter, r.count) /\ ~no_file_check IN
  /\ r.pc = "cfile"
  /\ \/ /\ ~check /\ Step(p, [r EXCEPT !.pc = "shrink"]) /\ UNCHANGED faults
     \/ /\ check /\ lkfile(p, "sh", 1) /\ UNCHANGED faults
        /\ Step(p, IF Size(p) = 0 THEN [Lk(r, "un", 1) EXCEPT !.pc = "shrink"]
                   ELSE [Lk(r, "sh", 1) EXCEPT !.pc = "cfread", !.fsize = Size(p)])
     \/ /\ check /\ lkfile(p, "sh", 1) /\ Fault
        /\ \E lk \in {"un"} \cup (IF Size(p) = 0 THEN {} ELSE {"sh"}) :
             Step(p, HandleError(Lk(r, lk, 1), "shrink"))
  /\ UNCHANGED <<set, name, data, signals>>

CheckFileRead(p) ==
  LET r == Lk(pr[p], "un", 1)
      n == Min({r.fsize, Size(p)})
      q == [r EXCEPT !.pos = n] IN
  /\ r.pc = "cfread"
  /\ \/ /\ Step(p, IF n = r.fsize /\ Matches(p, 0, n)
                   THEN [q EXCEPT !.pc = "shrink"] ELSE HandleError(q, "shrink"))
        /\ UNCHANGED faults
     \/ Fault /\ Step(p, HandleError([r EXCEPT !.pos = 0], "shrink"))
  /\ UNCHANGED <<set, name, data, signals>>

\* The new size: random with -R, which may make the file longer, else the offset
\* of the descriptor, taken for the end of the file, less trunc_incr.
NewSizes(p) ==
  LET min == set.min_lseek IN
  CASE set.lseek = "range"         -> random_range(min, max_lseek)
    [] set.lseek \in {"end", "w"}  -> {Max({0, pr[p].pos - trunc_incr})}
    [] OTHER                       -> IF Size(p) < min THEN {min}
                                      ELSE random_range(min, Size(p))

\* Mutant of Released
ReleasedAll(r, n) == trunc_incr

\* What a truncation to n bytes takes off bytes_consumed.
Released(r, n) == r.pos - n

shrinkfile(p) ==
  LET r == Lk([pr[p] EXCEPT !.pc = "close"], "un", 1) IN
  /\ pr[p].pc = "shrink"
  /\ \/ /\ ~Due(set.trunc_inter, r.count)
        /\ Step(p, [pr[p] EXCEPT !.pc = "close"]) /\ UNCHANGED <<data, faults>>
     \/ /\ Due(set.trunc_inter, r.count) /\ lkfile(p, "ex", 1)
        /\ \E n \in NewSizes(p) :
             /\ data' = [data EXCEPT ![r.ino] = TruncateTo(@, n)]
             /\ Step(p, [r EXCEPT !.bytes_consumed = @ - Released(r, n)])
        /\ UNCHANGED faults
     \/ /\ Due(set.trunc_inter, r.count) /\ lkfile(p, "ex", 1) /\ Fault
        /\ Step(p, HandleError(r, "close")) /\ UNCHANGED data
  /\ UNCHANGED <<set, name, signals>>

-----------------------------------------------------------------------------
(* The end of a copy.                                                      *)

\* The pids that copy p has after forker(): the original copy, 0, has all the
\* others, a copy those that were forked before it.
Forker_pids(p) == IF p = 0 THEN Procs \ {0} ELSE 1 .. p - 1

\* notify_others(): SIGUSR2, once.
notify_others(p) ==
  /\ pr[p].pc = "notify"
  /\ signals' = IF set.y /\ ~pr[p].told
                THEN signals \cup {q \in Forker_pids(p) : pr[q].pc # "exit"}
                ELSE signals
  /\ Step(p, [pr[p] EXCEPT !.pc = "cleanup", !.told = @ \/ set.y])
  /\ UNCHANGED <<set, name, data, faults>>

\* What sig_handler() makes of a copy: SIGINT is not an error.
Handled(r, sig) == [r EXCEPT !.pc = "notify", !.sig = sig,
                             !.status = IF sig = "SIGINT" THEN 0 ELSE 2]

\* sig_handler(): another copy's SIGUSR2, or a signal from outside.
sig_handler(p) ==
  /\ pr[p].pc # "exit"
  /\ \/ /\ p \in signals /\ signals' = signals \ {p}
        /\ Step(p, Handled(pr[p], "SIGUSR2"))
     \/ /\ pr[p].kills < set.MaxSignals /\ UNCHANGED signals
        /\ \E sig \in {"SIGINT", "SIGTERM"} :
             Step(p, Handled([pr[p] EXCEPT !.kills = @ + 1], sig))
  /\ UNCHANGED <<set, name, data, faults>>

\* Mutant of cleanup
cleanupAfterSuccess(p) ==
  name' = IF set.u /\ pr[p].status = 0 THEN [f \in Files |-> 0] ELSE name

cleanup(p) == name' = IF set.u THEN [f \in Files |-> 0] ELSE name

\* cleanup() and exit(), which releases the lock.
Exit(p) ==
  /\ pr[p].pc = "cleanup"
  /\ cleanup(p)
  /\ Step(p, [Closed(pr[p]) EXCEPT !.pc = "exit", !.iter = 0, !.count = 0])
  /\ signals' = signals \ {p}
  /\ UNCHANGED <<set, data, faults>>

-----------------------------------------------------------------------------

Work(p) ==
  \/ Stop(p) \/ Iterate(p) \/ Open(p) \/ Visit(p) \/ GrowFailed(p)
  \/ Close(p) \/ Unlink(p)
  \/ Fstat(p) \/ Seek(p) \/ Write(p)
  \/ CheckWriteSize(p) \/ CheckWriteRead(p)
  \/ CheckFileSize(p) \/ CheckFileRead(p) \/ shrinkfile(p)
  \/ notify_others(p) \/ Exit(p)

Next == \E p \in Procs : Work(p) \/ sig_handler(p)

Spec == Init /\ [][Next]_vars

\* A copy that can run runs.  A copy that waits for a lock gets it at the latest
\* when the others have come to their end.
FairSpec == Spec /\ \A p \in Procs : WF_vars(Work(p))

-----------------------------------------------------------------------------
(* Properties.                                                             *)

\* The settings under which the copies cannot disturb each other: the lock of
\* the whole visit; or no truncation and writes whose offset is the end of the
\* file at some moment before the write, or under the lock for O_APPEND.  A least
\* offset would leave a hole in a file that is shorter.
Safe ==
  /\ set.pattern = "offset" /\ set.lseek # "range"
  /\ set.lseek \in {"eof", "minus"} => set.min_lseek = 0
  /\ \/ set.lockfile = 2
     \/ /\ set.trunc_inter = 0 /\ set.lseek # "w"
        /\ set.append => set.lockfile = 1

\* Without a failure of the file system no error is counted, whatever the other
\* copies write, truncate and unlink meanwhile, and whoever is sent a signal.
NoFalseAlarm == Safe /\ faults = 0 => \A p \in Procs : pr[p].Errors = 0

\* A wrong byte that is still in a file, used or unlinked, is not passed over
\* when every write is checked: the copy that wrote it does not exit with 0,
\* unless a SIGINT has told it to stop.  Other copies may write, truncate and
\* fail between the write and its check (the hole of -w is where the check looks
\* for it only under the lock of the whole visit).
CorruptionCaught ==
  write_check_inter = 1 /\ (set.lseek = "w" => set.lockfile = 2) =>
    \A p \in Procs :
      pr[p].pc = "exit" /\ pr[p].status = 0 /\ pr[p].sig # "SIGINT" =>
        \A i \in DOMAIN data : \A k \in DOMAIN data[i] : data[i][k] # Bad(p)

\* "-B maxbytes : growfiles exits when more than maxbytes have been consumed":
\* when no copy is in a visit, what the copies have counted is what is in the
\* files, the unlinked ones included, though each copy counts for itself and
\* truncates what others wrote.  A signal may keep a copy from counting.
ConsumedExact ==
  /\ set.lockfile = 2 /\ set.lseek = "end" /\ faults = 0
  /\ \A p \in Procs : pr[p].lk = "un" /\ pr[p].sig = "none"
  => MapThenSumSet(LAMBDA p : pr[p].bytes_consumed, Procs)
       = MapThenSumSet(LAMBDA i : Len(data[i]), DOMAIN data)

\* Every copy comes to its end, with a copy killed or failing anywhere and locks
\* left by an early return; and with -u the last one out leaves no file, though
\* a copy makes anew what another one has removed.
CleanEnd ==
  <>[](/\ \A p \in Procs : pr[p].pc = "exit"
       /\ set.u => \A f \in Files : name[f] = 0)
=============================================================================

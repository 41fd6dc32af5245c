-------------------------------- MODULE FsxLog --------------------------------
(***************************************************************************)
(* The record of fsx's operations (io_integration_test.sh.data/ltp/fsx.c): *)
(* every call of test() is logged in a ring, oplog; logdump() writes the   *)
(* ring to the ops file when a failure is found or --record-ops was given; *)
(* a later run repeats the file with --replay-ops, and may dump in turn.   *)
(*                                                                         *)
(* An operation is known by a number, its id: the call of test() that      *)
(* chose it in the first run.  Its arguments are left out but for their    *)
(* number, which read_op() depends on.  testcalls is logcount in the first *)
(* run, where each call logs one entry, and decides nothing in a replay.   *)
(***************************************************************************)
EXTENDS Naturals, Sequences

CONSTANTS
  LOGSIZE,    \* 10000 in the program
  MaxCalls,   \* bound on the operations of the first run (-N)
  MaxRuns     \* bound on the runs

ASSUME FsxLogAssumption ==
  LOGSIZE \in Nat \ {0} /\ MaxCalls \in Nat /\ MaxRuns \in Nat \ {0}

\* Operations with a destination (clone, dedupe, copy) and the others.
Operations == {"copy_range", "write"}

VARIABLES
  run,          \* the number of the run; all but the first are replays
  state,        \* "test"; "eof": nothing left to replay; "dumped": logdump() is done;
                \* "parse error": exit(100)
  oplog, logptr, logcount,
  opsfile,      \* lines of the ops file
  replayed,     \* lines of it that this run has read
  past          \* history: everything logged in this run

logvars == <<run, state, oplog, logptr, logcount, opsfile, replayed, past>>

Nowhere == [operation |-> "write", nr_args |-> 0, skipped |-> TRUE, id |-> 0]

LogInit ==
  /\ run = 1
  /\ state = "test"
  /\ oplog = [i \in 0 .. LOGSIZE - 1 |-> Nowhere]
  /\ logptr = 0
  /\ logcount = 0
  /\ opsfile = <<>>
  /\ replayed = 0
  /\ past = <<>>

-----------------------------------------------------------------------------
\* Mutant of Advance: the ring comes round one entry early.
AdvanceEarly == IF logptr + 1 >= LOGSIZE - 1 THEN 0 ELSE logptr + 1

Advance == IF logptr + 1 >= LOGSIZE THEN 0 ELSE logptr + 1

\* log4() and log5(), which differ in the number of arguments.
Log(operation, nr_args, skip, id) ==
  LET le == [operation |-> operation, nr_args |-> nr_args, skipped |-> skip, id |-> id]
  IN /\ oplog' = [oplog EXCEPT ![logptr] = le]
     /\ logptr' = Advance
     /\ logcount' = logcount + 1
     /\ past' = Append(past, le)

op_args_count(operation) == IF operation = "copy_range" THEN 4 ELSE 3

\* test() of the first run: one operation, carried out or skipped, logged once.
TestRandom ==
  /\ state = "test" /\ run = 1 /\ logcount < MaxCalls
  /\ \E operation \in Operations, skip \in BOOLEAN :
       Log(operation, op_args_count(operation), skip, logcount + 1)
  /\ UNCHANGED <<run, state, opsfile, replayed>>

-----------------------------------------------------------------------------
(* test() of a replay *)

Line == opsfile[replayed + 1]
MoreLines == state = "test" /\ run > 1 /\ replayed < Len(opsfile)

\* read_op() finds all the arguments that the operation has.
Parses == Line.nr_args = op_args_count(Line.operation)

\* Mutant of ReplaySkip: a skipped line leaves no entry in the log.
ReplaySkipSilent ==
  /\ MoreLines /\ Parses /\ Line.skipped
  /\ replayed' = replayed + 1
  /\ UNCHANGED <<run, state, oplog, logptr, logcount, opsfile, past>>

\* A skipped line is logged, with log4() whatever its operation, and the next
\* line is read in the same call.
ReplaySkip ==
  /\ MoreLines /\ Parses /\ Line.skipped
  /\ Log(Line.operation, 3, TRUE, Line.id)
  /\ replayed' = replayed + 1
  /\ UNCHANGED <<run, state, opsfile>>

\* Mutant of ReplayOp: a replay logs everything with log4().
ReplayOpShort ==
  /\ MoreLines /\ Parses /\ ~Line.skipped
  /\ \E skip \in BOOLEAN : Log(Line.operation, 3, skip, Line.id)
  /\ replayed' = replayed + 1
  /\ UNCHANGED <<run, state, opsfile>>

\* An operation of the file: done, or skipped in this run by its options.
ReplayOp ==
  /\ MoreLines /\ Parses /\ ~Line.skipped
  /\ \E skip \in BOOLEAN :
       Log(Line.operation, op_args_count(Line.operation), skip, Line.id)
  /\ replayed' = replayed + 1
  /\ UNCHANGED <<run, state, opsfile>>

\* "parse error", cleanup(100).
ReplayFails ==
  /\ MoreLines /\ ~Parses
  /\ state' = "parse error"
  /\ UNCHANGED <<run, oplog, logptr, logcount, opsfile, replayed, past>>

\* read_op() is at the end of the file: this call of test() does nothing more.
ReplayEnds ==
  /\ state = "test" /\ run > 1 /\ replayed = Len(opsfile)
  /\ state' = "eof"
  /\ UNCHANGED <<run, oplog, logptr, logcount, opsfile, replayed, past>>

-----------------------------------------------------------------------------
(* logdump() *)

DumpStart == IF logcount < LOGSIZE THEN 0 ELSE logptr
DumpCount == IF logcount < LOGSIZE THEN logcount ELSE LOGSIZE
DumpIndex(k) == (DumpStart + k - 1) % LOGSIZE

\* test() has logged skipped lines and not yet come to an operation.
InSkips == run > 1 /\ replayed > 0 /\ opsfile[replayed].skipped

\* A failure is found, the operations are through, or the replayed file is at its
\* end: the ops file is written anew.
logdump ==
  /\ state = "eof" \/ (state = "test" /\ ~InSkips)
  /\ state' = "dumped"
  /\ opsfile' = [k \in 1 .. DumpCount |-> oplog[DumpIndex(k)]]
  /\ UNCHANGED <<run, oplog, logptr, logcount, replayed, past>>

\* fsx is started with --replay-ops.
StartReplay ==
  /\ state = "dumped" /\ run < MaxRuns
  /\ run' = run + 1
  /\ state' = "test"
  /\ logptr' = 0 /\ logcount' = 0
  /\ oplog' = [i \in 0 .. LOGSIZE - 1 |-> Nowhere]
  /\ replayed' = 0
  /\ past' = <<>>
  /\ UNCHANGED opsfile

Over ==
  /\ state = "parse error" \/ (state = "dumped" /\ run = MaxRuns)
  /\ UNCHANGED logvars

LogNext ==
  \/ TestRandom \/ ReplaySkip \/ ReplayOp \/ ReplayFails \/ ReplayEnds
  \/ logdump \/ StartReplay \/ Over

LogSpec == LogInit /\ [][LogNext]_logvars

-----------------------------------------------------------------------------
(* Properties *)

LastOf(s, n) == SubSeq(s, Len(s) - n + 1, Len(s))

\* The ops file holds the last LOGSIZE operations in the order in which they were
\* logged, also when the ring has come round, exactly or in part.
DumpIsRecent ==
  state = "dumped" =>
    opsfile = LastOf(past, IF Len(past) < LOGSIZE THEN Len(past) ELSE LOGSIZE)

\* A replay logs the lines of the file in their order, one entry for each, and
\* carries out none that the file has as skipped.
ReplayFollows ==
  state \in {"test", "eof"} /\ run > 1 =>
    /\ Len(past) = replayed
    /\ \A k \in 1 .. replayed : /\ past[k].id = opsfile[k].id
                                /\ opsfile[k].skipped => past[k].skipped
    /\ state = "eof" => replayed = Len(opsfile)

\* "--replay-ops opsfile: replay ops from recorded .fsxops file": what the first
\* run has recorded can be read to its end, and so can what a replay has
\* recorded, but for a clone or copy that the replay passed over as skipped.
ReplayReadable ==
  state = "parse error" =>
    /\ run > 2
    /\ Line.skipped /\ op_args_count(Line.operation) = 4
=============================================================================

------------------------------ MODULE AioStress ------------------------------
(***************************************************************************)
(* aio-stress (io_integration_test.sh.data/ltp/aio-stress.c): worker       *)
(* threads drive asynchronous I/O on a set of operations (io_oper: one     *)
(* context of one file), stage by stage (write, read, random write, random *)
(* read).  A thread keeps its operations on an active and a finished list, *)
(* takes io units (request plus buffer) from a free list, submits them to  *)
(* the kernel in batches and reaps their completions.                      *)
(*                                                                         *)
(* Offsets and sizes are counted in records of rec_len bytes.  A list of   *)
(* operations is a sequence whose first element is the list head.          *)
(***************************************************************************)
EXTENDS Integers, Sequences, FiniteSets, FiniteSetsExt, SequencesExt

CONSTANTS
  OptThreads,   \* -t
  NumFiles,     \* files on the command line
  NumContexts,  \* -c
  FileRecs,     \* -s, in records
  CtxRecs,      \* -C, in records
  Depth,        \* -d
  OptIoIter,    \* -i
  OptMaxSubmit, \* -b, 0 when not given
  Stages,       \* -o, the stages to run (all four when none is given)
  OptIterations, \* values of -I to consider, besides none
  OptStonewall,  \* values of stonewall to consider: FALSE with -x
  QueueDepth,   \* requests one kernel context takes: 512 in worker()
  MaxFaults     \* bound on failing requests and failing io_submit calls

WRITE  == 0
READ   == 1
RWRITE == 2
RREAD  == 3

RUN_FOREVER == -1

ASSUME AioStressAssumption ==
  /\ {OptThreads, NumFiles, NumContexts, FileRecs, Depth, OptIoIter, QueueDepth}
       \subseteq Nat \ {0}
  /\ {CtxRecs, OptMaxSubmit, MaxFaults} \subseteq Nat
  /\ Stages # {} /\ Stages \subseteq WRITE .. RREAD
  /\ OptIterations \subseteq Nat
  /\ OptStonewall \subseteq BOOLEAN
  /\ FileRecs >= NumContexts * CtxRecs      \* else main() exits

-----------------------------------------------------------------------------
(* main(): the options are fitted to each other, the operations dealt out *)

MinOf(a, b) == IF a < b THEN a ELSE b

DepthIter     == MinOf(Depth, OptIoIter)
num_threads   == MinOf(OptThreads, NumFiles * NumContexts)
max_io_submit == IF OptMaxSubmit = 0 THEN NumFiles * DepthIter * NumContexts
                                     ELSE OptMaxSubmit
io_iter       == MinOf(DepthIter, max_io_submit)
first_stage   == Min(Stages)

Threads == 0 .. num_threads - 1
Opers   == 0 .. NumFiles * NumContexts - 1
Files   == 0 .. NumFiles - 1

\* create_oper(): context j of a file leaves out j * context_offset at both
\* ends, so total_ios of a late context may be zero or negative.
FileOf(o)    == o \div NumContexts
StartOf(o)   == (o % NumContexts) * CtxRecs
EndOf(o)     == FileRecs - (o % NumContexts) * CtxRecs
total_ios(o) == EndOf(o) - StartOf(o)

\* The operations are dealt out to the threads in turn.
ThreadOf(o) == o % num_threads
OpersOf(t)  == [k \in 1 .. (NumFiles * NumContexts - 1 - t) \div num_threads + 1 |->
                  t + (k - 1) * num_threads]

\* setup_ious(): depth io units for every operation of the thread.
UnitsOf(t) == {t} \X (1 .. Len(OpersOf(t)) * Depth)
Units      == UNION {UnitsOf(t) : t \in Threads}

VARIABLES
  iterations, stonewall, \* options that main() leaves in globals
  pc,               \* where each thread is in worker()
  threads_starting, threads_ending, sleeping, iteration, \* see AioStage
  cnt,              \* turns of the submit loop in this stage
  oper,             \* the io_oper structures
  active, finished, \* the thread's lists of operations
  built,            \* run_active_list's local list
  idx,              \* position on the list that is being walked
  want,             \* iocbs build_oper still has to prepare
  iocbs,            \* t->iocbs: units prepared for io_submit
  free,             \* t->free_ious
  job,              \* operation and offset of the request in a unit
  inflight, done,   \* kernel: requests accepted, and completed but not reaped
  bad,              \* units whose request failed
  num_global_pending,
  size,             \* file sizes
  mb,               \* t->stage_mb_trans, in records
  status,           \* what worker() returns: an operation had an error
  crashed,          \* exit(1) in one of the threads
  faults, submitted, hit, closed
    \* history: failures so far; requests of a thread accepted in this stage;
    \* operations with a failed request; operations freed

barrierVars == <<threads_starting, threads_ending, sleeping, iteration>>
listVars    == <<active, finished, built>>
unitVars    == <<free, job, inflight, done, bad, num_global_pending, size>>
walkVars    == <<idx, want, iocbs>>
endVars     == <<mb, status, closed>>
histVars    == <<crashed, faults, submitted, hit>>
optVars     == <<iterations, stonewall>>
vars == <<optVars, pc, cnt, oper, barrierVars, listVars, unitVars, walkVars,
          endVars, histVars>>

Init ==
  /\ iterations \in {RUN_FOREVER} \cup OptIterations
  /\ stonewall \in OptStonewall
  /\ pc = [t \in Threads |-> "start"]
  /\ threads_starting = 0 /\ threads_ending = 0 /\ sleeping = {}
  /\ iteration = [t \in Threads |-> 0]
  /\ cnt = [t \in Threads |-> 0]
  /\ oper = [o \in Opers |-> [rw |-> first_stage, started |-> 0, pending |-> 0,
                              err |-> FALSE, stonewalled |-> FALSE,
                              offset |-> StartOf(o)]]
  /\ active = [t \in Threads |-> OpersOf(t)]
  /\ finished = [t \in Threads |-> <<>>]
  /\ built = [t \in Threads |-> <<>>]
  /\ idx = [t \in Threads |-> 1]
  /\ want = [t \in Threads |-> 0]
  /\ iocbs = [t \in Threads |-> <<>>]
  /\ free = [t \in Threads |-> UnitsOf(t)]
  /\ job = [u \in Units |-> [oper |-> 0, offset |-> 0]]
  /\ inflight = [t \in Threads |-> {}]
  /\ done = [t \in Threads |-> {}]
  /\ bad = {}
  /\ num_global_pending = [t \in Threads |-> 0]
  /\ size \in [Files -> {0, FileRecs}]     \* new, or left by an earlier run
  /\ mb = [t \in Threads |-> 0]
  /\ status = [t \in Threads |-> FALSE]
  /\ closed = {}
  /\ crashed = FALSE
  /\ faults = 0
  /\ submitted = [t \in Threads |-> 0]
  /\ hit = {}

Goto(t, label) == pc' = [pc EXCEPT ![t] = label]

-----------------------------------------------------------------------------
(* worker(): the start barrier and the loop that sends everything *)

\* Past the barrier a thread with operations clears its statistics; the turn
\* counter starts again.
BeginStage(t) ==
  /\ Goto(t, "loop")
  /\ cnt' = [cnt EXCEPT ![t] = 0]
  /\ mb' = [mb EXCEPT ![t] = IF active[t] # <<>> THEN 0 ELSE @]
  /\ submitted' = [submitted EXCEPT ![t] = 0]

\* Mutant of EnterStart: threads_ending is not reset.
EnterStartNoReset(t) ==
  /\ pc[t] = "start"
  /\ IF num_threads = 1 THEN BeginStage(t) /\ UNCHANGED barrierVars
     ELSE /\ threads_starting' = threads_starting + 1
          /\ UNCHANGED iteration
          /\ IF threads_starting + 1 = num_threads
             THEN /\ UNCHANGED threads_ending
                  /\ sleeping' = {}
                  /\ BeginStage(t)
             ELSE /\ sleeping' = sleeping \cup {t}
                  /\ Goto(t, "startwait")
                  /\ UNCHANGED <<threads_ending, cnt, mb, submitted>>
  /\ UNCHANGED <<oper, listVars, unitVars, walkVars, status, closed, crashed,
                 faults, hit>>

\* One thread runs no barrier; the last of several resets threads_ending and
\* wakes the others.
EnterStart(t) ==
  /\ pc[t] = "start"
  /\ IF num_threads = 1 THEN BeginStage(t) /\ UNCHANGED barrierVars
     ELSE /\ threads_starting' = threads_starting + 1
          /\ UNCHANGED iteration
          /\ IF threads_starting + 1 = num_threads
             THEN /\ threads_ending' = 0
                  /\ sleeping' = {}
                  /\ BeginStage(t)
             ELSE /\ sleeping' = sleeping \cup {t}
                  /\ Goto(t, "startwait")
                  /\ UNCHANGED <<threads_ending, cnt, mb, submitted>>
  /\ UNCHANGED <<oper, listVars, unitVars, walkVars, status, closed, crashed,
                 faults, hit>>

WakeStart(t) ==
  /\ pc[t] = "startwait"
  /\ t \notin sleeping
  /\ IF threads_starting = num_threads
     THEN BeginStage(t) /\ UNCHANGED sleeping
     ELSE sleeping' = sleeping \cup {t} /\ UNCHANGED <<pc, cnt, mb, submitted>>
  /\ UNCHANGED <<threads_starting, threads_ending, iteration, oper, listVars,
                 unitVars, walkVars, status, closed, crashed, faults, hit>>

TurnsLeft(t) == iterations = RUN_FOREVER \/ cnt[t] < iterations
NextTurn(t)  == cnt' = IF iterations = RUN_FOREVER THEN cnt ELSE [cnt EXCEPT ![t] = @ + 1]

\* Another thread has ended the stage: the head of the active list is cut off.
\* threads_ending is read without stage_mutex.
StonewallHead(t) ==
  /\ pc[t] = "loop"
  /\ active[t] # <<>> /\ TurnsLeft(t)
  /\ stonewall /\ threads_ending # 0
  /\ oper' = [oper EXCEPT ![Head(active[t])].stonewalled = TRUE]
  /\ finished' = [finished EXCEPT ![t] = Append(@, Head(active[t]))]
  /\ active' = [active EXCEPT ![t] = Tail(@)]
  /\ NextTurn(t)
  /\ UNCHANGED <<pc, barrierVars, built, unitVars, walkVars, endVars, histVars>>

\* run_active_list() is entered.
RunActiveList(t) ==
  /\ pc[t] = "loop"
  /\ active[t] # <<>> /\ TurnsLeft(t)
  /\ ~(stonewall /\ threads_ending # 0)
  /\ Goto(t, "scan")
  /\ idx' = [idx EXCEPT ![t] = 1]
  /\ NextTurn(t)
  /\ UNCHANGED <<oper, barrierVars, listVars, unitVars, want, iocbs, endVars,
                 histVars>>

LoopEnds(t) ==
  /\ pc[t] = "loop"
  /\ active[t] = <<>> \/ ~TurnsLeft(t)
  /\ Goto(t, "wait")
  /\ UNCHANGED <<cnt, oper, barrierVars, listVars, unitVars, walkVars, endVars,
                 histVars>>

-----------------------------------------------------------------------------
(* run_active_list(): prepare a chunk of requests for every operation *)

Cur(t) == active[t][idx[t]]

\* Only a sequential stage of a late context waits for the file to reach it.
oper_runnable(o) ==
  \/ oper[o].started # 0 \/ StartOf(o) = 0
  \/ oper[o].rw >= RWRITE
  \/ size[FileOf(o)] >= StartOf(o)

SkipOper(t) ==
  /\ pc[t] = "scan"
  /\ ~oper_runnable(Cur(t))
  /\ IF idx[t] = Len(active[t])
     THEN Goto(t, "submit") /\ UNCHANGED idx
     ELSE idx' = [idx EXCEPT ![t] = @ + 1] /\ UNCHANGED pc
  /\ UNCHANGED <<cnt, oper, barrierVars, listVars, unitVars, want, iocbs, endVars,
                 histVars>>

\* build_oper(): io_iter requests, or what the operation has left.
ChunkSize(o) == MinOf(io_iter, total_ios(o) - oper[o].started)

\* A negative count is taken for an error and ends the walk.
BuildOper(t) ==
  /\ pc[t] = "scan"
  /\ oper_runnable(Cur(t))
  /\ IF ChunkSize(Cur(t)) < 0
     THEN Goto(t, "submit") /\ UNCHANGED want
     ELSE Goto(t, "build") /\ want' = [want EXCEPT ![t] = ChunkSize(Cur(t))]
  /\ UNCHANGED <<cnt, oper, barrierVars, listVars, unitVars, idx, iocbs, endVars,
                 histVars>>

IsRead(rw)       == rw \in {READ, RREAD}
IsSequential(rw) == rw \in {WRITE, READ}

\* build_iocb(): sequential stages go on at last_offset, the random ones take
\* what random_byte_offset() gives (it may reach the end of the
\* operation).  The units are interchangeable, so which free one find_iou()
\* takes is not told apart.
BuildIocb(t) ==
  LET o == Cur(t)
      u == CHOOSE v \in free[t] : \A w \in free[t] : v[2] <= w[2]
  IN
  /\ pc[t] = "build" /\ want[t] > 0
  /\ free[t] # {}
  /\ \E x \in IF IsSequential(oper[o].rw) THEN {oper[o].offset}
              ELSE StartOf(o) .. EndOf(o) :
       /\ job' = [job EXCEPT ![u] = [oper |-> o, offset |-> x]]
       /\ oper' = [oper EXCEPT ![o].offset =
                     IF IsSequential(oper[o].rw) THEN x + 1 ELSE x]
  /\ free' = [free EXCEPT ![t] = @ \ {u}]
  /\ iocbs' = [iocbs EXCEPT ![t] = Append(@, u)]
  /\ want' = [want EXCEPT ![t] = @ - 1]
  /\ UNCHANGED <<pc, cnt, barrierVars, listVars, inflight, done, bad,
                 num_global_pending, size, idx, endVars, histVars>>

\* The operation moves to the built list; the walk goes on from the head of
\* the active list while another full chunk fits into max_io_submit.
OperBuilt(t) ==
  /\ pc[t] = "build" /\ want[t] = 0
  /\ active' = [active EXCEPT ![t] = RemoveAt(@, idx[t])]
  /\ built' = [built EXCEPT ![t] = Append(@, Cur(t))]
  /\ idx' = [idx EXCEPT ![t] = 1]
  /\ Goto(t, IF Len(active[t]) = 1 \/ Len(iocbs[t]) + io_iter > max_io_submit
             THEN "submit" ELSE "scan")
  /\ UNCHANGED <<cnt, oper, barrierVars, finished, unitVars, want, iocbs, endVars,
                 histVars>>
-----------------------------------------------------------------------------
(* finish_io(), read_some_events(): completions are reaped *)

\* A failed request counts as an error only for a read inside the file.
Recorded(u) ==
  /\ IsRead(oper[job[u].oper].rw)
  /\ size[FileOf(job[u].oper)] >= job[u].offset

\* Mutant of FinishIo: the pending count of the operation is not lowered.
FinishIoKeepsPending(t, S) ==
  /\ free' = [free EXCEPT ![t] = @ \cup S]
  /\ done' = [done EXCEPT ![t] = @ \ S]
  /\ bad' = bad \ S
  /\ oper' = [o \in Opers |->
       [oper[o] EXCEPT !.err = @ \/ \E u \in S \cap bad : job[u].oper = o /\ Recorded(u)]]
  /\ num_global_pending' = [num_global_pending EXCEPT ![t] = @ - Cardinality(S)]

\* Mutant of FinishIo: the unit is not put back on the free list.
FinishIoKeepsUnit(t, S) ==
  /\ UNCHANGED free
  /\ done' = [done EXCEPT ![t] = @ \ S]
  /\ bad' = bad \ S
  /\ oper' = [o \in Opers |->
       [oper[o] EXCEPT !.pending = @ - Cardinality({u \in S : job[u].oper = o})]]
  /\ num_global_pending' = [num_global_pending EXCEPT ![t] = @ - Cardinality(S)]

FinishIo(t, S) ==
  /\ free' = [free EXCEPT ![t] = @ \cup S]
  /\ done' = [done EXCEPT ![t] = @ \ S]
  /\ bad' = bad \ S
  /\ oper' = [o \in Opers |->
       [oper[o] EXCEPT
          !.pending = @ - Cardinality({u \in S : job[u].oper = o}),
          !.err = @ \/ \E u \in S \cap bad : job[u].oper = o /\ Recorded(u)]]
  /\ num_global_pending' = [num_global_pending EXCEPT ![t] = @ - Cardinality(S)]

\* find_iou() without a free unit, or run_built() with a full queue, blocks for
\* min_nr events and takes all there are; io_submit is then tried again.
ReadSomeEvents(t) ==
  /\ \/ pc[t] = "build" /\ want[t] > 0 /\ free[t] = {} /\ UNCHANGED pc
     \/ pc[t] = "eagain" /\ Goto(t, "submit")
  /\ done[t] # {}
  /\ Cardinality(done[t]) >= MinOf(io_iter, num_global_pending[t])
  /\ FinishIo(t, done[t])
  /\ UNCHANGED <<cnt, barrierVars, listVars, job, inflight, size, walkVars, endVars,
                 histVars>>

-----------------------------------------------------------------------------
(* run_built(): the prepared requests go to the kernel *)

UnitsFor(s, o) == {u \in Range(s) : job[u].oper = o}

\* Mutant of Submit: what io_submit took of a batch stays in the array.
SubmitResends(t) ==
  LET room == QueueDepth - Cardinality(inflight[t] \cup done[t])
      k    == MinOf(Len(iocbs[t]), room)
      took == SubSeq(iocbs[t], 1, k)
  IN
  /\ pc[t] = "submit" /\ iocbs[t] # <<>>
  /\ inflight' = [inflight EXCEPT ![t] = @ \cup Range(took)]
  /\ oper' = [o \in Opers |->
       [oper[o] EXCEPT !.pending = @ + Cardinality(UnitsFor(took, o)),
                       !.started = @ + Cardinality(UnitsFor(took, o))]]
  /\ num_global_pending' = [num_global_pending EXCEPT ![t] = @ + k]
  /\ submitted' = [submitted EXCEPT ![t] = @ + k]
  /\ IF k = Len(iocbs[t])
     THEN Goto(t, "requeue") /\ iocbs' = [iocbs EXCEPT ![t] = <<>>]
     ELSE Goto(t, "eagain") /\ UNCHANGED iocbs
  /\ UNCHANGED <<cnt, barrierVars, listVars, free, job, done, bad, size, idx, want,
                 endVars, crashed, faults, hit>>

\* io_submit takes as many requests as the queue has room for, and
\* update_iou_counters() counts them; the rest waits for completions.
Submit(t) ==
  LET room == QueueDepth - Cardinality(inflight[t] \cup done[t])
      k    == MinOf(Len(iocbs[t]), room)
      took == SubSeq(iocbs[t], 1, k)
  IN
  /\ pc[t] = "submit" /\ iocbs[t] # <<>>
  /\ inflight' = [inflight EXCEPT ![t] = @ \cup Range(took)]
  /\ iocbs' = [iocbs EXCEPT ![t] = SubSeq(@, k + 1, Len(@))]
  /\ oper' = [o \in Opers |->
       [oper[o] EXCEPT !.pending = @ + Cardinality(UnitsFor(took, o)),
                       !.started = @ + Cardinality(UnitsFor(took, o))]]
  /\ num_global_pending' = [num_global_pending EXCEPT ![t] = @ + k]
  /\ submitted' = [submitted EXCEPT ![t] = @ + k]
  /\ Goto(t, IF k = Len(iocbs[t]) THEN "requeue" ELSE "eagain")
  /\ UNCHANGED <<cnt, barrierVars, listVars, free, job, done, bad, size, idx, want,
                 endVars, crashed, faults, hit>>

\* Any other error of io_submit: exit(1) ends all the threads.
SubmitFails(t) ==
  /\ pc[t] = "submit" /\ iocbs[t] # <<>>
  /\ faults < MaxFaults
  /\ faults' = faults + 1
  /\ crashed' = TRUE
  /\ UNCHANGED <<pc, cnt, oper, barrierVars, listVars, unitVars, walkVars, endVars,
                 submitted, hit>>

\* num_built is zero: run_active_list() returns, and its list of built
\* operations goes with its stack frame.
SubmitNothing(t) ==
  /\ pc[t] = "submit" /\ iocbs[t] = <<>>
  /\ built' = [built EXCEPT ![t] = <<>>]
  /\ Goto(t, "loop")
  /\ UNCHANGED <<cnt, oper, barrierVars, active, finished, unitVars, walkVars,
                 endVars, histVars>>

AllStarted(o) == oper[o].started = total_ios(o)

\* One operation of the built list: finished when all its requests have been
\* started, else active again.  With an empty list run_active_list() returns.
Requeue(t) ==
  LET o == Head(built[t]) IN
  /\ pc[t] = "requeue"
  /\ IF built[t] = <<>>
     THEN Goto(t, "loop") /\ UNCHANGED listVars
     ELSE /\ built' = [built EXCEPT ![t] = Tail(@)]
          /\ IF AllStarted(o)
             THEN finished' = [finished EXCEPT ![t] = Append(@, o)] /\ UNCHANGED active
             ELSE active' = [active EXCEPT ![t] = Append(@, o)] /\ UNCHANGED finished
          /\ UNCHANGED pc
  /\ UNCHANGED <<cnt, oper, barrierVars, unitVars, walkVars, endVars, histVars>>

-----------------------------------------------------------------------------
(* The kernel: accepted requests complete in any order *)

\* A successful write may extend the file.
Complete(t, u) ==
  LET o == job[u].oper IN
  /\ u \in inflight[t]
  /\ inflight' = [inflight EXCEPT ![t] = @ \ {u}]
  /\ done' = [done EXCEPT ![t] = @ \cup {u}]
  /\ size' = IF IsRead(oper[o].rw) THEN size
             ELSE [size EXCEPT ![FileOf(o)] = Max({@, job[u].offset + 1})]
  /\ UNCHANGED <<pc, cnt, oper, barrierVars, listVars, free, job, bad,
                 num_global_pending, walkVars, endVars, histVars>>

\* An I/O error: res is negative.
Fail(t, u) ==
  /\ u \in inflight[t]
  /\ faults < MaxFaults
  /\ faults' = faults + 1
  /\ inflight' = [inflight EXCEPT ![t] = @ \ {u}]
  /\ done' = [done EXCEPT ![t] = @ \cup {u}]
  /\ bad' = bad \cup {u}
  /\ hit' = hit \cup {job[u].oper}
  /\ UNCHANGED <<pc, cnt, oper, barrierVars, listVars, free, job,
                 num_global_pending, size, walkVars, endVars, crashed, submitted>>

-----------------------------------------------------------------------------
(* worker(): wait for the finished operations and restart them *)

Drained(t) == \A i \in DOMAIN finished[t] : oper[finished[t][i]].pending = 0

\* io_oper_wait() takes one event at a time, whichever operation it is for; it
\* runs before the restarts and again in finish_oper().
IoOperWait(t) ==
  /\ pc[t] \in {"wait", "free"} /\ ~Drained(t)
  /\ \E u \in done[t] : FinishIo(t, {u})
  /\ UNCHANGED <<pc, cnt, barrierVars, listVars, job, inflight, size, walkVars,
                 endVars, histVars>>

\* Mutant of WaitDone: the wait is left with requests still pending.
WaitDoneEarly(t) ==
  /\ pc[t] = "wait"
  /\ idx' = [idx EXCEPT ![t] = 1]
  /\ Goto(t, IF finished[t] = <<>> THEN "end" ELSE "restart")
  /\ UNCHANGED <<cnt, oper, barrierVars, listVars, unitVars, want, iocbs, endVars,
                 histVars>>

WaitDone(t) ==
  /\ pc[t] = "wait" /\ Drained(t)
  /\ idx' = [idx EXCEPT ![t] = 1]
  /\ Goto(t, IF finished[t] = <<>> THEN "end" ELSE "restart")
  /\ UNCHANGED <<cnt, oper, barrierVars, listVars, unitVars, want, iocbs, endVars,
                 histVars>>

\* Mutant of LaterStages: no fall through in restart_oper().
NextStageOnly(o) == {s \in Stages : s = oper[o].rw + 1}

\* restart_oper(): the switch falls through to the first later stage wanted.
LaterStages(o) == {s \in Stages : s > oper[o].rw}
Restartable(o) == ~oper[o].err /\ LaterStages(o) # {}

\* The fsync, the account of the stage and the restart of one operation; the
\* walk then begins again at the head of the list.
RestartOper(t) ==
  LET o == finished[t][idx[t]] IN
  /\ pc[t] = "restart" /\ Restartable(o)
  /\ mb' = [mb EXCEPT ![t] = @ + oper[o].started]
  /\ oper' = [oper EXCEPT ![o] =
       [@ EXCEPT !.started = 0, !.offset = StartOf(o), !.stonewalled = FALSE,
                 !.rw = Min(LaterStages(o))]]
  /\ finished' = [finished EXCEPT ![t] = RemoveAt(@, idx[t])]
  /\ active' = [active EXCEPT ![t] = Append(@, o)]
  /\ idx' = [idx EXCEPT ![t] = 1]
  /\ Goto(t, IF Len(finished[t]) = 1 THEN "end" ELSE "restart")
  /\ UNCHANGED <<cnt, barrierVars, built, unitVars, want, iocbs, status, closed,
                 histVars>>

\* An operation that is through stays on the list and is walked past.
KeepOper(t) ==
  LET o == finished[t][idx[t]] IN
  /\ pc[t] = "restart" /\ ~Restartable(o)
  /\ mb' = [mb EXCEPT ![t] = @ + oper[o].started]
  /\ IF idx[t] = Len(finished[t])
     THEN Goto(t, "end") /\ UNCHANGED idx
     ELSE idx' = [idx EXCEPT ![t] = @ + 1] /\ UNCHANGED pc
  /\ UNCHANGED <<cnt, oper, barrierVars, listVars, unitVars, want, iocbs, status,
                 closed, histVars>>

-----------------------------------------------------------------------------
(* worker(): the end barrier, and the way back or out *)

\* Mutant of EnterEnd: the last thread wakes nobody.
EnterEndNoBroadcast(t) ==
  /\ pc[t] = "end"
  /\ IF num_threads = 1 THEN Goto(t, "decide") /\ UNCHANGED barrierVars
     ELSE /\ threads_ending' = threads_ending + 1
          /\ UNCHANGED iteration
          /\ IF threads_ending + 1 = num_threads
             THEN /\ threads_starting' = 0
                  /\ UNCHANGED sleeping
                  /\ Goto(t, "decide")
             ELSE /\ sleeping' = sleeping \cup {t}
                  /\ Goto(t, "endwait")
                  /\ UNCHANGED threads_starting
  /\ UNCHANGED <<cnt, oper, listVars, unitVars, walkVars, endVars, histVars>>

EnterEnd(t) ==
  /\ pc[t] = "end"
  /\ IF num_threads = 1 THEN Goto(t, "decide") /\ UNCHANGED barrierVars
     ELSE /\ threads_ending' = threads_ending + 1
          /\ UNCHANGED iteration
          /\ IF threads_ending + 1 = num_threads
             THEN /\ threads_starting' = 0
                  /\ sleeping' = {}
                  /\ Goto(t, "decide")
             ELSE /\ sleeping' = sleeping \cup {t}
                  /\ Goto(t, "endwait")
                  /\ UNCHANGED threads_starting
  /\ UNCHANGED <<cnt, oper, listVars, unitVars, walkVars, endVars, histVars>>

WakeEnd(t) ==
  /\ pc[t] = "endwait"
  /\ t \notin sleeping
  /\ IF threads_ending = num_threads
     THEN Goto(t, "decide") /\ UNCHANGED sleeping
     ELSE sleeping' = sleeping \cup {t} /\ UNCHANGED pc
  /\ UNCHANGED <<threads_starting, threads_ending, iteration, cnt, oper, listVars,
                 unitVars, walkVars, endVars, histVars>>

SpuriousWakeup(t) ==
  /\ t \in sleeping
  /\ sleeping' = sleeping \ {t}
  /\ UNCHANGED <<pc, cnt, oper, threads_starting, threads_ending, iteration,
                 listVars, unitVars, walkVars, endVars, histVars>>

\* Some operation was restarted: back to the beginning, unless the turns are up.
Decide(t) ==
  /\ pc[t] = "decide"
  /\ IF active[t] # <<>> /\ TurnsLeft(t)
     THEN iteration' = [iteration EXCEPT ![t] = @ + 1] /\ Goto(t, "start")
     ELSE Goto(t, "free") /\ UNCHANGED iteration
  /\ UNCHANGED <<threads_starting, threads_ending, sleeping, cnt, oper, listVars,
                 unitVars, walkVars, endVars, histVars>>

\* Mutant of FinishOper: the operations left on the active list are freed too.
FinishOperActive(t) ==
  /\ pc[t] = "free" /\ Drained(t)
  /\ IF finished[t] = <<>>
     THEN /\ Goto(t, "exit") /\ UNCHANGED <<finished, status>>
          /\ closed' = closed \cup Range(active[t])
     ELSE /\ finished' = [finished EXCEPT ![t] = Tail(@)]
          /\ closed' = closed \cup {Head(finished[t])}
          /\ status' = [status EXCEPT ![t] = oper[Head(finished[t])].err]
          /\ UNCHANGED pc
  /\ UNCHANGED <<cnt, oper, barrierVars, active, built, unitVars, walkVars, mb,
                 histVars>>

\* finish_oper() for the head of the finished list; the last one freed gives
\* the status.  With an empty list the context is released and worker returns.
FinishOper(t) ==
  /\ pc[t] = "free" /\ Drained(t)
  /\ IF finished[t] = <<>>
     THEN Goto(t, "exit") /\ UNCHANGED <<finished, closed, status>>
     ELSE /\ finished' = [finished EXCEPT ![t] = Tail(@)]
          /\ closed' = closed \cup {Head(finished[t])}
          /\ status' = [status EXCEPT ![t] = oper[Head(finished[t])].err]
          /\ UNCHANGED pc
  /\ UNCHANGED <<cnt, oper, barrierVars, active, built, unitVars, walkVars, mb,
                 histVars>>

-----------------------------------------------------------------------------
WorkerStep(t) ==
  \/ EnterStart(t) \/ WakeStart(t) \/ StonewallHead(t) \/ RunActiveList(t)
  \/ LoopEnds(t) \/ SkipOper(t) \/ BuildOper(t) \/ BuildIocb(t) \/ OperBuilt(t)
  \/ ReadSomeEvents(t) \/ Submit(t) \/ SubmitNothing(t) \/ Requeue(t)
  \/ IoOperWait(t) \/ WaitDone(t) \/ RestartOper(t) \/ KeepOper(t) \/ EnterEnd(t)
  \/ WakeEnd(t) \/ Decide(t) \/ FinishOper(t)

ThreadStep(t) == ~crashed /\ WorkerStep(t) /\ UNCHANGED optVars

Kernel(t) ==
  ~crashed /\ (\E u \in inflight[t] : Complete(t, u) \/ Fail(t, u)) /\ UNCHANGED optVars

\* main() returns, or exit(1) has ended the process.
Finished == crashed \/ \A t \in Threads : pc[t] = "exit"

Next ==
  \/ \E t \in Threads : ThreadStep(t) \/ Kernel(t)
  \/ /\ ~crashed /\ UNCHANGED optVars
     /\ \E t \in Threads : SubmitFails(t) \/ SpuriousWakeup(t)
  \/ Finished /\ UNCHANGED vars

\* Every thread is scheduled and the kernel completes what it has accepted.
Fairness ==
  \A t \in Threads : WF_vars(ThreadStep(t)) /\ WF_vars(Kernel(t))

Spec == Init /\ [][Next]_vars
FairSpec == Spec /\ Fairness

-----------------------------------------------------------------------------
(* Properties *)

Labels == {"start", "startwait", "loop", "scan", "build", "submit", "eagain",
           "requeue", "wait", "restart", "end", "endwait", "decide", "free", "exit"}

\* The counters of main(), worker() and the operations stay inside what the options
\* allow, and a thread's lists hold only its own operations and units.
TypeOK ==
  /\ pc \in [Threads -> Labels]
  /\ threads_starting \in 0 .. num_threads /\ threads_ending \in 0 .. num_threads
  /\ sleeping \subseteq Threads
  /\ iteration \in [Threads -> 0 .. 3]
  /\ \A o \in Opers :
       oper[o] \in [rw : Stages, started : 0 .. FileRecs, pending : 0 .. FileRecs,
                    err : BOOLEAN, stonewalled : BOOLEAN,
                    offset : 0 .. FileRecs]
  /\ \A t \in Threads : /\ free[t] \cup inflight[t] \cup done[t] \subseteq UnitsOf(t)
                        /\ Range(iocbs[t]) \subseteq UnitsOf(t)
                        /\ Range(active[t] \o finished[t] \o built[t])
                             \subseteq Range(OpersOf(t))
                        /\ want[t] \in 0 .. io_iter
                        /\ num_global_pending[t] \in 0 .. Cardinality(UnitsOf(t))
  /\ job \in [Units -> [oper : Opers, offset : 0 .. FileRecs]]
  /\ bad \subseteq Units
  /\ size \in [Files -> 0 .. FileRecs + 1]
  /\ faults \in 0 .. MaxFaults

\* The io units are conserved: each is on the free list, in t->iocbs waiting for
\* io_submit, or with the kernel, and in one place only; the free list and the
\* busy marks of find_iou() / grab_iou() ("io unit on free list but not free")
\* never disagree, whatever the interleaving of partial submissions and reaping.
UnitsConserved ==
  \A t \in Threads :
    /\ free[t] \cup Range(iocbs[t]) \cup inflight[t] \cup done[t] = UnitsOf(t)
    /\ Cardinality(free[t]) + Len(iocbs[t]) + Cardinality(inflight[t])
         + Cardinality(done[t]) = Cardinality(UnitsOf(t))

\* The counters agree with the kernel: num_pending of an operation, and
\* num_global_pending of a thread, count the requests that io_submit took and
\* no event has been read for.
PendingExact ==
  \A t \in Threads :
    /\ num_global_pending[t] = Cardinality(inflight[t] \cup done[t])
    /\ \A i \in DOMAIN OpersOf(t) :
         LET o == OpersOf(t)[i] IN
         oper[o].pending = Cardinality({u \in inflight[t] \cup done[t] :
                                          job[u].oper = o})

\* The fatal paths of find_iou() ("no free ious after read_some_events") and
\* run_built() (abort()) need a thread that must read events with none pending:
\* that never happens.
NeverStarved ==
  \A t \in Threads :
    (pc[t] = "build" /\ want[t] > 0 /\ free[t] = {}) \/ pc[t] = "eagain"
      => num_global_pending[t] > 0

\* An operation changes its stage, and its counters start again, only with no
\* request of the old stage still with the kernel (restart_oper() provides for
\* one with pending requests, the wait before it excludes it), and all its
\* requests started unless it was stonewalled; it never starts more than
\* total_ios requests in a stage (a late context may have none to start).
StageIsClean ==
  [][\A o \in Opers :
       /\ oper'[o].rw # oper[o].rw =>
            /\ oper[o].pending = 0
            /\ oper[o].started = total_ios(o) \/ oper[o].stonewalled
       /\ oper'[o].started > oper[o].started => oper'[o].started <= total_ios(o)]_vars

\* An operation is cut off by the stonewall only when another thread has really
\* finished the same stage: threads_ending, read without stage_mutex, is never a
\* left-over of an earlier stage.
StonewallFair ==
  [][\A t \in Threads : \A i \in DOMAIN OpersOf(t) :
       LET o == OpersOf(t)[i] IN
       ~oper[o].stonewalled /\ oper'[o].stonewalled =>
         \E u \in Threads : /\ pc[u] = "endwait"
                            /\ iteration[u] = iteration[t]]_vars

\* No event can arrive for an operation that finish_oper() has freed: finish_io()
\* writes through io->io_oper.  With -I a thread leaves requests of its active
\* operations pending when it returns, but those operations are never freed.
NoUseAfterFree ==
  \A t \in Threads : \A u \in inflight[t] \cup done[t] : job[u].oper \notin closed

\* The barrier protocol is the one of AioStage.
StagePhase(l) ==
  IF l \in {"loop", "scan", "build", "submit", "eagain", "requeue", "wait", "restart"}
  THEN "body"
  ELSE IF l \in {"free", "exit"} THEN "exit" ELSE l

Stage == INSTANCE AioStage WITH
           Threads <- Threads, MaxIteration <- 3,
           phase <- [t \in Threads |-> StagePhase(pc[t])]

\* aio-stress implements the stage barrier: every step of the detailed threads is
\* a step of AioStage or leaves its state alone.
ImplementsStage == Stage!Spec

\* Without I/O errors every thread gets through all its stages and returns, though
\* late contexts of a file wait for other threads to write up to them.
Termination == <>Finished

\* A run without I/O errors leaves nothing behind: the total that a thread reports
\* for a stage is what it submitted in it, and, without -I, when worker() has
\* returned every operation went through every stage and was closed, and no
\* request is pending in a released context.
AllDone ==
  hit = {} => \A t \in Threads :
    /\ pc[t] = "end" => mb[t] = submitted[t]
    /\ iterations = RUN_FOREVER /\ pc[t] = "exit" =>
         /\ num_global_pending[t] = 0 /\ active[t] = <<>>
         /\ \A o \in Range(OpersOf(t)) : o \in closed /\ oper[o].rw = Max(Stages)
=============================================================================

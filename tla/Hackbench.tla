------------------------------ MODULE Hackbench ------------------------------
(***************************************************************************)
(* The scheduler benchmark testcases/general_test/bench/hackbench.py.data/ *)
(* hackbench.c: main() creates NumGroups groups of NumFds receivers and    *)
(* NumFds senders (processes or threads), collects one byte from each of   *)
(* them on the ready pipe, wakes them all with one byte on the wake pipe,  *)
(* and reaps them.  Every sender of a group sprays Loops packets of        *)
(* DataSize bytes down the pipe of every receiver of its group.            *)
(*                                                                         *)
(* Workers are numbered by their index in pth_tab, which is their order of *)
(* creation: the receivers of a group, then its senders, group by group.   *)
(***************************************************************************)
EXTENDS Naturals, FiniteSets

CONSTANTS
  NumGroups,    \* num_groups (the first argument, 0 is refused)
  NumFds,       \* num_fds, 20 in the code
  Loops,        \* loops
  DataSize,     \* DATASIZE, 100 in the code
  PipeCap,      \* bytes the kernel buffers in one sender->receiver fdpair
  ReadyCap,     \* bytes the kernel buffers in readyfds
  Modes,        \* the values of process_mode to consider
  MaxFaults     \* bound on injected failures (a failed call, a killed worker)

ASSUME HackbenchAssumption ==
  /\ NumGroups \in Nat \ {0}
  /\ NumFds \in Nat \ {0}
  /\ Loops \in Nat \ {0}
  /\ DataSize \in Nat \ {0}
  /\ PipeCap \in Nat \ {0}
  /\ ReadyCap \in Nat \ {0}
  /\ Modes \subseteq BOOLEAN
  /\ MaxFaults \in Nat

GroupSize == 2 * NumFds                     \* what group() returns
Total     == NumGroups * GroupSize          \* total_children
Workers   == 0 .. Total - 1

GroupOf(w)    == w \div GroupSize
IsReceiver(w) == w % GroupSize < NumFds
IsSender(w)   == ~IsReceiver(w)
Receivers     == {w \in Workers : IsReceiver(w)}
Senders       == {w \in Workers : IsSender(w)}

\* ctx->out_fds[j] of a sender: the j-th receiver of its group.
OutFd(s, j) == GroupOf(s) * GroupSize + j

VARIABLES
  process_mode, \* TRUE for fork ("process" or no argument), FALSE for pthread_create
  main,      \* where main() is: "create", "ready", "reap", "done", "failed"
  spawned,   \* workers created so far; worker number `spawned' is next
  fds,       \* receivers' pipe ends main() holds open: <<receiver, "rd"|"wr">>
  worker,    \* status of each worker
  readyIn,   \* bytes waiting in readyfds
  readyRead, \* ready bytes main() has read
  wake,      \* main() has written the GO byte to wakefds (nobody reads it)
  pipe,      \* bytes waiting in each receiver's pipe
  pos,       \* each worker's loop counters: i, j and done of the current packet
  reaped,    \* number of workers main() has reaped
  told,      \* history: the workers that have written their ready byte
  faults     \* failures injected so far

vars == <<process_mode, main, spawned, fds, worker, readyIn, readyRead, wake,
          pipe, pos, reaped, told, faults>>

Statuses == {"unborn", "start", "poll", "run", "exited", "barfed", "killed",
             "reaped"}
Live(w)  == worker[w] \in {"start", "poll", "run"}

Init ==
  /\ process_mode \in Modes
  /\ main = "create"
  /\ spawned = 0
  /\ fds = {}
  /\ worker = [w \in Workers |-> "unborn"]
  /\ readyIn = 0
  /\ readyRead = 0
  /\ wake = FALSE
  /\ pipe = [r \in Receivers |-> 0]
  /\ pos = [w \in Workers |-> [i |-> 0, j |-> 0, done |-> 0]]
  /\ reaped = 0
  /\ told = {}
  /\ faults = 0

-----------------------------------------------------------------------------
(* main(): creation *)

\* Mutant of FdsAfter: group() forgets to close the write ends it has left.
FdsAfterLeaky(w) ==
  IF IsReceiver(w) THEN fds \cup {<<w, "wr">>} ELSE fds

\* The ends main() still holds once worker w exists.  A process closes the
\* read end right after forking the receiver, and every write end of the
\* group after forking the group's last sender; threads share the table.
FdsAfter(w) ==
  IF IsReceiver(w)
  THEN fds \cup (IF process_mode THEN {<<w, "wr">>}
                                ELSE {<<w, "rd">>, <<w, "wr">>})
  ELSE IF process_mode /\ w % GroupSize = GroupSize - 1
       THEN {f \in fds : GroupOf(f[1]) # GroupOf(w)}
       ELSE fds

\* One turn of a loop of group(): fdpair() for a receiver, create_worker().
CreateWorker ==
  /\ main = "create"
  /\ spawned < Total
  /\ worker' = [worker EXCEPT ![spawned] = "start"]
  /\ fds' = FdsAfter(spawned)
  /\ spawned' = spawned + 1
  /\ main' = IF spawned + 1 = Total THEN "ready" ELSE "create"
  /\ UNCHANGED <<readyIn, readyRead, wake, pipe, pos, reaped, told,
                 faults, process_mode>>

\* exit() of one thread ends them all; an exiting process ends alone.
ExitProcess ==
  /\ main' = "failed"
  /\ worker' = IF process_mode THEN worker
               ELSE [w \in Workers |-> IF Live(w) THEN "killed" ELSE worker[w]]

\* malloc(), fdpair(), fork() or pthread_create() fails: barf() exits.
CreateFails ==
  /\ main = "create"
  /\ faults < MaxFaults
  /\ faults' = faults + 1
  /\ ExitProcess
  /\ UNCHANGED <<spawned, fds, readyIn, readyRead, wake, pipe, pos, reaped,
                 told, process_mode>>

-----------------------------------------------------------------------------
(* main(): wait for everyone, kick them off, reap them *)

ReadReady ==
  /\ main = "ready"
  /\ readyRead < Total
  /\ readyIn > 0
  /\ readyIn' = readyIn - 1
  /\ readyRead' = readyRead + 1
  /\ UNCHANGED <<main, spawned, fds, worker, wake, pipe, pos, reaped, told,
                 faults, process_mode>>

\* Mutant of KickOff: one ready byte too few is awaited.
KickOffEarly ==
  /\ main = "ready"
  /\ readyRead >= Total - 1
  /\ wake' = TRUE
  /\ main' = "reap"
  /\ UNCHANGED <<spawned, fds, worker, readyIn, readyRead, pipe, pos, reaped,
                 told, faults, process_mode>>

\* Kick them off: the GO byte.
KickOff ==
  /\ main = "ready"
  /\ readyRead = Total
  /\ wake' = TRUE
  /\ main' = "reap"
  /\ UNCHANGED <<spawned, fds, worker, readyIn, readyRead, pipe, pos, reaped,
                 told, faults, process_mode>>

\* wait() returns any dead child, pthread_join() the next thread of pth_tab.
Reapable(w) ==
  /\ worker[w] \in {"exited", "barfed", "killed"}
  /\ process_mode \/ w = reaped

\* Mutants of ReapWorker: the last child is not waited for; the status that
\* wait() returned is not looked at.
ReapWorkerShort(w) ==
  /\ main = "reap"
  /\ Reapable(w)
  /\ worker' = [worker EXCEPT ![w] = "reaped"]
  /\ reaped' = reaped + 1
  /\ main' = IF reaped + 1 = Total - 1 THEN "done" ELSE "reap"
  /\ UNCHANGED <<spawned, fds, readyIn, readyRead, wake, pipe, pos, told,
                 faults, process_mode>>

ReapWorkerBlind(w) ==
  /\ main = "reap"
  /\ Reapable(w)
  /\ worker' = [worker EXCEPT ![w] = "reaped"]
  /\ reaped' = reaped + 1
  /\ main' = IF reaped + 1 = Total THEN "done" ELSE "reap"
  /\ UNCHANGED <<spawned, fds, readyIn, readyRead, wake, pipe, pos, told,
                 faults, process_mode>>

\* reap_worker(): only a child that died of a signal makes main() exit(1).
ReapWorker(w) ==
  /\ main = "reap"
  /\ Reapable(w)
  /\ worker' = [worker EXCEPT ![w] = "reaped"]
  /\ reaped' = reaped + 1
  /\ main' = IF process_mode /\ worker[w] = "killed" THEN "failed"
             ELSE IF reaped + 1 = Total THEN "done" ELSE "reap"
  /\ UNCHANGED <<spawned, fds, readyIn, readyRead, wake, pipe, pos, told,
                 faults, process_mode>>

-----------------------------------------------------------------------------
(* sender() and receiver() *)

\* ready(): one byte on the ready pipe, blocking while it is full ...
TellReady(w) ==
  /\ worker[w] = "start"
  /\ readyIn < ReadyCap
  /\ readyIn' = readyIn + 1
  /\ told' = told \cup {w}
  /\ worker' = [worker EXCEPT ![w] = "poll"]
  /\ UNCHANGED <<main, spawned, fds, readyRead, wake, pipe, pos, reaped,
                 faults, process_mode>>

\* Mutant of WaitForGo: the GO byte is read instead of polled for.
WaitForGoConsuming(w) ==
  /\ worker[w] = "poll"
  /\ wake
  /\ wake' = FALSE
  /\ worker' = [worker EXCEPT ![w] = "run"]
  /\ UNCHANGED <<main, spawned, fds, readyIn, readyRead, pipe, pos,
                 reaped, told,
                 faults, process_mode>>

\* ... then poll() until the wake pipe is readable.  The byte stays there.
WaitForGo(w) ==
  /\ worker[w] = "poll"
  /\ wake
  /\ worker' = [worker EXCEPT ![w] = "run"]
  /\ UNCHANGED <<main, spawned, fds, readyIn, readyRead, wake, pipe,
                 pos, reaped,
                 told, faults, process_mode>>

\* The read end of a receiver's pipe is open somewhere: in the receiver only
\* for processes, in the shared table for threads.
ReadEndOpen(r) == ~process_mode \/ Live(r)

\* A packet is through after DataSize bytes: the next fd, the next loop.
AfterWrite(p, n) ==
  CASE p.done + n < DataSize -> [p EXCEPT !.done = @ + n]
    [] p.done + n = DataSize /\ p.j + 1 < NumFds ->
         [i |-> p.i, j |-> p.j + 1, done |-> 0]
    [] OTHER -> [i |-> p.i + 1, j |-> 0, done |-> 0]

\* sender(): write() takes what fits, `goto again' sends the rest.
SenderWrite(s) ==
  LET p == pos[s]
      r == OutFd(s, p.j)
  IN
  /\ worker[s] = "run"
  /\ ReadEndOpen(r)
  /\ \E n \in 1 .. DataSize - p.done :
       /\ pipe[r] + n <= PipeCap
       /\ pipe' = [pipe EXCEPT ![r] = @ + n]
       /\ pos' = [pos EXCEPT ![s] = AfterWrite(p, n)]
       /\ worker' = [worker EXCEPT ![s] =
                       IF AfterWrite(p, n).i = Loops THEN "exited" ELSE "run"]
  /\ UNCHANGED <<main, spawned, fds, readyIn, readyRead, wake, reaped, told,
                 faults, process_mode>>

\* A write with no reader left raises SIGPIPE, which kills the sender.
SenderSigpipe(s) ==
  /\ worker[s] = "run"
  /\ ~ReadEndOpen(OutFd(s, pos[s].j))
  /\ worker' = [worker EXCEPT ![s] = "killed"]
  /\ UNCHANGED <<main, spawned, fds, readyIn, readyRead, wake, pipe,
                 pos, reaped,
                 told, faults, process_mode>>

\* ctx->num_packets of every receiver.
NumPackets == NumFds * Loops

\* A packet is complete after DataSize bytes.
AfterRead(p, n) ==
  IF p.done + n < DataSize THEN [p EXCEPT !.done = @ + n]
                           ELSE [i |-> p.i + 1, j |-> p.j, done |-> 0]

\* receiver(): read() returns what is there, `goto again' reads the rest.
\* (At end of file read() returns 0 and the loop spins without effect.)
ReceiverRead(r) ==
  LET p == pos[r] IN
  /\ worker[r] = "run"
  /\ \E n \in 1 .. DataSize - p.done :
       /\ n <= pipe[r]
       /\ pipe' = [pipe EXCEPT ![r] = @ - n]
       /\ pos' = [pos EXCEPT ![r] = AfterRead(p, n)]
       /\ worker' = [worker EXCEPT ![r] =
                       IF AfterRead(p, n).i = NumPackets THEN "exited" ELSE "run"]
  /\ UNCHANGED <<main, spawned, fds, readyIn, readyRead, wake, reaped, told,
                 faults, process_mode>>

\* A call of a worker fails and barf() exits with status 1 ...
WorkerBarfs(w) ==
  /\ Live(w)
  /\ main \notin {"done", "failed"}
  /\ faults < MaxFaults
  /\ faults' = faults + 1
  /\ IF process_mode
     THEN worker' = [worker EXCEPT ![w] = "barfed"] /\ UNCHANGED main
     ELSE ExitProcess
  /\ UNCHANGED <<spawned, fds, readyIn, readyRead, wake, pipe, pos, reaped,
                 told, process_mode>>

\* ... or the worker process is killed by a signal from outside.
WorkerKilled(w) ==
  /\ process_mode
  /\ Live(w)
  /\ main \notin {"done", "failed"}
  /\ faults < MaxFaults
  /\ faults' = faults + 1
  /\ worker' = [worker EXCEPT ![w] = "killed"]
  /\ UNCHANGED <<main, spawned, fds, readyIn, readyRead, wake, pipe, pos, reaped,
                 told, process_mode>>

\* main() has exited.
Terminated ==
  /\ main \in {"done", "failed"}
  /\ UNCHANGED vars

Main == CreateWorker \/ ReadReady \/ KickOff \/ \E w \in Workers : ReapWorker(w)

Sender(s)   == SenderWrite(s) \/ SenderSigpipe(s)
Worker(w)   == \/ TellReady(w) \/ WaitForGo(w)
               \/ w \in Senders /\ Sender(w)
               \/ w \in Receivers /\ ReceiverRead(w)
Fault       == CreateFails \/ \E w \in Workers : WorkerBarfs(w) \/ WorkerKilled(w)

Next == Main \/ (\E w \in Workers : Worker(w)) \/ Fault \/ Terminated

Spec == Init /\ [][Next]_vars

\* The kernel schedules every runnable task: main() and each worker.
Fairness == WF_vars(Main) /\ \A w \in Workers : WF_vars(Worker(w))

FairSpec == Spec /\ Fairness

-----------------------------------------------------------------------------
(* Properties *)

\* Every variable keeps its type.
TypeOK ==
  /\ process_mode \in BOOLEAN
  /\ main \in {"create", "ready", "reap", "done", "failed"}
  /\ spawned \in 0 .. Total
  /\ fds \subseteq Receivers \X {"rd", "wr"}
  /\ worker \in [Workers -> Statuses]
  /\ readyIn \in 0 .. ReadyCap
  /\ readyRead \in 0 .. Total
  /\ wake \in BOOLEAN
  /\ pipe \in [Receivers -> 0 .. PipeCap]
  /\ pos \in [Workers -> [i : Nat, j : Nat, done : Nat]]
  /\ reaped \in Nat
  /\ told \subseteq Workers
  /\ faults \in 0 .. MaxFaults

\* The GO signal is a barrier: no sender or receiver leaves ready() before
\* main() has created every worker and every one of them has reported ready,
\* so the measured time starts with the full load in place.
GoAfterAllReady ==
  (\E w \in Workers : worker[w] = "run") => spawned = Total /\ told = Workers

\* exit(0) of a run without failures means that every byte written to a pipe
\* was read again and every receiver got all its packets.
AllDelivered ==
  main = "done" /\ faults = 0 =>
    \A r \in Receivers : pipe[r] = 0 /\ pos[r].i = NumPackets

\* In process mode the parent never holds more than the write ends of one
\* group and none between groups, however many groups are created: the
\* descriptor limit does not bound num_groups.
FdsBounded ==
  process_mode =>
    /\ Cardinality(fds) <= NumFds
    /\ \A f \in fds : f[2] = "wr" /\ GroupOf(f[1]) = GroupOf(spawned)
    /\ spawned % GroupSize = 0 => fds = {}

\* Every run comes to an end: bounded pipes, the ready pipe and the reaping
\* order never leave everyone waiting for everyone.  With threads a failure
\* ends the process too; a worker process that fails may leave main() waiting
\* for its ready byte, or its peers for their packets.
Termination ==
  <>(main \in {"done", "failed"} \/ (process_mode /\ faults > 0))

\* A worker killed by a signal while main() reaps is noticed: main() exits
\* with 1 instead of waiting for the peers that starve without it.
KilledIsReported ==
  (main = "reap" /\ \E w \in Workers : worker[w] = "killed") ~> main = "failed"
=============================================================================

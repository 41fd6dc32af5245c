--------------------------- MODULE HackbenchProofs ---------------------------
(***************************************************************************)
(* Proofs about hackbench.c for any number of groups, descriptors, loops,  *)
(* any pipe capacity and any number of failures.                           *)
(***************************************************************************)
EXTENDS Hackbench, Integers, FiniteSetTheorems, TLAPS

\* Where main() is determines what it has created and collected.
MainInv ==
  /\ main \in {"ready", "reap", "done"} => spawned = Total
  /\ wake => spawned = Total /\ readyRead = Total
  /\ \A w \in Workers : worker[w] = "run" => wake
  /\ \A w \in Workers : w >= spawned => worker[w] = "unborn"

\* The ready pipe neither loses nor invents bytes: those read and those
\* waiting are one for each worker that has written its own.
ReadyBytes ==
  /\ readyRead + readyIn = Cardinality(told)
  /\ \A w \in Workers : worker[w] \in {"unborn", "start"} => w \notin told

IInv == TypeOK /\ MainInv /\ ReadyBytes

\* The counts derived from the parameters are natural numbers, and Total is
\* the number of workers.
LEMMA Counts ==
  /\ GroupSize \in Nat \ {0}
  /\ Total \in Nat
  /\ IsFiniteSet(Workers)
  /\ Cardinality(Workers) = Total
<1>1. GroupSize \in Nat \ {0}
  BY HackbenchAssumption DEF GroupSize
<1>2. Total \in Nat
  BY <1>1, HackbenchAssumption DEF Total
<1>3. /\ IsFiniteSet(0 .. Total - 1)
      /\ Cardinality(0 .. Total - 1) = IF 0 > Total - 1 THEN 0 ELSE (Total - 1) - 0 + 1
  <2>1. 0 \in Int /\ Total - 1 \in Int
    BY <1>2
  <2> QED BY <2>1, FS_Interval
<1> QED BY <1>1, <1>2, <1>3 DEF Workers

\* The loop counters stay natural numbers, whatever the length of a write.
LEMMA PosType ==
  ASSUME NEW p \in [i : Nat, j : Nat, done : Nat], NEW n \in Nat
  PROVE  /\ AfterWrite(p, n) \in [i : Nat, j : Nat, done : Nat]
         /\ AfterRead(p, n) \in [i : Nat, j : Nat, done : Nat]
  BY HackbenchAssumption DEF AfterWrite, AfterRead

\* FdsAfter yields pipe ends of receivers.
LEMMA FdsType ==
  ASSUME fds \subseteq Receivers \X {"rd", "wr"}, NEW w \in Workers
  PROVE  FdsAfter(w) \subseteq Receivers \X {"rd", "wr"}
<1>1. CASE IsReceiver(w)
  <2>1. w \in Receivers
    BY <1>1 DEF Receivers
  <2> QED BY <1>1, <2>1 DEF FdsAfter
<1>2. CASE ~IsReceiver(w)
  BY <1>2 DEF FdsAfter
<1> QED BY <1>1, <1>2

\* The invariant holds before the first worker is created.
LEMMA InitIInv == Init => IInv
<1> SUFFICES ASSUME Init PROVE IInv
  OBVIOUS
<1>1. pos \in [Workers -> [i : Nat, j : Nat, done : Nat]]
  BY DEF Init
<1>2. pipe \in [Receivers -> 0 .. PipeCap]
  BY HackbenchAssumption DEF Init
<1>3. TypeOK
  <2>1. worker \in [Workers -> Statuses]
    BY DEF Init, Statuses
  <2>2. /\ spawned \in 0 .. Total /\ readyIn \in 0 .. ReadyCap
        /\ readyRead \in 0 .. Total /\ reaped \in Nat
        /\ faults \in 0 .. MaxFaults
    BY Counts, HackbenchAssumption DEF Init
  <2>3. process_mode \in BOOLEAN
    BY HackbenchAssumption, Zenon DEF Init
  <2> QED BY <1>1, <1>2, <2>1, <2>2, <2>3 DEF Init, TypeOK
<1>4. MainInv
  BY DEF Init, MainInv
<1>5. ReadyBytes
  BY FS_EmptySet DEF Init, ReadyBytes
<1> QED BY <1>3, <1>4, <1>5 DEF IInv

\* A step of main() that creates, collects, wakes or reaps.
LEMMA MainStep == IInv /\ Main => IInv'
<1> SUFFICES ASSUME IInv, Main PROVE IInv'
  OBVIOUS
<1> USE Counts, HackbenchAssumption DEF IInv, Workers
<1>1. CASE CreateWorker
  <2>1. spawned \in Workers /\ spawned + 1 \in 0 .. Total
    BY <1>1 DEF CreateWorker, TypeOK
  <2>2. TypeOK'
    BY <1>1, <2>1, FdsType DEF CreateWorker, TypeOK, Statuses
  <2>3. MainInv'
    BY <1>1, <2>1 DEF CreateWorker, TypeOK, MainInv
  <2>4. ReadyBytes'
    <3>1. ASSUME NEW w \in Workers, worker'[w] \in {"unborn", "start"}
          PROVE  w \notin told
      <4>1. CASE w = spawned
        \* A worker that does not exist yet has written nothing.
        <5>1. spawned \notin told
          BY <1>1, <2>1 DEF CreateWorker, TypeOK, MainInv, ReadyBytes
        <5> QED BY <4>1, <5>1
      <4>2. CASE w # spawned
        BY <1>1, <3>1, <4>2 DEF CreateWorker, TypeOK, ReadyBytes
      <4> QED BY <4>1, <4>2
    <3> QED BY <1>1, <3>1 DEF CreateWorker, ReadyBytes
  <2> QED BY <2>2, <2>3, <2>4
<1>2. CASE ReadReady
  <2>1. TypeOK'
    BY <1>2 DEF ReadReady, TypeOK
  <2>2. MainInv' /\ ReadyBytes'
    BY <1>2 DEF ReadReady, TypeOK, MainInv, ReadyBytes
  <2> QED BY <2>1, <2>2
<1>3. CASE KickOff
  BY <1>3 DEF KickOff, TypeOK, MainInv, ReadyBytes
<1>4. ASSUME NEW w \in Workers, ReapWorker(w) PROVE IInv'
  <2>0. main' \in {"reap", "done", "failed"}
    <3>1. main' = IF process_mode /\ worker[w] = "killed" THEN "failed"
                  ELSE IF reaped + 1 = Total THEN "done" ELSE "reap"
      BY <1>4, Zenon DEF ReapWorker
    <3> QED BY <3>1, Zenon
  <2>1. TypeOK'
    <3>1. /\ worker' = [worker EXCEPT ![w] = "reaped"]
          /\ reaped' = reaped + 1
          /\ UNCHANGED <<spawned, fds, readyIn, readyRead, wake, pipe, pos, told,
                         faults, process_mode>>
      BY <1>4, Zenon DEF ReapWorker
    <3>2. worker' \in [Workers -> Statuses]
      BY <3>1 DEF TypeOK, Statuses
    <3>3. reaped' \in Nat
      BY <3>1 DEF TypeOK
    <3> QED BY <2>0, <3>1, <3>2, <3>3 DEF TypeOK
  <2>2. MainInv'
    BY <1>4, <2>0 DEF ReapWorker, Reapable, TypeOK, MainInv
  <2>3. ReadyBytes'
    BY <1>4 DEF ReapWorker, TypeOK, ReadyBytes
  <2> QED BY <2>1, <2>2, <2>3
<1> QED BY <1>1, <1>2, <1>3, <1>4 DEF Main

\* A step of a worker: its ready byte, the GO signal, a write or a read.
LEMMA WorkerStep ==
  ASSUME IInv, NEW w \in Workers, Worker(w)
  PROVE  IInv'
<1> USE Counts, HackbenchAssumption DEF IInv
<1>1. CASE TellReady(w)
  <2>1. TypeOK'
    BY <1>1 DEF TellReady, TypeOK, Statuses
  <2>2. MainInv'
    BY <1>1 DEF TellReady, TypeOK, MainInv
  <2>3. ReadyBytes'
    <3>1. IsFiniteSet(told) /\ w \notin told
      BY <1>1, FS_Subset DEF TellReady, TypeOK, ReadyBytes
    <3>2. Cardinality(told \cup {w}) = Cardinality(told) + 1
      BY <3>1, FS_AddElement
    <3>3. readyRead' + readyIn' = Cardinality(told')
      BY <1>1, <3>2 DEF TellReady, TypeOK, ReadyBytes
    <3>4. ASSUME NEW v \in Workers, worker'[v] \in {"unborn", "start"}
          PROVE  v \notin told'
      BY <1>1, <3>4 DEF TellReady, TypeOK, ReadyBytes
    <3> QED BY <3>3, <3>4 DEF ReadyBytes
  <2> QED BY <2>1, <2>2, <2>3
<1>2. CASE WaitForGo(w)
  <2>1. TypeOK'
    BY <1>2 DEF WaitForGo, TypeOK, Statuses
  <2>2. MainInv' /\ ReadyBytes'
    BY <1>2 DEF WaitForGo, TypeOK, MainInv, ReadyBytes
  <2> QED BY <2>1, <2>2
<1>3. CASE SenderWrite(w)
  <2> DEFINE p == pos[w]
             r == OutFd(w, p.j)
  <2>1. PICK n \in 1 .. DataSize - p.done :
           /\ pipe[r] + n <= PipeCap
           /\ pipe' = [pipe EXCEPT ![r] = @ + n]
           /\ pos' = [pos EXCEPT ![w] = AfterWrite(p, n)]
           /\ worker' = [worker EXCEPT ![w] =
                           IF AfterWrite(p, n).i = Loops THEN "exited" ELSE "run"]
    BY <1>3 DEF SenderWrite
  <2>2. p \in [i : Nat, j : Nat, done : Nat] /\ n \in Nat
    BY <2>1 DEF TypeOK
  <2>3. pos' \in [Workers -> [i : Nat, j : Nat, done : Nat]]
    BY <2>1, <2>2, PosType DEF TypeOK
  <2>4. pipe' \in [Receivers -> 0 .. PipeCap]
    <3>1. pipe \in [Receivers -> 0 .. PipeCap]
      BY DEF TypeOK
    <3>2. /\ n \in Nat
          /\ pipe[r] + n <= PipeCap
          /\ pipe' = [pipe EXCEPT ![r] = @ + n]
      BY <2>1, <2>2
    <3> HIDE DEF r, p
    <3>3. CASE r \in Receivers
      <4>1. pipe[r] \in Nat /\ pipe[r] + n \in 0 .. PipeCap
        BY <3>1, <3>2, <3>3
      <4> QED BY <3>1, <3>2, <4>1, Zenon
    <3>4. CASE r \notin Receivers
      <4>1. pipe' = pipe
        BY <3>1, <3>2, <3>4
      <4> QED BY <3>1, <4>1
    <3> QED BY <3>3, <3>4
  <2>5. worker[w] = "run" /\ worker'[w] \in {"exited", "run"}
    BY <1>3, <2>1 DEF SenderWrite, TypeOK
  <2>6. UNCHANGED <<main, spawned, fds, readyIn, readyRead, wake, reaped, told,
                    faults, process_mode>>
    BY <1>3 DEF SenderWrite
  <2>7. worker' \in [Workers -> Statuses] /\ \A v \in Workers \ {w} : worker'[v] = worker[v]
    BY <2>1 DEF TypeOK, Statuses
  <2> QED BY <2>3, <2>4, <2>5, <2>6, <2>7 DEF TypeOK, MainInv, ReadyBytes
<1>4. CASE SenderSigpipe(w)
  BY <1>4 DEF SenderSigpipe, TypeOK, MainInv, ReadyBytes, Statuses
<1>5. CASE w \in Receivers /\ ReceiverRead(w)
  <2> DEFINE p == pos[w]
  <2>1. PICK n \in 1 .. DataSize - p.done :
           /\ n <= pipe[w]
           /\ pipe' = [pipe EXCEPT ![w] = @ - n]
           /\ pos' = [pos EXCEPT ![w] = AfterRead(p, n)]
           /\ worker' = [worker EXCEPT ![w] =
                           IF AfterRead(p, n).i = NumPackets THEN "exited" ELSE "run"]
    BY <1>5 DEF ReceiverRead
  <2>2. p \in [i : Nat, j : Nat, done : Nat] /\ n \in Nat
    BY <2>1 DEF TypeOK
  <2>3. pos' \in [Workers -> [i : Nat, j : Nat, done : Nat]]
    BY <2>1, <2>2, PosType DEF TypeOK
  <2>4. pipe' \in [Receivers -> 0 .. PipeCap]
    BY <1>5, <2>1, <2>2 DEF TypeOK
  <2>5. worker[w] = "run" /\ worker'[w] \in {"exited", "run"}
    BY <1>5, <2>1 DEF ReceiverRead, TypeOK
  <2>6. UNCHANGED <<main, spawned, fds, readyIn, readyRead, wake, reaped, told,
                    faults, process_mode>>
    BY <1>5 DEF ReceiverRead
  <2>7. worker' \in [Workers -> Statuses] /\ \A v \in Workers \ {w} : worker'[v] = worker[v]
    BY <2>1 DEF TypeOK, Statuses
  <2> QED BY <2>3, <2>4, <2>5, <2>6, <2>7 DEF TypeOK, MainInv, ReadyBytes
<1> QED BY <1>1, <1>2, <1>3, <1>4, <1>5 DEF Worker, Sender

\* An injected failure ends main(), one worker, or (threads) all of them.
LEMMA FaultStep == IInv /\ Fault => IInv'
<1> SUFFICES ASSUME IInv, Fault PROVE IInv'
  OBVIOUS
<1> USE HackbenchAssumption DEF IInv
<1>1. ASSUME ExitProcess,
             UNCHANGED <<spawned, fds, readyIn, readyRead, wake, pipe, pos, reaped,
                         told, process_mode>>,
             faults < MaxFaults, faults' = faults + 1
      PROVE  IInv'
  <2>1. worker' \in [Workers -> Statuses]
    BY <1>1 DEF ExitProcess, TypeOK, Statuses
  <2>2. \A v \in Workers : worker'[v] \in {worker[v], "killed"}
                           /\ (worker'[v] # worker[v] => Live(v))
    BY <1>1 DEF ExitProcess, TypeOK, Live
  <2>3. main' = "failed" /\ faults' \in 0 .. MaxFaults
    BY <1>1 DEF ExitProcess, TypeOK
  <2>4. TypeOK'
    BY <1>1, <2>1, <2>3 DEF TypeOK
  <2>5. MainInv' /\ ReadyBytes'
    BY <1>1, <2>2, <2>3 DEF MainInv, ReadyBytes, Live
  <2> QED BY <2>4, <2>5
<1>2. CASE CreateFails
  BY <1>1, <1>2 DEF CreateFails
<1>3. ASSUME NEW w \in Workers, WorkerBarfs(w) PROVE IInv'
  <2>1. CASE process_mode
    <3>1. worker' = [worker EXCEPT ![w] = "barfed"] /\ UNCHANGED main
      BY <1>3, <2>1 DEF WorkerBarfs
    <3>2. TypeOK'
      BY <1>3, <3>1 DEF WorkerBarfs, TypeOK, Statuses
    <3>3. MainInv' /\ ReadyBytes'
      BY <1>3, <3>1 DEF WorkerBarfs, TypeOK, MainInv, ReadyBytes, Live
    <3> QED BY <3>2, <3>3
  <2>2. CASE ~process_mode
    BY <1>1, <1>3, <2>2 DEF WorkerBarfs
  <2> QED BY <2>1, <2>2
<1>4. ASSUME NEW w \in Workers, WorkerKilled(w) PROVE IInv'
  <2>1. TypeOK'
    BY <1>4 DEF WorkerKilled, TypeOK, Statuses
  <2>2. MainInv' /\ ReadyBytes'
    BY <1>4 DEF WorkerKilled, TypeOK, MainInv, ReadyBytes, Live
  <2> QED BY <2>1, <2>2
<1> QED BY <1>2, <1>3, <1>4 DEF Fault

\* The inductive invariant holds of every behaviour of hackbench.
THEOREM Inductive == Spec => []IInv
<1>1. Init => IInv
  BY InitIInv
<1>2. IInv /\ [Next]_vars => IInv'
  <2> SUFFICES ASSUME IInv, [Next]_vars PROVE IInv'
    OBVIOUS
  <2>1. CASE Main
    BY <2>1, MainStep
  <2>2. CASE \E w \in Workers : Worker(w)
    BY <2>2, WorkerStep
  <2>3. CASE Fault
    BY <2>3, FaultStep
  <2>4. CASE UNCHANGED vars
    BY <2>4 DEF vars, IInv, TypeOK, MainInv, ReadyBytes
  <2> QED BY <2>1, <2>2, <2>3, <2>4 DEF Next, Terminated
<1> QED BY <1>1, <1>2, PTL DEF Spec

\* Every variable of hackbench keeps its type.
THEOREM TypeCorrect == Spec => []TypeOK
<1>1. IInv => TypeOK
  BY DEF IInv
<1> QED BY <1>1, Inductive, PTL

\* Once a byte has been read for every worker, every worker has written its own.
LEMMA GoImplied == IInv => GoAfterAllReady
<1> SUFFICES ASSUME IInv, NEW w \in Workers, worker[w] = "run"
             PROVE  spawned = Total /\ told = Workers
  BY DEF GoAfterAllReady
<1>1. wake /\ spawned = Total /\ readyRead = Total
  BY DEF IInv, MainInv
<1>2. told \in SUBSET Workers /\ readyIn \in Nat
  BY HackbenchAssumption DEF IInv, TypeOK
<1>3. IsFiniteSet(told) /\ Cardinality(told) <= Total
  BY <1>2, Counts, FS_Subset
<1>4. Cardinality(told) \in Nat
  BY <1>3, FS_CardinalityType
<1>5. Cardinality(told) = Cardinality(Workers)
  BY <1>1, <1>2, <1>3, <1>4, Counts DEF IInv, ReadyBytes
<1> QED BY <1>1, <1>2, <1>5, Counts, FS_Subset

\* ready() is a barrier: whatever the order in which workers are created and
\* scheduled, and whatever fails, no worker gets past poll() before all of
\* them exist and have reported ready.
THEOREM GoBarrier == Spec => []GoAfterAllReady
<1> QED BY GoImplied, Inductive, PTL

-----------------------------------------------------------------------------
(* The descriptors of main().                                              *)

\* Division by a group's size: quotient and remainder.
LEMMA Euclid ==
  ASSUME NEW g \in Nat \ {0}, NEW w \in Nat
  PROVE  /\ w = g * (w \div g) + (w % g)
         /\ w % g \in 0 .. g - 1 /\ w \div g \in Nat
  OBVIOUS

\* A product with a group's size grows by at least that size.
LEMMA ProductGrows ==
  ASSUME NEW g \in Nat \ {0}, NEW a \in Int, NEW b \in Int, a >= b + 1
  PROVE  g * a >= g * b + g
  OBVIOUS

\* The worker after w is of the same group, except after the group's last one.
LEMMA NextOfGroup ==
  ASSUME NEW g \in Nat \ {0}, NEW w \in Nat
  PROVE  /\ w % g < g - 1 => (w + 1) \div g = w \div g /\ (w + 1) % g = (w % g) + 1
         /\ w % g = g - 1 => (w + 1) % g = 0
<1> DEFINE q == w \div g
           r == w % g
           v == w + 1
           p == v \div g
           s == v % g
           x == g * q
           y == g * p
<1>1. w = x + r /\ r \in 0 .. g - 1 /\ q \in Nat /\ x \in Int
  <2>1. w = g * q + r /\ r \in 0 .. g - 1 /\ q \in Nat
    BY Euclid
  <2> HIDE DEF q, r
  <2> QED BY <2>1
<1>2. v \in Nat
  OBVIOUS
<1>3. v = y + s /\ s \in 0 .. g - 1 /\ p \in Nat /\ y \in Int
  <2> HIDE DEF v
  <2>1. v = g * p + s /\ s \in 0 .. g - 1 /\ p \in Nat
    BY <1>2, Euclid
  <2> HIDE DEF p, s, q, r, x
  <2> QED BY <2>1
<1> HIDE DEF q, r, p, s
<1>4. /\ p >= q + 1 => y >= x + g
      /\ q >= p + 1 => x >= y + g
  BY <1>1, <1>3, ProductGrows
<1>5. p >= (q + 1) + 1 => y >= x + g + g
  <2>1. g * (q + 1) = g * q + g
    BY <1>1
  <2> QED BY <1>1, <1>3, <2>1, ProductGrows
<1>6. (p = q => y = x) /\ (p = q + 1 => y = x + g)
  BY <1>1
<1> HIDE DEF x, y
<1>7. ASSUME r < g - 1 PROVE p = q /\ s = r + 1
  BY <1>1, <1>3, <1>4, <1>6, <1>7
<1>8. ASSUME r = g - 1 PROVE s = 0
  BY <1>1, <1>3, <1>4, <1>5, <1>6, <1>8
<1> QED BY <1>7, <1>8 DEF p, q, r, s

\* The write ends that main() holds are of the group it is creating.
FdsInv ==
  process_mode =>
    /\ \A f \in fds : f[2] = "wr" /\ GroupOf(f[1]) = GroupOf(spawned)
    /\ spawned % GroupSize = 0 => fds = {}

\* Only group() opens and closes descriptors, and it is through with those of
\* a group when it turns to the next.
LEMMA FdsStep == IInv /\ FdsInv /\ [Next]_vars => FdsInv'
<1> SUFFICES ASSUME IInv, FdsInv, [Next]_vars PROVE FdsInv'
  OBVIOUS
<1>1. CASE CreateWorker
  <2> SUFFICES ASSUME process_mode'
               PROVE  /\ \A f \in fds' : f[2] = "wr" /\ GroupOf(f[1]) = GroupOf(spawned')
                      /\ spawned' % GroupSize = 0 => fds' = {}
    BY DEF FdsInv, GroupOf
  <2>1. /\ process_mode /\ spawned' = spawned + 1 /\ fds' = FdsAfter(spawned)
        /\ spawned \in Nat
        /\ \A f \in fds : f[2] = "wr" /\ GroupOf(f[1]) = GroupOf(spawned)
    BY <1>1, Counts DEF CreateWorker, IInv, TypeOK, FdsInv
  <2> DEFINE g == GroupSize
             r == spawned % g
  <2>2. /\ g \in Nat \ {0} /\ r \in 0 .. g - 1
        /\ r < g - 1 => GroupOf(spawned') = GroupOf(spawned) /\ spawned' % g = r + 1
        /\ r = g - 1 => spawned' % g = 0
    <3>1. g \in Nat \ {0}
      BY Counts
    <3> HIDE DEF g
    <3> QED BY <2>1, <3>1, Euclid, NextOfGroup DEF GroupOf, g
  <2>3. IsReceiver(spawned) <=> r < NumFds
    BY DEF IsReceiver
  <2>4. NumFds \in Nat \ {0} /\ g = 2 * NumFds
    BY HackbenchAssumption DEF GroupSize
  <2> HIDE DEF g, r
  <2>5. CASE r < NumFds
    <3>1. fds' = fds \cup {<<spawned, "wr">>}
      BY <2>1, <2>3, <2>5 DEF FdsAfter
    <3>2. r < g - 1
      BY <2>2, <2>4, <2>5
    <3>3. GroupOf(spawned') = GroupOf(spawned) /\ spawned' % g # 0
      BY <2>2, <3>2
    <3> QED BY <2>1, <3>1, <3>3 DEF g
  <2>6. CASE ~(r < NumFds) /\ r = g - 1
    <3>1. fds' = {f \in fds : GroupOf(f[1]) # GroupOf(spawned)}
      BY <2>1, <2>3, <2>6 DEF FdsAfter, r, g
    <3> QED BY <2>1, <3>1
  <2>7. CASE ~(r < NumFds) /\ r # g - 1
    <3>1. fds' = fds
      BY <2>1, <2>3, <2>7 DEF FdsAfter, r, g
    <3>2. r < g - 1
      BY <2>2, <2>7
    <3>3. GroupOf(spawned') = GroupOf(spawned) /\ spawned' % g # 0
      BY <2>2, <3>2
    <3> QED BY <2>1, <3>1, <3>3 DEF g
  <2> QED BY <2>5, <2>6, <2>7
<1>2. CASE UNCHANGED <<fds, spawned, process_mode>>
  BY <1>2 DEF FdsInv, GroupOf
<1> QED BY <1>1, <1>2
        DEF Next, Main, Worker, Sender, Fault, ReadReady, KickOff, ReapWorker,
            TellReady, WaitForGo, SenderWrite, SenderSigpipe, ReceiverRead,
            CreateFails, WorkerBarfs, WorkerKilled, Terminated, vars

\* The receivers of one group are NumFds at most.
LEMMA FdsCount ==
  ASSUME IInv, FdsInv, process_mode
  PROVE  Cardinality(fds) <= NumFds
<1> DEFINE h == [f \in fds |-> f[1] % GroupSize]
           T == 0 .. NumFds - 1
<1>1. ASSUME NEW f \in fds
      PROVE  f[1] \in Nat /\ f[1] % GroupSize \in T /\ f = <<f[1], "wr">>
  <2>1. f \in Receivers \X {"rd", "wr"} /\ f[2] = "wr"
    BY DEF IInv, TypeOK, FdsInv
  <2>2. f[1] \in 0 .. Total - 1 /\ f[1] % GroupSize < NumFds /\ f = <<f[1], "wr">>
    BY <2>1 DEF Receivers, Workers, IsReceiver
  <2>3. f[1] \in Nat /\ GroupSize \in Nat \ {0}
    BY <2>2, Counts
  <2>4. f[1] % GroupSize \in 0 .. GroupSize - 1
    BY <2>3, Euclid
  <2> QED BY <2>2, <2>3, <2>4, HackbenchAssumption
<1>2. ASSUME NEW e \in fds, NEW f \in fds, h[e] = h[f] PROVE e = f
  <2>1. e[1] \in Nat /\ f[1] \in Nat /\ GroupSize \in Nat \ {0}
    BY <1>1, Counts
  <2>2. /\ e[1] = GroupSize * (e[1] \div GroupSize) + (e[1] % GroupSize)
        /\ f[1] = GroupSize * (f[1] \div GroupSize) + (f[1] % GroupSize)
    BY <2>1, Euclid
  <2>3. e[1] % GroupSize = f[1] % GroupSize
    BY <1>2
  <2>4. e[1] \div GroupSize = f[1] \div GroupSize
    BY DEF FdsInv, GroupOf
  <2>5. e[1] = f[1]
    BY <2>2, <2>3, <2>4
  <2> QED BY <1>1, <2>5
<1>3. h \in Injection(fds, T)
  BY <1>1, <1>2 DEF Injection, IsInjective
<1>4. IsFiniteSet(T) /\ Cardinality(T) = NumFds
  BY HackbenchAssumption, FS_Interval
<1> QED BY <1>3, <1>4, FS_Injection

\* In process mode main() never holds more than the write ends of one group's
\* receivers, and none between two groups (hackbench.c, group()): the limit on
\* open files does not bound num_groups.
THEOREM FdsLimited == Spec => []FdsBounded
<1>1. Init => FdsInv
  BY DEF Init, FdsInv
<1>2. IInv /\ FdsInv => FdsBounded
  BY FdsCount DEF FdsInv, FdsBounded
<1> QED BY <1>1, <1>2, Inductive, FdsStep, PTL DEF Spec

-----------------------------------------------------------------------------
(* The bytes of the packets.                                               *)

\* What a sender at position p has written to the k-th receiver of its group.
Bytes(p, k) ==
  p.i * DataSize + (IF k < p.j THEN DataSize ELSE IF k = p.j THEN p.done ELSE 0)

\* What receiver r has read.
Got(r) == pos[r].i * DataSize + pos[r].done

GroupSenders(r) == {s \in Senders : GroupOf(s) = GroupOf(r)}

\* The bytes written to r's pipe so far: the b-th byte of each sender.
SentTo(r) == {x \in GroupSenders(r) \X Nat : x[2] < Bytes(pos[x[1]], r % GroupSize)}

\* A pipe neither loses nor invents bytes, whoever wrote them.
FlowInv ==
  \A r \in Receivers :
    IsFiniteSet(SentTo(r)) /\ Cardinality(SentTo(r)) = Got(r) + pipe[r]

\* The loop counters of a sender and of a receiver.
SenderPos(p) ==
  /\ p.j < NumFds /\ p.done < DataSize /\ p.i <= Loops
  /\ p.i = Loops => p.j = 0 /\ p.done = 0

ReceiverPos(p) ==
  /\ p.done < DataSize /\ p.i <= NumPackets
  /\ p.i = NumPackets => p.done = 0

PosInv ==
  /\ \A s \in Senders : SenderPos(pos[s])
  /\ \A r \in Receivers : ReceiverPos(pos[r])

Finished(w) == pos[w].i = IF IsReceiver(w) THEN NumPackets ELSE Loops

\* Who has left its loop has done its work, and without a failure nobody dies.
StatusInv ==
  /\ \A w \in Workers : worker[w] \in {"unborn", "start", "poll", "run"} => ~Finished(w)
  /\ \A w \in Workers : worker[w] = "exited" => Finished(w)
  /\ faults = 0 =>
       \A w \in Workers : /\ worker[w] \notin {"barfed", "killed"}
                          /\ worker[w] = "reaped" => Finished(w)

Reaped == {w \in Workers : worker[w] = "reaped"}

ReapInv ==
  /\ reaped = Cardinality(Reaped)
  /\ main = "done" => reaped = Total

DInv == FlowInv /\ PosInv /\ StatusInv /\ ReapInv

Positions == [i : Nat, j : Nat, done : Nat]

\* n more bytes of the current packet: the sender's count for its current
\* receiver grows by n, that for the others stays.
LEMMA WriteCounts ==
  ASSUME NEW p \in Positions, SenderPos(p), p.i < Loops,
         NEW n \in 1 .. DataSize - p.done
  PROVE  /\ AfterWrite(p, n) \in Positions
         /\ SenderPos(AfterWrite(p, n))
         /\ \A k \in 0 .. NumFds - 1 :
              Bytes(AfterWrite(p, n), k) = Bytes(p, k) + (IF k = p.j THEN n ELSE 0)
<1> USE HackbenchAssumption DEF Positions
<1> DEFINE q == AfterWrite(p, n)
<1>0. /\ p.i \in Nat /\ p.j \in Nat /\ p.done \in Nat /\ n \in Nat \ {0}
      /\ p.j < NumFds /\ p.done < DataSize /\ p.i < Loops /\ p.done + n <= DataSize
      /\ p.i * DataSize \in Nat
      /\ (p.i + 1) * DataSize = p.i * DataSize + DataSize
  BY DEF SenderPos
<1>1. CASE p.done + n < DataSize
  <2>1. q = [i |-> p.i, j |-> p.j, done |-> p.done + n]
    BY <1>1 DEF AfterWrite
  <2> HIDE DEF q
  <2>2. q \in Positions /\ SenderPos(q)
    BY <1>0, <1>1, <2>1 DEF SenderPos
  <2>3. ASSUME NEW k \in 0 .. NumFds - 1
        PROVE  Bytes(q, k) = Bytes(p, k) + (IF k = p.j THEN n ELSE 0)
    <3>1. /\ q.i = p.i /\ q.j = p.j /\ q.done = p.done + n
      BY <2>1
    <3>2. q.i * DataSize = p.i * DataSize
      BY <1>0, <3>1
    <3> DEFINE x == p.i * DataSize
    <3>3. Bytes(q, k) = x + (IF k < p.j THEN DataSize ELSE IF k = p.j THEN p.done + n ELSE 0)
      BY <1>0, <3>1, <3>2 DEF Bytes
    <3>4. Bytes(p, k) = x + (IF k < p.j THEN DataSize ELSE IF k = p.j THEN p.done ELSE 0)
      BY DEF Bytes
    <3>5. x \in Nat
      BY <1>0
    <3> HIDE DEF x
    <3> QED BY <1>0, <1>1, <3>3, <3>4, <3>5
  <2> QED BY <2>2, <2>3 DEF q
<1>2. CASE p.done + n = DataSize /\ p.j + 1 < NumFds
  <2>1. q = [i |-> p.i, j |-> p.j + 1, done |-> 0]
    BY <1>0, <1>2 DEF AfterWrite
  <2> HIDE DEF q
  <2>2. q \in Positions /\ SenderPos(q)
    BY <1>0, <1>2, <2>1 DEF SenderPos
  <2>3. ASSUME NEW k \in 0 .. NumFds - 1
        PROVE  Bytes(q, k) = Bytes(p, k) + (IF k = p.j THEN n ELSE 0)
    <3>1. /\ q.i = p.i /\ q.j = p.j + 1 /\ q.done = 0
      BY <2>1
    <3>2. q.i * DataSize = p.i * DataSize
      BY <1>0, <3>1
    <3> DEFINE x == p.i * DataSize
    <3>3. Bytes(q, k) = x + (IF k < p.j + 1 THEN DataSize ELSE 0)
      BY <1>0, <3>1, <3>2 DEF Bytes
    <3>4. Bytes(p, k) = x + (IF k < p.j THEN DataSize ELSE IF k = p.j THEN p.done ELSE 0)
      BY DEF Bytes
    <3>5. x \in Nat
      BY <1>0
    <3> HIDE DEF x
    <3> QED BY <1>0, <1>2, <3>3, <3>4, <3>5
  <2> QED BY <2>2, <2>3 DEF q
<1>3. CASE p.done + n = DataSize /\ ~(p.j + 1 < NumFds)
  <2>1. q = [i |-> p.i + 1, j |-> 0, done |-> 0]
    BY <1>0, <1>3 DEF AfterWrite
  <2> HIDE DEF q
  <2>2. q \in Positions /\ SenderPos(q)
    BY <1>0, <1>3, <2>1 DEF SenderPos
  <2>3. ASSUME NEW k \in 0 .. NumFds - 1
        PROVE  Bytes(q, k) = Bytes(p, k) + (IF k = p.j THEN n ELSE 0)
    <3>1. /\ q.i = p.i + 1 /\ q.j = 0 /\ q.done = 0
      BY <2>1
    <3>2. q.i * DataSize = p.i * DataSize + DataSize
      BY <1>0, <3>1
    <3> DEFINE x == p.i * DataSize
    <3>3. Bytes(q, k) = x + DataSize
      BY <1>0, <3>1, <3>2 DEF Bytes
    <3>4. Bytes(p, k) = x + (IF k < p.j THEN DataSize ELSE IF k = p.j THEN p.done ELSE 0)
      BY DEF Bytes
    <3>5. x \in Nat
      BY <1>0
    <3> HIDE DEF x
    <3> QED BY <1>0, <1>3, <3>3, <3>4, <3>5
  <2> QED BY <2>2, <2>3 DEF q
<1> QED BY <1>0, <1>1, <1>2, <1>3

\* n more bytes are read.
LEMMA ReadCounts ==
  ASSUME NEW p \in Positions, ReceiverPos(p), p.i < NumPackets,
         NEW n \in 1 .. DataSize - p.done
  PROVE  LET q == AfterRead(p, n) IN
         /\ q \in Positions /\ ReceiverPos(q)
         /\ q.i * DataSize + q.done = p.i * DataSize + p.done + n
<1> USE HackbenchAssumption DEF Positions
<1> DEFINE q == AfterRead(p, n)
<1>0. /\ p.i \in Nat /\ p.j \in Nat /\ p.done \in Nat /\ n \in Nat \ {0}
      /\ p.done < DataSize /\ p.i < NumPackets /\ p.done + n <= DataSize
      /\ p.i * DataSize \in Nat /\ NumPackets \in Nat
      /\ (p.i + 1) * DataSize = p.i * DataSize + DataSize
  BY DEF ReceiverPos, NumPackets
<1>1. CASE p.done + n < DataSize
  <2>1. q = [i |-> p.i, j |-> p.j, done |-> p.done + n]
    BY <1>1 DEF AfterRead
  <2> HIDE DEF q
  <2>2. q \in Positions /\ ReceiverPos(q)
    BY <1>0, <1>1, <2>1 DEF ReceiverPos
  <2>3. q.i * DataSize + q.done = p.i * DataSize + p.done + n
    BY <1>0, <2>1
  <2> QED BY <2>2, <2>3 DEF q
<1>2. CASE p.done + n = DataSize
  <2>1. q = [i |-> p.i + 1, j |-> p.j, done |-> 0]
    BY <1>0, <1>2 DEF AfterRead
  <2> HIDE DEF q
  <2>2. q \in Positions /\ ReceiverPos(q)
    BY <1>0, <1>2, <2>1 DEF ReceiverPos
  <2>3. q.i * DataSize + q.done = p.i * DataSize + p.done + n
    BY <1>0, <1>2, <2>1
  <2> QED BY <2>2, <2>3 DEF q
<1> QED BY <1>0, <1>1, <1>2

\* The receiver that a sender writes to is one of its group.
LEMMA OutFdReceiver ==
  ASSUME NEW s \in Senders, NEW j \in 0 .. NumFds - 1
  PROVE  /\ OutFd(s, j) \in Receivers
         /\ GroupOf(OutFd(s, j)) = GroupOf(s)
         /\ OutFd(s, j) % GroupSize = j
         /\ \A r \in Receivers : GroupOf(r) = GroupOf(s) /\ r % GroupSize = j
                                 => r = OutFd(s, j)
<1> USE HackbenchAssumption
<1> DEFINE g == GroupSize
           q == GroupOf(s)
           x == g * q
           w == OutFd(s, j)
<1>1. /\ g \in Nat \ {0} /\ g = 2 * NumFds /\ s \in Nat /\ s < Total /\ Total \in Nat
      /\ ~(s % g < NumFds)
  BY Counts DEF Senders, IsSender, IsReceiver, Workers, GroupSize
<1>2. s = x + (s % g) /\ s % g \in 0 .. g - 1 /\ q \in Nat
  <2> HIDE DEF g
  <2> QED BY <1>1, Euclid DEF GroupOf, g
<1>3. x \in Nat /\ w = x + j
  <2>1. w = q * g + j
    BY DEF OutFd
  <2> HIDE DEF q, g, w
  <2> QED BY <1>1, <1>2, <2>1
<1>4. w \in Workers
  <2> HIDE DEF x, w, g
  <2> QED BY <1>1, <1>2, <1>3 DEF Workers
<1>5. w = g * (w \div g) + (w % g) /\ w % g \in 0 .. g - 1 /\ w \div g \in Nat
  <2>1. w \in Nat
    <3> HIDE DEF w, x
    <3> QED BY <1>3
  <2> HIDE DEF w, g
  <2> QED BY <1>1, <2>1, Euclid
<1>6. w \div g = q /\ w % g = j
  <2> DEFINE p == w \div g
             t == w % g
             y == g * p
  <2>1. x + j = y + t /\ t \in 0 .. g - 1 /\ p \in Nat /\ y \in Int /\ q \in Nat
    <3> HIDE DEF w, g, q, p, t
    <3> QED BY <1>1, <1>2, <1>3, <1>5 DEF p, t
  <2> HIDE DEF p, t, q, g, w
  <2>2. (p >= q + 1 => y >= x + g) /\ (q >= p + 1 => x >= y + g) /\ (p = q => x = y)
    BY <1>1, <2>1, ProductGrows
  <2> HIDE DEF x, y
  <2>3. p = q /\ t = j
    BY <1>1, <1>3, <2>1, <2>2
  <2> QED BY <2>3 DEF p, t
<1>7. w \in Receivers
  BY <1>4, <1>6 DEF Receivers, IsReceiver
<1>8. ASSUME NEW r \in Receivers, GroupOf(r) = GroupOf(s), r % GroupSize = j
      PROVE  r = w
  <2>1. r \in Nat
    BY Counts DEF Receivers, Workers
  <2>2. r = g * (r \div g) + (r % g)
    <3> HIDE DEF g
    <3> QED BY <1>1, <2>1, Euclid
  <2> QED BY <1>3, <1>8, <2>2 DEF GroupOf
<1> QED BY <1>6, <1>7, <1>8 DEF GroupOf

\* A receiver is one of the first NumFds workers of its group.
LEMMA ReceiverIndex ==
  ASSUME NEW r \in Receivers
  PROVE  r \in Workers /\ r \in Nat /\ r % GroupSize \in 0 .. NumFds - 1
<1>1. r \in Workers /\ r \in Nat /\ r % GroupSize < NumFds
  BY Counts DEF Receivers, Workers, IsReceiver
<1>2. r % GroupSize \in 0 .. GroupSize - 1
  BY <1>1, Counts, Euclid
<1> QED BY <1>1, <1>2, Counts, HackbenchAssumption

\* A group has NumFds senders at most.
LEMMA SendersCount ==
  ASSUME NEW r \in Receivers
  PROVE  IsFiniteSet(GroupSenders(r)) /\ Cardinality(GroupSenders(r)) <= NumFds
<1> USE HackbenchAssumption
<1> DEFINE S == GroupSenders(r)
           h == [s \in S |-> (s % GroupSize) - NumFds]
           T == 0 .. NumFds - 1
<1>0. GroupSize \in Nat \ {0} /\ GroupSize = 2 * NumFds
  BY Counts DEF GroupSize
<1>1. ASSUME NEW s \in S
      PROVE  /\ s \in Nat /\ (s % GroupSize) - NumFds \in T
             /\ s = GroupSize * GroupOf(r) + (s % GroupSize)
             /\ s % GroupSize \in Nat
  <2>1. s \in Nat /\ ~(s % GroupSize < NumFds) /\ GroupOf(s) = GroupOf(r)
    BY Counts DEF GroupSenders, Senders, IsSender, IsReceiver, Workers
  <2>2. s = GroupSize * (s \div GroupSize) + (s % GroupSize)
        /\ s % GroupSize \in 0 .. GroupSize - 1
    BY <1>0, <2>1, Euclid
  <2>3. s = GroupSize * GroupOf(r) + (s % GroupSize)
    BY <2>1, <2>2 DEF GroupOf
  <2>4. (s % GroupSize) - NumFds \in T /\ s % GroupSize \in Nat
    BY <1>0, <2>1, <2>2
  <2> QED BY <2>1, <2>3, <2>4
<1>2. ASSUME NEW a \in S, NEW b \in S, h[a] = h[b] PROVE a = b
  <2>1. (a % GroupSize) - NumFds = (b % GroupSize) - NumFds
    BY <1>2
  <2>2. a % GroupSize = b % GroupSize
    BY <1>1, <2>1
  <2> QED BY <1>1, <2>2
<1>3. h \in Injection(S, T)
  BY <1>1, <1>2 DEF Injection, IsInjective
<1>4. IsFiniteSet(T) /\ Cardinality(T) = NumFds
  BY FS_Interval
<1> QED BY <1>3, <1>4, FS_Injection

\* A sender writes Loops packets to each receiver, and has not written them
\* all while it is at one of them.
LEMMA BytesBound ==
  ASSUME NEW p \in Positions, SenderPos(p), NEW k \in 0 .. NumFds - 1
  PROVE  /\ Bytes(p, k) \in Nat /\ Bytes(p, k) <= Loops * DataSize
         /\ p.i < Loops /\ k = p.j => Bytes(p, k) < Loops * DataSize
<1> USE HackbenchAssumption
<1> DEFINE x == DataSize * p.i
           y == DataSize * Loops
<1>1. /\ p.i \in Nat /\ p.j \in Nat /\ p.done \in Nat /\ p.done < DataSize
      /\ p.i <= Loops /\ (p.i = Loops => p.j = 0 /\ p.done = 0)
  BY DEF Positions, SenderPos
<1>2. x \in Nat /\ y \in Nat /\ Loops * DataSize = y /\ p.i * DataSize = x
  BY <1>1
<1>3. p.i < Loops => y >= x + DataSize
  BY <1>1, ProductGrows
<1>4. p.i = Loops => y = x
  OBVIOUS
<1>5. Bytes(p, k) = x + (IF k < p.j THEN DataSize ELSE IF k = p.j THEN p.done ELSE 0)
  BY <1>2 DEF Bytes
<1> HIDE DEF x, y
<1> QED BY <1>1, <1>2, <1>3, <1>4, <1>5

\* The bytes written to a receiver are never more than it waits for, and fewer
\* while a sender is still at it.
LEMMA SentBound ==
  ASSUME IInv, PosInv, NEW r \in Receivers
  PROVE  /\ IsFiniteSet(SentTo(r))
         /\ Cardinality(SentTo(r)) \in Nat
         /\ Cardinality(SentTo(r)) <= NumPackets * DataSize
         /\ \A s \in GroupSenders(r) :
              Bytes(pos[s], r % GroupSize) < Loops * DataSize
                => Cardinality(SentTo(r)) < NumPackets * DataSize
<1> USE HackbenchAssumption
<1> DEFINE m == Loops * DataSize
           B == 0 .. m - 1
           Full == GroupSenders(r) \X B
           c == Cardinality(GroupSenders(r))
<1>1. m \in Nat \ {0} /\ NumPackets * DataSize = NumFds * m
  BY DEF NumPackets
<1>2. IsFiniteSet(B) /\ Cardinality(B) = m
  <2> HIDE DEF m
  <2> QED BY <1>1, FS_Interval
<1>3. IsFiniteSet(GroupSenders(r)) /\ c <= NumFds /\ c \in Nat
  BY SendersCount, FS_CardinalityType
<1>4. IsFiniteSet(Full) /\ Cardinality(Full) = c * m
  <2> HIDE DEF B, m
  <2> QED BY <1>2, <1>3, FS_Product
<1>5. c * m <= NumFds * m /\ c * m \in Nat /\ NumFds * m \in Nat
  <2>1. c = NumFds \/ NumFds >= c + 1
    BY <1>3
  <2>2. m * c = c * m /\ m * NumFds = NumFds * m /\ m * c \in Nat /\ m * NumFds \in Nat
    <3> HIDE DEF m, c
    <3> QED BY <1>1, <1>3
  <2> HIDE DEF m, c
  <2>3. NumFds >= c + 1 => m * NumFds >= m * c + m
    BY <1>1, <1>3, ProductGrows
  <2> QED BY <1>1, <2>1, <2>2, <2>3
<1>6. ASSUME NEW s \in GroupSenders(r)
      PROVE  Bytes(pos[s], r % GroupSize) \in Nat /\ Bytes(pos[s], r % GroupSize) <= m
  <2>1. s \in Senders /\ s \in Workers
    BY DEF GroupSenders, Senders
  <2>2. pos[s] \in Positions /\ SenderPos(pos[s])
    BY <2>1 DEF IInv, TypeOK, PosInv, Positions
  <2> QED BY <2>2, ReceiverIndex, BytesBound
<1>7. SentTo(r) \in SUBSET Full
  <2> HIDE DEF m
  <2>1. ASSUME NEW s \in GroupSenders(r), NEW b \in Nat, b < Bytes(pos[s], r % GroupSize)
        PROVE  b \in B
    BY <1>1, <1>6, <2>1
  <2> HIDE DEF B
  <2> QED BY <2>1 DEF SentTo
<1>8. /\ IsFiniteSet(SentTo(r)) /\ Cardinality(SentTo(r)) \in Nat
      /\ Cardinality(SentTo(r)) <= Cardinality(Full)
      /\ Cardinality(SentTo(r)) = Cardinality(Full) => SentTo(r) = Full
  <2> HIDE DEF Full
  <2> QED BY <1>4, <1>7, FS_Subset, FS_CardinalityType
<1>9. ASSUME NEW s \in GroupSenders(r), Bytes(pos[s], r % GroupSize) < m
      PROVE  SentTo(r) # Full
  <2> DEFINE b == Bytes(pos[s], r % GroupSize)
  <2>1. b \in B /\ b \in Nat
    <3> HIDE DEF m
    <3> QED BY <1>1, <1>6, <1>9
  <2>2. <<s, b>> \in Full
    BY <2>1
  <2>3. ~(b < b)
    <3> HIDE DEF b
    <3> QED BY <2>1
  <2>4. <<s, b>> \notin SentTo(r)
    BY <2>3 DEF SentTo
  <2> QED BY <2>2, <2>4
<1> HIDE DEF Full, m, c
<1>10. Cardinality(SentTo(r)) <= NumPackets * DataSize
  BY <1>1, <1>4, <1>5, <1>8
<1>11. ASSUME NEW s \in GroupSenders(r), Bytes(pos[s], r % GroupSize) < m
       PROVE  Cardinality(SentTo(r)) < NumPackets * DataSize
  BY <1>1, <1>4, <1>5, <1>8, <1>9, <1>11
<1> QED BY <1>8, <1>10, <1>11 DEF m

\* Nothing has been written or read when the run begins.
LEMMA InitDInv == Init => DInv
<1> SUFFICES ASSUME Init PROVE DInv
  OBVIOUS
<1> USE HackbenchAssumption
<1>0. \A w \in Workers : pos[w] = [i |-> 0, j |-> 0, done |-> 0] /\ worker[w] = "unborn"
  BY DEF Init
<1>a. NumPackets \in Nat \ {0}
  BY DEF NumPackets
<1>1. PosInv
  BY <1>0, <1>a DEF PosInv, SenderPos, ReceiverPos, Senders, Receivers
<1>2. StatusInv
  BY <1>0, <1>a DEF StatusInv, Finished
<1>3. ReapInv
  <2>1. Reaped = {}
    BY <1>0 DEF Reaped
  <2> QED BY <2>1, FS_EmptySet DEF Init, ReapInv
<1>4. FlowInv
  <2> SUFFICES ASSUME NEW r \in Receivers
               PROVE  IsFiniteSet(SentTo(r)) /\ Cardinality(SentTo(r)) = Got(r) + pipe[r]
    BY DEF FlowInv
  <2>1. ASSUME NEW s \in GroupSenders(r) PROVE Bytes(pos[s], r % GroupSize) = 0
    <3>1. s \in Workers
      BY DEF GroupSenders, Senders
    <3>2. r % GroupSize \in Nat
      BY ReceiverIndex
    <3> QED BY <1>0, <3>1, <3>2 DEF Bytes
  <2>2. SentTo(r) = {}
    BY <2>1 DEF SentTo
  <2>3. Got(r) + pipe[r] = 0
    BY <1>0 DEF Init, Got, Receivers
  <2> QED BY <2>2, <2>3, FS_EmptySet
<1> QED BY <1>1, <1>2, <1>3, <1>4 DEF DInv

\* A write moves its bytes into the pipe of one receiver.
LEMMA WriteFlow ==
  ASSUME IInv, DInv, NEW s \in Senders, SenderWrite(s)
  PROVE  FlowInv' /\ PosInv' /\ StatusInv'
<1> USE HackbenchAssumption
<1> DEFINE p == pos[s]
           t == OutFd(s, p.j)
<1>1. PICK n \in 1 .. DataSize - p.done :
         /\ pipe[t] + n <= PipeCap
         /\ pipe' = [pipe EXCEPT ![t] = @ + n]
         /\ pos' = [pos EXCEPT ![s] = AfterWrite(p, n)]
         /\ worker' = [worker EXCEPT ![s] =
                         IF AfterWrite(p, n).i = Loops THEN "exited" ELSE "run"]
  BY DEF SenderWrite
<1> DEFINE q == AfterWrite(p, n)
<1>2. s \in Workers /\ worker[s] = "run" /\ ~IsReceiver(s) /\ s \notin Receivers
      /\ faults' = faults
  BY DEF Senders, IsSender, SenderWrite, Receivers
<1>3. /\ p \in Positions /\ SenderPos(p) /\ p.i < Loops /\ p.j \in 0 .. NumFds - 1
      /\ n \in Nat \ {0}
  <2>1. p \in Positions /\ SenderPos(p)
    BY <1>2 DEF IInv, TypeOK, Positions, DInv, PosInv
  <2>2. p.i # Loops
    BY <1>2 DEF DInv, StatusInv, Finished
  <2> QED BY <2>1, <2>2, <1>1 DEF Positions, SenderPos
<1>4. /\ q \in Positions /\ SenderPos(q)
      /\ \A k \in 0 .. NumFds - 1 :
           Bytes(q, k) = Bytes(p, k) + (IF k = p.j THEN n ELSE 0)
  BY <1>3, WriteCounts
<1>5. /\ pos'[s] = q /\ \A w \in Workers \ {s} : pos'[w] = pos[w]
      /\ worker'[s] = (IF q.i = Loops THEN "exited" ELSE "run")
      /\ \A w \in Workers \ {s} : worker'[w] = worker[w]
  BY <1>1, <1>2 DEF IInv, TypeOK
<1>6. /\ t \in Receivers /\ GroupOf(t) = GroupOf(s) /\ t % GroupSize = p.j
      /\ \A r \in Receivers : GroupOf(r) = GroupOf(s) /\ r % GroupSize = p.j => r = t
  BY <1>3, OutFdReceiver
<1> HIDE DEF p, q, t
<1>7. PosInv'
  BY <1>2, <1>4, <1>5 DEF DInv, PosInv, Senders, Receivers
<1>8. StatusInv'
  <2>1. ASSUME NEW w \in Workers
        PROVE  /\ worker'[w] \in {"unborn", "start", "poll", "run"} => ~Finished(w)'
               /\ worker'[w] = "exited" => Finished(w)'
               /\ faults' = 0 => /\ worker'[w] \notin {"barfed", "killed"}
                                 /\ worker'[w] = "reaped" => Finished(w)'
    <3>1. CASE w = s
      BY <1>2, <1>5, <3>1 DEF Finished
    <3>2. CASE w # s
      BY <1>2, <1>5, <3>2 DEF Finished, DInv, StatusInv
    <3> QED BY <3>1, <3>2
  <2> QED BY <2>1 DEF StatusInv
<1>9. FlowInv'
  <2> SUFFICES ASSUME NEW r \in Receivers
               PROVE  IsFiniteSet(SentTo(r)') /\ Cardinality(SentTo(r)') = Got(r)' + pipe'[r]
    BY DEF FlowInv
  <2> DEFINE k == r % GroupSize
  <2>0. /\ r \in Workers /\ r # s /\ k \in 0 .. NumFds - 1
    BY <1>2, ReceiverIndex
  <2>1. Got(r)' = Got(r)
    BY <1>5, <2>0 DEF Got
  <2>2. /\ IsFiniteSet(SentTo(r)) /\ Cardinality(SentTo(r)) = Got(r) + pipe[r]
        /\ Cardinality(SentTo(r)) \in Nat
    BY SentBound DEF DInv, FlowInv
  <2>3. \A x \in GroupSenders(r) : x \in Workers /\ x \in Senders
    BY DEF GroupSenders, Senders
  <2>4. CASE r # t
    <3>1. pipe'[r] = pipe[r]
      BY <1>1, <1>6, <2>4 DEF IInv, TypeOK
    <3>2. ASSUME NEW x \in GroupSenders(r) PROVE Bytes(pos'[x], k) = Bytes(pos[x], k)
      <4>1. CASE x = s
        <5>1. k # p.j
          BY <1>6, <2>4, <4>1 DEF GroupSenders
        <5>2. Bytes(p, k) \in Nat
          BY <1>3, <2>0, BytesBound
        <5> HIDE DEF k
        <5> QED BY <1>4, <1>5, <2>0, <4>1, <5>1, <5>2 DEF p
      <4>2. CASE x # s
        BY <1>5, <2>3, <4>2
      <4> QED BY <4>1, <4>2
    <3>3. SentTo(r)' = SentTo(r)
      BY <3>2 DEF SentTo, GroupSenders, GroupOf
    <3> QED BY <2>1, <2>2, <3>1, <3>3
  <2>5. CASE r = t
    <3> DEFINE a == Bytes(p, k)
               N == {s} \X (a .. a + n - 1)
    <3>1. pipe'[r] = pipe[r] + n /\ pipe[r] \in Nat
      BY <1>1, <1>6, <2>5 DEF IInv, TypeOK
    <3>2. a \in Nat /\ Bytes(q, k) = a + n /\ k = p.j
      BY <1>3, <1>4, <1>6, <2>0, <2>5, BytesBound
    <3>3. s \in GroupSenders(r)
      BY <1>6, <2>5 DEF GroupSenders
    <3>4. SentTo(r)' = SentTo(r) \cup N
      <4>1. SentTo(r)' = {x \in GroupSenders(r) \X Nat : x[2] < Bytes(pos'[x[1]], k)}
        BY DEF SentTo, GroupSenders, GroupOf
      <4>2. ASSUME NEW x \in GroupSenders(r), NEW b \in Nat
            PROVE  b < Bytes(pos'[x], k)
                     <=> b < Bytes(pos[x], k) \/ (x = s /\ b \in a .. a + n - 1)
        <5>1. CASE x = s
          <6>1. Bytes(pos'[x], k) = a + n /\ Bytes(pos[x], k) = a
            BY <1>5, <3>2, <5>1 DEF p
          <6> HIDE DEF a
          <6> QED BY <1>3, <3>2, <5>1, <6>1
        <5>2. CASE x # s
          BY <1>5, <2>3, <5>2
        <5> QED BY <5>1, <5>2
      <4>3. SentTo(r) = {x \in GroupSenders(r) \X Nat : x[2] < Bytes(pos[x[1]], k)}
        BY DEF SentTo
      <4>4. \A b \in a .. a + n - 1 : b \in Nat
        <5> HIDE DEF a
        <5> QED BY <1>3, <3>2
      <4> HIDE DEF a, k
      <4>5. ASSUME NEW x \in SentTo(r)' PROVE x \in SentTo(r) \cup N
        BY <4>1, <4>2, <4>3
      <4>6. ASSUME NEW x \in SentTo(r) \cup N PROVE x \in SentTo(r)'
        BY <3>3, <4>1, <4>2, <4>3, <4>4
      <4> QED BY <4>5, <4>6
    <3>5. SentTo(r) \cap N = {}
      <4>1. \A b \in a .. a + n - 1 : ~(b < a)
        <5> HIDE DEF a
        <5> QED BY <1>3, <3>2
      <4> QED BY <4>1 DEF SentTo, p
    <3>6. IsFiniteSet(N) /\ Cardinality(N) = n
      <4> DEFINE I == a .. a + n - 1
      <4>1. IsFiniteSet(I) /\ Cardinality(I) = n
        <5> HIDE DEF a
        <5>1. a \in Int /\ a + n - 1 \in Int /\ ~(a > a + n - 1) /\ (a + n - 1) - a + 1 = n
          BY <1>3, <3>2
        <5> QED BY <5>1, FS_Interval
      <4>2. IsFiniteSet({s}) /\ Cardinality({s}) = 1
        BY FS_Singleton
      <4> HIDE DEF I
      <4>3. IsFiniteSet({s} \X I) /\ Cardinality({s} \X I) = Cardinality({s}) * Cardinality(I)
        BY <4>1, <4>2, FS_Product
      <4>4. Cardinality({s} \X I) = n
        BY <1>3, <4>1, <4>2, <4>3
      <4> QED BY <4>3, <4>4 DEF I
    <3> HIDE DEF N
    <3>7. /\ IsFiniteSet(SentTo(r) \cup N)
          /\ Cardinality(SentTo(r) \cup N) =
               Cardinality(SentTo(r)) + Cardinality(N) - Cardinality(SentTo(r) \cap N)
      BY <2>2, <3>6, FS_Union
    <3>8. Cardinality(SentTo(r) \cap N) = 0
      BY <3>5, FS_EmptySet
    <3>9. Got(r) \in Nat
      <4>1. pos[r].i \in Nat /\ pos[r].done \in Nat
        BY <2>0 DEF IInv, TypeOK
      <4> QED BY <4>1 DEF Got
    <3> QED BY <1>3, <2>1, <2>2, <3>1, <3>4, <3>6, <3>7, <3>8, <3>9
  <2> QED BY <2>4, <2>5
<1> QED BY <1>7, <1>8, <1>9

\* A read takes its bytes out of the receiver's pipe.
LEMMA ReadFlow ==
  ASSUME IInv, DInv, NEW v \in Receivers, ReceiverRead(v)
  PROVE  FlowInv' /\ PosInv' /\ StatusInv'
<1> USE HackbenchAssumption
<1> DEFINE p == pos[v]
<1>1. PICK n \in 1 .. DataSize - p.done :
         /\ n <= pipe[v]
         /\ pipe' = [pipe EXCEPT ![v] = @ - n]
         /\ pos' = [pos EXCEPT ![v] = AfterRead(p, n)]
         /\ worker' = [worker EXCEPT ![v] =
                         IF AfterRead(p, n).i = NumPackets THEN "exited" ELSE "run"]
  BY DEF ReceiverRead
<1> DEFINE q == AfterRead(p, n)
<1>2. /\ v \in Workers /\ worker[v] = "run" /\ IsReceiver(v) /\ v \notin Senders
      /\ faults' = faults
  BY DEF Senders, IsSender, ReceiverRead, Receivers
<1>3. /\ p \in Positions /\ ReceiverPos(p) /\ p.i < NumPackets
      /\ n \in Nat \ {0}
  <2>1. p \in Positions /\ ReceiverPos(p)
    BY <1>2 DEF IInv, TypeOK, Positions, DInv, PosInv
  <2>2. p.i # NumPackets
    BY <1>2 DEF DInv, StatusInv, Finished
  <2>3. NumPackets \in Nat
    BY DEF NumPackets
  <2> QED BY <2>1, <2>2, <2>3, <1>1 DEF Positions, ReceiverPos
<1>4. /\ q \in Positions /\ ReceiverPos(q)
      /\ q.i * DataSize + q.done = p.i * DataSize + p.done + n
  BY <1>3, ReadCounts
<1>5. /\ pos'[v] = q /\ \A w \in Workers \ {v} : pos'[w] = pos[w]
      /\ worker'[v] = (IF q.i = NumPackets THEN "exited" ELSE "run")
      /\ \A w \in Workers \ {v} : worker'[w] = worker[w]
  BY <1>1, <1>2 DEF IInv, TypeOK
<1> HIDE DEF q
<1>7. PosInv'
  BY <1>2, <1>4, <1>5 DEF DInv, PosInv, Senders, Receivers
<1>8. StatusInv'
  <2>1. ASSUME NEW w \in Workers
        PROVE  /\ worker'[w] \in {"unborn", "start", "poll", "run"} => ~Finished(w)'
               /\ worker'[w] = "exited" => Finished(w)'
               /\ faults' = 0 => /\ worker'[w] \notin {"barfed", "killed"}
                                 /\ worker'[w] = "reaped" => Finished(w)'
    <3>1. CASE w = v
      BY <1>2, <1>5, <3>1 DEF Finished
    <3>2. CASE w # v
      BY <1>2, <1>5, <3>2 DEF Finished, DInv, StatusInv
    <3> QED BY <3>1, <3>2
  <2> QED BY <2>1 DEF StatusInv
<1>9. FlowInv'
  <2> SUFFICES ASSUME NEW r \in Receivers
               PROVE  IsFiniteSet(SentTo(r)') /\ Cardinality(SentTo(r)') = Got(r)' + pipe'[r]
    BY DEF FlowInv
  <2>0. r \in Workers
    BY ReceiverIndex
  <2>1. SentTo(r)' = SentTo(r)
    <3>1. \A x \in GroupSenders(r) : pos'[x] = pos[x]
      BY <1>2, <1>5 DEF GroupSenders, Senders
    <3> QED BY <3>1 DEF SentTo, GroupSenders, GroupOf
  <2>2. /\ IsFiniteSet(SentTo(r)) /\ Cardinality(SentTo(r)) = Got(r) + pipe[r]
    BY DEF DInv, FlowInv
  <2>3. CASE r = v
    <3>1. pipe'[r] = pipe[r] - n /\ pipe[r] \in Nat
      BY <1>1, <2>3 DEF IInv, TypeOK
    <3>2. Got(r)' = Got(r) + n
      BY <1>4, <1>5, <2>3 DEF Got
    <3>3. Got(r) \in Nat
      BY <1>3, <2>3 DEF Got, Positions
    <3> QED BY <1>3, <2>1, <2>2, <3>1, <3>2, <3>3
  <2>4. CASE r # v
    <3>1. pipe'[r] = pipe[r]
      BY <1>1, <2>4 DEF IInv, TypeOK
    <3>2. Got(r)' = Got(r)
      BY <1>5, <2>0, <2>4 DEF Got
    <3> QED BY <2>1, <2>2, <3>1, <3>2
  <2> QED BY <2>3, <2>4
<1> QED BY <1>7, <1>8, <1>9

\* Steps that neither write nor read leave the bytes where they are.
LEMMA QuietFlow ==
  ASSUME DInv, UNCHANGED <<pos, pipe>>
  PROVE  FlowInv' /\ PosInv'
  BY DEF DInv, FlowInv, PosInv, SenderPos, ReceiverPos, SentTo, GroupSenders,
         GroupOf, Got, Bytes

\* A status that changes in one worker.
LEMMA OneStatus ==
  ASSUME IInv, DInv, NEW w \in Workers, NEW st, UNCHANGED <<pos, faults>>,
         worker' = [worker EXCEPT ![w] = st],
         st \in {"unborn", "start", "poll", "run"} => ~Finished(w),
         st \in {"exited", "reaped"} /\ (st = "exited" \/ faults = 0) => Finished(w),
         faults = 0 => st \notin {"barfed", "killed"}
  PROVE  StatusInv'
<1>1. ASSUME NEW v \in Workers
      PROVE  /\ worker'[v] \in {"unborn", "start", "poll", "run"} => ~Finished(v)'
             /\ worker'[v] = "exited" => Finished(v)'
             /\ faults' = 0 => /\ worker'[v] \notin {"barfed", "killed"}
                               /\ worker'[v] = "reaped" => Finished(v)'
  <2>0. Finished(v)' <=> Finished(v)
    BY DEF Finished
  <2>1. CASE v = w
    <3>1. worker'[v] = st
      BY <2>1 DEF IInv, TypeOK
    <3> QED BY <2>0, <2>1, <3>1
  <2>2. CASE v # w
    <3>1. worker'[v] = worker[v]
      BY <2>2 DEF IInv, TypeOK
    <3> QED BY <2>0, <3>1 DEF DInv, StatusInv
  <2> QED BY <2>1, <2>2
<1> QED BY <1>1 DEF StatusInv

\* Without a failure no sender finds its receiver gone.
LEMMA NoSigpipe ==
  ASSUME IInv, DInv, faults = 0, NEW s \in Senders
  PROVE  ~SenderSigpipe(s)
<1> SUFFICES ASSUME SenderSigpipe(s) PROVE FALSE
  OBVIOUS
<1> USE HackbenchAssumption
<1> DEFINE t == OutFd(s, pos[s].j)
<1>1. s \in Workers /\ worker[s] = "run" /\ ~IsReceiver(s) /\ ~Live(t)
  BY DEF SenderSigpipe, ReadEndOpen, Senders, IsSender
<1>2. pos[s] \in Positions /\ SenderPos(pos[s]) /\ pos[s].i < Loops
      /\ pos[s].j \in 0 .. NumFds - 1
  <2>1. pos[s] \in Positions /\ SenderPos(pos[s])
    BY <1>1 DEF IInv, TypeOK, Positions, DInv, PosInv
  <2>2. pos[s].i # Loops
    BY <1>1 DEF DInv, StatusInv, Finished
  <2> QED BY <2>1, <2>2 DEF Positions, SenderPos
<1>3. t \in Receivers /\ GroupOf(t) = GroupOf(s) /\ t % GroupSize = pos[s].j
  BY <1>2, OutFdReceiver
<1> HIDE DEF t
<1>4. t \in Workers /\ IsReceiver(t) /\ s \in GroupSenders(t)
  BY <1>3 DEF Receivers, GroupSenders
<1>5. told = Workers
  BY <1>1, GoImplied DEF GoAfterAllReady
<1>6. Finished(t)
  <2>1. worker[t] \notin {"unborn", "start", "poll", "run"}
    BY <1>1, <1>4, <1>5 DEF IInv, ReadyBytes, Live
  <2>2. worker[t] \in {"exited", "reaped"}
    BY <1>4, <2>1 DEF IInv, TypeOK, Statuses, DInv, StatusInv
  <2> QED BY <1>4, <2>2 DEF DInv, StatusInv
<1>7. Bytes(pos[s], t % GroupSize) < Loops * DataSize
  BY <1>2, <1>3, BytesBound
<1>8. Cardinality(SentTo(t)) < NumPackets * DataSize /\ Cardinality(SentTo(t)) \in Nat
  BY <1>3, <1>4, <1>7, SentBound DEF DInv
<1>9. /\ Cardinality(SentTo(t)) = NumPackets * DataSize + pos[t].done + pipe[t]
      /\ pos[t].done \in Nat /\ pipe[t] \in Nat
  BY <1>3, <1>4, <1>6 DEF DInv, FlowInv, Got, Finished, IInv, TypeOK
<1>10. NumPackets * DataSize \in Nat
  BY DEF NumPackets
<1> QED BY <1>8, <1>9, <1>10

\* Steps that reap nobody.
LEMMA NoReap ==
  ASSUME DInv, UNCHANGED reaped, main' = "done" => main = "done",
         \A w \in Workers : worker'[w] = "reaped" <=> worker[w] = "reaped"
  PROVE  ReapInv'
<1>1. Reaped' = Reaped
  BY DEF Reaped
<1> QED BY <1>1 DEF DInv, ReapInv

\* main() counts the workers it has reaped.
LEMMA ReapCounts ==
  ASSUME IInv, DInv, NEW w \in Workers, ReapWorker(w)
  PROVE  ReapInv'
<1>1. /\ worker' = [worker EXCEPT ![w] = "reaped"] /\ reaped' = reaped + 1
      /\ main' = "done" => reaped + 1 = Total
      /\ worker[w] # "reaped"
  BY DEF ReapWorker, Reapable
<1>2. Reaped' = Reaped \cup {w} /\ w \notin Reaped
  BY <1>1 DEF Reaped, IInv, TypeOK
<1>3. IsFiniteSet(Reaped)
  BY Counts, FS_Subset DEF Reaped
<1>4. Cardinality(Reaped') = Cardinality(Reaped) + 1
  BY <1>2, <1>3, FS_AddElement
<1> QED BY <1>1, <1>4 DEF DInv, ReapInv

\* A failure ends workers, and is counted.
LEMMA FailureStatus ==
  ASSUME IInv, DInv, UNCHANGED pos, faults' = faults + 1,
         \A w \in Workers : worker'[w] \in {worker[w], "barfed", "killed"}
  PROVE  StatusInv'
<1>1. faults' # 0
  BY HackbenchAssumption DEF IInv, TypeOK
<1>2. \A w \in Workers : Finished(w)' <=> Finished(w)
  BY DEF Finished
<1> QED BY <1>1, <1>2 DEF DInv, StatusInv

\* Every step of main(), the workers and the environment keeps the bytes, the
\* counters and the statuses in step.
LEMMA NextDInv == IInv /\ DInv /\ [Next]_vars => DInv'
<1> SUFFICES ASSUME IInv, DInv, [Next]_vars PROVE DInv'
  OBVIOUS
<1>1. CASE CreateWorker
  <2>1. /\ spawned \in Workers /\ worker[spawned] = "unborn"
        /\ worker' = [worker EXCEPT ![spawned] = "start"]
        /\ UNCHANGED <<pos, pipe, reaped, faults>> /\ main' # "done"
    <3>1. spawned \in Workers
      BY <1>1, Counts DEF CreateWorker, IInv, TypeOK, Workers
    <3>2. worker[spawned] = "unborn"
      BY <3>1, Counts DEF IInv, MainInv, Workers
    <3> QED BY <1>1, <3>1, <3>2 DEF CreateWorker
  <2>2. ~Finished(spawned)
    BY <2>1 DEF DInv, StatusInv
  <2>3. StatusInv'
    BY <2>1, <2>2, OneStatus
  <2>4. ReapInv'
    BY <2>1, NoReap DEF IInv, TypeOK
  <2> QED BY <2>1, <2>3, <2>4, QuietFlow DEF DInv
<1>2. CASE ReadReady \/ KickOff
  <2>1. UNCHANGED <<pos, pipe, reaped, faults, worker>> /\ main' # "done"
    BY <1>2 DEF ReadReady, KickOff
  <2>2. StatusInv' /\ ReapInv'
    BY <2>1 DEF DInv, StatusInv, ReapInv, Finished, Reaped
  <2> QED BY <2>1, <2>2, QuietFlow DEF DInv
<1>3. ASSUME NEW w \in Workers, ReapWorker(w) PROVE DInv'
  <2>1. /\ worker[w] \in {"exited", "barfed", "killed"}
        /\ worker' = [worker EXCEPT ![w] = "reaped"]
        /\ UNCHANGED <<pos, pipe, faults>>
    BY <1>3 DEF ReapWorker, Reapable
  <2>2. faults = 0 => Finished(w)
    BY <2>1 DEF DInv, StatusInv
  <2>3. StatusInv'
    BY <2>1, <2>2, OneStatus
  <2>4. ReapInv'
    BY <1>3, ReapCounts
  <2> QED BY <2>1, <2>3, <2>4, QuietFlow DEF DInv
<1>4. ASSUME NEW w \in Workers, TellReady(w) \/ WaitForGo(w) PROVE DInv'
  <2>1. /\ worker[w] \in {"start", "poll"}
        /\ \E st \in {"poll", "run"} : worker' = [worker EXCEPT ![w] = st]
        /\ UNCHANGED <<pos, pipe, reaped, faults, main>>
    BY <1>4 DEF TellReady, WaitForGo
  <2>2. ~Finished(w)
    BY <2>1 DEF DInv, StatusInv
  <2>3. StatusInv'
    <3>1. PICK st \in {"poll", "run"} : worker' = [worker EXCEPT ![w] = st]
      BY <2>1
    <3> QED BY <2>1, <2>2, <3>1, OneStatus
  <2>4. ReapInv'
    BY <2>1, NoReap DEF IInv, TypeOK
  <2> QED BY <2>1, <2>3, <2>4, QuietFlow DEF DInv
<1>5. ASSUME NEW s \in Senders, SenderWrite(s) PROVE DInv'
  <2>1. /\ s \in Workers /\ worker[s] = "run" /\ UNCHANGED <<reaped, main>>
        /\ \E st \in {"exited", "run"} : worker' = [worker EXCEPT ![s] = st]
    BY <1>5 DEF SenderWrite, Senders
  <2>2. ReapInv'
    BY <2>1, NoReap DEF IInv, TypeOK
  <2> QED BY <1>5, <2>2, WriteFlow DEF DInv
<1>6. ASSUME NEW s \in Senders, SenderSigpipe(s) PROVE DInv'
  <2>1. /\ s \in Workers /\ worker[s] = "run" /\ UNCHANGED <<reaped, main, pos, pipe, faults>>
        /\ worker' = [worker EXCEPT ![s] = "killed"]
    BY <1>6 DEF SenderSigpipe, Senders
  <2>2. faults # 0
    BY <1>6, NoSigpipe
  <2>3. StatusInv'
    BY <2>1, <2>2, OneStatus
  <2>4. ReapInv'
    BY <2>1, NoReap DEF IInv, TypeOK
  <2> QED BY <2>1, <2>3, <2>4, QuietFlow DEF DInv
<1>7. ASSUME NEW r \in Receivers, ReceiverRead(r) PROVE DInv'
  <2>1. /\ r \in Workers /\ worker[r] = "run" /\ UNCHANGED <<reaped, main>>
        /\ \E st \in {"exited", "run"} : worker' = [worker EXCEPT ![r] = st]
    BY <1>7 DEF ReceiverRead, Receivers
  <2>2. ReapInv'
    BY <2>1, NoReap DEF IInv, TypeOK
  <2> QED BY <1>7, <2>2, ReadFlow DEF DInv
<1>8. CASE Fault
  <2>1. /\ UNCHANGED <<pos, pipe, reaped>> /\ faults' = faults + 1
        /\ main' \in {main, "failed"}
    BY <1>8 DEF Fault, CreateFails, WorkerBarfs, WorkerKilled, ExitProcess
  <2>2. ASSUME NEW v \in Workers
        PROVE  /\ worker'[v] \in {worker[v], "barfed", "killed"}
               /\ worker'[v] = "reaped" <=> worker[v] = "reaped"
    <3>0. worker \in [Workers -> Statuses]
      BY DEF IInv, TypeOK
    <3>1. CASE ExitProcess
      BY <3>0, <3>1 DEF ExitProcess, Live
    <3>2. CASE \E w \in Workers : /\ Live(w)
                                  /\ \E st \in {"barfed", "killed"} :
                                       worker' = [worker EXCEPT ![w] = st]
      <4>1. PICK w \in Workers, st \in {"barfed", "killed"} :
              Live(w) /\ worker' = [worker EXCEPT ![w] = st]
        BY <3>2
      <4> QED BY <3>0, <4>1 DEF Live
    <3> QED BY <1>8, <3>1, <3>2 DEF Fault, CreateFails, WorkerBarfs, WorkerKilled
  <2>3. StatusInv'
    BY <2>1, <2>2, FailureStatus
  <2>4. ReapInv'
    BY <2>1, <2>2, NoReap
  <2> QED BY <2>1, <2>3, <2>4, QuietFlow DEF DInv
<1>9. CASE UNCHANGED vars
  <2>1. UNCHANGED <<pos, pipe, reaped, faults, worker, main>>
    BY <1>9 DEF vars
  <2>2. StatusInv' /\ ReapInv'
    BY <2>1 DEF DInv, StatusInv, ReapInv, Finished, Reaped
  <2> QED BY <2>1, <2>2, QuietFlow DEF DInv
<1> QED BY <1>1, <1>2, <1>3, <1>4, <1>5, <1>6, <1>7, <1>8, <1>9
        DEF Next, Main, Worker, Sender, Terminated

\* When main() is done and nothing has failed, every receiver has got all its
\* packets, and what was in the pipes is in the receivers.
LEMMA DoneDelivered == IInv /\ DInv => AllDelivered
<1> SUFFICES ASSUME IInv, DInv, main = "done", faults = 0, NEW r \in Receivers
             PROVE  pipe[r] = 0 /\ pos[r].i = NumPackets
  BY DEF AllDelivered
<1> USE HackbenchAssumption
<1>0. r \in Workers /\ IsReceiver(r)
  BY DEF Receivers
<1>1. Reaped = Workers
  <2>1. Reaped \in SUBSET Workers
    BY DEF Reaped
  <2>2. Cardinality(Reaped) = Cardinality(Workers)
    BY Counts DEF DInv, ReapInv
  <2> QED BY <2>1, <2>2, Counts, FS_Subset
<1>2. pos[r].i = NumPackets
  BY <1>0, <1>1 DEF Reaped, DInv, StatusInv, Finished
<1>3. /\ Cardinality(SentTo(r)) = NumPackets * DataSize + pos[r].done + pipe[r]
      /\ pos[r].done \in Nat /\ pipe[r] \in Nat
  <2>1. pos[r].done \in Nat /\ pipe[r] \in Nat
    BY <1>0 DEF IInv, TypeOK
  <2>2. Cardinality(SentTo(r)) = Got(r) + pipe[r]
    BY DEF DInv, FlowInv
  <2> QED BY <1>2, <2>1, <2>2 DEF Got
<1>4. Cardinality(SentTo(r)) \in Nat /\ Cardinality(SentTo(r)) <= NumPackets * DataSize
  BY SentBound DEF DInv
<1> DEFINE m == NumPackets * DataSize
           c == Cardinality(SentTo(r))
<1>5. m \in Nat /\ c = m + pos[r].done + pipe[r] /\ c <= m
  BY <1>3, <1>4 DEF NumPackets
<1> HIDE DEF m, c
<1>6. pipe[r] = 0
  BY <1>3, <1>5
<1> QED BY <1>2, <1>6

\* exit(0) of a run without failures means that every byte that a sender wrote
\* was read by the receiver it was for, whatever the lengths of the writes and
\* reads of sender() and receiver() in hackbench.c.
THEOREM Delivered == Spec => []AllDelivered
<1> QED BY InitDInv, NextDInv, DoneDelivered, Inductive, PTL DEF Spec
=============================================================================

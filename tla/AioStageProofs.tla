--------------------------- MODULE AioStageProofs ---------------------------
(***************************************************************************)
(* The stage barrier of aio-stress is correct for any number of threads    *)
(* and stages.  The barrier alternates between two modes, told apart by    *)
(* threads_starting: while it is below num_threads the threads gather for  *)
(* the next stage, once it equals num_threads they are all in one.         *)
(***************************************************************************)
EXTENDS AioStage, FiniteSetTheorems, TLAPS

InPhase(p) == {t \in Threads : phase[t] = p}

Before(t) == phase[t] \in {"start", "startwait"}           \* the next stage
After(t)  == phase[t] \in {"endwait", "decide", "exit"}    \* the last stage

\* Gathering: those that wait are counted, nobody is in a stage, and those
\* that have come round are one iteration ahead of those that have not.
Gathering ==
  /\ threads_starting = Cardinality(InPhase("startwait"))
  /\ \A t \in Threads : Before(t) \/ After(t)
  /\ \A t, u \in Threads :
       /\ Before(t) /\ Before(u) => iteration[t] = iteration[u]
       /\ After(t) /\ After(u) => iteration[t] = iteration[u]
       /\ Before(t) /\ After(u) => iteration[t] = iteration[u] + 1

\* Running: all threads are in the same stage, and those that have finished
\* it are counted.
Running ==
  /\ threads_ending = Cardinality(InPhase("endwait"))
  /\ threads_ending < num_threads
  /\ \A t \in Threads : phase[t] \in {"startwait", "body", "end", "endwait"}
  /\ \A t, u \in Threads : iteration[t] = iteration[u]

IInv ==
  /\ TypeOK
  /\ threads_starting < num_threads => Gathering
  /\ threads_starting = num_threads => Running

\* There are at least two threads.
LEMMA NumThreads == num_threads \in Nat /\ num_threads > 1
  BY AioStageAssumption, FS_CardinalityType DEF num_threads

\* The threads in one phase are finitely many.
LEMMA PhaseFinite ==
  ASSUME NEW p
  PROVE  IsFiniteSet(InPhase(p)) /\ Cardinality(InPhase(p)) \in Nat
<1>1. InPhase(p) \in SUBSET Threads
  BY DEF InPhase
<1>2. IsFiniteSet(InPhase(p))
  BY <1>1, FS_Subset, AioStageAssumption
<1> QED BY <1>2, FS_CardinalityType

\* Counting the others: a set of threads without t has at most num_threads-1
\* members, and if it has that many it holds all the others.
LEMMA Others ==
  ASSUME NEW t \in Threads, NEW S \in SUBSET Threads, t \notin S
  PROVE  /\ IsFiniteSet(S)
         /\ Cardinality(S) \in Nat
         /\ Cardinality(S) + 1 <= num_threads
         /\ Cardinality(S) + 1 = num_threads => S = Threads \ {t}
         /\ Cardinality(S \cup {t}) = Cardinality(S) + 1
<1>1. /\ IsFiniteSet(Threads \ {t})
      /\ Cardinality(Threads \ {t}) = num_threads - 1
  BY FS_RemoveElement, AioStageAssumption DEF num_threads
<1>2. S \in SUBSET (Threads \ {t})
  OBVIOUS
<1>3. /\ IsFiniteSet(S)
      /\ Cardinality(S) <= Cardinality(Threads \ {t})
      /\ Cardinality(Threads \ {t}) = Cardinality(S) => Threads \ {t} = S
  BY <1>1, <1>2, FS_Subset
<1>4. Cardinality(S) \in Nat
  BY <1>3, FS_CardinalityType
<1>5. Cardinality(S \cup {t}) = Cardinality(S) + 1
  BY <1>3, FS_AddElement
<1> QED BY <1>1, <1>3, <1>4, <1>5, NumThreads

\* At the start all threads gather for the first stage.
LEMMA InitIInv == Init => IInv
<1> SUFFICES ASSUME Init PROVE IInv
  OBVIOUS
<1>1. InPhase("startwait") = {}
  BY DEF Init, InPhase
<1>2. TypeOK
  BY NumThreads, AioStageAssumption DEF Init, TypeOK, Phases
<1>3. Gathering
  BY <1>1, FS_EmptySet DEF Init, Gathering, Before, After
<1> QED BY <1>2, <1>3, NumThreads DEF Init, IInv

\* A thread arrives at the start barrier: one more waits, or the mode changes.
LEMMA StartStep ==
  ASSUME IInv, NEW t \in Threads, EnterStart(t)
  PROVE  IInv'
<1> USE NumThreads DEF IInv
<1>1. phase[t] = "start"
  BY DEF EnterStart
<1>2. threads_starting < num_threads /\ Gathering
  BY <1>1 DEF TypeOK, Running
<1> DEFINE SW == InPhase("startwait")
<1>3. SW \in SUBSET Threads /\ t \notin SW
  BY <1>1 DEF InPhase
<1>4. /\ Cardinality(SW) \in Nat
      /\ Cardinality(SW) + 1 = num_threads => SW = Threads \ {t}
      /\ Cardinality(SW \cup {t}) = Cardinality(SW) + 1
  BY <1>3, Others
<1>5. CASE threads_starting + 1 = num_threads
  <2>1. /\ threads_starting' = num_threads /\ threads_ending' = 0
        /\ sleeping' = {} /\ phase' = [phase EXCEPT ![t] = "body"]
        /\ iteration' = iteration
    BY <1>5 DEF EnterStart
  <2>2. SW = Threads \ {t}
    BY <1>2, <1>4, <1>5 DEF Gathering
  <2>3. \A u \in Threads \ {t} : phase[u] = "startwait"
    BY <2>2 DEF InPhase
  <2>4. TypeOK'
    BY <2>1 DEF TypeOK, Phases
  <2>5. InPhase("endwait")' = {}
    BY <1>1, <2>1, <2>3 DEF InPhase, TypeOK
  <2>6. \A u \in Threads : Before(u)
    BY <1>1, <2>3 DEF Before
  <2>7. \A u, v \in Threads : iteration'[u] = iteration'[v]
    BY <1>2, <2>1, <2>6 DEF Gathering
  <2>8. \A u \in Threads : phase'[u] \in {"startwait", "body", "end", "endwait"}
    BY <2>1, <2>3 DEF TypeOK
  <2>9. Running'
    BY <2>1, <2>5, <2>7, <2>8, FS_EmptySet DEF Running
  <2> QED BY <2>1, <2>4, <2>9
<1>6. CASE threads_starting + 1 # num_threads
  <2>1. /\ threads_starting' = threads_starting + 1 /\ threads_ending' = threads_ending
        /\ sleeping' = sleeping \cup {t}
        /\ phase' = [phase EXCEPT ![t] = "startwait"]
        /\ iteration' = iteration
    BY <1>6 DEF EnterStart
  <2>2. TypeOK' /\ threads_starting' < num_threads
    BY <1>2, <1>6, <2>1 DEF TypeOK, Phases
  <2>3. InPhase("startwait")' = SW \cup {t}
    BY <2>1 DEF InPhase, TypeOK
  <2>4. threads_starting' = Cardinality(InPhase("startwait")')
    BY <1>2, <1>4, <2>1, <2>3 DEF Gathering
  <2>5. \A u \in Threads : (Before(u)' <=> Before(u)) /\ (After(u)' <=> After(u))
    BY <1>1, <2>1 DEF Before, After, TypeOK
  <2>6. Gathering'
    BY <1>2, <2>1, <2>4, <2>5 DEF Gathering
  <2> QED BY <2>2, <2>6
<1> QED BY <1>5, <1>6

\* A thread arrives at the end barrier.
LEMMA EndStep ==
  ASSUME IInv, NEW t \in Threads, EnterEnd(t)
  PROVE  IInv'
<1> USE NumThreads DEF IInv
<1>1. phase[t] = "end"
  BY DEF EnterEnd
<1>2. threads_starting = num_threads /\ Running
  BY <1>1 DEF TypeOK, Gathering, Before, After
<1> DEFINE EW == InPhase("endwait")
<1>3. EW \in SUBSET Threads /\ t \notin EW
  BY <1>1 DEF InPhase
<1>4. /\ Cardinality(EW) \in Nat
      /\ Cardinality(EW) + 1 <= num_threads
      /\ Cardinality(EW) + 1 = num_threads => EW = Threads \ {t}
      /\ Cardinality(EW \cup {t}) = Cardinality(EW) + 1
  BY <1>3, Others
<1>5. CASE threads_ending + 1 = num_threads
  <2>1. /\ threads_ending' = num_threads /\ threads_starting' = 0
        /\ sleeping' = {} /\ phase' = [phase EXCEPT ![t] = "decide"]
        /\ iteration' = iteration
    BY <1>5 DEF EnterEnd
  <2>2. EW = Threads \ {t}
    BY <1>2, <1>4, <1>5 DEF Running
  <2>3. \A u \in Threads \ {t} : phase[u] = "endwait"
    BY <2>2 DEF InPhase
  <2>4. TypeOK'
    BY <2>1 DEF TypeOK, Phases
  <2>5. InPhase("startwait")' = {}
    BY <1>1, <2>1, <2>3 DEF InPhase, TypeOK
  <2>6. \A u \in Threads : After(u)' /\ ~Before(u)'
    BY <2>1, <2>3 DEF After, Before, TypeOK
  <2>7. \A u, v \in Threads : iteration'[u] = iteration'[v]
    BY <1>2, <2>1 DEF Running
  <2>8. Gathering'
    BY <2>1, <2>5, <2>6, <2>7, FS_EmptySet DEF Gathering
  <2> QED BY <2>1, <2>4, <2>8
<1>6. CASE threads_ending + 1 # num_threads
  <2>1. /\ threads_ending' = threads_ending + 1 /\ threads_starting' = threads_starting
        /\ sleeping' = sleeping \cup {t}
        /\ phase' = [phase EXCEPT ![t] = "endwait"]
        /\ iteration' = iteration
    BY <1>6 DEF EnterEnd
  <2>2. TypeOK' /\ threads_ending' < num_threads
    BY <1>2, <1>6, <2>1 DEF TypeOK, Phases, Running
  <2>3. InPhase("endwait")' = EW \cup {t}
    BY <2>1 DEF InPhase, TypeOK
  <2>4. threads_ending' = Cardinality(InPhase("endwait")')
    BY <1>2, <1>4, <2>1, <2>3 DEF Running
  <2>5. \A u \in Threads : phase'[u] \in {"startwait", "body", "end", "endwait"}
    BY <1>2, <2>1 DEF Running, TypeOK
  <2>6. Running'
    BY <1>2, <2>1, <2>2, <2>4, <2>5 DEF Running
  <2> QED BY <1>2, <2>1, <2>2, <2>6
<1> QED BY <1>5, <1>6

\* The steps of one thread that leave both counters alone.
LEMMA OtherSteps ==
  ASSUME IInv, NEW t \in Threads,
         WakeStart(t) \/ Body(t) \/ WakeEnd(t) \/ Restart(t) \/ Leave(t)
           \/ SpuriousWakeup(t)
  PROVE  IInv'
<1> USE NumThreads, AioStageAssumption DEF IInv
<1>1. UNCHANGED <<threads_starting, threads_ending>>
  BY DEF WakeStart, Body, WakeEnd, Restart, Leave, SpuriousWakeup
<1>2. TypeOK'
  BY <1>1 DEF WakeStart, Body, WakeEnd, Restart, Leave, SpuriousWakeup, TypeOK, Phases
<1>3. CASE threads_starting < num_threads
  <2>1. Gathering
    BY <1>3
  <2>2. InPhase("startwait")' = InPhase("startwait")
    BY <1>3, <2>1 DEF WakeStart, Body, WakeEnd, Restart, Leave, SpuriousWakeup,
                      InPhase, TypeOK, Gathering, Before, After
  <2>3. CASE WakeStart(t) \/ SpuriousWakeup(t)
    BY <1>1, <1>2, <1>3, <2>1, <2>2, <2>3
    DEF WakeStart, SpuriousWakeup, Gathering, Before, After, TypeOK
  <2>4. CASE Body(t)
    BY <2>1, <2>4 DEF Body, Gathering, Before, After
  <2>5. CASE WakeEnd(t) \/ Leave(t)
    <3>1. \A u \in Threads : (Before(u)' <=> Before(u)) /\ (After(u)' <=> After(u))
      BY <2>5 DEF WakeEnd, Leave, Before, After, TypeOK
    <3>2. iteration' = iteration
      BY <2>5 DEF WakeEnd, Leave
    <3> QED BY <1>1, <1>2, <1>3, <2>1, <2>2, <3>1, <3>2 DEF Gathering
  <2>6. CASE Restart(t)
    <3>1. After(t) /\ ~Before(t) /\ Before(t)' /\ ~After(t)'
      BY <2>6 DEF Restart, Before, After, TypeOK
    <3>2. \A u \in Threads \ {t} :
             /\ (Before(u)' <=> Before(u)) /\ (After(u)' <=> After(u))
             /\ iteration'[u] = iteration[u]
      BY <2>6 DEF Restart, Before, After, TypeOK
    <3>3. iteration'[t] = iteration[t] + 1 /\ \A u \in Threads : iteration[u] \in Nat
      BY <2>6 DEF Restart, TypeOK
    <3>4. Gathering'
      BY <1>1, <2>1, <2>2, <3>1, <3>2, <3>3 DEF Gathering
    <3> QED BY <1>1, <1>2, <1>3, <3>4
  <2> QED BY <2>3, <2>4, <2>5, <2>6
<1>4. CASE threads_starting = num_threads
  <2>1. Running
    BY <1>4
  <2>2. phase[t] # "decide"
    BY <2>1 DEF Running
  <2>3. InPhase("endwait")' = InPhase("endwait")
    BY <2>1, <2>2 DEF WakeStart, Body, WakeEnd, Restart, Leave, SpuriousWakeup,
                      InPhase, TypeOK, Running
  <2>4. \A u \in Threads : phase'[u] \in {"startwait", "body", "end", "endwait"}
    BY <2>1, <2>2 DEF WakeStart, Body, WakeEnd, Restart, Leave, SpuriousWakeup,
                      TypeOK, Running
  <2>5. iteration' = iteration
    BY <2>2 DEF WakeStart, Body, WakeEnd, Restart, Leave, SpuriousWakeup
  <2> QED BY <1>1, <1>2, <1>4, <2>1, <2>3, <2>4, <2>5 DEF Running
<1> QED BY <1>3, <1>4 DEF TypeOK

\* Gathering and Running describe the barrier of every behaviour.
THEOREM Inductive == Spec => []IInv
<1>1. Init => IInv
  BY InitIInv
<1>2. IInv /\ [Next]_vars => IInv'
  <2> SUFFICES ASSUME IInv, [Next]_vars PROVE IInv'
    OBVIOUS
  <2>1. ASSUME NEW t \in Threads, Step(t) \/ SpuriousWakeup(t) PROVE IInv'
    BY <2>1, StartStep, EndStep, OtherSteps DEF Step
  <2>2. CASE UNCHANGED vars
    BY <2>2 DEF vars, IInv, TypeOK, Gathering, Running, InPhase, Before, After
  <2> QED BY <2>1, <2>2 DEF Next
<1> QED BY <1>1, <1>2, PTL DEF Spec

\* The counters stay within 0 .. num_threads: no thread is counted twice at
\* a barrier, whatever wakes it.
THEOREM TypeCorrect == Spec => []TypeOK
<1>1. IInv => TypeOK
  BY DEF IInv
<1> QED BY <1>1, Inductive, PTL

\* For any number of threads, stages of different threads never overlap.
THEOREM StagesInLockStep == Spec => []LockStep
<1>1. IInv => LockStep
  <2> SUFFICES ASSUME IInv, NEW t \in Threads, NEW u \in Threads,
                      InStage(t), InStage(u)
               PROVE  iteration[t] = iteration[u]
    BY DEF LockStep
  <2>1. threads_starting = num_threads
    BY NumThreads DEF IInv, TypeOK, Gathering, Before, After, InStage
  <2> QED BY <2>1 DEF IInv, Running
<1> QED BY <1>1, Inductive, PTL

\* For any number of threads, what a thread reads in threads_ending during a
\* stage is the number of threads that have finished that same stage: a
\* stale count of the stage before never cuts a stage short.
THEOREM StonewallIsCurrent == Spec => []EndingIsCurrent
<1>1. IInv => EndingIsCurrent
  <2> SUFFICES ASSUME IInv, NEW t \in Threads, phase[t] = "body"
               PROVE  threads_ending = Cardinality({u \in Threads :
                        phase[u] = "endwait" /\ iteration[u] = iteration[t]})
    BY DEF EndingIsCurrent
  <2>1. threads_starting = num_threads
    BY NumThreads DEF IInv, TypeOK, Gathering, Before, After
  <2>2. Running
    BY <2>1 DEF IInv
  <2>3. InPhase("endwait") =
          {u \in Threads : phase[u] = "endwait" /\ iteration[u] = iteration[t]}
    BY <2>2 DEF Running, InPhase
  <2> QED BY <2>2, <2>3 DEF Running
<1> QED BY <1>1, Inductive, PTL
=============================================================================

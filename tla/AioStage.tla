------------------------------- MODULE AioStage -------------------------------
(***************************************************************************)
(* The stage barrier of the worker threads of aio-stress (worker() in      *)
(* io_integration_test.sh.data/ltp/aio-stress.c).  Every thread goes round *)
(* the loop                                                                *)
(*     start barrier; stage body; end barrier; restart or leave            *)
(* with two counters and one condition variable, stage_cond, that both     *)
(* barriers share.  stage_mutex is held from each pthread_mutex_lock to    *)
(* the matching unlock and is given up only inside pthread_cond_wait, so   *)
(* each critical section is one step and a wait ends with a step of its    *)
(* own.  The stage body (run_active_list and the rest) is one step here;   *)
(* AioStress details it and implements this specification.                 *)
(***************************************************************************)
EXTENDS Naturals, FiniteSets

CONSTANTS
  Threads,      \* the worker threads
  MaxIteration  \* bound on a thread's restarts (four stages at most: 3)

ASSUME AioStageAssumption ==
  /\ IsFiniteSet(Threads)
  /\ Cardinality(Threads) > 1     \* num_threads > 1: else no barrier is run
  /\ MaxIteration \in Nat

num_threads == Cardinality(Threads)

VARIABLES
  phase,             \* where each thread is in the loop
  threads_starting,
  threads_ending,
  sleeping,          \* threads blocked in pthread_cond_wait(&stage_cond)
  iteration          \* restarts of each thread

vars == <<phase, threads_starting, threads_ending, sleeping, iteration>>

Phases == {"start", "startwait", "body", "end", "endwait", "decide", "exit"}

Init ==
  /\ phase = [t \in Threads |-> "start"]
  /\ threads_starting = 0
  /\ threads_ending = 0
  /\ sleeping = {}
  /\ iteration = [t \in Threads |-> 0]

-----------------------------------------------------------------------------
\* Mutant of EnterStart: the last thread in does not reset threads_ending.
EnterStartNoReset(t) ==
  /\ phase[t] = "start"
  /\ threads_starting' = threads_starting + 1
  /\ IF threads_starting + 1 = num_threads
     THEN /\ sleeping' = {}
          /\ phase' = [phase EXCEPT ![t] = "body"]
     ELSE /\ sleeping' = sleeping \cup {t}
          /\ phase' = [phase EXCEPT ![t] = "startwait"]
  /\ UNCHANGED <<threads_ending, iteration>>

\* The first critical section: the last thread in resets threads_ending and
\* wakes the others, which wait until all have arrived.
EnterStart(t) ==
  /\ phase[t] = "start"
  /\ threads_starting' = threads_starting + 1
  /\ IF threads_starting + 1 = num_threads
     THEN /\ threads_ending' = 0
          /\ sleeping' = {}
          /\ phase' = [phase EXCEPT ![t] = "body"]
     ELSE /\ sleeping' = sleeping \cup {t}
          /\ phase' = [phase EXCEPT ![t] = "startwait"]
          /\ UNCHANGED threads_ending
  /\ UNCHANGED iteration

\* pthread_cond_wait returns and the while condition is tested again.
WakeStart(t) ==
  /\ phase[t] = "startwait"
  /\ t \notin sleeping
  /\ IF threads_starting = num_threads
     THEN phase' = [phase EXCEPT ![t] = "body"] /\ UNCHANGED sleeping
     ELSE sleeping' = sleeping \cup {t} /\ UNCHANGED phase
  /\ UNCHANGED <<threads_starting, threads_ending, iteration>>

\* The stage: I/O is sent and awaited, finished operations are restarted.
Body(t) ==
  /\ phase[t] = "body"
  /\ phase' = [phase EXCEPT ![t] = "end"]
  /\ UNCHANGED <<threads_starting, threads_ending, sleeping, iteration>>

\* Mutant of EnterEnd: a thread only takes itself off the count and goes on.
EnterEndNoWait(t) ==
  /\ phase[t] = "end"
  /\ threads_ending' = threads_ending + 1
  /\ threads_starting' = threads_starting - 1
  /\ phase' = [phase EXCEPT ![t] = "decide"]
  /\ UNCHANGED <<sleeping, iteration>>

\* Mutant of EnterEnd: the broadcast is forgotten.
EnterEndNoBroadcast(t) ==
  /\ phase[t] = "end"
  /\ threads_ending' = threads_ending + 1
  /\ IF threads_ending + 1 = num_threads
     THEN /\ threads_starting' = 0
          /\ phase' = [phase EXCEPT ![t] = "decide"]
          /\ UNCHANGED sleeping
     ELSE /\ sleeping' = sleeping \cup {t}
          /\ phase' = [phase EXCEPT ![t] = "endwait"]
          /\ UNCHANGED threads_starting
  /\ UNCHANGED iteration

\* The second critical section: the last thread out resets threads_starting.
EnterEnd(t) ==
  /\ phase[t] = "end"
  /\ threads_ending' = threads_ending + 1
  /\ IF threads_ending + 1 = num_threads
     THEN /\ threads_starting' = 0
          /\ sleeping' = {}
          /\ phase' = [phase EXCEPT ![t] = "decide"]
     ELSE /\ sleeping' = sleeping \cup {t}
          /\ phase' = [phase EXCEPT ![t] = "endwait"]
          /\ UNCHANGED threads_starting
  /\ UNCHANGED iteration

WakeEnd(t) ==
  /\ phase[t] = "endwait"
  /\ t \notin sleeping
  /\ IF threads_ending = num_threads
     THEN phase' = [phase EXCEPT ![t] = "decide"] /\ UNCHANGED sleeping
     ELSE sleeping' = sleeping \cup {t} /\ UNCHANGED phase
  /\ UNCHANGED <<threads_starting, threads_ending, iteration>>

\* A wait may also return without a broadcast.
SpuriousWakeup(t) ==
  /\ t \in sleeping
  /\ sleeping' = sleeping \ {t}
  /\ UNCHANGED <<phase, threads_starting, threads_ending, iteration>>

\* Some operation was restarted: back to the beginning.
Restart(t) ==
  /\ phase[t] = "decide"
  /\ iteration[t] < MaxIteration
  /\ iteration' = [iteration EXCEPT ![t] = @ + 1]
  /\ phase' = [phase EXCEPT ![t] = "start"]
  /\ UNCHANGED <<threads_starting, threads_ending, sleeping>>

\* Nothing left to do: free everything and return.
Leave(t) ==
  /\ phase[t] = "decide"
  /\ phase' = [phase EXCEPT ![t] = "exit"]
  /\ UNCHANGED <<threads_starting, threads_ending, sleeping, iteration>>

Step(t) ==
  \/ EnterStart(t) \/ WakeStart(t) \/ Body(t) \/ EnterEnd(t) \/ WakeEnd(t)
  \/ Restart(t) \/ Leave(t)

Next == \E t \in Threads : Step(t) \/ SpuriousWakeup(t)

Spec == Init /\ [][Next]_vars

\* Every thread is scheduled.
FairSpec == Spec /\ \A t \in Threads : WF_vars(Step(t))

-----------------------------------------------------------------------------
(* Properties *)

\* The barrier counters of worker() count threads; iteration is bounded by Restart.
TypeOK ==
  /\ phase \in [Threads -> Phases]
  /\ threads_starting \in 0 .. num_threads
  /\ threads_ending \in 0 .. num_threads
  /\ sleeping \subseteq Threads
  /\ iteration \in [Threads -> 0 .. MaxIteration]

InStage(t) == phase[t] \in {"body", "end"}

\* Stages do not overlap: while a thread runs the body of a stage, no other
\* thread is in an earlier or a later one.
LockStep ==
  \A t, u \in Threads : InStage(t) /\ InStage(u) => iteration[t] = iteration[u]

\* The stonewall flag (threads_ending read without the lock in the body) is
\* about the current stage: while a thread is in the body, threads_ending
\* counts exactly the threads that have finished this very stage.
EndingIsCurrent ==
  \A t \in Threads : phase[t] = "body" =>
    threads_ending = Cardinality({u \in Threads :
                       phase[u] = "endwait" /\ iteration[u] = iteration[t]})

\* No wake-up is lost although both barriers share stage_cond: every thread
\* waiting at the end barrier gets past it, and so does every thread waiting
\* at the start barrier unless another one has left for good.
BarrierPassed ==
  \A t \in Threads :
    /\ phase[t] = "endwait" ~> phase[t] \in {"decide", "exit"}
    /\ phase[t] = "startwait" ~>
         phase[t] = "body" \/ \E u \in Threads : phase[u] = "exit"
=============================================================================

------------------------- MODULE DoioWatchdogProofs -------------------------
(***************************************************************************)
(* The watchdog of doio counts its children and adds up their statuses     *)
(* rightly for any number of children and any signals.  Besides the count  *)
(* and the sum themselves the argument needs that a signal is pending only *)
(* for a process that lives: otherwise it could end a child for a second   *)
(* time, after it was reaped.                                              *)
(***************************************************************************)
EXTENDS DoioWatchdog, FiniteSetTheorems, TLAPS

Reaped == {c \in Kids : child[c] = "reaped"}
Total == UNION {Bits(end[c]) : c \in Reaped}

\* Where main() is and how many children it has forked.
Phase ==
  /\ parent \in {"fork", "record"} => Nchildren < NumProcs /\ Reaped = {}
  /\ parent \in {"wait", "eintr", "abort"} => Nchildren = NumProcs

\* Nprocs counts the children that are not reaped, ex_stat has the bits of the others.
Counted ==
  /\ Nprocs = Cardinality(Kids \ Reaped)
  /\ ex_stat = Total \/ (parent = "exit" /\ Nchildren < NumProcs)
  /\ parent = "exit" /\ Nchildren = NumProcs => Reaped = Kids /\ ex_stat = Total

\* Signals are pending for living processes only.
PendingLive ==
  /\ \A c \in Kids, s \in Signals : <<c, s>> \in pending => Alive(c)
  /\ \A s \in Signals : <<Parent, s>> \in pending => parent \notin {"exit", "killed"}

IInv == TypeOK /\ Phase /\ Counted /\ PendingLive

-----------------------------------------------------------------------------
(* The children are finitely many, and apart from the watchdog *)

\* There are NumProcs children.
LEMMA KidsFinite == IsFiniteSet(Kids) /\ Cardinality(Kids) = NumProcs
  BY FS_Interval, WatchdogAssumption DEF Kids

\* The watchdog is none of its children.
LEMMA ParentApart == \A c \in Kids : c \in Nat /\ c \in Group /\ c # Parent
  BY WatchdogAssumption DEF Kids, Group, Parent

\* kill() names those processes of the group that live.
LEMMA KillLive ==
  ASSUME NEW S \in SUBSET Group, NEW s \in Signals
  PROVE  /\ Kill(S, s) \subseteq Group \X Signals
         /\ \A c \in Kids, u \in Signals : <<c, u>> \in Kill(S, s) => Alive(c)
         /\ \A u \in Signals : <<Parent, u>> \in Kill(S, s) => parent \notin {"exit", "killed"}
  BY ParentApart DEF Kill

-----------------------------------------------------------------------------
\* At the start no child has been reaped.
LEMMA InitIInv == Init => IInv
<1> SUFFICES ASSUME Init PROVE IInv
  OBVIOUS
<1> USE DEF Init
<1>1. Reaped = {}
  BY DEF Reaped
<1>2. TypeOK
  <2>1. 1 % PPID_CHECK_INTERVAL \in 0 .. PPID_CHECK_INTERVAL - 1
    BY WatchdogAssumption
  <2> QED BY <2>1, WatchdogAssumption DEF TypeOK, Ends, ExitStatuses
<1>3. Phase
  BY <1>1, WatchdogAssumption DEF Phase
<1>4. Kids \ Reaped = Kids /\ Total = {}
  BY <1>1 DEF Total
<1>5. Counted
  BY <1>4, KidsFinite DEF Counted
<1>6. PendingLive
  BY DEF PendingLive
<1> QED BY <1>2, <1>3, <1>5, <1>6 DEF IInv

-----------------------------------------------------------------------------
\* A step that reaps nobody, ends nobody a second time and leaves the watchdog's
\* books alone keeps them right.
LEMMA BooksKept ==
  ASSUME IInv, Reaped' = Reaped, \A c \in Reaped : end'[c] = end[c],
         UNCHANGED <<parent, Nchildren, Nprocs, ex_stat>>
  PROVE  Phase' /\ Counted'
<1>1. Total' = Total
  BY DEF Total
<1>2. Phase'
  BY DEF IInv, Phase
<1>3. Counted'
  BY <1>1 DEF IInv, Counted
<1> QED BY <1>2, <1>3

\* The end of a child that lives.
LEMMA EndOfChild ==
  ASSUME IInv, NEW c \in Kids, NEW e \in Ends, Alive(c), EndsWith(c, e),
         action' = action
  PROVE  IInv'
<1>1. TypeOK'
  BY DEF IInv, TypeOK, EndsWith, parentVars
<1>2. Reaped' = Reaped /\ c \notin Reaped
  BY DEF Reaped, EndsWith, Alive, IInv, TypeOK
<1>3. \A d \in Reaped : end'[d] = end[d]
  BY <1>2 DEF EndsWith, IInv, TypeOK, Reaped
<1>4. Phase' /\ Counted'
  BY <1>2, <1>3, BooksKept DEF EndsWith, parentVars
<1>5. PendingLive'
  BY DEF IInv, TypeOK, PendingLive, EndsWith, Alive, parentVars
<1> QED BY <1>1, <1>4, <1>5 DEF IInv

\* A step that changes the phase of at most one child that is not reaped, to one in
\* which it lives.
LEMMA ChildLives ==
  ASSUME IInv, NEW c \in Kids, NEW ph \in {"born", "start", "run"},
         child[c] # "reaped", child' = [child EXCEPT ![c] = ph]
  PROVE  /\ child' \in [Kids -> {"none", "born", "start", "run", "zombie", "reaped"}]
         /\ Reaped' = Reaped
         /\ \A d \in Kids : Alive(d) => Alive(d)'
  BY DEF IInv, TypeOK, Reaped, Alive

-----------------------------------------------------------------------------
\* The steps of a child.
LEMMA ChildStepIInv ==
  ASSUME IInv, NEW c \in Kids,
         RecordSelf(c) \/ Exec(c) \/ InstallHandlers(c) \/ Request(c) \/ ReadEof(c)
           \/ SetupFails(c) \/ RequestFails(c)
  PROVE  IInv'
<1>0. c \in Group /\ TypeOK /\ PendingLive
  BY ParentApart DEF IInv
<1>1. CASE RecordSelf(c)
  <2>1. /\ child' \in [Kids -> {"none", "born", "start", "run", "zombie", "reaped"}]
        /\ Reaped' = Reaped
        /\ \A d \in Kids : Alive(d) => Alive(d)'
    BY <1>1, ChildLives DEF RecordSelf
  <2>2. TypeOK'
    BY <1>0, <1>1, <2>1 DEF TypeOK, RecordSelf, parentVars
  <2>3. Phase' /\ Counted'
    BY <1>1, <2>1, BooksKept DEF RecordSelf, parentVars
  <2>4. PendingLive'
    BY <1>0, <1>1, <2>1 DEF PendingLive, RecordSelf, parentVars
  <2> QED BY <2>2, <2>3, <2>4 DEF IInv
<1>2. CASE Exec(c)
  <2>1. TypeOK'
    BY <1>0, <1>2 DEF TypeOK, Exec, parentVars, childVars
  <2>2. Reaped' = Reaped /\ PendingLive'
    BY <1>0, <1>2 DEF Reaped, PendingLive, Alive, Exec, childVars, parentVars
  <2>3. Phase' /\ Counted'
    BY <1>2, <2>2, BooksKept DEF Exec, parentVars, childVars
  <2> QED BY <2>1, <2>2, <2>3 DEF IInv
<1>3. CASE InstallHandlers(c)
  <2>1. /\ child' \in [Kids -> {"none", "born", "start", "run", "zombie", "reaped"}]
        /\ Reaped' = Reaped
        /\ \A d \in Kids : Alive(d) => Alive(d)'
    BY <1>3, ChildLives DEF InstallHandlers
  <2>2. TypeOK'
    BY <1>0, <1>3, <2>1 DEF TypeOK, InstallHandlers, parentVars
  <2>3. Phase' /\ Counted'
    BY <1>3, <2>1, BooksKept DEF InstallHandlers, parentVars
  <2>4. PendingLive'
    BY <1>0, <1>3, <2>1 DEF PendingLive, InstallHandlers, parentVars
  <2> QED BY <2>2, <2>3, <2>4 DEF IInv
<1>4. CASE Request(c)
  <2>1. CASE Orphaned(c)
    BY <1>4, <2>1, EndOfChild DEF Request, Alive, Ends, ExitStatuses
  <2>2. CASE ~Orphaned(c)
    <3>1. (Reqno[c] + 1) % PPID_CHECK_INTERVAL \in 0 .. PPID_CHECK_INTERVAL - 1
      BY <1>0, WatchdogAssumption DEF TypeOK
    <3>2. TypeOK'
      BY <1>0, <1>4, <2>2, <3>1 DEF TypeOK, Request, parentVars
    <3>3. Reaped' = Reaped /\ PendingLive'
      BY <1>0, <1>4, <2>2 DEF Reaped, PendingLive, Alive, Request, parentVars
    <3>4. Phase' /\ Counted'
      BY <1>4, <2>2, <3>3, BooksKept DEF Request, parentVars
    <3> QED BY <3>2, <3>3, <3>4 DEF IInv
  <2> QED BY <2>1, <2>2
<1>5. CASE ReadEof(c)
  BY <1>5, EndOfChild DEF ReadEof, Alive, Ends, ExitStatuses
<1>6. CASE SetupFails(c)
  BY <1>6, EndOfChild DEF SetupFails, Alive, Ends, ExitStatuses
<1>7. CASE RequestFails(c)
  <2>1. PICK e \in {"E_SETUP", "E_COMPARE", "E_INTERNAL"} : EndsWith(c, e)
    BY <1>7 DEF RequestFails
  <2> QED BY <1>7, <2>1, EndOfChild DEF RequestFails, Alive, Ends, ExitStatuses
<1> QED BY <1>1, <1>2, <1>3, <1>4, <1>5, <1>6, <1>7

-----------------------------------------------------------------------------
\* The steps of the watchdog in which no child is reaped.
LEMMA ParentStepIInv ==
  ASSUME IInv, Fork \/ RecordChild \/ ForkFails \/ WaitAgain \/ Abort \/ ParentExit
  PROVE  IInv'
<1>0. TypeOK /\ Phase /\ Counted /\ PendingLive
  BY DEF IInv
<1>1. CASE Fork
  <2> DEFINE c == Nchildren + 1
  <2>1. c \in Kids /\ c \in Group /\ Parent \in Group
    BY <1>0, <1>1, WatchdogAssumption DEF TypeOK, Fork, Kids, Group
  <2>2. child[c] # "reaped"
    BY <1>0, <1>1, <2>1 DEF Phase, Reaped, Fork
  <2>3. child' = [child EXCEPT ![c] = "born"] /\ action' = [action EXCEPT ![c] = action[Parent]]
    BY <1>1 DEF Fork
  <2> HIDE DEF c
  <2>4. /\ child' \in [Kids -> {"none", "born", "start", "run", "zombie", "reaped"}]
        /\ Reaped' = Reaped
        /\ \A d \in Kids : Alive(d) => Alive(d)'
    BY <2>1, <2>2, <2>3, ChildLives
  <2>5. TypeOK'
    BY <1>0, <1>1, <2>1, <2>3, <2>4, ZenonT(60) DEF TypeOK, Fork
  <2>6. Total' = Total
    BY <1>1, <2>4 DEF Total, Fork
  <2>7. Phase' /\ Counted'
    BY <1>0, <1>1, <2>4, <2>6 DEF Phase, Counted, Fork
  <2>8. PendingLive'
    BY <1>0, <1>1, <2>4 DEF PendingLive, Fork
  <2> QED BY <2>5, <2>7, <2>8 DEF IInv
<1>2. CASE RecordChild
  <2>1. Reaped' = Reaped /\ Total' = Total /\ PendingLive'
    BY <1>0, <1>2 DEF Reaped, Total, PendingLive, Alive, RecordChild, childVars
  <2>2. Nchildren < NumProcs /\ Nchildren \in Nat /\ NumProcs \in Nat
    BY <1>0, <1>2, WatchdogAssumption DEF Phase, RecordChild, TypeOK
  <2>3. Nchildren' \in 0 .. NumProcs /\ Children' \subseteq 1 .. Nchildren'
    BY <1>0, <1>2, <2>2 DEF RecordChild, TypeOK
  <2>4. TypeOK'
    BY <1>0, <1>2, <2>3 DEF TypeOK, RecordChild, childVars
  <2>5. Phase'
    BY <1>0, <1>2, <2>1, <2>2 DEF Phase, RecordChild
  <2>6. Counted'
    BY <1>0, <1>2, <2>1 DEF Counted, RecordChild
  <2> QED BY <2>1, <2>4, <2>5, <2>6 DEF IInv
<1>3. CASE ForkFails
  <2>1. Reaped' = Reaped /\ Total' = Total /\ PendingLive'
    BY <1>0, <1>3 DEF Reaped, Total, PendingLive, Alive, ForkFails, childVars
  <2>2. Nchildren < NumProcs /\ Nchildren \in Nat /\ NumProcs \in Nat
    BY <1>0, <1>3, WatchdogAssumption DEF Phase, ForkFails, TypeOK
  <2>3. forkfaults' \in 0 .. MaxForkFaults
    BY <1>0, <1>3, WatchdogAssumption DEF TypeOK, ForkFails
  <2>4. TypeOK'
    BY <1>0, <1>3, <2>3 DEF TypeOK, ForkFails, childVars, ExitStatuses
  <2>5. Phase' /\ Counted'
    BY <1>0, <1>3, <2>1, <2>2 DEF Phase, Counted, ForkFails
  <2> QED BY <2>1, <2>4, <2>5 DEF IInv
<1>4. CASE WaitAgain
  <2>1. Reaped' = Reaped /\ Total' = Total /\ PendingLive'
    BY <1>0, <1>4 DEF Reaped, Total, PendingLive, Alive, WaitAgain, childVars
  <2>2. TypeOK'
    BY <1>0, <1>4 DEF TypeOK, WaitAgain, childVars
  <2>3. Phase' /\ Counted'
    BY <1>0, <1>4, <2>1 DEF Phase, Counted, WaitAgain
  <2> QED BY <2>1, <2>2, <2>3 DEF IInv
<1>5. CASE Abort
  <2>1. "SIGINT" \in Signals /\ Group \in SUBSET Group
    BY DEF Signals
  <2>2. pending' \subseteq Group \X Signals
    BY <1>0, <1>5, <2>1, KillLive DEF Abort, TypeOK
  <2>3. Reaped' = Reaped /\ Total' = Total
    BY <1>5 DEF Reaped, Total, Abort, childVars
  <2>4. TypeOK'
    BY <1>0, <1>5, <2>2 DEF TypeOK, Abort, childVars
  <2>5. Phase' /\ Counted'
    BY <1>0, <1>5, <2>3 DEF Phase, Counted, Abort
  <2>6. PendingLive'
    BY <1>0, <1>5, <2>1, KillLive DEF PendingLive, Alive, Abort, childVars
  <2> QED BY <2>4, <2>5, <2>6 DEF IInv
<1>6. CASE ParentExit
  <2>1. Reaped' = Reaped /\ Total' = Total /\ PendingLive'
    BY <1>0, <1>6 DEF Reaped, Total, PendingLive, Alive, ParentExit, childVars
  <2>2. TypeOK'
    BY <1>0, <1>6 DEF TypeOK, ParentExit, childVars
  <2>3. IsFiniteSet(Kids \ Reaped)
    BY KidsFinite, FS_Subset
  <2>4. Reaped = Kids
    <3>1. Cardinality(Kids \ Reaped) = 0
      BY <1>0, <1>6 DEF Counted, ParentExit
    <3>2. Kids \ Reaped = {}
      BY <2>3, <3>1, FS_EmptySet
    <3> QED BY <3>2 DEF Reaped
  <2>5. Phase' /\ Counted'
    BY <1>0, <1>6, <2>1, <2>4 DEF Phase, Counted, ParentExit
  <2> QED BY <2>1, <2>2, <2>5 DEF IInv
<1> QED BY <1>1, <1>2, <1>3, <1>4, <1>5, <1>6

\* Reaping: one child less to wait for, and its bits are added.
LEMMA ReapIInv == ASSUME IInv, Reap PROVE IInv'
<1>0. TypeOK /\ Phase /\ Counted /\ PendingLive
  BY DEF IInv
<1>1. PICK c \in Kids :
        /\ child[c] = "zombie"
        /\ child' = [child EXCEPT ![c] = "reaped"]
        /\ Children' = Children \ {c}
        /\ Nprocs' = Nprocs - 1
        /\ ex_stat' = ex_stat \cup Bits(end[c])
        /\ parent' = IF end[c] = "E_COMPARE" /\ a_opt THEN "abort" ELSE "wait"
  BY DEF Reap
<1>2. /\ parent = "wait" /\ Nprocs > 0 /\ Nchildren = NumProcs
      /\ UNCHANGED <<Nchildren, end, Reqno, action, pending, input, sent, forkfaults>>
  BY <1>0 DEF Reap, Phase
<1>3. Reaped' = Reaped \cup {c} /\ c \notin Reaped
  BY <1>0, <1>1 DEF Reaped, TypeOK
<1>4. end[c] \in Ends
  BY <1>0 DEF TypeOK
<1>5. Bits(end[c]) \subseteq (ExitStatuses \cup {"E_SIGNAL"}) \ {"E_NORMAL"}
  BY <1>4 DEF Bits, Ends, Signals, ExitStatuses
<1>6. TypeOK'
  <2>1. Nprocs' \in 0 .. NumProcs
    BY <1>0, <1>1, <1>2, WatchdogAssumption DEF TypeOK
  <2>2. child' \in [Kids -> {"none", "born", "start", "run", "zombie", "reaped"}]
    BY <1>0, <1>1 DEF TypeOK
  <2>3. ex_stat' \subseteq (ExitStatuses \cup {"E_SIGNAL"}) \ {"E_NORMAL"}
    BY <1>0, <1>1, <1>5 DEF TypeOK
  <2> QED BY <1>0, <1>1, <1>2, <2>1, <2>2, <2>3 DEF TypeOK
<1>7. Total' = Total \cup Bits(end[c])
  BY <1>2, <1>3 DEF Total
<1>8. Nprocs' = Cardinality(Kids \ Reaped')
  <2>1. IsFiniteSet(Kids \ Reaped)
    BY KidsFinite, FS_Subset
  <2>2. Kids \ Reaped' = (Kids \ Reaped) \ {c} /\ c \in Kids \ Reaped
    BY <1>3
  <2>3. Cardinality((Kids \ Reaped) \ {c}) = Cardinality(Kids \ Reaped) - 1
    BY <2>1, <2>2, FS_RemoveElement
  <2> QED BY <1>0, <1>1, <2>2, <2>3 DEF Counted
<1>9. parent' \in {"abort", "wait"}
  BY <1>1
<1>10. Kids' = Kids
  BY DEF Kids
<1>11. Counted'
  <2>1. ex_stat = Total
    BY <1>0, <1>2 DEF Counted
  <2>2. ex_stat' = Total'
    BY <1>1, <1>7, <2>1
  <2> QED BY <1>8, <1>9, <1>10, <2>2 DEF Counted
<1>12. Phase'
  BY <1>2, <1>9 DEF Phase
<1>13. PendingLive'
  BY <1>0, <1>1, <1>2 DEF PendingLive, Alive, TypeOK
<1> QED BY <1>6, <1>11, <1>12, <1>13 DEF IInv

-----------------------------------------------------------------------------
\* The delivery of a signal.
LEMMA DeliverIInv == ASSUME IInv, NEW x \in Group, Deliver(x) PROVE IInv'
<1>0. TypeOK /\ Phase /\ Counted /\ PendingLive
  BY DEF IInv
<1>1. PICK s \in Signals : /\ <<x, s>> \in pending
                           /\ SigintHandler(x, s) \/ ChildEnds(x, s) \/ ParentKilled(x, s)
  BY DEF Deliver
<1>2. CASE SigintHandler(x, s)
  <2>1. "SIGINT" \in Signals /\ Targets(x) \in SUBSET Group
    <3>1. 1 .. x - 1 \subseteq Kids
      BY WatchdogAssumption DEF Group, Kids, Parent
    <3>2. Children \subseteq Kids
      BY <1>0, WatchdogAssumption DEF TypeOK, Kids
    <3> QED BY <3>1, <3>2 DEF Targets, Group, Signals
  <2>2. pending' \subseteq Group \X Signals
    BY <1>0, <1>2, <2>1, KillLive DEF SigintHandler, TypeOK
  <2>3. Reaped' = Reaped /\ Total' = Total
    BY <1>2 DEF Reaped, Total, SigintHandler, childVars
  <2>4. TypeOK'
    BY <1>0, <1>2, <2>2 DEF TypeOK, SigintHandler, childVars
  <2>5. Phase' /\ Counted'
    BY <1>0, <1>2, <2>3 DEF Phase, Counted, SigintHandler
  <2>6. PendingLive'
    BY <1>0, <1>2, <2>1, KillLive DEF PendingLive, Alive, SigintHandler, childVars
  <2> QED BY <2>4, <2>5, <2>6 DEF IInv
<1>3. CASE ChildEnds(x, s)
  <2>1. x \in Kids /\ Alive(x)
    BY <1>0, <1>1, <1>3 DEF ChildEnds, PendingLive
  <2> DEFINE e == IF action[x][s] = "cleanup_handler" THEN "E_NORMAL"
                  ELSE IF action[x][s] = "die_handler" THEN "E_USAGE" ELSE s
  <2>2. EndsWith(x, e) /\ action' = action
    BY <1>3 DEF ChildEnds
  <2>3. e \in Ends
    BY DEF Ends, ExitStatuses
  <2> HIDE DEF e
  <2> QED BY <2>1, <2>2, <2>3, EndOfChild
<1>4. CASE ParentKilled(x, s)
  <2>1. Reaped' = Reaped /\ Total' = Total /\ PendingLive'
    BY <1>0, <1>4 DEF Reaped, Total, PendingLive, Alive, ParentKilled, childVars
  <2>2. TypeOK'
    BY <1>0, <1>4 DEF TypeOK, ParentKilled, childVars
  <2>3. parent # "exit"
    BY <1>0, <1>1, <1>4 DEF PendingLive, ParentKilled
  <2>4. Phase' /\ Counted'
    BY <1>0, <1>4, <2>1, <2>3 DEF Phase, Counted, ParentKilled
  <2> QED BY <2>1, <2>2, <2>4 DEF IInv
<1> QED BY <1>1, <1>2, <1>3, <1>4

\* Signals from outside, and the end of the requests.
LEMMA WorldIInv == ASSUME IInv, SendSignal \/ EndOfInput PROVE IInv'
<1>0. TypeOK /\ Phase /\ Counted /\ PendingLive
  BY DEF IInv
<1>1. Reaped' = Reaped /\ end' = end
  BY DEF Reaped, SendSignal, EndOfInput, childVars
<1>2. Phase' /\ Counted'
  BY <1>1, BooksKept DEF SendSignal, EndOfInput, parentVars, childVars
<1>3. CASE SendSignal
  <2>1. PICK S \in SUBSET Group, s \in Signals : pending' = pending \cup Kill(S, s)
    BY <1>3 DEF SendSignal, Signals
  <2>2. sent' \in 0 .. MaxSignals
    BY <1>0, <1>3, WatchdogAssumption DEF SendSignal, TypeOK
  <2>3. pending' \subseteq Group \X Signals
    BY <1>0, <2>1, KillLive DEF TypeOK
  <2>4. TypeOK'
    BY <1>0, <1>3, <2>2, <2>3 DEF TypeOK, SendSignal, parentVars, childVars
  <2>5. PendingLive'
    BY <1>0, <1>3, <2>1, KillLive DEF PendingLive, Alive, SendSignal, childVars, parentVars
  <2> QED BY <1>2, <2>4, <2>5 DEF IInv
<1>4. CASE EndOfInput
  <2>1. TypeOK'
    BY <1>0, <1>4 DEF TypeOK, EndOfInput, parentVars, childVars
  <2>2. PendingLive'
    BY <1>0, <1>4 DEF PendingLive, Alive, EndOfInput, childVars, parentVars
  <2> QED BY <1>2, <2>1, <2>2 DEF IInv
<1> QED BY <1>3, <1>4

\* A step that changes nothing.
LEMMA StutterIInv == ASSUME IInv, UNCHANGED vars PROVE IInv'
<1>1. TypeOK'
  BY DEF IInv, TypeOK, vars, parentVars, childVars
<1>2. Reaped' = Reaped /\ end' = end /\ PendingLive'
  BY DEF IInv, Reaped, PendingLive, Alive, vars, childVars, parentVars
<1>3. Phase' /\ Counted'
  BY <1>2, BooksKept DEF vars, parentVars
<1> QED BY <1>1, <1>2, <1>3 DEF IInv

\* Every step keeps the invariant.
LEMMA NextIInv == IInv /\ [Next]_vars => IInv'
<1> SUFFICES ASSUME IInv, [Next]_vars PROVE IInv'
  OBVIOUS
<1>1. \A x \in Kids \cup {Parent} : x \in Group
  BY DEF Group
<1>2. CASE ParentStep
  BY <1>1, <1>2, ParentStepIInv, ReapIInv, DeliverIInv DEF ParentStep
<1>3. ASSUME NEW c \in Kids, ChildStep(c) \/ SetupFails(c) \/ RequestFails(c)
      PROVE  IInv'
  BY <1>1, <1>3, ChildStepIInv, DeliverIInv DEF ChildStep
<1>4. CASE ForkFails
  BY <1>4, ParentStepIInv
<1>5. CASE SendSignal \/ EndOfInput
  BY <1>5, WorldIInv
<1>6. CASE UNCHANGED vars
  BY <1>6, StutterIInv
<1> QED BY <1>2, <1>3, <1>4, <1>5, <1>6 DEF Next

-----------------------------------------------------------------------------
\* The watchdog's variables keep their types: of main()'s counters above all
\* Nprocs, which never falls below zero.
THEOREM TypeCorrect == Spec => []TypeOK
<1>1. IInv => TypeOK
  BY DEF IInv
<1> QED BY <1>1, InitIInv, NextIInv, PTL DEF Spec

\* main() leaves its loop only when every child has been waited for, and exits with
\* the bits of all of them and no others, for any number of children, whatever
\* signals come and whenever.
THEOREM StatusCorrect == Spec => []StatusExact
<1>1. IInv => StatusExact
  <2> SUFFICES ASSUME IInv, parent = "exit", Nchildren = NumProcs
               PROVE  /\ \A c \in Kids : child[c] = "reaped"
                      /\ ex_stat = UNION {Bits(end[c]) : c \in Kids}
    BY DEF StatusExact
  <2>1. Reaped = Kids /\ ex_stat = Total
    BY DEF IInv, Counted
  <2>2. \A c \in Kids : child[c] = "reaped"
    BY <2>1 DEF Reaped
  <2>3. ex_stat = UNION {Bits(end[c]) : c \in Kids}
    BY <2>1 DEF Total
  <2> QED BY <2>2, <2>3
<1> QED BY <1>1, InitIInv, NextIInv, PTL DEF Spec
=============================================================================

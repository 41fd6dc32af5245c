---------------------------- MODULE DoioWatchdog ----------------------------
(***************************************************************************)
(* The watchdog of doio (doio.c, main()): it forks the children, reaps     *)
(* them and collects their exit statuses, passes signals on to them, and   *)
(* with -a interrupts the whole process group after a compare error.  What *)
(* the children do with their requests is module Doio; here a request is   *)
(* one step, and the signals that meet a process are the subject.          *)
(*                                                                         *)
(* The handlers of the watchdog are installed with SA_RESETHAND before the *)
(* forks, so that a child has them until doio() installs its own.          *)
(***************************************************************************)
EXTENDS Naturals, FiniteSets

CONSTANTS
  NumProcs,            \* -n
  PPID_CHECK_INTERVAL,
  a_opt, e_opt,
  MaxSignals,          \* bound on the signals sent from outside
  MaxForkFaults        \* bound on failing forks

ASSUME WatchdogAssumption ==
  /\ NumProcs \in Nat \ {0, 1}    \* a single process is its own doio()
  /\ PPID_CHECK_INTERVAL \in Nat \ {0}
  /\ a_opt \in BOOLEAN /\ e_opt \in BOOLEAN
  /\ MaxSignals \in Nat /\ MaxForkFaults \in Nat

Kids == 1 .. NumProcs        \* in the order of their forks
Parent == 0
Group == Kids \cup {Parent}  \* the process group (without iogen)

\* SIGTERM stands for the signals that die_handler() takes in a child.
Signals == {"SIGINT", "SIGTERM"}

\* How a child has ended: exit status, or the signal that killed it.  die_handler()
\* exits with 1, which is E_USAGE.
ExitStatuses == {"E_NORMAL", "E_SETUP", "E_COMPARE", "E_INTERNAL", "E_USAGE"}
Ends == ExitStatuses \cup Signals

VARIABLES
  parent,    \* where main() is
  Nchildren,
  Children,  \* the entries of Children[] that are not -1
  Nprocs,    \* children still to be reaped
  ex_stat,   \* the bits of the exit status
  child,     \* phase of each child
  end,       \* how it ended
  Reqno,     \* requests modulo PPID_CHECK_INTERVAL
  action,    \* what each process does with each signal
  pending,   \* signals sent and not yet delivered
  input,     \* FALSE at the end of the requests
  sent, forkfaults

childVars == <<child, end, Reqno>>
parentVars == <<parent, Nchildren, Children, Nprocs, ex_stat>>
vars == <<parentVars, childVars, action, pending, input, sent, forkfaults>>

Alive(c) == child[c] \in {"born", "start", "run"}

Init ==
  /\ parent = "fork" /\ Nchildren = 0 /\ Children = {} /\ Nprocs = NumProcs /\ ex_stat = {}
  /\ child = [c \in Kids |-> "none"]
  /\ end = [c \in Kids |-> "E_NORMAL"]
  /\ Reqno = [c \in Kids |-> 1 % PPID_CHECK_INTERVAL]
  /\ action = [x \in Group |-> [s \in Signals |-> "sigint_handler"]]
  /\ pending = {}
  /\ input = TRUE
  /\ sent = 0 /\ forkfaults = 0

\* kill(): nothing happens to a process that has ended.
Kill(S, s) == {x \in S : IF x = Parent THEN parent \notin {"exit", "killed"}
                         ELSE Alive(x)} \X {s}

-----------------------------------------------------------------------------
(* The children *)

\* The child's own Children[] has a 0 in the place of its pid.
RecordSelf(c) ==
  /\ child[c] = "born"
  /\ child' = [child EXCEPT ![c] = "start"]
  /\ UNCHANGED <<parentVars, end, Reqno, action, pending, input, sent, forkfaults>>

\* -e: the handlers are gone after execvp().
Exec(c) ==
  /\ e_opt
  /\ child[c] = "start" /\ action[c] # [s \in Signals |-> "default"]
  /\ action' = [action EXCEPT ![c] = [s \in Signals |-> "default"]]
  /\ UNCHANGED <<parentVars, childVars, pending, input, sent, forkfaults>>

\* The beginning of doio().
InstallHandlers(c) ==
  /\ child[c] = "start"
  /\ e_opt => action[c] = [s \in Signals |-> "default"]
  /\ action' = [action EXCEPT ![c] =
       [s \in Signals |-> IF s = "SIGINT" THEN "cleanup_handler" ELSE "die_handler"]]
  /\ child' = [child EXCEPT ![c] = "run"]
  /\ UNCHANGED <<parentVars, end, Reqno, pending, input, sent, forkfaults>>

\* exit() or death: what was pending is gone.
EndsWith(c, e) ==
  /\ child' = [child EXCEPT ![c] = "zombie"]
  /\ end' = [end EXCEPT ![c] = e]
  /\ pending' = {x \in pending : x[1] # c}
  /\ UNCHANGED <<parentVars, Reqno, input, sent, forkfaults>>

SetupFails(c) ==
  /\ child[c] = "start"
  /\ EndsWith(c, "E_SETUP")
  /\ UNCHANGED action

\* Mutant of Orphaned: the check is never made.
OrphanedNever(c) == FALSE

\* Every PPID_CHECK_INTERVAL requests: getppid() == 1.
Orphaned(c) == Reqno[c] = 0 /\ parent \in {"exit", "killed"}

Request(c) ==
  /\ child[c] = "run" /\ input
  /\ IF Orphaned(c)
     THEN EndsWith(c, "E_SETUP") /\ UNCHANGED action
     ELSE /\ Reqno' = [Reqno EXCEPT ![c] = (@ + 1) % PPID_CHECK_INTERVAL]
          /\ UNCHANGED <<parentVars, child, end, action, pending, input, sent, forkfaults>>

RequestFails(c) ==
  /\ child[c] = "run" /\ input
  /\ \E e \in {"E_SETUP", "E_COMPARE", "E_INTERNAL"} : EndsWith(c, e)
  /\ UNCHANGED action

ReadEof(c) ==
  /\ child[c] = "run" /\ ~input
  /\ EndsWith(c, "E_NORMAL")
  /\ UNCHANGED action

-----------------------------------------------------------------------------
(* The watchdog *)

Fork ==
  /\ parent = "fork" /\ Nchildren < NumProcs
  /\ LET c == Nchildren + 1 IN
       /\ child' = [child EXCEPT ![c] = "born"]
       /\ action' = [action EXCEPT ![c] = action[Parent]]
  /\ parent' = "record"
  /\ UNCHANGED <<Nchildren, Children, Nprocs, ex_stat, end, Reqno, pending, input, sent,
                 forkfaults>>

RecordChild ==
  /\ parent = "record"
  /\ Nchildren' = Nchildren + 1
  /\ Children' = Children \cup {Nchildren'}
  /\ parent' = IF Nchildren' = NumProcs THEN "wait" ELSE "fork"
  /\ UNCHANGED <<Nprocs, ex_stat, childVars, action, pending, input, sent, forkfaults>>

ForkFails ==
  /\ parent = "fork" /\ forkfaults < MaxForkFaults
  /\ forkfaults' = forkfaults + 1
  /\ parent' = "exit"
  /\ ex_stat' = {"E_SETUP"}
  /\ pending' = {x \in pending : x[1] # Parent}
  /\ UNCHANGED <<Nchildren, Children, Nprocs, childVars, action, input, sent>>

\* What the status of a child adds to ex_stat; a death by SIGINT adds nothing.
Bits(e) ==
  IF e \in {"E_NORMAL", "SIGINT"} THEN {}
  ELSE IF e = "SIGTERM" THEN {"E_SIGNAL"} ELSE {e}

Reap ==
  /\ parent = "wait" /\ Nprocs > 0
  /\ \E c \in Kids :
       /\ child[c] = "zombie"
       /\ child' = [child EXCEPT ![c] = "reaped"]
       /\ Children' = Children \ {c}
       /\ Nprocs' = Nprocs - 1
       /\ ex_stat' = ex_stat \cup Bits(end[c])
       /\ parent' = IF end[c] = "E_COMPARE" /\ a_opt THEN "abort" ELSE "wait"
  /\ UNCHANGED <<Nchildren, end, Reqno, action, pending, input, sent, forkfaults>>

\* Mutant of WaitAgain: an interrupted wait() counts as a child.
WaitAgainCounts ==
  /\ parent = "eintr"
  /\ parent' = "wait"
  /\ Nprocs' = Nprocs - 1
  /\ UNCHANGED <<Nchildren, Children, ex_stat, childVars, action, pending, input, sent,
                 forkfaults>>

\* EINTR.
WaitAgain ==
  /\ parent = "eintr"
  /\ parent' = "wait"
  /\ UNCHANGED <<Nchildren, Children, Nprocs, ex_stat, childVars, action, pending, input,
                 sent, forkfaults>>

\* kill(0, SIGINT): the watchdog itself is in the group.
Abort ==
  /\ parent = "abort"
  /\ pending' = pending \cup Kill(Group, "SIGINT")
  /\ parent' = "wait"
  /\ UNCHANGED <<Nchildren, Children, Nprocs, ex_stat, childVars, action, input, sent,
                 forkfaults>>

ParentExit ==
  /\ parent = "wait" /\ Nprocs = 0
  /\ parent' = "exit"
  /\ pending' = {x \in pending : x[1] # Parent}
  /\ UNCHANGED <<Nchildren, Children, Nprocs, ex_stat, childVars, action, input, sent,
                 forkfaults>>

-----------------------------------------------------------------------------
(* Signals *)

\* sigint_handler(): SIGINT for the entries of the process's own Children[]; in a
\* child these are its elder siblings and, once it has recorded itself, the 0 that
\* stands for the whole group.
Targets(x) == IF x = Parent THEN Children
              ELSE IF child[x] = "start" THEN Group ELSE 1 .. x - 1

\* Mutant of SigintHandler: the signal goes to the process itself only.
SigintHandlerSilent(x, s) ==
  /\ action[x][s] = "sigint_handler"
  /\ action' = [action EXCEPT ![x] = [@ EXCEPT ![s] = "default"]]
  /\ pending' = pending \ {<<x, s>>}
  /\ parent' = IF x = Parent /\ parent = "wait" /\ Nprocs > 0 THEN "eintr" ELSE parent
  /\ UNCHANGED <<Nchildren, Children, Nprocs, ex_stat, childVars, input, sent, forkfaults>>

SigintHandler(x, s) ==
  /\ action[x][s] = "sigint_handler"
  /\ action' = [action EXCEPT ![x] = [@ EXCEPT ![s] = "default"]]
  /\ pending' = (pending \ {<<x, s>>}) \cup Kill(Targets(x), "SIGINT")
  /\ parent' = IF x = Parent /\ parent = "wait" /\ Nprocs > 0 THEN "eintr" ELSE parent
  /\ UNCHANGED <<Nchildren, Children, Nprocs, ex_stat, childVars, input, sent, forkfaults>>

\* cleanup_handler() and die_handler() in a child, and the default action.
ChildEnds(c, s) ==
  /\ c \in Kids /\ action[c][s] # "sigint_handler"
  /\ EndsWith(c, IF action[c][s] = "cleanup_handler" THEN "E_NORMAL"
                 ELSE IF action[c][s] = "die_handler" THEN "E_USAGE" ELSE s)
  /\ UNCHANGED action

ParentKilled(x, s) ==
  /\ x = Parent /\ action[Parent][s] = "default"
  /\ parent' = "killed"
  /\ pending' = {y \in pending : y[1] # Parent}
  /\ UNCHANGED <<Nchildren, Children, Nprocs, ex_stat, childVars, action, input, sent,
                 forkfaults>>

Deliver(x) ==
  \E s \in Signals :
    /\ <<x, s>> \in pending
    /\ SigintHandler(x, s) \/ ChildEnds(x, s) \/ ParentKilled(x, s)

-----------------------------------------------------------------------------
(* The rest of the world *)

\* The interrupt key reaches the group, kill(1) one process.
SendSignal ==
  /\ sent < MaxSignals
  /\ sent' = sent + 1
  /\ \/ pending' = pending \cup Kill(Group, "SIGINT")
     \/ \E x \in Group, s \in Signals : pending' = pending \cup Kill({x}, s)
  /\ UNCHANGED <<parentVars, childVars, action, input, forkfaults>>

\* iogen ends.
EndOfInput ==
  /\ input
  /\ input' = FALSE
  /\ UNCHANGED <<parentVars, childVars, action, pending, sent, forkfaults>>

ChildStep(c) ==
  \/ RecordSelf(c) \/ Exec(c) \/ InstallHandlers(c) \/ Request(c) \/ ReadEof(c)
  \/ Deliver(c)

ParentStep ==
  \/ Fork \/ RecordChild \/ Reap \/ WaitAgain \/ Abort \/ ParentExit \/ Deliver(Parent)

AllEnded == parent \in {"exit", "killed"} /\ \A c \in Kids : ~Alive(c)

Next ==
  \/ ParentStep
  \/ \E c \in Kids : ChildStep(c) \/ SetupFails(c) \/ RequestFails(c)
  \/ ForkFails
  \/ SendSignal \/ EndOfInput
  \/ AllEnded /\ UNCHANGED vars

Spec == Init /\ [][Next]_vars

\* Every process is scheduled and every signal sent is delivered; the requests need
\* never end.
FairSpec ==
  /\ Spec
  /\ WF_vars(ParentStep)
  /\ \A c \in Kids : WF_vars(ChildStep(c))
  /\ \A x \in Group : WF_vars(Deliver(x))

-----------------------------------------------------------------------------
(* Properties *)

\* The watchdog's books: Children[] names forked children only, Nprocs never runs below
\* zero, and the exit status has none but the bits of doio.h.
TypeOK ==
  /\ parent \in {"fork", "record", "wait", "eintr", "abort", "exit", "killed"}
  /\ Nchildren \in 0 .. NumProcs
  /\ Children \subseteq 1 .. Nchildren
  /\ Nprocs \in 0 .. NumProcs
  /\ ex_stat \subseteq (ExitStatuses \cup {"E_SIGNAL"}) \ {"E_NORMAL"}
  /\ child \in [Kids -> {"none", "born", "start", "run", "zombie", "reaped"}]
  /\ end \in [Kids -> Ends]
  /\ Reqno \in [Kids -> 0 .. PPID_CHECK_INTERVAL - 1]
  /\ action \in [Group -> [Signals -> {"sigint_handler", "default", "cleanup_handler",
                                      "die_handler"}]]
  /\ pending \subseteq Group \X Signals
  /\ input \in BOOLEAN
  /\ sent \in 0 .. MaxSignals /\ forkfaults \in 0 .. MaxForkFaults

\* The watchdog leaves its loop only when every child has been waited for, and its
\* exit status then has the errors of all of them and nothing else, whatever
\* signals interrupted wait() and whoever ended when.
StatusExact ==
  parent = "exit" /\ Nchildren = NumProcs =>
    /\ \A c \in Kids : child[c] = "reaped"
    /\ ex_stat = UNION {Bits(end[c]) : c \in Kids}

\* "It simply sends a SIGINT to all of the doio children": a signal to the watchdog
\* alone, at any moment of its life, ends every child that it has recorded and that
\* runs, though the requests may never end.
PassedOn ==
  \A c \in Kids, s \in Signals :
    (/\ <<Parent, s>> \in pending /\ action[Parent][s] = "sigint_handler"
     /\ c \in Children /\ child[c] = "run") ~> ~Alive(c)

\* "to make sure that all child procs get cleaned up": the watchdog's end, by exit
\* or by a signal, is the end of the children; and when it stops the run after a
\* compare error (-a), every child that runs ends, even if the requests never do.
CleanedUp ==
  /\ parent \in {"exit", "killed"} ~> \A c \in Kids : ~Alive(c)
  /\ \A c \in Kids : (parent = "abort" /\ child[c] = "run") ~> ~Alive(c)

\* "sigint is ignored after the first time": no interrupt kills the watchdog.
SigintIgnored == parent # "killed"
=============================================================================

# TLA+ specifications of the Longan kernel stress tests

Longan is a collection of stress tests for a Linux kernel: a driver
(`runall.sh`), avocado wrappers, shell scripts that set up disks, containers and
control groups, and the C programs that put the load on the kernel. The scripts
are sequences of commands. The logic that can be wrong in ways nobody sees is in
the C programs: a stress test that reports a failure of its own making, or that
hangs, or that misses a failure, is worse than none. These specifications are
about seven of them: `hackbench`, `aio-stress`, `fsx`, `iogen` with `doio`,
`growfiles` and `fsstress`.

Paths below are relative to the repository;
`ltp/` stands for `testcases/stress_test/io_integration_test/io_integration_test.sh.data/ltp/`.

## Inventory

| Part | State it keeps | Operations | What makes it correct | Here |
|---|---|---|---|---|
| `hackbench.c` | pipes, worker table, counters of each worker | fork or thread creation, ready/GO barrier, send, receive, reap | nobody starts before GO, packets add up, the run ends | `Hackbench` |
| `ltp/aio-stress.c` | per thread: active/finished lists, io units, iocbs; shared: two barrier counters and one condition variable | build, submit, reap, stage change, barriers, stonewall | units and pending counters exact, stages in lock-step, all stages run | `AioStage`, `AioStress` |
| `ltp/fsx.c` | the file, `good_buf`, `file_size`, ring of operations | one random operation per call of `test()`, checks, dump, replay | the copy is exact, no false alarm, corruption found, the dump is true | `Fsx`, `FsxLog` |
| `ltp/doio.c`, children | descriptor cache, record locks, write log | take a request, open, lock, log, write, verify, unlock | no false alarm, the lock is kept, the log explains the file | `Doio` |
| `ltp/doio.c`, watchdog | `Children[]`, `Nprocs`, `ex_stat`, signal actions | fork, wait, abort, pass a signal on | exact status, children cleaned up | `DoioWatchdog` |
| `ltp/iogen.c` | file table, last offset and length of each file | form one request | requests inside the file, aligned, overlapping when asked to, one at last | `Iogen`, with `Doio` in `DoioPipe` |
| `ltp/growfiles.c` | per copy: offset and size of the last write, counters, errors; shared: the files and their locks | open, lock, grow, check the write, check the file, truncate, unlink, signal the others | no copy reports what another one wrote, corruption is reported, the bytes add up, all end | `Growfiles` |
| `ltp/fsstress.c` | lists of known files (`flist`), cache of directory slots (`dcache`), working directory | some forty operations that add, rename, exchange, link, remove, or use a name | lists, cache and counters agree with the tree | `Fsstress` |
| `runall.sh` | summary file | run each test, read its verdict | the verdict is that of the test | planned |
| scheduler, network and cgroup scripts, avocado wrappers, installation | none of their own | commands in sequence | – | not modelled |

How the parts interact: `io_integration_test.sh` runs the programs of `ltp/` on
mounted disks and looks only at their end. `iogen` writes requests of fixed size
into a pipe from which the children of `doio` read them; the children share test
files, the write log and the process group with their watchdog. The workers of
`hackbench` share pipes with each other and two pipes with `main()`. The threads
of `aio-stress` share `stage_mutex`, one condition variable, two counters and the
files. The copies of `growfiles` share files, file locks and, with `-y`, signals. The
processes of `fsstress` have a directory each and share nothing but the file system.

What is hard here: the order of signals, forks and exits; barriers whose counters
are reset for each other; POSIX locks that a close of another descriptor drops;
kernel queues that take only part of a batch; stale bytes behind the end of a
buffer; loops whose end depends on there being room; offsets and sizes that are asked
for before a lock and used under it; lists that describe a tree nobody reads, and a
cache of places in lists whose entries move. The list, with the line where
each bites and the properties that would catch it, is in `PROJECT.json`
("hazards").

## Modules

* `Hackbench` – the whole of `hackbench.c` but time measurement. One action per
  system call or loop round: `CreateWorker`, `TellReady`, `WaitForGo`,
  `SenderWrite` (part of a packet, as the pipe has room), `ReceiverRead`,
  `ReadReady`, `KickOff`, `ReapWorker`; failing creations, workers that `barf()`,
  killed workers. Processes and threads differ in who holds descriptors, in the
  order of reaping and in what a failure does to the others.
* `AioStage` – the barrier protocol of `worker()` alone: the abstract
  specification. A thread counts itself in under `stage_mutex`, the last one
  resets the other counter and broadcasts, the others wait on the one condition
  variable, with spurious wake-ups; the body of a stage is one step.
* `AioStress` – the threads in full: the options fitted to each other, operations
  dealt out to threads, `run_active_list()`, `build_oper()`, `io_submit` of a
  batch and of part of it, events in any order, errors, `restart_next_oper`,
  the stonewall, `-I`. The operations of a turn go back to the lists one per step.
  Offsets are counted in records. It is shown to implement
  `AioStage` (`ImplementsStage`; the phase of a thread is a function of its place
  in the code).
* `Fsx` – one call of `test()` is one step: the choice of operation, offset and
  length (`random()` is a choice), alignment, early returns, the change of
  `good_buf` and of the file, the checks. The file system is external: it does
  what the system calls promise, or corrupts once, for the property that fsx finds
  it. `random()` is bounded (`RAND_MAX`), and `file_size - 1` of an empty file is the largest
  unsigned number (`Unsigned`), as in `do_collapse_range()`'s trimming.
* `FsxLog` – the ring of logged operations, its dump and its replay. An operation
  is its number and the number of its arguments. `testcalls` is `logcount` there: in the
  first run each call logs one entry, and in a replay it decides nothing.
* `Doio` – the children's loop. Descriptors have an age (the request that used
  them last); the one used longest ago is closed at the limit, and a close drops
  the locks of the process on that file. `disk` holds for every byte who wrote it
  last and with which pattern.
* `DoioWatchdog` – `main()` of doio and the life of its children as far as
  signals see it: born, recorded, executed again (`-e`), handlers installed,
  ended, reaped. A pending signal is a pair of process and signal.
* `Iogen` – `form_iorequest()` as the set of the requests it may form from the last
  one on the file, for the three modes, with `-o` or without; the strides of a list
  request; the place before the first request. `random_range()` is a choice.
* `DoioPipe` – `Iogen` in front of `Doio`, as `rwtest.sh` puts them: what `Doio` assumes of
  requests holds for all that `iogen` forms (`PipeFits`).
* `Growfiles` – `num_procs` copies that visit files. One action is one system call
  of a copy with what it computes from the result; a lock is taken in the action of
  the call it precedes and given back in that of the last call under it. A byte is
  where its pattern comes from: who made it and for which offset. Failing calls, short
  writes, a wrong byte (which remembers the copy that wrote it) and a full file system are
  in the actions of the calls they hit; another copy's SIGUSR2 (`-y`) and a SIGINT or
  SIGTERM from outside end a copy before any of its calls (`sig_handler`).
* `Fsstress` – one process. Each operation is one action: choose entries, build the
  paths through the cache, make the call, which may always fail, correct the lists.
  Beside the lists the module has the tree the kernel has. A path that is too long is
  walked down with `chdir()` and left with `".."` in the tree as it is after the call.
  Operations that touch no name differ only in the types of files they take: what they do to
  the lists is to look parents up.
* `MCFsx`, `MCDoio`, `MCGrowfiles` – constants that a configuration cannot hold (the
  random buffer; the requests; the combinations of options). The requests of the run
  `doio` are among those that `iogen` forms (`RequestsOfIogen`).
* `HackbenchProofs`, `AioStageProofs`, `AioStressProofs`, `FsxProofs` (about `Fsx` and
  `FsxLog`), `DoioProofs`, `DoioWatchdogProofs`, `GrowfilesProofs`, `FsstressProofs` –
  theorems.

An operator whose comment says "Mutant of X" is not part of a specification: it is
X with a plausible mistake, kept beside it so that each property can be seen to
fail when the code has that mistake (`PROJECT.json`, "mutants"). The map from
definitions to source lines is in `PROJECT.json`, too.

## Runs

| Run | Instance | Properties |
|---|---|---|
| `hackbench` | one group, two senders, two receivers, processes and threads, pipes of three bytes and packets of two, one failure | `GoAfterAllReady`, `AllDelivered`, `FdsBounded`, `Termination`, `KilledIsReported` |
| `aio_stage` | three threads, two restarts | `LockStep`, `EndingIsCurrent`, `BarrierPassed` |
| `aio_threads` | two threads, two contexts of one file of three records, with and without stonewall | `AllDone` (every stage of every operation, with its total), `StonewallFair`, `ImplementsStage`, `Termination` |
| `aio_units` | one thread, two operations of three records, four units, a kernel queue of three, one fault, `-I 2` or none | `UnitsConserved`, `PendingExact`, `NeverStarved`, `NoUseAfterFree`, `StageIsClean` |
| `fsx` | a file of four bytes, all operations, one simulated and three real calls, one corruption, `-X` | `ShadowExact`, `NoFalseAlarm`, `Detected` |
| `fsx_complete` | operations of one byte, five calls | `NeverHangs` |
| `fsx_log` | a ring of three entries, five operations, a replay and a replay of it | `DumpIsRecent`, `ReplayFollows`, `ReplayReadable` |
| `doio` | two children, two files of two bytes, three requests, two descriptors each, one fault or kill; for `iogen` every file up to six bytes, multiples up to three, every last request | `LockKept`, `NoFalseAlarm`, `WlogExplains`, `Termination`, `PipeFits` |
| `doio_watchdog` | two children, `-a -e`, one outside signal, one failing fork | `StatusExact`, `PassedOn`, `CleanedUp` (also after an abort) |
| `doio_sigint` | two children, `-a`, no outside signal | `SigintIgnored` – violated |
| `growfiles` | two copies, two visits to one or two files, writes of two bytes, truncation by three after every second write, nine combinations of options, one failing call or corruption; a SIGINT or SIGTERM to each copy under two of the combinations | `NoFalseAlarm`, `CorruptionCaught`, `ConsumedExact`, `CleanEnd` |
| `fsstress` | four names, a cache of two slots, one attribute, `-c`, one loop | `ListExact`, `CacheCurrent`, `XattrsCounted`, `CwdHome` |

The type invariants (`TypeOK`) are theorems or part of the inductive invariants of the
proofs and have no run of their own.

Why the bounds are enough. A pipe of three bytes and packets of two make senders
write part of a packet and block in the middle of it; a ready pipe of two bytes is
smaller than the number of workers. Two senders and two receivers are the least
with which a receiver can finish while another sender still sends. Three threads at
a barrier give one that is late, one that is asleep and one that is already in the
next barrier. A kernel queue of three with four units makes `io_submit` take part
of a batch. Four bytes and blocks of two give every operation of fsx the cases
before, across and behind the end of the file, and three real calls are enough to
leave a stale tail (collapse), to grow over it (truncate, write, clone) and to read
it. A ring of three entries comes round exactly and in part with five operations.
Two descriptors per child are the least with which a write can be verified, so that
every request needs an eviction. Two children and one outside signal give signals
before and after each process has its handlers, to one process and to the group.

Two visits of two copies give growfiles every order of two writes, two checks and two
truncations, a file that is unlinked while the other copy has it open, and a truncation
that takes more than the copy's own write. The combinations of options are one for each
way to place the write, under a lock that makes it safe, and two under which the checks
do report what other copies wrote. `Safe` says which options those are; a larger instance
with every safe combination (3.1 million states) has no violation either. A signal from
outside makes every state of a copy an end and so multiplies the states by twenty;
therefore only two combinations have them, one for each lock (`MaxSignals` counts them for
each copy and belongs to the combination, `MaxFaults` counts for all copies together).
Truncation by three of the four bytes of two writes leaves a part of another copy's write
to be checked. `RAND_MAX` is 5 in the runs of fsx, more than a file has bytes. `MaxSets` is 1: a
second attribute takes the run beyond what is practical, so that the removal of one
attribute and its setting again under the same number is left to the proof. Four names are a
directory, another one in it, something in that, and the name a rename makes: enough for
two directories to be exchanged with what is under them. A cache of two slots has
collisions among four ids, as 64 slots have among thousands.

Deadlock is left unchecked in four passing runs: a worker process of hackbench that
fails may leave `main()` waiting for ever; a thread of `AioStage` waits at the start
barrier for ever when another one has left; growfiles and fsstress end.

### Fairness

* `Hackbench`: weak fairness of `main()` and of every worker: the kernel runs what
  is runnable. A blocked call is not enabled. No fault is ever forced.
* `AioStage`, `AioStress`: weak fairness of every thread and of the completion of
  requests that the kernel has accepted. A thread that sleeps on the condition
  variable is woken by a broadcast; spurious wake-ups are possible and never
  relied on.
* `Doio`: weak fairness of every child. A lock is granted when it is free and its
  child runs; with finitely many requests no fairness between the waiters is needed.
* `DoioWatchdog`: weak fairness of every process and of the delivery of each pending
  signal. The requests need never end: `EndOfInput` has no fairness, so that
  `CleanedUp` cannot lean on it.
* `Growfiles`: weak fairness of every copy's own steps; signals from outside and failures
  are never forced. A copy that waits for a lock needs no fairness of the lock: the others
  have finitely many visits (`-i`) and give up their locks when they end.
* `Fsx`, `FsxLog`, `Fsstress`: safety only, no fairness. A search of fsx for a destination that
  has none to find is a state of its own (`hung`), out of which nothing leads; the
  calls of `test()` are counted, so that a run that does not hang comes to its end.

## Proofs

The theorems hold for all values of the constants that satisfy the named
assumption of the module (`HackbenchAssumption`, `FsxAssumption`, ...): positive
sizes, finite sets, Boolean options. They say nothing about a program with other
options, and the assumptions are those that `main()` enforces or that the type of
the variable gives, with one exception each in `Fsx` (`maxfilelen` is not 0, see
below) and `Doio` (requests lie inside the file, as `iogen` makes them: `PipeFits`).

* `HackbenchProofs`: `TypeCorrect`, `GoBarrier` (`GoAfterAllReady`), `FdsLimited`
  (`FdsBounded`) and `Delivered` (`AllDelivered`). The
  invariant adds to the types what `main()` has read (`readyRead` plus the bytes in the pipe are the
  number of workers that have told) and where it is (no GO before all bytes were
  read, no worker past `ready()` before GO). Counting the tellers needs the
  cardinality facts of the library. `AllDelivered` compares sums over the senders of a
  group with what a receiver has read. The sum is stated as the cardinality of a set of
  pairs (sender, byte), so that a write of any length adds a set of pairs and no
  recursion is needed (`FlowInv`); positions are bounded by the loops (`PosInv`), a
  status of 0 means a position at its end (`StatusInv`), and `main()` cannot end with 0
  before it has seen the status of every worker (`ReapInv`).
* `AioStageProofs`: `TypeCorrect`, `StagesInLockStep` (`LockStep`) and
  `StonewallIsCurrent` (`EndingIsCurrent`). A barrier with two counters has two
  global states: while threads gather, all of them are between the end of one stage
  and the beginning of the next; while a stage runs, all of them are in it or asleep
  behind it. In each, both counters are cardinalities of sets of threads. That is the inductive invariant;
  lock-step follows from it.
* `FsxProofs`: `Shadow` (`ShadowExact`), `Trusted` (`NoFalseAlarm`),
  `NoEndlessLoop` (`NeverHangs`) and `CorruptionDetected` (`Detected`, an action property). The copy agrees with the file up to `file_size`;
  that alone is not inductive, since a growing file shows bytes behind its old end:
  the invariant also says that the file is zero there, and relates copy and file
  before the first real call, when the file is still to be written. Each operation
  has a lemma of its own. `NeverHangs` needs `RoomToCopy` and is then a matter of
  exhibiting a destination. `Detected` is about the state after an operation: what the operation
  overwrites or cuts off was never seen. It holds whatever the file system has done: every call that
  carries its operation out ends with both checks (`CarriedOutIsChecked`), and checks that find
  nothing show that file and copy are the same (`CheckedIsSame`).
  About `FsxLog` it has `DumpRecent` (`DumpIsRecent`), `ReplayFaithful` (`ReplayFollows`) and
  `Readable` (`ReplayReadable`). The invariant there says where in the ring the entry is that
  was logged j entries ago, and that nothing has come round before the ring is full.
  `ReadInv` adds that a line with too few arguments is a skipped copy and that a replay
  has logged it.
* `AioStressProofs`, in three layers, each an inductive invariant that uses the one
  before it.
  `BookInv` (`BookKept`) gives `Conserved` (`UnitsConserved`), `Exact` (`PendingExact`),
  `Nourished` (`NeverStarved`) and `NotUsedFreed` (`NoUseAfterFree`): each unit of a thread is free,
  prepared, in flight or done, and the counters count units. For that `BookInv` must also
  say what a turn over the active list can prepare: at most a chunk for each operation
  it has taken, and no more operations than the thread was dealt; otherwise
  `find_iou()` could run out of units with nothing pending. A step of one thread leaves
  the books of the others alone (`BookOther`), so that each action is shown for its own
  thread (`Keeps`), and the actions are grouped by what they touch: place in the code
  only, lists, units.
  `AheadInv` (`RoundsBounded`) relates rounds to stages: what a thread takes into round
  n + 1 is in a later stage than n, so there are three restarts at most, which
  `AioStage` has as a constant. With it every step is a step of `AioStage` or none
  (`BarrierImplemented`: `ImplementsStage`, for more than one thread, as one thread runs
  no barrier), and the two global states of the barrier, carried over to the
  detailed threads (`Together`), give `WallIsFair` (`StonewallFair`, an action property).
  The theorems of `AioStageProofs` cannot be cited through `INSTANCE`, hence the
  invariant of the barrier is proved over the refinement mapping once more.
  `TidyInv` (`StaysTidy`): an operation is on one list and once; the requests it has started,
  has prepared and is about to prepare are no more than it has; what is on the finished
  list has ended its stage, and has drained when the restarts begin. `StagesClean` (`StageIsClean`,
  an action property) follows.
* `GrowfilesProofs`: `TypesAndLocks`, `QuietRun` (`NoFalseAlarm`), `Caught`
  (`CorruptionCaught`) and `Accounted` (`ConsumedExact`). The base is the types with what a
  copy has at each place of its visit (descriptor, lock, a length that is not 0) and
  that an exclusive lock is the only one on its file. On it stand: `VisitInv`, under the lock
  of a whole visit the size a copy has asked for is still the size;
  `QuietInv`, the bytes a copy is going to compare are those it expects, and, where it
  checks the whole file, every byte is the pattern for its own place (`Tiled`), which writes
  that leave no hole and truncations keep; `WrongInv`, about wrong bytes; `CountInv`, the bytes that the copies have counted
  balance the lengths of the files. The last is about sums over the copies and over the
  files: a sum is given by the partial sums over all subsets (`Sums`), as `MapThenSumSet` computes
  them, and the lemmas about it go by induction on the size of the subset, stated for
  the set of numbers for which the claim holds. `Caught` has no hypothesis beside `Spec`: the
  property itself names the options (every write is checked; with `-w` the lock of
  the whole visit, under which the hole stays where the check looks for it) and SIGINT. A copy's
  wrong byte belongs to one write, and until that write has been checked it lies
  within the part that the check is going to read, or the copy has been told to
  end with a status that is not 0 (`Told`): a truncation and a write by another copy can take
  the byte away but not move it, the check compares it with a pattern byte, which it is not
  (`BadIs`), and every way to skip the check is one on which no byte of the write is left, or
  an error is counted (`Onward`, `Checked`). After the check no file has a wrong byte of
  the copy, or its status can no longer be 0.
* `DoioProofs`: `LockIsKept` (`LockKept`) and `NeverFalse` (`NoFalseAlarm`), if the
  descriptors suffice (`DescriptorsSuffice`: as many as the requests can ask for, or
  two with one way of writing and one of reading). The heart is the age of
  descriptors: from the opening of its file to the opening for the verification, the
  descriptor of a request is the only one of its age, so it is not the one to go.
  Locks of different children are disjoint, a write stays inside its lock, hence what
  a child wrote is there when it compares. `LogIsTrue` (`WlogExplains`) stands on the
  same invariant with `LogInv`: the preliminary record of a writer is the last record
  of its bytes, since records are added under the lock, and what it wrote stays until the
  record is marked done. That the records of a byte have a last one follows from the
  well-foundedness of `<`. `RequestsSuit` and `PipeSuits` (`PipeFits`) are about
  `iogen`: for each mode a lemma that the requests suit the file and one that there is a request,
  on the arithmetic of rounding (`Multiples`), and one about strides.
* `DoioWatchdogProofs`: `TypeCorrect` and `StatusCorrect` (`StatusExact`).
  `Nprocs` is the number of children not reaped, `ex_stat` has the bits of the
  others, and a signal is pending only for a process that lives; without the last a
  child could end a second time after it was counted.
* `FsstressProofs`: `ListExactHolds` (`ListExact`), `XattrsCountedHolds` (`XattrsCounted`),
  `CwdHomeHolds` (`CwdHome`) and `CacheCurrentHolds` (`CacheCurrent`), all from one
  invariant, `LInv` (`ListsInvariant`). `ListExact` speaks of paths, which a
  recursive function builds and another one resolves; it is not inductive and says nothing
  about the middle of a path. The invariant speaks of single steps instead. The lists are
  read as a set of records (`View`), so that the order of the slots, which a
  deletion changes, is gone; `Matched` says that the parents of the records form a
  forest (`Forest`: no set of directories is closed under parents), that the
  tree has just their names, each in the directory with the id of its parent (`Named`), that an inode
  has one name unless it is linked (`Inodes`), and that attributes are counted (`Attrs`).
  For each change there is one lemma that keeps `Matched`: `AddName`, `DropName`,
  `MoveName`, `ExchangeNames`, `WhiteName`, `CountName`; each operation is shown to be one of
  them, a quiet one, or the end of a loop. What a path does follows: the walk over the parents
  meets no directory twice and ends at the top within `Len(Dirs)` steps (the lists are
  finite and a forest), so the path of an entry is a way through the tree, found by
  induction over its length, and `Resolve` and `Climb` run along it in both directions.
  The directories on a way are closed under parents (`Closed`). For a move the kernel's
  refusal (`~Below`) says that the entry is not on the way to its new directory, which
  keeps the forest one; for an exchange `fents_ancestor_check()` and the kernel say it of
  both entries. The same fact brings the process home: no operation changes the name of a
  directory that the process is in or has above it (`WayHome`), so that the `".."` lead up the
  way that led down.
  `CacheCurrentHolds` has the hypothesis `cleanup => MaxLoops = 1`. It is not there for the
  prover: with `-c` and two loops the property is false (observation on line 1084 below). In
  that case `Lookup` takes a slot that is beyond the new list for a miss, where the code reads memory it has
  freed; the other three theorems then are about the model and not about the program.

Only model-checked:

* every liveness property (`Termination`, `BarrierPassed`, `KilledIsReported`,
  `PassedOn`, `CleanedUp`, `CleanEnd`): the prover has no rules for
  fairness;
* `AllDone` of `AioStress`: it is not true for every value of the constants. A late context
  that has no request left (`total_ios` 0) is dropped from the lists when no other
  operation of the turn has one (observation on line 866 below).

## Findings

Where a comment of the code says one thing and the code does another:

* `doio_sigint` – `doio.c:336`. "sigint is ignored after the first time": with
  `SA_RESETHAND` the second one kills the watchdog. With `-a` no
  outside signal is needed. A child that has a compare error sends SIGINT to the group. A child
  that has not yet come past its `sigaction()` still has the watchdog's handler and, for
  itself, a 0 in `Children[]`: its `kill(0, SIGINT)` is for the whole group again and the
  second SIGINT of the watchdog, whose handler `SA_RESETHAND` has taken away.

Observations made while modelling. TLC finds the first six with the modules as they
are, other constants and the property named; there is no run for them:

* `aio-stress.c:1094`. A thread whose operations have all failed leaves; the others
  still wait at the start barrier for `num_threads` threads, for ever (`AioStress`, one
  failing read, `Termination`), though the comment at 1067 says that threads that
  finished a stage "are given the chance to restart and pick a different stage".
* `fsx.c:1992`. The loops that look for a destination of a clone or copy have no bound;
  with `-o` near `-l` there is none and fsx never ends (`NeverHangs` without `RoomToCopy`), though `-N`
  promises the "total # operations to do" (2268).
* `fsx.c:1940`. A replay logs a skipped clone, dedupe or copy with `log4()`, without its third
  argument; when such a run records in its turn, the line is a "parse error" for the next
  replay (1882-1888), though 2277 promises to "replay ops from recorded .fsxops file".
  `ReplayReadable` has just this exception (TLC reaches the parse error when it is
  taken out); everything else that is recorded can be read.
* `growfiles.c`: with `-l` once and truncation, copies report each other's work
  (`NoFalseAlarm` without `Safe`): with `O_APPEND` because `shrinkfile()` takes a stale
  offset for the end of the file and makes it longer, with a hole in it; without because the offset
  was asked for before the lock (1838) and the file is shorter when the lock is had; and
  with `-R` and offsets beyond the end of the file.
* `growfiles.c:2229`: with a random pattern `check_write()` leaves the length it read in
  `ret`, which counts as a mismatch, though 809 prints "no data checking will be
  performed!".
* `fsstress.c:1084`: `cleanup_flist()` between two loops with `-c` leaves the slots of the
  old lists in `dcache[]` (`CacheCurrent` with two loops); its comment (907) says
  that it is not to be called before the end of a process.

The others come from reading the code:

* `growfiles.c`: with `-R` `bytes_consumed` can go below zero, since a write inside the
  file counts a negative growth (1959); a copy that stops for lack of space (1750) does not
  tell the others in spite of `-y`, and a forked copy knows only those forked before it
  (1445); the loop of `cleanup()` unlinks one name more than there are (1497). A lock that an
  early return leaves (1906, 2413) does no harm: the close that follows drops it.
* `fsstress.c`: SIGTERM between the test of `should_stop` and `wait()` in `main()` is not
  seen before the next child ends.
* `iogen.c`: in random mode the length is taken from `random_range()` without a look
  at its error (536): when no multiple lies between `-t` and `-T`, requests of -1 bytes
  are sent; `f_iou` of a device stays 0 and is divided by.
* `aio-stress.c`: a failed write is not recorded in the operation (328), a verify
  error neither (339); a turn that prepares no request drops the operations it had
  taken (866); `-I` bounds turns and not iterations of the list (1106); a stage total
  can be counted again after an error (1139); the last megabyte is left out of random
  offsets (559); `-C` falls through into `-b` (1309).
* `fsx.c`: `-m` falls through into `-n` and switches the size check off (2533); `-s`
  sets a local variable (2455); simulated range operations do not change the copy
  (1277), so a run that starts at an operation does not begin with the contents of the
  run that failed; the numbers in a dump drift after the ring came round (357); `-k`
  on an empty file divides by zero (1978).
* `hackbench.c`: a worker that fails before its ready byte leaves `main()` waiting
  (350); the exit status of a worker that called `barf()` is not looked at (234).
* `doio.c`: `-r 1` makes the first request fail (722, 2652); slots of the cache that
  were never filled are unmapped at a release (2659); an evicted descriptor keeps its
  mapping (2721); `w_done` is set after a failed write (1321); freed space stays in
  the log (2142); `die_handler()` exits with 1, which the watchdog reports as a usage
  error and not as a signal (2824); a child that is interrupted before it has its
  handlers sends SIGINT to the whole group (2845); under a subreaper orphans are not
  recognised by `getppid() == 1` (685).

## Not modelled

Contents and layout of messages; measurement of time; option parsing (options are
constants); shared memory and huge pages of aio-stress, its verify buffer and its
random offsets; fsync with the dm log device, AIO, and the reopening of the file in
fsx; the kinds of memory, mappings, asynchronous and list I/O of doio, and a single
doio process (which has no watchdog); creation of files and output of iogen, and devices;
FIFOs, files longer than one read (`MAX_FC_READ`), kinds of I/O, `O_TRUNC` and
re-execution of growfiles, and a `lkfile()` that fails (2530, it is reported and the copy goes
on without the lock); preallocation, which no option asks for (`-p` is refused at
546, so that `pre_alloc_space` stays 0); in hackbench a failing `write()` or `read()` of
`main()` itself (351, 357); a signal between two `sigaction()` calls of one process of doio (the handlers
are installed in one step), a FIFO as input of doio, which is opened for reading and
writing (585) and never ends; contents of files, error injection and the loop of `main()` over
processes in fsstress. The scripts of the scheduler, network and cgroup
tests write values into kernel files and send commands to machines; what there is to
check about them is the kernel's. The avocado wrappers build a program, run it and
look for words in its output. Other vendored programs (avocado, the remaining tests
of `ltp/`) are used as they are.

## Plan

In order of what they are worth:

1. `RunAll`: the verdict that `runall.sh` derives from exit status and job log (it writes
   ERROR as well as the PASS, FAIL and SKIP its README names).
2. `main()` of fsstress with its processes and SIGTERM; the background loops of the
   scheduler stress test.

New questions about a program that already has a run go into that run where the bounds
allow it (the properties of one instance share its state space).

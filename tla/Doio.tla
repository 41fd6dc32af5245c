-------------------------------- MODULE Doio --------------------------------
(***************************************************************************)
(* doio (io_integration_test.sh.data/ltp/doio.c): child processes take I/O *)
(* requests from one pipe that iogen writes, and carry them out on shared  *)
(* files: get a descriptor from the cache, lock the region (-k), log the   *)
(* write (-w), write a pattern with the pid in it, read it back (-v), mark *)
(* the log record as done and unlock.                                      *)
(*                                                                         *)
(* The cache keeps descriptors by file and open flags; when the process    *)
(* has as many as it may, the one used longest ago is closed.  The record  *)
(* locks are POSIX locks: they belong to the process, and closing ANY      *)
(* descriptor of a file drops all its locks on that file.                  *)
(***************************************************************************)
EXTENDS Naturals, Sequences, FiniteSets

CONSTANTS
  Procs,            \* the doio children
  Files,            \* the test files
  FileLen,          \* length of each file
  Requests,         \* the requests iogen may send
  NumRequests,      \* how many it sends
  FdLimit,          \* descriptors a process has for its cache
  Release_Interval, \* -r, 0 for never
  Validation_Flags, \* -V, "buffered" by default
  k_opt, w_opt, v_opt,
  MaxFaults         \* bound on failing calls and killed children

ReadTypes  == {"read", "pread", "mmread"}
WriteTypes == {"write", "pwrite", "mmwrite"}
CtlTypes   == {"resvsp", "unresvsp"}
SyncTypes  == {"fsync2"}
Flags      == {"buffered", "sync", "direct"}

\* What form_iorequest() fills in; readv stands with pread, writev with pwrite,
\* fdatasync with fsync2.
RequestType ==
  [type : ReadTypes \cup WriteTypes \cup CtlTypes \cup SyncTypes, file : Files,
   flag : Flags, offset : Nat, nbytes : Nat \ {0}, pattern : Nat]

ASSUME DoioAssumption ==
  /\ IsFiniteSet(Files)
  /\ FileLen \in Nat /\ NumRequests \in Nat /\ Release_Interval \in Nat
  /\ FdLimit \in Nat \ {0}
  /\ Requests # {} /\ Requests \subseteq RequestType
  /\ \A r \in Requests : r.offset + r.nbytes <= FileLen
  /\ Validation_Flags \in Flags
  /\ {k_opt, w_opt, v_opt} \subseteq BOOLEAN
  /\ MaxFaults \in Nat

\* The open flags: mmwrite needs O_RDWR, other writes O_WRONLY.
Access(r) == IF r.type \in ReadTypes THEN "R"
             ELSE IF r.type = "mmwrite" THEN "RW" ELSE "W"
Keys == Files \X {"R", "W", "RW"} \X Flags
Key(r)      == <<r.file, Access(r), r.flag>>
CheckKey(r) == <<r.file, "R", Validation_Flags>>

Bytes == 0 .. FileLen - 1
Extent(r) == {b \in Bytes : r.offset <= b /\ b < r.offset + r.nbytes}

\* Mutant of LockRegion: the last byte is left out.
LockRegionShort(r) ==
  {r.file} \X (r.offset .. r.offset + r.nbytes - 2)

\* do_write() locks nbytes, do_rw() and do_xfsctl() one more.
LockRegion(r) ==
  {r.file} \X (r.offset .. r.offset + r.nbytes - (IF r.type = "write" THEN 1 ELSE 0))

Locking(r) == k_opt /\ r.type \in WriteTypes \cup CtlTypes

\* The pattern starts with the byte of the request and holds the pid.
Tag(p, r) == <<p, r.pattern>>

VARIABLES
  left,      \* requests still to come from the pipe
  pc,        \* where each child is
  req,       \* its request
  Reqno,
  cache,     \* c_rtc of the descriptor with these flags, 0 when there is none
  lock,      \* the bytes the process has locked
  rval,      \* FALSE when the call failed
  woffset,   \* record in the write log, 0 when logged_write is not set
  status,    \* exit status, "none" while the process lives
  wlog,      \* the write log
  disk,      \* contents of the files: <<>> or a tag
  faults,
  hurt, unlogged
    \* history: children that had a failing call; bytes whose last change was
    \* not a successful, logged write

childVars == <<pc, req, Reqno, cache, lock, rval, woffset, status>>
vars == <<childVars, left, wlog, disk, faults, hurt, unlogged>>

Init ==
  /\ left = NumRequests
  /\ pc = [p \in Procs |-> "read"]
  /\ req = [p \in Procs |-> CHOOSE r \in Requests : TRUE]
  /\ Reqno = [p \in Procs |-> 1]
  /\ cache = [p \in Procs |-> [k \in Keys |-> 0]]
  /\ lock = [p \in Procs |-> {}]
  /\ rval = [p \in Procs |-> TRUE]
  /\ woffset = [p \in Procs |-> 0]
  /\ status = [p \in Procs |-> "none"]
  /\ wlog = <<>>
  /\ disk = [f \in Files |-> [b \in Bytes |-> <<>>]]
  /\ faults = 0
  /\ hurt = {}
  /\ unlogged = {}

Goto(p, label) == pc' = [pc EXCEPT ![p] = label]

\* The kernel closes the descriptors and drops the locks of an exiting process.
Exit(p, e) ==
  /\ Goto(p, "exit")
  /\ status' = [status EXCEPT ![p] = e]
  /\ cache' = [cache EXCEPT ![p] = [k \in Keys |-> 0]]
  /\ lock' = [lock EXCEPT ![p] = {}]
  /\ UNCHANGED <<req, Reqno, rval, woffset>>

-----------------------------------------------------------------------------
(* The main loop of doio(): take a request *)

\* Every Release_Interval requests the cache is emptied.
Releasing(p) == Release_Interval # 0 /\ Reqno[p] % Release_Interval = 0

Open(p) == {k \in Keys : cache[p][k] # 0}

TakeRequest(p) ==
  /\ \E r \in Requests : req' = [req EXCEPT ![p] = r]
  /\ rval' = [rval EXCEPT ![p] = TRUE]
  /\ woffset' = [woffset EXCEPT ![p] = 0]
  /\ cache' = IF Releasing(p) THEN [cache EXCEPT ![p] = [k \in Keys |-> 0]] ELSE cache
  /\ lock' = IF Releasing(p) THEN [lock EXCEPT ![p] = {}] ELSE lock
  /\ Goto(p, "open")
  /\ UNCHANGED <<Reqno, status>>

\* alloc_fd(NULL, 0) without a cache takes NULL for the name of a file: it cannot be
\* opened, and the child exits.
ReadRequest(p) ==
  /\ pc[p] = "read" /\ left > 0
  /\ left' = left - 1
  /\ IF Releasing(p) /\ Open(p) = {} THEN Exit(p, "E_SETUP") ELSE TakeRequest(p)
  /\ UNCHANGED <<wlog, disk, faults, hurt, unlogged>>

\* Mutant of ReadEof: the end of the input is taken for an empty pipe.
ReadEofAgain(p) ==
  /\ pc[p] = "read" /\ left = 0
  /\ UNCHANGED vars

ReadEof(p) ==
  /\ pc[p] = "read" /\ left = 0
  /\ Exit(p, "E_NORMAL")
  /\ UNCHANGED <<left, wlog, disk, faults, hurt, unlogged>>

-----------------------------------------------------------------------------
(* alloc_fdcache() *)

\* Mutant of Oldest: the comparison of c_rtc is turned round.
OldestTurned(p) == {k \in Open(p) : \A j \in Open(p) : cache[p][k] >= cache[p][j]}

Oldest(p) == {k \in Open(p) : \A j \in Open(p) : cache[p][k] <= cache[p][j]}

\* A descriptor of the cache is used again and becomes the youngest; a new one is
\* opened while the process has room.
Reuse(p, k) ==
  /\ k \in Open(p) \/ Cardinality(Open(p)) < FdLimit
  /\ cache' = [cache EXCEPT ![p] = [@ EXCEPT ![k] = Reqno[p]]]
  /\ UNCHANGED lock

\* EMFILE: a descriptor used longest ago is closed, and with it go the locks on its
\* file.  Among equals the code takes the first slot; which one that is is not
\* told apart.
Evict(p, k) ==
  /\ k \notin Open(p) /\ Cardinality(Open(p)) >= FdLimit
  /\ \E v \in Oldest(p) :
       /\ cache' = [cache EXCEPT ![p] = [[@ EXCEPT ![v] = 0] EXCEPT ![k] = Reqno[p]]]
       /\ lock' = [lock EXCEPT ![p] = {x \in @ : x[1] # v[1]}]

AllocFd(p, k) == Reuse(p, k) \/ Evict(p, k)

\* The descriptor and the memory of a request.
OpenFile(p) ==
  /\ pc[p] = "open"
  /\ AllocFd(p, Key(req[p]))
  /\ Goto(p, IF Locking(req[p]) THEN "lock"
             ELSE IF w_opt /\ req[p].type \in WriteTypes THEN "log" ELSE "io")
  /\ UNCHANGED <<req, Reqno, rval, woffset, status, left, wlog, disk, faults, hurt,
                 unlogged>>

\* The end of a request: Reqno++.
EndRequest(p) ==
  /\ Goto(p, "read")
  /\ Reqno' = [Reqno EXCEPT ![p] = @ + 1]

\* alloc_mem() has only a smaller shared memory segment: SKIP_REQ.
SkipRequest(p) ==
  /\ pc[p] = "open" /\ req[p].type \in ReadTypes \cup WriteTypes
  /\ faults < MaxFaults
  /\ faults' = faults + 1
  /\ AllocFd(p, Key(req[p]))
  /\ EndRequest(p)
  /\ UNCHANGED <<req, rval, woffset, status, left, wlog, disk, hurt, unlogged>>

-----------------------------------------------------------------------------
(* do_read(), do_write(), do_rw(), do_xfsctl(), do_sync() *)

\* fcntl(F_SETLKW): waits while another process has a part of the region.
LockFileRegion(p) ==
  /\ pc[p] = "lock"
  /\ \A q \in Procs \ {p} : lock[q] \cap LockRegion(req[p]) = {}
  /\ lock' = [lock EXCEPT ![p] = @ \cup LockRegion(req[p])]
  /\ Goto(p, IF w_opt /\ req[p].type \in WriteTypes THEN "log" ELSE "io")
  /\ UNCHANGED <<req, Reqno, cache, rval, woffset, status, left, wlog, disk, faults,
                 hurt, unlogged>>

Record(p, done) ==
  [proc |-> p, file |-> req[p].file, extent |-> Extent(req[p]),
   tag |-> Tag(p, req[p]), done |-> done]

\* Mutant of LogWrite: the record is marked as done at once.
LogWriteDone(p) ==
  /\ pc[p] = "log"
  /\ wlog' = Append(wlog, Record(p, TRUE))
  /\ woffset' = [woffset EXCEPT ![p] = Len(wlog) + 1]
  /\ Goto(p, "io")
  /\ UNCHANGED <<req, Reqno, cache, lock, rval, status, left, disk, faults, hurt,
                 unlogged>>

\* The preliminary record, so that a crash leaves a trace.
LogWrite(p) ==
  /\ pc[p] = "log"
  /\ wlog' = Append(wlog, Record(p, FALSE))
  /\ woffset' = [woffset EXCEPT ![p] = Len(wlog) + 1]
  /\ Goto(p, "io")
  /\ UNCHANGED <<req, Reqno, cache, lock, rval, status, left, disk, faults, hurt,
                 unlogged>>

\* wlog_record_write() fails: the write goes on unlogged.
LogFails(p) ==
  /\ pc[p] = "log"
  /\ faults < MaxFaults
  /\ faults' = faults + 1
  /\ Goto(p, "io")
  /\ UNCHANGED <<req, Reqno, cache, lock, rval, woffset, status, left, wlog, disk, hurt,
                 unlogged>>

Filled(f, S, t) == [disk EXCEPT ![f] = [b \in Bytes |-> IF b \in S THEN t ELSE @[b]]]
Span(f, S) == {f} \X S

\* Where a call leads: to the verification, which do_rw() omits after a failure,
\* to the log and the unlocking, or straight to the end.
AfterIo(p, ok) ==
  IF req[p].type \in WriteTypes
  THEN IF v_opt /\ (ok \/ req[p].type = "write") THEN "check" ELSE "logdone"
  ELSE IF req[p].type \in CtlTypes THEN "unlock" ELSE "end"

DoRead(p) ==
  /\ pc[p] = "io" /\ req[p].type \in ReadTypes
  /\ Goto(p, AfterIo(p, TRUE))
  /\ UNCHANGED <<req, Reqno, cache, lock, rval, woffset, status, left, wlog, disk,
                 faults, hurt, unlogged>>

\* write(), pwrite(), writev() or a copy into the mapping: the whole extent.
DoWrite(p) ==
  LET r == req[p] IN
  /\ pc[p] = "io" /\ r.type \in WriteTypes
  /\ disk' = Filled(r.file, Extent(r), Tag(p, r))
  /\ unlogged' = IF woffset[p] # 0 THEN unlogged \ Span(r.file, Extent(r))
                 ELSE unlogged \cup Span(r.file, Extent(r))
  /\ Goto(p, AfterIo(p, TRUE))
  /\ UNCHANGED <<req, Reqno, cache, lock, rval, woffset, status, left, wlog, faults,
                 hurt>>

\* XFS_IOC_RESVSP leaves the contents alone, XFS_IOC_UNRESVSP frees the space.
DoXfsctl(p) ==
  LET r == req[p]
      freed == IF r.type = "unresvsp" THEN Extent(r) ELSE {}
  IN
  /\ pc[p] = "io" /\ r.type \in CtlTypes
  /\ disk' = Filled(r.file, freed, <<>>)
  /\ unlogged' = unlogged \cup Span(r.file, freed)
  /\ Goto(p, AfterIo(p, TRUE))
  /\ UNCHANGED <<req, Reqno, cache, lock, rval, woffset, status, left, wlog, faults,
                 hurt>>

DoSync(p) ==
  /\ pc[p] = "io" /\ req[p].type \in SyncTypes
  /\ Goto(p, AfterIo(p, TRUE))
  /\ UNCHANGED <<req, Reqno, cache, lock, rval, woffset, status, left, wlog, disk,
                 faults, hurt, unlogged>>

\* The call fails, or a write is cut short.
IoFails(p) ==
  LET r == req[p] IN
  /\ pc[p] = "io"
  /\ faults < MaxFaults
  /\ faults' = faults + 1
  /\ hurt' = hurt \cup {p}
  /\ rval' = [rval EXCEPT ![p] = FALSE]
  /\ IF r.type \in WriteTypes
     THEN /\ \E n \in 0 .. r.nbytes - 1 :
               disk' = Filled(r.file, {b \in Extent(r) : b < r.offset + n}, Tag(p, r))
          /\ unlogged' = unlogged \cup Span(r.file, Extent(r))
     ELSE UNCHANGED <<disk, unlogged>>
  /\ Goto(p, AfterIo(p, FALSE))
  /\ UNCHANGED <<req, Reqno, cache, lock, woffset, status, left, wlog>>

-----------------------------------------------------------------------------
(* check_file() *)

\* A descriptor for reading, from the same cache.
OpenCheck(p) ==
  /\ pc[p] = "check"
  /\ AllocFd(p, CheckKey(req[p]))
  /\ Goto(p, "compare")
  /\ UNCHANGED <<req, Reqno, rval, woffset, status, left, wlog, disk, faults, hurt,
                 unlogged>>

Matches(p) == \A b \in Extent(req[p]) : disk[req[p].file][b] = Tag(p, req[p])

Compare(p) ==
  /\ pc[p] = "compare"
  /\ IF Matches(p)
     THEN Goto(p, "logdone") /\ UNCHANGED <<req, Reqno, cache, lock, rval, woffset, status>>
     ELSE Exit(p, "E_COMPARE")
  /\ UNCHANGED <<left, wlog, disk, faults, hurt, unlogged>>

LogDone(p) ==
  /\ pc[p] = "logdone"
  /\ wlog' = IF woffset[p] # 0
             THEN [wlog EXCEPT ![woffset[p]] = [@ EXCEPT !.done = TRUE]] ELSE wlog
  /\ Goto(p, IF Locking(req[p]) THEN "unlock" ELSE "end")
  /\ UNCHANGED <<req, Reqno, cache, lock, rval, woffset, status, left, disk, faults,
                 hurt, unlogged>>

UnlockFileRegion(p) ==
  /\ pc[p] = "unlock"
  /\ lock' = IF Locking(req[p])
             THEN [lock EXCEPT ![p] = @ \ LockRegion(req[p])] ELSE lock
  /\ Goto(p, "end")
  /\ UNCHANGED <<req, Reqno, cache, rval, woffset, status, left, wlog, disk, faults,
                 hurt, unlogged>>

\* Back in doio(): a request that failed ends the process.
Return(p) ==
  /\ pc[p] = "end"
  /\ IF rval[p]
     THEN EndRequest(p) /\ UNCHANGED <<req, cache, lock, rval, woffset, status>>
     ELSE Exit(p, "E_SETUP")
  /\ UNCHANGED <<left, wlog, disk, faults, hurt, unlogged>>

-----------------------------------------------------------------------------
(* Failures that end a child at once *)

\* open(), malloc(), fcntl(), or lseek() of do_read() and do_write() fails: the
\* child exits, and when the verification cannot read, with a compare error.
CallFails(p) ==
  /\ pc[p] \in {"open", "lock", "io", "check", "compare", "unlock"}
  /\ pc[p] = "io" => req[p].type \in {"read", "write"}
  /\ pc[p] = "unlock" => Locking(req[p])
  /\ faults < MaxFaults
  /\ faults' = faults + 1
  /\ hurt' = hurt \cup {p}
  /\ Exit(p, IF pc[p] \in {"lock", "unlock"} THEN "E_INTERNAL"
             ELSE IF pc[p] = "compare" THEN "E_COMPARE" ELSE "E_SETUP")
  /\ UNCHANGED <<left, wlog, disk, unlogged>>

\* A signal kills the child, wherever it is.
Killed(p) ==
  /\ pc[p] # "exit"
  /\ faults < MaxFaults
  /\ faults' = faults + 1
  /\ hurt' = hurt \cup {p}
  /\ Exit(p, "E_SIGNAL")
  /\ UNCHANGED <<left, wlog, disk, unlogged>>

Step(p) ==
  \/ ReadRequest(p) \/ ReadEof(p) \/ OpenFile(p) \/ LockFileRegion(p)
  \/ LogWrite(p) \/ DoRead(p) \/ DoWrite(p) \/ DoXfsctl(p) \/ DoSync(p)
  \/ OpenCheck(p) \/ Compare(p) \/ LogDone(p) \/ UnlockFileRegion(p) \/ Return(p)

Fault(p) == SkipRequest(p) \/ LogFails(p) \/ IoFails(p) \/ CallFails(p) \/ Killed(p)

AllExited == \A p \in Procs : pc[p] = "exit"

Next ==
  \/ \E p \in Procs : Step(p) \/ Fault(p)
  \/ AllExited /\ UNCHANGED vars

Spec == Init /\ [][Next]_vars

\* Every child is scheduled.
FairSpec == Spec /\ \A p \in Procs : WF_vars(Step(p))

-----------------------------------------------------------------------------
(* Properties *)

Labels == {"read", "open", "lock", "log", "io", "check", "compare", "logdone",
           "unlock", "end", "exit"}

\* The cache never holds more descriptors than the process may have, and every
\* preliminary record that a child remembers is in the write log.
TypeOK ==
  /\ left \in 0 .. NumRequests
  /\ pc \in [Procs -> Labels]
  /\ req \in [Procs -> Requests]
  /\ Reqno \in [Procs -> Nat \ {0}]
  /\ cache \in [Procs -> [Keys -> Nat]]
  /\ \A p \in Procs : Cardinality(Open(p)) <= FdLimit
  /\ lock \in [Procs -> SUBSET (Files \X Nat)]
  /\ rval \in [Procs -> BOOLEAN]
  /\ \A p \in Procs : woffset[p] \in 0 .. Len(wlog)
  /\ status \in [Procs -> {"none", "E_NORMAL", "E_SETUP", "E_COMPARE", "E_INTERNAL",
                           "E_SIGNAL"}]
  /\ disk \in [Files -> [Bytes -> {<<>>} \cup (Procs \X {r.pattern : r \in Requests})]]
  /\ faults \in 0 .. MaxFaults

\* The child is between lock_file_region(F_WRLCK) and lock_file_region(F_UNLCK).
Inside(p) == pc[p] \in {"log", "io", "check", "compare", "logdone", "unlock"}
                /\ Locking(req[p])

\* The descriptors that the requests use are never closed under a lock: all fit, or
\* each file is opened in one way for writing, one for reading and there are two.
DescriptorsSuffice ==
  \/ Cardinality(Keys) <= FdLimit
  \/ /\ FdLimit > 1
     /\ \A r \in Requests : Key(r) \in {<<r.file, "W", "buffered">>, CheckKey(r)}

\* A region stays locked until its write is verified and logged: the verification
\* opens another descriptor of the same file, for which the cache may have to close
\* one, and no close may cost the lock.
LockKept ==
  DescriptorsSuffice => \A p \in Procs : Inside(p) => LockRegion(req[p]) \subseteq lock[p]

\* With -k, an alarm is never the doing of another doio process: a child finds its
\* own pattern and ends normally unless one of its own calls failed.  (With -r 1 it
\* never does: the first request finds no cache to release, see ReadRequest.)
NoFalseAlarm ==
  k_opt /\ DescriptorsSuffice /\ Release_Interval # 1 =>
    \A p \in Procs : status[p] \in {"none", "E_NORMAL"} \/ p \in hurt

\* The write log explains the files, at any moment and after the death of any
\* child: where the last record of a byte is done, the byte has its pattern; a
\* byte without a record was never written.  (Writes that failed or that could not
\* be logged, and freed space, are left out.)
Covering(f, b) == {i \in DOMAIN wlog : wlog[i].file = f /\ b \in wlog[i].extent}
WlogExplains ==
  k_opt /\ w_opt /\ DescriptorsSuffice =>
    \A f \in Files, b \in Bytes : <<f, b>> \notin unlogged =>
      IF Covering(f, b) = {} THEN disk[f][b] = <<>>
      ELSE LET i == CHOOSE i \in Covering(f, b) : \A j \in Covering(f, b) : j <= i
           IN wlog[i].done => disk[f][b] = wlog[i].tag

\* The children wait for each other's locks and never for ever: all requests are
\* taken and every child ends.
Termination == <>AllExited
=============================================================================

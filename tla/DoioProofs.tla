----------------------------- MODULE DoioProofs -----------------------------
(***************************************************************************)
(* With -k a doio child keeps its lock until its write is verified, and    *)
(* never takes the work of another child for a corruption: for any number  *)
(* of children, files, requests and descriptors, as long as the            *)
(* descriptors suffice.                                                    *)
(*                                                                         *)
(* The heart of it is the age of the descriptors: from the opening of its  *)
(* file until the verification the descriptor of a request is the only one *)
(* of its age, and so never the oldest when another must go.               *)
(*                                                                         *)
(* On the locks stands the write log: the preliminary record of a writer   *)
(* is the last one of its bytes as long as it has the lock, and what it    *)
(* wrote is there when it marks the record as done.                        *)
(*                                                                         *)
(* The requests that iogen makes up are within their files, aligned and    *)
(* not empty, for all sizes: arithmetic of rounding.                       *)
(***************************************************************************)
EXTENDS DoioPipe, FiniteSetTheorems, WellFoundedInduction, TLAPS

Patterns == {r.pattern : r \in Requests}

Types ==
  /\ pc \in [Procs -> Labels]
  /\ req \in [Procs -> Requests]
  /\ Reqno \in [Procs -> Nat \ {0}]
  /\ cache \in [Procs -> [Keys -> Nat]]
  /\ lock \in [Procs -> SUBSET (Files \X Nat)]
  /\ rval \in [Procs -> BOOLEAN]
  /\ status \in [Procs -> {"none", "E_NORMAL", "E_SETUP", "E_COMPARE", "E_INTERNAL",
                           "E_SIGNAL"}]
  /\ disk \in [Files -> [Bytes -> {<<>>} \cup (Procs \X Patterns)]]
  /\ hurt \in SUBSET Procs

\* The second way in which descriptors suffice, and the descriptors then in use.
TwoWays ==
  /\ FdLimit > 1
  /\ \A r \in Requests : Key(r) \in {<<r.file, "W", "buffered">>, CheckKey(r)}
Used == {<<f, "W", "buffered">> : f \in Files} \cup {<<f, "R", Validation_Flags>> : f \in Files}

\* The ages of the descriptors.
Ages(p) ==
  /\ pc[p] \in {"read", "open"} => \A k \in Keys : cache[p][k] < Reqno[p]
  /\ pc[p] \in {"lock", "log", "io", "check"} =>
       /\ cache[p][Key(req[p])] = Reqno[p]
       /\ \A k \in Keys : k # Key(req[p]) => cache[p][k] < Reqno[p]
  /\ pc[p] # "exit" => \A k \in Keys : cache[p][k] <= Reqno[p]
  /\ TwoWays => Open(p) \subseteq Used
  /\ pc[p] \notin {"read", "open", "exit"} => Open(p) # {}
  /\ pc[p] = "read" /\ Reqno[p] > 1 => Open(p) # {}

Kinds(p) ==
  /\ pc[p] \in {"log", "check", "compare", "logdone"} => req[p].type \in WriteTypes
  /\ pc[p] = "lock" => Locking(req[p])
  /\ pc[p] = "unlock" => req[p].type \in WriteTypes \cup CtlTypes

Held(p) == DescriptorsSuffice /\ Inside(p) => LockRegion(req[p]) \subseteq lock[p]

Careful == k_opt /\ DescriptorsSuffice /\ Release_Interval # 1

Blameless(p) ==
  /\ ~rval[p] => p \in hurt
  /\ Careful => status[p] \in {"none", "E_NORMAL"} \/ p \in hurt

Local(p) == Ages(p) /\ Kinds(p) /\ Held(p) /\ Blameless(p)

\* What the verification will find.
Good(p) ==
  Careful /\ pc[p] \in {"check", "compare"} /\ p \notin hurt => Matches(p)

Disjoint == \A p, q \in Procs : p # q => lock[p] \cap lock[q] = {}

IInv ==
  /\ Types
  /\ \A p \in Procs : Local(p) /\ Good(p)
  /\ Disjoint

-----------------------------------------------------------------------------
(* Requests and descriptors *)

\* The fields of a request, its position inside the file, and its descriptors.
LEMMA RequestFields ==
  ASSUME NEW r \in Requests
  PROVE  /\ r.type \in ReadTypes \cup WriteTypes \cup CtlTypes \cup SyncTypes
         /\ r.file \in Files /\ r.flag \in Flags
         /\ r.offset \in Nat /\ r.nbytes \in Nat \ {0} /\ r.pattern \in Patterns
         /\ r.offset + r.nbytes <= FileLen
         /\ Key(r) \in Keys /\ CheckKey(r) \in Keys
<1>1. r \in RequestType
  BY DoioAssumption
<1>2. /\ r.type \in ReadTypes \cup WriteTypes \cup CtlTypes \cup SyncTypes
      /\ r.file \in Files /\ r.flag \in Flags
      /\ r.offset \in Nat /\ r.nbytes \in Nat \ {0}
  BY <1>1 DEF RequestType
<1>3. r.offset + r.nbytes <= FileLen /\ r.pattern \in Patterns
  BY DoioAssumption DEF Patterns
<1>4. Key(r) \in Keys
  BY <1>2 DEF Key, Keys, Access
<1>5. CheckKey(r) \in Keys
  BY <1>2, DoioAssumption DEF CheckKey, Keys
<1> QED BY <1>2, <1>3, <1>4, <1>5

\* A write stays inside its lock.
LEMMA ExtentLocked ==
  ASSUME NEW r \in Requests
  PROVE  Span(r.file, Extent(r)) \subseteq LockRegion(r)
<1>1. r.offset \in Nat /\ r.nbytes \in Nat
  BY RequestFields
<1> SUFFICES ASSUME NEW b \in Extent(r)
             PROVE  <<r.file, b>> \in LockRegion(r)
  BY DEF Span
<1>2. b \in Nat /\ r.offset <= b /\ b < r.offset + r.nbytes
  BY DoioAssumption DEF Extent, Bytes
<1>3. CASE r.type = "write"
  BY <1>1, <1>2, <1>3 DEF LockRegion
<1>4. CASE r.type # "write"
  BY <1>1, <1>2, <1>4 DEF LockRegion
<1> QED BY <1>3, <1>4

\* The region that a request locks is a set of positions.
LEMMA RegionType ==
  ASSUME NEW r \in Requests PROVE LockRegion(r) \subseteq Files \X Nat
<1>1. r.offset \in Nat /\ r.nbytes \in Nat \ {0} /\ r.file \in Files
  BY RequestFields
<1>2. CASE r.type = "write"
  BY <1>1, <1>2 DEF LockRegion
<1>3. CASE r.type # "write"
  BY <1>1, <1>3 DEF LockRegion
<1> QED BY <1>2, <1>3

\* There are finitely many keys, so a cache holds finitely many descriptors.
LEMMA KeysFinite == IsFiniteSet(Keys)
<1>1. IsFiniteSet({"R", "W", "RW"}) /\ IsFiniteSet(Flags)
  <2>1. IsFiniteSet({"R"} \cup {"W"} \cup {"RW"})
    BY FS_Singleton, FS_Union
  <2>2. IsFiniteSet({"buffered"} \cup {"sync"} \cup {"direct"})
    BY FS_Singleton, FS_Union
  <2>3. {"R", "W", "RW"} = {"R"} \cup {"W"} \cup {"RW"}
    OBVIOUS
  <2>4. Flags = {"buffered"} \cup {"sync"} \cup {"direct"}
    BY DEF Flags
  <2> QED BY <2>1, <2>2, <2>3, <2>4
<1> DEFINE S == (Files \X {"R", "W", "RW"}) \X Flags
           f == [t \in S |-> <<t[1][1], t[1][2], t[2]>>]
<1>2. IsFiniteSet(S)
  <2>1. IsFiniteSet(Files \X {"R", "W", "RW"})
    BY <1>1, DoioAssumption, FS_Product
  <2> QED BY <1>1, <2>1, FS_Product
<1>3. f \in Surjection(S, Keys)
  <2>1. f \in [S -> Keys]
    BY DEF Keys
  <2>2. ASSUME NEW k \in Keys PROVE \E t \in S : f[t] = k
    <3>1. PICK g \in Files, m \in {"R", "W", "RW"}, x \in Flags : k = <<g, m, x>>
      BY DEF Keys
    <3>2. <<<<g, m>>, x>> \in S /\ f[<<<<g, m>>, x>>] = k
      BY <3>1
    <3> QED BY <3>2
  <2> QED BY <2>1, <2>2 DEF Surjection
<1> QED BY <1>2, <1>3, FS_Surjection

\* The descriptors of a child are finitely many, and one that is not open is not
\* among them.
LEMMA OpenFinite ==
  ASSUME NEW p \in Procs
  PROVE  /\ IsFiniteSet(Open(p)) /\ Cardinality(Open(p)) \in Nat
         /\ \A k \in Keys : k \notin Open(p) => Cardinality(Open(p)) < Cardinality(Keys)
<1>1. Open(p) \subseteq Keys
  BY DEF Open
<1>2. IsFiniteSet(Open(p)) /\ Cardinality(Open(p)) \in Nat
  BY <1>1, KeysFinite, FS_Subset, FS_CardinalityType
<1>3. ASSUME NEW k \in Keys, k \notin Open(p)
      PROVE  Cardinality(Open(p)) < Cardinality(Keys)
  <2>1. Cardinality(Keys) \in Nat
    BY KeysFinite, FS_CardinalityType
  <2>2. Cardinality(Open(p)) <= Cardinality(Keys)
    BY <1>1, KeysFinite, FS_Subset
  <2>3. Cardinality(Open(p)) # Cardinality(Keys)
    BY <1>1, <1>3, KeysFinite, FS_Subset
  <2> QED BY <1>2, <2>1, <2>2, <2>3
<1> QED BY <1>2, <1>3

-----------------------------------------------------------------------------
(* The cache *)

\* A descriptor for key k: k is now of this request's age, the others keep their age
\* or are closed, and locks may be lost.
LEMMA AllocEffect ==
  ASSUME Types, NEW p \in Procs, NEW k \in Keys, AllocFd(p, k)
  PROVE  /\ cache' \in [Procs -> [Keys -> Nat]]
         /\ lock' \in [Procs -> SUBSET (Files \X Nat)]
         /\ \A q \in Procs : q # p => cache'[q] = cache[q] /\ lock'[q] = lock[q]
         /\ lock'[p] \subseteq lock[p]
         /\ cache'[p][k] = Reqno[p]
         /\ \A j \in Keys : j # k => cache'[p][j] = cache[p][j] \/ cache'[p][j] = 0
         /\ Open(p)' # {}
         /\ Open(p)' \subseteq Open(p) \cup {k}
<1>1. Reqno[p] \in Nat \ {0}
  BY DEF Types
<1>2. CASE Reuse(p, k)
  <2>1. /\ cache' = [cache EXCEPT ![p] = [cache[p] EXCEPT ![k] = Reqno[p]]]
        /\ lock' = lock
    BY <1>2 DEF Reuse
  <2>2. /\ cache' \in [Procs -> [Keys -> Nat]]
        /\ \A q \in Procs : q # p => cache'[q] = cache[q]
        /\ cache'[p][k] = Reqno[p]
        /\ \A j \in Keys : j # k => cache'[p][j] = cache[p][j]
    BY <1>1, <2>1 DEF Types
  <2>3. Open(p)' # {} /\ Open(p)' \subseteq Open(p) \cup {k}
    BY <1>1, <2>2 DEF Open
  <2> QED BY <2>1, <2>2, <2>3 DEF Types
<1>3. CASE Evict(p, k)
  <2>1. PICK v \in Oldest(p) :
          /\ cache' = [cache EXCEPT ![p] = [[cache[p] EXCEPT ![v] = 0] EXCEPT ![k] = Reqno[p]]]
          /\ lock' = [lock EXCEPT ![p] = {x \in lock[p] : x[1] # v[1]}]
    BY <1>3 DEF Evict
  <2>2. v \in Keys /\ v # k
    BY <1>3 DEF Oldest, Open, Evict
  <2>3. /\ cache' \in [Procs -> [Keys -> Nat]]
        /\ \A q \in Procs : q # p => cache'[q] = cache[q]
        /\ cache'[p][k] = Reqno[p]
        /\ \A j \in Keys : j # k => cache'[p][j] = cache[p][j] \/ cache'[p][j] = 0
    BY <1>1, <2>1, <2>2 DEF Types
  <2>4. /\ lock' \in [Procs -> SUBSET (Files \X Nat)]
        /\ \A q \in Procs : q # p => lock'[q] = lock[q]
        /\ lock'[p] \subseteq lock[p]
    BY <2>1 DEF Types
  <2>5. Open(p)' # {} /\ Open(p)' \subseteq Open(p) \cup {k}
    BY <1>1, <2>3 DEF Open
  <2> QED BY <2>3, <2>4, <2>5
<1> QED BY <1>2, <1>3 DEF AllocFd

\* The verification's descriptor does not cost the lock of the write.
LEMMA CheckKeepsLock ==
  ASSUME Types, NEW p \in Procs, Ages(p), Kinds(p), pc[p] = "check",
         DescriptorsSuffice, AllocFd(p, CheckKey(req[p]))
  PROVE  LockRegion(req[p]) \cap lock[p] \subseteq lock'[p]
<1> DEFINE r == req[p]
           k == CheckKey(r)
           w == Key(r)
<1>1. r \in Requests /\ k \in Keys /\ w \in Keys
  BY RequestFields DEF Types
<1>2. CASE Reuse(p, k)
  BY <1>2 DEF Reuse
<1>3. CASE Evict(p, k)
  <2>1. k \notin Open(p) /\ Cardinality(Open(p)) >= FdLimit /\ FdLimit \in Nat
    BY <1>3, DoioAssumption DEF Evict
  <2>2. TwoWays
    <3>1. Cardinality(Keys) \in Nat /\ Cardinality(Open(p)) < Cardinality(Keys)
      BY <1>1, <2>1, OpenFinite, KeysFinite, FS_CardinalityType
    <3>2. ~(Cardinality(Keys) <= FdLimit)
      BY <2>1, <3>1, OpenFinite
    <3> QED BY <3>2 DEF DescriptorsSuffice, TwoWays
  <2>3. PICK v \in Oldest(p) :
          lock' = [lock EXCEPT ![p] = {x \in lock[p] : x[1] # v[1]}]
    BY <1>3 DEF Evict
  <2>4. v \in Open(p) /\ v \in Keys /\ v \in Used
    BY <2>2, <2>3 DEF Oldest, Open, Ages
  <2>5. w \in Open(p) /\ cache[p][w] = Reqno[p]
        /\ \A j \in Keys : j # w => cache[p][j] < Reqno[p]
    BY <1>1 DEF Ages, Open, Types
  <2>6. PICK j \in Open(p) : j # w
    <3>1. SUFFICES ASSUME \A j \in Open(p) : j = w PROVE FALSE
      OBVIOUS
    <3>2. Open(p) = {w}
      BY <2>5, <3>1
    <3>3. Cardinality(Open(p)) = 1
      BY <3>2, FS_Singleton
    <3> QED BY <2>1, <2>2, <3>3 DEF TwoWays
  <2>7. v # w
    <3>1. cache[p][v] <= cache[p][j]
      BY <2>3, <2>6 DEF Oldest
    <3>2. cache[p][j] < Reqno[p] /\ cache[p][j] \in Nat /\ Reqno[p] \in Nat
      BY <2>5, <2>6 DEF Open, Types
    <3> QED BY <2>5, <3>1, <3>2
  <2>8. w = <<r.file, "W", "buffered">>
    <3>1. r.type \in WriteTypes
      BY DEF Kinds
    <3>2. w # CheckKey(r)
      BY <3>1 DEF Key, CheckKey, Access, ReadTypes, WriteTypes
    <3> QED BY <1>1, <2>2, <3>2 DEF TwoWays
  <2>9. v[1] # r.file
    <3>1. CASE v \in {<<f, "W", "buffered">> : f \in Files}
      BY <2>7, <2>8, <3>1
    <3>2. CASE v \in {<<f, "R", Validation_Flags>> : f \in Files}
      BY <2>1, <2>4, <3>2 DEF CheckKey
    <3> QED BY <2>4, <3>1, <3>2 DEF Used
  <2>10. \A x \in LockRegion(r) : x[1] = r.file
    BY DEF LockRegion
  <2>11. lock'[p] = {x \in lock[p] : x[1] # v[1]}
    BY <2>3 DEF Types
  <2> QED BY <2>9, <2>10, <2>11
<1> QED BY <1>2, <1>3 DEF AllocFd

-----------------------------------------------------------------------------
(* One child's step *)

Frame(q) ==
  \A p \in Procs : p # q =>
    /\ pc'[p] = pc[p] /\ req'[p] = req[p] /\ Reqno'[p] = Reqno[p]
    /\ cache'[p] = cache[p] /\ lock'[p] = lock[p]
    /\ rval'[p] = rval[p] /\ status'[p] = status[p]

\* The disk changes only where q has a lock.
DiskFrame(q) ==
  \A f \in Files, b \in Bytes :
    disk'[f][b] = disk[f][b] \/ (Careful => <<f, b>> \in lock[q])

\* A step of q keeps the invariant if it does so for q, takes no locked byte, and
\* writes under its lock.
LEMMA StepOf ==
  ASSUME IInv, NEW q \in Procs, Types', Frame(q), DiskFrame(q), hurt \subseteq hurt',
         Local(q)', Good(q)', \A p \in Procs : p # q => lock'[q] \cap lock[p] = {}
  PROVE  IInv'
<1>1. ASSUME NEW p \in Procs, p # q PROVE Local(p)'
  <2>1. /\ pc'[p] = pc[p] /\ req'[p] = req[p] /\ Reqno'[p] = Reqno[p]
        /\ cache'[p] = cache[p] /\ lock'[p] = lock[p]
        /\ rval'[p] = rval[p] /\ status'[p] = status[p]
    BY <1>1 DEF Frame
  <2>2. Ages(p) /\ Kinds(p) /\ Held(p) /\ Blameless(p)
    BY DEF IInv, Local
  <2>3. Ages(p)'
    BY <2>1, <2>2 DEF Ages, Open
  <2>4. Kinds(p)' /\ Held(p)'
    BY <2>1, <2>2 DEF Kinds, Held, Inside
  <2>5. Blameless(p)'
    BY <2>1, <2>2 DEF Blameless
  <2> QED BY <2>3, <2>4, <2>5 DEF Local
<1>2. ASSUME NEW p \in Procs, p # q PROVE Good(p)'
  <2>1. pc'[p] = pc[p] /\ req'[p] = req[p]
    BY <1>2 DEF Frame
  <2>2. SUFFICES ASSUME Careful, pc[p] \in {"check", "compare"}, p \notin hurt
                 PROVE  Matches(p)'
    BY <2>1 DEF Good
  <2>3. Matches(p)
    BY <2>2 DEF IInv, Good
  <2>4. req[p] \in Requests /\ req[p].file \in Files
    BY RequestFields DEF IInv, Types
  <2>5. req[p].type \in WriteTypes /\ Held(p)
    BY <2>2 DEF IInv, Local, Kinds
  <2>6. LockRegion(req[p]) \subseteq lock[p]
    BY <2>2, <2>5 DEF Held, Inside, Locking, Careful
  <2>7. \A b \in Extent(req[p]) : <<req[p].file, b>> \notin lock[q]
    <3>1. \A b \in Extent(req[p]) : <<req[p].file, b>> \in lock[p]
      BY <2>4, <2>6, ExtentLocked DEF Span
    <3> QED BY <1>2, <3>1 DEF IInv, Disjoint
  <2>8. \A b \in Extent(req[p]) : disk'[req[p].file][b] = disk[req[p].file][b]
    BY <2>2, <2>4, <2>7 DEF DiskFrame, Extent
  <2> QED BY <2>1, <2>3, <2>8 DEF Matches, Tag
<1>3. Disjoint'
  <2> SUFFICES ASSUME NEW p1 \in Procs, NEW p2 \in Procs, p1 # p2
               PROVE  lock'[p1] \cap lock'[p2] = {}
    BY DEF Disjoint
  <2>1. lock[p1] \cap lock[p2] = {}
    BY DEF IInv, Disjoint
  <2>2. \A p \in Procs : p # q => lock'[p] = lock[p]
    BY DEF Frame
  <2>3. CASE p1 # q /\ p2 # q
    BY <2>1, <2>2, <2>3
  <2>4. CASE p1 = q
    BY <2>2, <2>4
  <2>5. CASE p2 = q
    BY <2>2, <2>5
  <2> QED BY <2>3, <2>4, <2>5
<1> QED BY <1>1, <1>2, <1>3 DEF IInv

-----------------------------------------------------------------------------
\* The end of a child.
LEMMA ExitIInv ==
  ASSUME IInv, NEW q \in Procs,
         NEW e \in {"E_NORMAL", "E_SETUP", "E_COMPARE", "E_INTERNAL", "E_SIGNAL"},
         Exit(q, e), disk' = disk, hurt' = hurt \/ hurt' = hurt \cup {q},
         Careful => e = "E_NORMAL" \/ q \in hurt'
  PROVE  IInv'
<1>0. Types /\ Disjoint /\ Local(q)
  BY DEF IInv
<1>1. Types'
  BY <1>0 DEF Types, Exit, Goto, Labels
<1>2. Frame(q)
  BY <1>0 DEF Frame, Types, Exit, Goto
<1>3. /\ pc'[q] = "exit" /\ status'[q] = e /\ lock'[q] = {} /\ rval'[q] = rval[q]
      /\ \A k \in Keys : cache'[q][k] = 0
  BY <1>0 DEF Types, Exit, Goto
<1>4. Local(q)'
  <2>1. Open(q)' = {}
    BY <1>3 DEF Open
  <2>2. Ages(q)'
    BY <1>3, <2>1 DEF Ages
  <2>3. Kinds(q)' /\ Held(q)'
    BY <1>3 DEF Kinds, Held, Inside
  <2>4. Blameless(q)'
    BY <1>0, <1>3 DEF Blameless, Local
  <2> QED BY <2>2, <2>3, <2>4 DEF Local
<1>5. Good(q)'
  BY <1>3 DEF Good
<1>6. DiskFrame(q) /\ hurt \subseteq hurt'
  BY DEF DiskFrame
<1> QED BY <1>1, <1>2, <1>3, <1>4, <1>5, <1>6, StepOf

\* A step from one point of a request to a later one, with the lock held and the
\* descriptors as they are.
LEMMA Progress ==
  ASSUME IInv, NEW q \in Procs, NEW l \in {"io", "check", "end", "logdone", "unlock"},
         pc[q] \in {"log", "io", "compare", "logdone"}, Goto(q, l),
         UNCHANGED <<req, Reqno, cache, lock, status>>,
         rval' \in [Procs -> BOOLEAN], \A p \in Procs : p # q => rval'[p] = rval[p],
         hurt' \in SUBSET Procs, hurt \subseteq hurt', ~rval'[q] => q \in hurt',
         l = "io" => pc[q] = "log",
         l = "check" => pc[q] = "io",
         l \in {"check", "logdone"} => req[q].type \in WriteTypes,
         l = "unlock" => req[q].type \in WriteTypes \cup CtlTypes,
         disk' \in [Files -> [Bytes -> {<<>>} \cup (Procs \X Patterns)]],
         \A f \in Files, b \in Bytes :
           \/ disk'[f][b] = disk[f][b]
           \/ /\ pc[q] = "io" /\ req[q].type \in WriteTypes \cup CtlTypes
              /\ <<f, b>> \in Span(req[q].file, Extent(req[q])),
         l = "check" /\ q \notin hurt' => Matches(q)'
  PROVE  IInv'
<1>0. Types /\ Disjoint /\ Ages(q) /\ Kinds(q) /\ Held(q) /\ Blameless(q)
  BY DEF IInv, Local
<1>1. pc' \in [Procs -> Labels] /\ pc'[q] = l /\ \A p \in Procs : p # q => pc'[p] = pc[p]
  BY <1>0 DEF Types, Goto, Labels
<1>2. Types'
  BY <1>0, <1>1 DEF Types
<1>3. Frame(q)
  BY <1>1 DEF Frame
<1>4. Local(q)'
  <2>1. Ages(q)'
    BY <1>0, <1>1 DEF Ages, Open
  <2>2. Kinds(q)'
    BY <1>1 DEF Kinds
  <2>3. Held(q)'
    BY <1>0, <1>1 DEF Held, Inside
  <2>4. Blameless(q)'
    BY <1>0 DEF Blameless
  <2> QED BY <2>1, <2>2, <2>3, <2>4 DEF Local
<1>5. Good(q)'
  BY <1>1 DEF Good
<1>6. DiskFrame(q)
  <2> SUFFICES ASSUME NEW f \in Files, NEW b \in Bytes, disk'[f][b] # disk[f][b], Careful
               PROVE  <<f, b>> \in lock[q]
    BY DEF DiskFrame
  <2>1. /\ pc[q] = "io" /\ req[q].type \in WriteTypes \cup CtlTypes
        /\ <<f, b>> \in Span(req[q].file, Extent(req[q]))
    OBVIOUS
  <2>2. LockRegion(req[q]) \subseteq lock[q]
    BY <1>0, <2>1 DEF Held, Inside, Locking, Careful
  <2>3. req[q] \in Requests
    BY <1>0 DEF Types
  <2> QED BY <2>1, <2>2, <2>3, ExtentLocked
<1>7. \A p \in Procs : p # q => lock'[q] \cap lock[p] = {}
  BY <1>0 DEF Disjoint
<1> QED BY <1>2, <1>3, <1>4, <1>5, <1>6, <1>7, StepOf

-----------------------------------------------------------------------------
(* The actions *)

\* The first request does not meet a release, unless every one does.
LEMMA FirstNotReleased ==
  ASSUME NEW n \in Nat, n # 0, n # 1 PROVE 1 % n # 0
  OBVIOUS

\* Taking a request, with or without a release of the cache, keeps the invariant.
LEMMA ReadRequestIInv ==
  ASSUME IInv, NEW q \in Procs, ReadRequest(q) PROVE IInv'
<1>0. Types /\ Disjoint /\ Ages(q) /\ Held(q) /\ Blameless(q)
  BY DEF IInv, Local
<1>1. pc[q] = "read" /\ disk' = disk /\ hurt' = hurt
  BY DEF ReadRequest
<1>2. CASE Releasing(q) /\ Open(q) = {}
  <2>1. Exit(q, "E_SETUP")
    BY <1>2 DEF ReadRequest
  <2>2. ~Careful
    <3>1. SUFFICES ASSUME Careful PROVE FALSE
      OBVIOUS
    <3>2. Reqno[q] = 1
      BY <1>0, <1>1, <1>2 DEF Ages, Types
    <3>3. Release_Interval \in Nat /\ Release_Interval # 0 /\ Release_Interval # 1
          /\ 1 % Release_Interval = 0
      BY <1>2, <3>1, <3>2, DoioAssumption DEF Releasing, Careful
    <3> QED BY <3>3, FirstNotReleased
  <2> QED BY <1>1, <2>1, <2>2, ExitIInv
<1>3. CASE ~(Releasing(q) /\ Open(q) = {})
  <2>1. TakeRequest(q)
    BY <1>3 DEF ReadRequest
  <2>2. PICK r \in Requests : req' = [req EXCEPT ![q] = r]
    BY <2>1 DEF TakeRequest
  <2>3. /\ cache' \in [Procs -> [Keys -> Nat]]
        /\ \A p \in Procs : p # q => cache'[p] = cache[p]
        /\ \A k \in Keys : cache'[q][k] = cache[q][k] \/ cache'[q][k] = 0
    <3>1. CASE Releasing(q)
      BY <1>0, <2>1, <3>1 DEF TakeRequest, Types
    <3>2. CASE ~Releasing(q)
      BY <1>0, <2>1, <3>2 DEF TakeRequest, Types
    <3> QED BY <3>1, <3>2
  <2>4. /\ lock' \in [Procs -> SUBSET (Files \X Nat)]
        /\ \A p \in Procs : p # q => lock'[p] = lock[p]
        /\ lock'[q] \subseteq lock[q]
    <3>1. CASE Releasing(q)
      BY <1>0, <2>1, <3>1 DEF TakeRequest, Types
    <3>2. CASE ~Releasing(q)
      BY <1>0, <2>1, <3>2 DEF TakeRequest, Types
    <3> QED BY <3>1, <3>2
  <2>5. /\ pc' = [pc EXCEPT ![q] = "open"] /\ rval' = [rval EXCEPT ![q] = TRUE]
        /\ Reqno' = Reqno /\ status' = status
    BY <2>1 DEF TakeRequest, Goto
  <2>6. Types'
    BY <1>0, <1>1, <2>2, <2>3, <2>4, <2>5 DEF Types, Labels
  <2>7. Frame(q)
    BY <1>0, <2>2, <2>3, <2>4, <2>5 DEF Frame, Types
  <2>8. pc'[q] = "open" /\ rval'[q] = TRUE
    BY <1>0, <2>5 DEF Types
  <2>9. Local(q)'
    <3>1. \A k \in Keys : cache'[q][k] < Reqno'[q]
      <4>1. Reqno[q] \in Nat \ {0} /\ \A k \in Keys : cache[q][k] < Reqno[q]
        BY <1>0, <1>1 DEF Ages, Types
      <4> QED BY <2>3, <2>5, <4>1
    <3>2. \A k \in Keys : cache'[q][k] <= Reqno'[q]
      BY <3>1, <2>6 DEF Types
    <3>3. TwoWays => Open(q)' \subseteq Used
      BY <1>0, <2>3 DEF Open, Ages
    <3>4. Ages(q)'
      BY <2>8, <3>1, <3>2, <3>3 DEF Ages
    <3>5. Kinds(q)' /\ Held(q)'
      BY <2>8 DEF Kinds, Held, Inside
    <3>6. Blameless(q)'
      BY <1>0, <1>1, <2>5, <2>8 DEF Blameless
    <3> QED BY <3>4, <3>5, <3>6 DEF Local
  <2>10. Good(q)'
    BY <2>8 DEF Good
  <2>11. DiskFrame(q)
    BY <1>1 DEF DiskFrame
  <2>12. \A p \in Procs : p # q => lock'[q] \cap lock[p] = {}
    BY <1>0, <2>4 DEF Disjoint
  <2> QED BY <1>1, <2>6, <2>7, <2>9, <2>10, <2>11, <2>12, StepOf
<1> QED BY <1>2, <1>3

\* A descriptor for the request: it is now the only one of its age.
LEMMA OpenFileIInv ==
  ASSUME IInv, NEW q \in Procs, OpenFile(q) PROVE IInv'
<1>0. Types /\ Disjoint /\ Ages(q) /\ Blameless(q)
  BY DEF IInv, Local
<1> DEFINE k == Key(req[q])
<1>1. req[q] \in Requests /\ k \in Keys /\ AllocFd(q, k)
  BY <1>0, RequestFields DEF Types, OpenFile
<1>2. pc[q] = "open" /\ UNCHANGED <<req, Reqno, rval, status, disk, hurt>>
  BY DEF OpenFile
<1>3. PICK l \in {"lock", "log", "io"} :
        /\ pc' = [pc EXCEPT ![q] = l]
        /\ l = "lock" <=> Locking(req[q])
        /\ l = "log" => req[q].type \in WriteTypes
  BY DEF OpenFile, Goto
<1> HIDE DEF k
<1>4. /\ cache' \in [Procs -> [Keys -> Nat]]
      /\ lock' \in [Procs -> SUBSET (Files \X Nat)]
      /\ \A p \in Procs : p # q => cache'[p] = cache[p] /\ lock'[p] = lock[p]
      /\ lock'[q] \subseteq lock[q]
      /\ cache'[q][k] = Reqno[q]
      /\ \A j \in Keys : j # k => cache'[q][j] = cache[q][j] \/ cache'[q][j] = 0
      /\ Open(q)' # {}
      /\ Open(q)' \subseteq Open(q) \cup {k}
  BY <1>0, <1>1, AllocEffect
<1>5. pc'[q] = l /\ pc' \in [Procs -> Labels] /\ \A p \in Procs : p # q => pc'[p] = pc[p]
  BY <1>0, <1>3 DEF Types, Labels
<1>6. Types'
  BY <1>0, <1>2, <1>4, <1>5 DEF Types
<1>7. Frame(q)
  BY <1>2, <1>4, <1>5 DEF Frame
<1>8. Ages(q)'
  <2>1. Reqno[q] \in Nat \ {0} /\ \A j \in Keys : cache[q][j] < Reqno[q]
    BY <1>0, <1>2 DEF Ages, Types
  <2>2. \A j \in Keys : j # k => cache'[q][j] < Reqno[q]
    BY <1>4, <2>1
  <2>3. \A j \in Keys : cache'[q][j] <= Reqno[q]
    BY <1>4, <2>1, <2>2
  <2>4. TwoWays => k \in Used
    BY <1>1, RequestFields DEF TwoWays, Used, CheckKey, k
  <2>5. TwoWays => Open(q)' \subseteq Used
    BY <1>0, <1>4, <2>4 DEF Ages
  <2>6. Key(req'[q]) = k
    BY <1>2 DEF k
  <2> QED BY <1>2, <1>4, <1>5, <2>2, <2>3, <2>5, <2>6 DEF Ages
<1>9. Kinds(q)'
  BY <1>2, <1>3, <1>5 DEF Kinds
<1>10. Held(q)'
  BY <1>2, <1>3, <1>5 DEF Held, Inside
<1>11. Blameless(q)' /\ Good(q)'
  BY <1>0, <1>2, <1>5 DEF Blameless, Good
<1>12. DiskFrame(q)
  BY <1>2 DEF DiskFrame
<1>13. \A p \in Procs : p # q => lock'[q] \cap lock[p] = {}
  BY <1>0, <1>4 DEF Disjoint
<1>14. Local(q)'
  BY <1>8, <1>9, <1>10, <1>11 DEF Local
<1> QED BY <1>2, <1>6, <1>7, <1>11, <1>12, <1>13, <1>14, StepOf

\* The next request makes every descriptor older.
LEMMA Older ==
  ASSUME NEW n \in Nat, NEW c \in [Keys -> Nat], \A k \in Keys : c[k] <= n
  PROVE  \A k \in Keys : c[k] < n + 1 /\ c[k] <= n + 1
  OBVIOUS

\* A request too large for its shared memory ends with its file opened.
LEMMA SkipRequestIInv ==
  ASSUME IInv, NEW q \in Procs, SkipRequest(q) PROVE IInv'
<1>0. Types /\ Disjoint /\ Ages(q) /\ Blameless(q)
  BY DEF IInv, Local
<1> DEFINE k == Key(req[q])
<1>1. req[q] \in Requests /\ k \in Keys /\ AllocFd(q, k)
  BY <1>0, RequestFields DEF Types, SkipRequest
<1>2. /\ pc[q] = "open" /\ UNCHANGED <<req, rval, status, disk, hurt>>
      /\ pc' = [pc EXCEPT ![q] = "read"] /\ Reqno' = [Reqno EXCEPT ![q] = Reqno[q] + 1]
  BY DEF SkipRequest, EndRequest, Goto
<1> HIDE DEF k
<1>3. /\ cache' \in [Procs -> [Keys -> Nat]]
      /\ lock' \in [Procs -> SUBSET (Files \X Nat)]
      /\ \A p \in Procs : p # q => cache'[p] = cache[p] /\ lock'[p] = lock[p]
      /\ lock'[q] \subseteq lock[q]
      /\ cache'[q][k] = Reqno[q]
      /\ \A j \in Keys : j # k => cache'[q][j] = cache[q][j] \/ cache'[q][j] = 0
      /\ Open(q)' # {}
      /\ Open(q)' \subseteq Open(q) \cup {k}
  BY <1>0, <1>1, AllocEffect
<1>4. Reqno[q] \in Nat \ {0} /\ Reqno'[q] = Reqno[q] + 1 /\ pc'[q] = "read"
  BY <1>0, <1>2 DEF Types
<1>5. Types'
  <2>1. Reqno' \in [Procs -> Nat \ {0}]
    BY <1>0, <1>2, <1>4 DEF Types
  <2>2. pc' \in [Procs -> Labels]
    BY <1>0, <1>2 DEF Types, Labels
  <2> QED BY <1>0, <1>2, <1>3, <2>1, <2>2 DEF Types
<1>6. Frame(q)
  BY <1>0, <1>2, <1>3 DEF Frame, Types
<1>7. Ages(q)'
  <2>0. \A j \in Keys : cache[q][j] \in Nat /\ cache[q][j] <= Reqno[q]
    BY <1>0, <1>2 DEF Ages, Types
  <2>1. \A j \in Keys : cache'[q][j] <= Reqno[q]
    <3> SUFFICES ASSUME NEW j \in Keys PROVE cache'[q][j] <= Reqno[q]
      OBVIOUS
    <3>1. CASE j = k
      BY <1>3, <1>4, <3>1
    <3>2. CASE j # k
      BY <1>3, <1>4, <2>0, <3>2
    <3> QED BY <3>1, <3>2
  <2>2. \A j \in Keys : cache'[q][j] < Reqno'[q] /\ cache'[q][j] <= Reqno'[q]
    BY <1>3, <1>4, <2>1, Older
  <2>3. TwoWays => k \in Used
    BY <1>1, RequestFields DEF TwoWays, Used, CheckKey, k
  <2>4. TwoWays => Open(q)' \subseteq Used
    BY <1>0, <1>3, <2>3 DEF Ages
  <2> QED BY <1>3, <1>4, <2>2, <2>4 DEF Ages
<1>8. Kinds(q)' /\ Held(q)' /\ Blameless(q)' /\ Good(q)'
  BY <1>0, <1>2, <1>4 DEF Kinds, Held, Inside, Blameless, Good
<1>9. DiskFrame(q)
  BY <1>2 DEF DiskFrame
<1>10. \A p \in Procs : p # q => lock'[q] \cap lock[p] = {}
  BY <1>0, <1>3 DEF Disjoint
<1>11. Local(q)'
  BY <1>7, <1>8 DEF Local
<1> QED BY <1>2, <1>5, <1>6, <1>8, <1>9, <1>10, <1>11, StepOf

\* F_SETLKW grants a region that no other child holds.
LEMMA LockFileRegionIInv ==
  ASSUME IInv, NEW q \in Procs, LockFileRegion(q) PROVE IInv'
<1>0. Types /\ Disjoint /\ Ages(q) /\ Kinds(q) /\ Blameless(q)
  BY DEF IInv, Local
<1>1. /\ pc[q] = "lock" /\ UNCHANGED <<req, Reqno, cache, rval, status, disk, hurt>>
      /\ \A p \in Procs \ {q} : lock[p] \cap LockRegion(req[q]) = {}
      /\ lock' = [lock EXCEPT ![q] = lock[q] \cup LockRegion(req[q])]
  BY DEF LockFileRegion
<1>2. PICK l \in {"log", "io"} : /\ pc' = [pc EXCEPT ![q] = l]
                                 /\ l = "log" => req[q].type \in WriteTypes
  BY DEF LockFileRegion, Goto
<1>3. pc'[q] = l /\ pc' \in [Procs -> Labels] /\ \A p \in Procs : p # q => pc'[p] = pc[p]
  BY <1>0, <1>2 DEF Types, Labels
<1>4. LockRegion(req[q]) \subseteq Files \X Nat
  BY <1>0, RegionType DEF Types
<1>5. /\ lock' \in [Procs -> SUBSET (Files \X Nat)]
      /\ lock'[q] = lock[q] \cup LockRegion(req[q])
      /\ \A p \in Procs : p # q => lock'[p] = lock[p]
  BY <1>0, <1>1, <1>4 DEF Types
<1>6. Types'
  BY <1>0, <1>1, <1>3, <1>5 DEF Types
<1>7. Frame(q)
  BY <1>1, <1>3, <1>5 DEF Frame
<1>8. Ages(q)'
  BY <1>0, <1>1, <1>3 DEF Ages, Open
<1>9. Kinds(q)'
  BY <1>1, <1>2, <1>3 DEF Kinds
<1>10. Held(q)'
  BY <1>1, <1>5 DEF Held
<1>11. Blameless(q)' /\ Good(q)'
  BY <1>0, <1>1, <1>3 DEF Blameless, Good
<1>12. Local(q)'
  BY <1>8, <1>9, <1>10, <1>11 DEF Local
<1>13. DiskFrame(q)
  BY <1>1 DEF DiskFrame
<1>14. \A p \in Procs : p # q => lock'[q] \cap lock[p] = {}
  BY <1>0, <1>1, <1>5 DEF Disjoint
<1> QED BY <1>1, <1>6, <1>7, <1>11, <1>12, <1>13, <1>14, StepOf

\* The verification's descriptor.
LEMMA OpenCheckIInv ==
  ASSUME IInv, NEW q \in Procs, OpenCheck(q) PROVE IInv'
<1>0. Types /\ Disjoint /\ Ages(q) /\ Kinds(q) /\ Held(q) /\ Blameless(q) /\ Good(q)
  BY DEF IInv, Local
<1> DEFINE k == CheckKey(req[q])
<1>1. req[q] \in Requests /\ k \in Keys /\ AllocFd(q, k) /\ k \in Used
  BY <1>0, RequestFields DEF Types, OpenCheck, Used, CheckKey
<1>2. /\ pc[q] = "check" /\ UNCHANGED <<req, Reqno, rval, status, disk, hurt>>
      /\ pc' = [pc EXCEPT ![q] = "compare"]
  BY DEF OpenCheck, Goto
<1>3. DescriptorsSuffice => LockRegion(req[q]) \cap lock[q] \subseteq lock'[q]
  BY <1>0, <1>1, <1>2, CheckKeepsLock
<1> HIDE DEF k
<1>4. /\ cache' \in [Procs -> [Keys -> Nat]]
      /\ lock' \in [Procs -> SUBSET (Files \X Nat)]
      /\ \A p \in Procs : p # q => cache'[p] = cache[p] /\ lock'[p] = lock[p]
      /\ lock'[q] \subseteq lock[q]
      /\ cache'[q][k] = Reqno[q]
      /\ \A j \in Keys : j # k => cache'[q][j] = cache[q][j] \/ cache'[q][j] = 0
      /\ Open(q)' # {}
      /\ Open(q)' \subseteq Open(q) \cup {k}
  BY <1>0, <1>1, AllocEffect
<1>5. /\ pc'[q] = "compare" /\ pc' \in [Procs -> Labels]
      /\ \A p \in Procs : p # q => pc'[p] = pc[p]
  BY <1>0, <1>2 DEF Types, Labels
<1>6. Types'
  BY <1>0, <1>2, <1>4, <1>5 DEF Types
<1>7. Frame(q)
  BY <1>2, <1>4, <1>5 DEF Frame
<1>8. Ages(q)'
  <2>0. Reqno[q] \in Nat /\ \A j \in Keys : cache[q][j] \in Nat /\ cache[q][j] <= Reqno[q]
    BY <1>0, <1>2 DEF Ages, Types
  <2>1. \A j \in Keys : cache'[q][j] <= Reqno'[q]
    <3> SUFFICES ASSUME NEW j \in Keys PROVE cache'[q][j] <= Reqno[q]
      BY <1>2
    <3>1. CASE j = k
      BY <1>4, <2>0, <3>1
    <3>2. CASE j # k
      BY <1>4, <2>0, <3>2
    <3> QED BY <3>1, <3>2
  <2>2. TwoWays => Open(q)' \subseteq Used
    BY <1>0, <1>1, <1>4 DEF Ages
  <2> QED BY <1>4, <1>5, <2>1, <2>2 DEF Ages
<1>9. Kinds(q)'
  BY <1>0, <1>2, <1>5 DEF Kinds
<1>10. Held(q)'
  BY <1>0, <1>2, <1>3 DEF Held, Inside
<1>11. Blameless(q)'
  BY <1>0, <1>2 DEF Blameless
<1>12. Good(q)'
  BY <1>0, <1>2 DEF Good, Matches, Tag
<1>13. Local(q)'
  BY <1>8, <1>9, <1>10, <1>11 DEF Local
<1>14. DiskFrame(q)
  BY <1>2 DEF DiskFrame
<1>15. \A p \in Procs : p # q => lock'[q] \cap lock[p] = {}
  BY <1>0, <1>4 DEF Disjoint
<1> QED BY <1>2, <1>6, <1>7, <1>12, <1>13, <1>14, <1>15, StepOf

\* The unlock gives back what the same request has locked.
LEMMA UnlockFileRegionIInv ==
  ASSUME IInv, NEW q \in Procs, UnlockFileRegion(q) PROVE IInv'
<1>0. Types /\ Disjoint /\ Ages(q) /\ Blameless(q)
  BY DEF IInv, Local
<1>1. /\ pc[q] = "unlock" /\ UNCHANGED <<req, Reqno, cache, rval, status, disk, hurt>>
      /\ pc' = [pc EXCEPT ![q] = "end"]
  BY DEF UnlockFileRegion, Goto
<1>2. /\ lock' \in [Procs -> SUBSET (Files \X Nat)]
      /\ lock'[q] \subseteq lock[q]
      /\ \A p \in Procs : p # q => lock'[p] = lock[p]
  <2>1. CASE Locking(req[q])
    BY <1>0, <2>1 DEF Types, UnlockFileRegion
  <2>2. CASE ~Locking(req[q])
    BY <1>0, <2>2 DEF Types, UnlockFileRegion
  <2> QED BY <2>1, <2>2
<1>3. /\ pc'[q] = "end" /\ pc' \in [Procs -> Labels]
      /\ \A p \in Procs : p # q => pc'[p] = pc[p]
  BY <1>0, <1>1 DEF Types, Labels
<1>4. Types'
  BY <1>0, <1>1, <1>2, <1>3 DEF Types
<1>5. Frame(q)
  BY <1>1, <1>2, <1>3 DEF Frame
<1>6. Ages(q)'
  BY <1>0, <1>1, <1>3 DEF Ages, Open
<1>7. Kinds(q)' /\ Held(q)' /\ Blameless(q)' /\ Good(q)'
  BY <1>0, <1>1, <1>3 DEF Kinds, Held, Inside, Blameless, Good
<1>8. DiskFrame(q) /\ Local(q)'
  BY <1>1, <1>6, <1>7 DEF DiskFrame, Local
<1>9. \A p \in Procs : p # q => lock'[q] \cap lock[p] = {}
  BY <1>0, <1>2 DEF Disjoint
<1> QED BY <1>1, <1>4, <1>5, <1>7, <1>8, <1>9, StepOf

\* The return from a request leaves no lock behind.
LEMMA ReturnIInv ==
  ASSUME IInv, NEW q \in Procs, Return(q) PROVE IInv'
<1>0. Types /\ Disjoint /\ Ages(q) /\ Blameless(q)
  BY DEF IInv, Local
<1>1. pc[q] = "end" /\ disk' = disk /\ hurt' = hurt
  BY DEF Return
<1>2. CASE ~rval[q]
  BY <1>0, <1>1, <1>2, ExitIInv DEF Return, Blameless
<1>3. CASE rval[q]
  <2>1. /\ UNCHANGED <<req, cache, lock, rval, status>>
        /\ pc' = [pc EXCEPT ![q] = "read"] /\ Reqno' = [Reqno EXCEPT ![q] = Reqno[q] + 1]
    BY <1>3 DEF Return, EndRequest, Goto
  <2>2. Reqno[q] \in Nat \ {0} /\ Reqno'[q] = Reqno[q] + 1 /\ pc'[q] = "read"
    BY <1>0, <2>1 DEF Types
  <2>3. Types'
    <3>1. Reqno' \in [Procs -> Nat \ {0}]
      BY <1>0, <2>1, <2>2 DEF Types
    <3>2. pc' \in [Procs -> Labels]
      BY <1>0, <2>1 DEF Types, Labels
    <3> QED BY <1>0, <1>1, <2>1, <3>1, <3>2 DEF Types
  <2>4. Frame(q)
    BY <1>0, <2>1 DEF Frame, Types
  <2>5. Ages(q)'
    <3>1. cache[q] \in [Keys -> Nat] /\ \A k \in Keys : cache[q][k] <= Reqno[q]
      BY <1>0, <1>1 DEF Ages, Types
    <3>2. \A k \in Keys : cache'[q][k] < Reqno'[q] /\ cache'[q][k] <= Reqno'[q]
      BY <2>1, <2>2, <3>1, Older
    <3>3. Open(q)' = Open(q)
      BY <2>1 DEF Open
    <3> QED BY <1>0, <1>1, <2>2, <3>2, <3>3 DEF Ages
  <2>6. Kinds(q)' /\ Held(q)' /\ Blameless(q)' /\ Good(q)'
    BY <1>0, <1>1, <2>1, <2>2 DEF Kinds, Held, Inside, Blameless, Good
  <2>7. DiskFrame(q) /\ Local(q)'
    BY <1>1, <2>5, <2>6 DEF DiskFrame, Local
  <2>8. \A p \in Procs : p # q => lock'[q] \cap lock[p] = {}
    BY <1>0, <2>1 DEF Disjoint
  <2> QED BY <1>1, <2>3, <2>4, <2>6, <2>7, <2>8, StepOf
<1> QED BY <1>2, <1>3

\* The steps within a request that leave files and descriptors alone.
LEMMA QuietIInv ==
  ASSUME IInv, NEW q \in Procs,
         LogWrite(q) \/ LogFails(q) \/ DoRead(q) \/ DoSync(q) \/ LogDone(q)
  PROVE  IInv'
<1>0. Types /\ Kinds(q) /\ Blameless(q) /\ Good(q)
  BY DEF IInv, Local
<1>1. UNCHANGED <<req, Reqno, cache, lock, status, rval, disk, hurt>>
  BY DEF LogWrite, LogFails, DoRead, DoSync, LogDone
<1>2. pc[q] \in {"log", "io", "logdone"}
  BY DEF LogWrite, LogFails, DoRead, DoSync, LogDone
<1>3. PICK l \in {"io", "end", "unlock"} :
        /\ Goto(q, l)
        /\ l = "io" => pc[q] = "log"
        /\ l = "unlock" => req[q].type \in WriteTypes \cup CtlTypes
  BY DEF LogWrite, LogFails, DoRead, DoSync, LogDone, AfterIo, Locking, ReadTypes,
         WriteTypes, CtlTypes, SyncTypes
<1>4. ~rval'[q] => q \in hurt'
  BY <1>0, <1>1 DEF Blameless
<1> QED BY <1>0, <1>1, <1>2, <1>3, <1>4, Progress DEF Types

\* What a write of t to the bytes S of file f leaves on the disk.
LEMMA FilledEffect ==
  ASSUME Types, NEW f \in Files, NEW S, NEW t \in {<<>>} \cup (Procs \X Patterns),
         disk' = Filled(f, S, t)
  PROVE  /\ disk' \in [Files -> [Bytes -> {<<>>} \cup (Procs \X Patterns)]]
         /\ \A g \in Files, b \in Bytes :
              disk'[g][b] = IF g = f /\ b \in S THEN t ELSE disk[g][b]
<1> DEFINE V == {<<>>} \cup (Procs \X Patterns)
           new == [b \in Bytes |-> IF b \in S THEN t ELSE disk[f][b]]
<1>1. disk' = [disk EXCEPT ![f] = new]
  BY DEF Filled
<1>2. disk \in [Files -> [Bytes -> V]] /\ t \in V
  BY DEF Types
<1> HIDE DEF V
<1>3. new \in [Bytes -> V]
  BY <1>2
<1>4. disk' \in [Files -> [Bytes -> V]] /\ \A g \in Files : disk'[g] = IF g = f THEN new ELSE disk[g]
  BY <1>1, <1>2, <1>3
<1> QED BY <1>4 DEF V

\* A write reaches the whole extent, and is found again.
LEMMA DoWriteIInv ==
  ASSUME IInv, NEW q \in Procs, DoWrite(q) PROVE IInv'
<1>0. Types /\ Blameless(q)
  BY DEF IInv, Local
<1> DEFINE r == req[q]
<1>1. /\ pc[q] = "io" /\ r.type \in WriteTypes
      /\ disk' = Filled(r.file, Extent(r), Tag(q, r))
      /\ UNCHANGED <<req, Reqno, cache, lock, status, rval, hurt>>
  BY DEF DoWrite
<1>2. PICK l \in {"check", "logdone"} : Goto(q, l)
  BY <1>1 DEF DoWrite, AfterIo
<1>3. r \in Requests /\ r.file \in Files /\ Tag(q, r) \in Procs \X Patterns
  BY <1>0, RequestFields DEF Types, Tag
<1>4. /\ disk' \in [Files -> [Bytes -> {<<>>} \cup (Procs \X Patterns)]]
      /\ \A g \in Files, b \in Bytes :
           disk'[g][b] = IF g = r.file /\ b \in Extent(r) THEN Tag(q, r) ELSE disk[g][b]
  BY <1>0, <1>1, <1>3, FilledEffect
<1>5. Matches(q)'
  BY <1>1, <1>3, <1>4 DEF Matches, Extent, Tag
<1>6. \A f \in Files, b \in Bytes :
        disk'[f][b] = disk[f][b] \/ <<f, b>> \in Span(r.file, Extent(r))
  BY <1>4 DEF Span
<1>7. ~rval'[q] => q \in hurt'
  BY <1>0, <1>1 DEF Blameless
<1> QED BY <1>0, <1>1, <1>2, <1>4, <1>5, <1>6, <1>7, Progress DEF Types

\* do_xfsctl() runs under the lock of its own request.
LEMMA DoXfsctlIInv ==
  ASSUME IInv, NEW q \in Procs, DoXfsctl(q) PROVE IInv'
<1>0. Types /\ Blameless(q)
  BY DEF IInv, Local
<1> DEFINE r == req[q]
           freed == IF r.type = "unresvsp" THEN Extent(r) ELSE {}
<1>1. /\ pc[q] = "io" /\ r.type \in CtlTypes
      /\ disk' = Filled(r.file, freed, <<>>)
      /\ UNCHANGED <<req, Reqno, cache, lock, status, rval, hurt>>
  BY DEF DoXfsctl
<1>2. Goto(q, "unlock")
  BY <1>1 DEF DoXfsctl, AfterIo, CtlTypes, WriteTypes
<1>3. r \in Requests /\ r.file \in Files /\ freed \subseteq Extent(r)
  BY <1>0, RequestFields DEF Types
<1> HIDE DEF freed
<1>4. /\ disk' \in [Files -> [Bytes -> {<<>>} \cup (Procs \X Patterns)]]
      /\ \A g \in Files, b \in Bytes :
           disk'[g][b] = IF g = r.file /\ b \in freed THEN <<>> ELSE disk[g][b]
  BY <1>0, <1>1, <1>3, FilledEffect
<1>5. \A f \in Files, b \in Bytes :
        disk'[f][b] = disk[f][b] \/ <<f, b>> \in Span(r.file, Extent(r))
  BY <1>3, <1>4 DEF Span
<1>6. ~rval'[q] => q \in hurt'
  BY <1>0, <1>1 DEF Blameless
<1> QED BY <1>0, <1>1, <1>2, <1>4, <1>5, <1>6, Progress DEF Types

\* A failing call is the child's own misfortune.
LEMMA IoFailsIInv ==
  ASSUME IInv, NEW q \in Procs, IoFails(q) PROVE IInv'
<1>0. Types /\ Blameless(q)
  BY DEF IInv, Local
<1> DEFINE r == req[q]
<1>1. /\ pc[q] = "io" /\ hurt' = hurt \cup {q}
      /\ rval' = [rval EXCEPT ![q] = FALSE]
      /\ UNCHANGED <<req, Reqno, cache, lock, status>>
      /\ Goto(q, AfterIo(q, FALSE))
  BY DEF IoFails
<1>2. r \in Requests /\ r.file \in Files /\ Tag(q, r) \in Procs \X Patterns
  BY <1>0, RequestFields DEF Types, Tag
<1>3. /\ rval' \in [Procs -> BOOLEAN] /\ \A p \in Procs : p # q => rval'[p] = rval[p]
      /\ hurt' \in SUBSET Procs /\ hurt \subseteq hurt' /\ q \in hurt'
  BY <1>0, <1>1 DEF Types
<1>4. CASE r.type \in WriteTypes
  <2>1. PICK n \in 0 .. r.nbytes - 1 :
          disk' = Filled(r.file, {b \in Extent(r) : b < r.offset + n}, Tag(q, r))
    BY <1>4 DEF IoFails
  <2> DEFINE S == {b \in Extent(r) : b < r.offset + n}
  <2>2. disk' = Filled(r.file, S, Tag(q, r)) /\ S \subseteq Extent(r)
    BY <2>1
  <2> HIDE DEF S
  <2>3. /\ disk' \in [Files -> [Bytes -> {<<>>} \cup (Procs \X Patterns)]]
        /\ \A g \in Files, b \in Bytes :
             disk'[g][b] = IF g = r.file /\ b \in S THEN Tag(q, r) ELSE disk[g][b]
    BY <1>0, <1>2, <2>2, FilledEffect
  <2>4. \A f \in Files, b \in Bytes :
          disk'[f][b] = disk[f][b] \/ <<f, b>> \in Span(r.file, Extent(r))
    BY <2>2, <2>3 DEF Span
  <2>5. PICK l \in {"check", "logdone"} : Goto(q, l)
    BY <1>1, <1>4 DEF AfterIo
  <2> QED BY <1>1, <1>3, <1>4, <2>3, <2>4, <2>5, Progress, ZenonT(60)
<1>5. CASE r.type \notin WriteTypes
  <2>1. disk' = disk
    BY <1>5 DEF IoFails
  <2>2. PICK l \in {"unlock", "end"} :
          Goto(q, l) /\ (l = "unlock" => r.type \in WriteTypes \cup CtlTypes)
    BY <1>1, <1>5 DEF AfterIo
  <2>3. disk' \in [Files -> [Bytes -> {<<>>} \cup (Procs \X Patterns)]]
    BY <1>0, <2>1 DEF Types
  <2> QED BY <1>1, <1>3, <2>1, <2>2, <2>3, Progress
<1> QED BY <1>4, <1>5

\* The comparison fails only for a child that had a failing call.
LEMMA CompareIInv ==
  ASSUME IInv, NEW q \in Procs, Compare(q) PROVE IInv'
<1>0. Types /\ Kinds(q) /\ Blameless(q) /\ Good(q)
  BY DEF IInv, Local
<1>1. pc[q] = "compare" /\ disk' = disk /\ hurt' = hurt
  BY DEF Compare
<1>2. CASE Matches(q)
  <2>1. Goto(q, "logdone") /\ UNCHANGED <<req, Reqno, cache, lock, rval, status>>
    BY <1>2 DEF Compare
  <2>2. ~rval'[q] => q \in hurt'
    BY <1>0, <1>1, <2>1 DEF Blameless
  <2>3. req[q].type \in WriteTypes
    BY <1>0, <1>1 DEF Kinds
  <2> QED BY <1>0, <1>1, <2>1, <2>2, <2>3, Progress DEF Types
<1>3. CASE ~Matches(q)
  <2>1. Exit(q, "E_COMPARE")
    BY <1>3 DEF Compare
  <2>2. Careful => q \in hurt'
    BY <1>0, <1>1, <1>3 DEF Good
  <2> QED BY <1>1, <2>1, <2>2, ExitIInv
<1> QED BY <1>2, <1>3

\* A child that ends, by itself or killed, gives up its descriptors and locks.
LEMMA EndsIInv ==
  ASSUME IInv, NEW q \in Procs, ReadEof(q) \/ CallFails(q) \/ Killed(q) PROVE IInv'
<1>1. CASE ReadEof(q)
  BY <1>1, ExitIInv DEF ReadEof
<1>2. CASE CallFails(q)
  <2>1. PICK e \in {"E_INTERNAL", "E_COMPARE", "E_SETUP"} : Exit(q, e)
    BY <1>2 DEF CallFails
  <2>2. disk' = disk /\ hurt' = hurt \cup {q}
    BY <1>2 DEF CallFails
  <2> QED BY <2>1, <2>2, ExitIInv
<1>3. CASE Killed(q)
  BY <1>3, ExitIInv DEF Killed
<1> QED BY <1>1, <1>2, <1>3

-----------------------------------------------------------------------------
\* At the start no child has a descriptor or a lock.
LEMMA InitIInv == Init => IInv
<1> SUFFICES ASSUME Init PROVE IInv
  OBVIOUS
<1>1. Types
  <2>1. (CHOOSE r \in Requests : TRUE) \in Requests
    BY DoioAssumption
  <2> QED BY <2>1 DEF Init, Types, Labels
<1>2. ASSUME NEW p \in Procs PROVE Local(p) /\ Good(p)
  <2>1. /\ pc[p] = "read" /\ Reqno[p] = 1 /\ rval[p] = TRUE /\ status[p] = "none"
        /\ \A k \in Keys : cache[p][k] = 0
    BY DEF Init
  <2>2. Open(p) = {}
    BY <2>1 DEF Open
  <2>3. Ages(p)
    BY <2>1, <2>2 DEF Ages
  <2>4. Kinds(p) /\ Held(p) /\ Blameless(p) /\ Good(p)
    BY <2>1 DEF Kinds, Held, Inside, Blameless, Good
  <2> QED BY <2>3, <2>4 DEF Local
<1>3. Disjoint
  BY DEF Init, Disjoint
<1> QED BY <1>1, <1>2, <1>3 DEF IInv

\* Every step keeps the invariant.
LEMMA NextIInv == IInv /\ [Next]_vars => IInv'
<1> SUFFICES ASSUME IInv, [Next]_vars PROVE IInv'
  OBVIOUS
<1>1. ASSUME NEW q \in Procs, Step(q) PROVE IInv'
  BY <1>1, ReadRequestIInv, EndsIInv, OpenFileIInv, LockFileRegionIInv, QuietIInv,
     DoWriteIInv, DoXfsctlIInv, OpenCheckIInv, CompareIInv, UnlockFileRegionIInv,
     ReturnIInv DEF Step
<1>2. ASSUME NEW q \in Procs, Fault(q) PROVE IInv'
  BY <1>2, SkipRequestIInv, QuietIInv, IoFailsIInv, EndsIInv DEF Fault
<1>3. CASE UNCHANGED vars
  <2>1. UNCHANGED <<pc, req, Reqno, cache, lock, rval, status, disk, hurt>>
    BY <1>3 DEF vars, childVars
  <2>2. Types' /\ Disjoint'
    BY <2>1 DEF IInv, Types, Disjoint
  <2>3. ASSUME NEW p \in Procs PROVE Local(p)' /\ Good(p)'
    <3>1. Local(p) /\ Good(p)
      BY DEF IInv
    <3>2. Ages(p)'
      BY <2>1, <3>1 DEF Local, Ages, Open
    <3>3. Kinds(p)' /\ Held(p)' /\ Blameless(p)'
      BY <2>1, <3>1 DEF Local, Kinds, Held, Inside, Blameless
    <3>4. Good(p)'
      BY <2>1, <3>1 DEF Good, Matches
    <3> QED BY <3>2, <3>3, <3>4 DEF Local
  <2> QED BY <2>2, <2>3 DEF IInv
<1> QED BY <1>1, <1>2, <1>3 DEF Next

-----------------------------------------------------------------------------
\* A region stays locked from lock_file_region(F_WRLCK) to lock_file_region(F_UNLCK),
\* also when the verification closes a descriptor, for any number of children, files
\* and descriptors that suffice.
THEOREM LockIsKept == Spec => []LockKept
<1>1. IInv => LockKept
  BY DEF IInv, Local, Held, LockKept
<1> QED BY <1>1, InitIInv, NextIInv, PTL DEF Spec

\* No child of doio blames the file system for what another child did.
THEOREM NeverFalse == Spec => []NoFalseAlarm
<1>1. IInv => NoFalseAlarm
  BY DEF IInv, Local, Blameless, Careful, NoFalseAlarm
<1> QED BY <1>1, InitIInv, NextIInv, PTL DEF Spec

-----------------------------------------------------------------------------
(* The write log *)

Logs == k_opt /\ w_opt /\ DescriptorsSuffice

LogRec == [proc : Procs, file : Files, extent : SUBSET Bytes, tag : Procs \X Patterns,
           done : BOOLEAN]

LogTypes == wlog \in Seq(LogRec) /\ woffset \in [Procs -> Nat]

\* The child's preliminary record: nothing was logged for its bytes after it.
Mine(p) ==
  /\ woffset[p] \in 1 .. Len(wlog) /\ wlog[woffset[p]] = Record(p, FALSE)
  /\ \A j \in 1 .. Len(wlog) :
       j > woffset[p] /\ wlog[j].file = req[p].file => wlog[j].extent \cap Extent(req[p]) = {}

Writing == {"io", "check", "compare", "logdone"}

\* woffset is that of this request, and what was written under it is there.
LogOf(p) ==
  /\ pc[p] \in {"open", "lock", "log"} => woffset[p] = 0
  /\ pc[p] \in Writing /\ woffset[p] # 0 => req[p].type \in WriteTypes /\ Mine(p)
  /\ pc[p] \in Writing \ {"io"} /\ woffset[p] # 0 =>
       \A b \in Extent(req[p]) :
         <<req[p].file, b>> \in unlogged \/ disk[req[p].file][b] = Tag(p, req[p])

\* WlogExplains for one byte, for whichever record is the last.
Explained(f, b) ==
  <<f, b>> \notin unlogged =>
    /\ Covering(f, b) = {} => disk[f][b] = <<>>
    /\ \A i \in Covering(f, b) :
         wlog[i].done /\ (\A j \in Covering(f, b) : j <= i) => disk[f][b] = wlog[i].tag

LogInv ==
  /\ LogTypes
  /\ Logs => /\ \A p \in Procs : LogOf(p)
             /\ \A f \in Files, b \in Bytes : Explained(f, b)

\* A set of positions in the log that is not empty has a last one.
LEMMA LastPosition ==
  ASSUME NEW n \in Nat, NEW T \in SUBSET (1 .. n), T # {}
  PROVE  \E i \in T : \A j \in T : j <= i
<1> DEFINE R == {ss \in Nat \X Nat : ss[1] < ss[2]}
           U == {n - i : i \in T}
<1>1. IsWellFoundedOn(R, Nat)
  BY NatLessThanWellFounded DEF OpToRel
<1>2. U \subseteq Nat /\ U # {}
  <2>1. ASSUME NEW i \in T PROVE n - i \in Nat
    <3>1. i \in 1 .. n
      OBVIOUS
    <3> QED BY <3>1
  <2>2. PICK i \in T : TRUE
    OBVIOUS
  <2>3. n - i \in U
    OBVIOUS
  <2> QED BY <2>1, <2>3
<1>3. PICK x \in U : \A y \in U : ~(<<y, x>> \in R)
  <2> HIDE DEF R, U
  <2> QED BY <1>1, <1>2, WFMin
<1>4. PICK i \in T : x = n - i
  OBVIOUS
<1>5. ASSUME NEW j \in T PROVE j <= i
  <2>1. n - j \in U /\ n - j \in Nat /\ n - i \in Nat /\ i \in Int /\ j \in Int
    OBVIOUS
  <2>2. ~(n - j < n - i)
    BY <1>3, <1>4, <2>1
  <2> QED BY <2>1, <2>2
<1> QED BY <1>5

\* The log explains every byte when each is explained.
LEMMA LogExplains == LogInv => WlogExplains
<1> SUFFICES ASSUME LogInv, Logs, NEW f \in Files, NEW b \in Bytes, <<f, b>> \notin unlogged
             PROVE  IF Covering(f, b) = {} THEN disk[f][b] = <<>>
                    ELSE LET i == CHOOSE i \in Covering(f, b) :
                                    \A j \in Covering(f, b) : j <= i
                         IN wlog[i].done => disk[f][b] = wlog[i].tag
  BY DEF WlogExplains, Logs
<1>1. Explained(f, b)
  BY DEF LogInv
<1>2. CASE Covering(f, b) = {}
  BY <1>1, <1>2 DEF Explained
<1>3. CASE Covering(f, b) # {}
  <2> DEFINE C == Covering(f, b)
             i == CHOOSE i \in C : \A j \in C : j <= i
  <2>1. Len(wlog) \in Nat /\ C \in SUBSET (1 .. Len(wlog))
    BY DEF LogInv, LogTypes, Covering
  <2>2. \E k \in C : \A j \in C : j <= k
    <3> HIDE DEF C
    <3> QED BY <1>3, <2>1, LastPosition DEF C
  <2>3. i \in C /\ \A j \in C : j <= i
    <3> HIDE DEF C
    <3> QED BY <2>2
  <2> HIDE DEF i
  <2>4. wlog[i].done => disk[f][b] = wlog[i].tag
    BY <1>1, <2>3 DEF Explained
  <2> QED BY <1>3, <2>4 DEF i
<1> QED BY <1>2, <1>3

\* The fields of a new record.
LEMMA RecordType ==
  ASSUME Types, NEW p \in Procs, NEW d \in BOOLEAN
  PROVE  /\ Record(p, d) \in LogRec /\ Record(p, d).file = req[p].file
         /\ Record(p, d).extent = Extent(req[p]) /\ Record(p, d).tag = Tag(p, req[p])
         /\ Record(p, d).done = d /\ Record(p, d).proc = p
<1>1. req[p] \in Requests
  BY DEF Types
<1>2. req[p].file \in Files /\ req[p].pattern \in Patterns
  BY <1>1, RequestFields
<1>3. Extent(req[p]) \in SUBSET Bytes /\ Tag(p, req[p]) \in Procs \X Patterns
  BY <1>2 DEF Extent, Tag
<1> QED BY <1>2, <1>3 DEF Record, LogRec

\* With -k two writers never have a byte in common.
LEMMA SpansApart ==
  ASSUME IInv, Logs, NEW p \in Procs, NEW q \in Procs, p # q,
         pc[p] \in Writing \cup {"log"}, req[p].type \in WriteTypes \cup CtlTypes,
         pc[q] \in Writing \cup {"log"}, req[q].type \in WriteTypes \cup CtlTypes
  PROVE  Span(req[p].file, Extent(req[p])) \cap Span(req[q].file, Extent(req[q])) = {}
<1>1. Inside(p) /\ Inside(q) /\ DescriptorsSuffice
  BY DEF Inside, Locking, Logs, Writing
<1>2. LockRegion(req[p]) \subseteq lock[p] /\ LockRegion(req[q]) \subseteq lock[q]
  BY <1>1 DEF IInv, Local, Held
<1>3. lock[p] \cap lock[q] = {}
  BY DEF IInv, Disjoint
<1>4. /\ Span(req[p].file, Extent(req[p])) \subseteq LockRegion(req[p])
      /\ Span(req[q].file, Extent(req[q])) \subseteq LockRegion(req[q])
  BY ExtentLocked DEF IInv, Types
<1> QED BY <1>2, <1>3, <1>4

\* A child that takes no part in a step that writes nothing to the log.
LEMMA LogOther ==
  ASSUME NEW p \in Procs, LogOf(p),
         pc'[p] = pc[p], req'[p] = req[p], woffset'[p] = woffset[p], wlog' = wlog,
         pc[p] \in Writing /\ woffset[p] # 0 =>
           \A b \in Extent(req[p]) :
             /\ disk'[req[p].file][b] = disk[req[p].file][b]
             /\ <<req[p].file, b>> \in unlogged => <<req[p].file, b>> \in unlogged'
  PROVE  LogOf(p)'
<1>1. Mine(p)' <=> Mine(p)
  BY DEF Mine, Record
<1>2. pc[p] \in {"open", "lock", "log"} => woffset[p] = 0
  BY DEF LogOf
<1>3. ASSUME pc[p] \in Writing, woffset[p] # 0
      PROVE  req[p].type \in WriteTypes /\ Mine(p)
  BY <1>3 DEF LogOf
<1>4. ASSUME pc[p] \in Writing \ {"io"}, woffset[p] # 0, NEW b \in Extent(req[p])
      PROVE  \/ <<req[p].file, b>> \in unlogged'
             \/ disk'[req[p].file][b] = Tag(p, req[p])
  <2>1. <<req[p].file, b>> \in unlogged \/ disk[req[p].file][b] = Tag(p, req[p])
    BY <1>4 DEF LogOf
  <2> QED BY <1>4, <2>1
<1>5. (pc[p] \in {"open", "lock", "log"} => woffset[p] = 0)'
  BY <1>2
<1>6. (pc[p] \in Writing /\ woffset[p] # 0 => req[p].type \in WriteTypes /\ Mine(p))'
  BY <1>1, <1>3
<1>7. (pc[p] \in Writing \ {"io"} /\ woffset[p] # 0 =>
         \A b \in Extent(req[p]) :
           <<req[p].file, b>> \in unlogged \/ disk[req[p].file][b] = Tag(p, req[p]))'
  BY <1>4
<1> QED BY <1>5, <1>6, <1>7 DEF LogOf

\* A step of a child that leaves the log and the files alone.
LEMMA LogStill ==
  ASSUME LogInv, NEW q \in Procs, UNCHANGED <<wlog, disk, unlogged>>,
         woffset' \in [Procs -> Nat],
         \A p \in Procs \ {q} :
           pc'[p] = pc[p] /\ req'[p] = req[p] /\ woffset'[p] = woffset[p],
         Logs => LogOf(q)'
  PROVE  LogInv'
<1>1. LogTypes'
  BY DEF LogInv, LogTypes
<1> SUFFICES ASSUME Logs
             PROVE  /\ \A p \in Procs : LogOf(p)'
                    /\ \A f \in Files, b \in Bytes : Explained(f, b)'
  BY <1>1 DEF LogInv, Logs, DescriptorsSuffice
<1>2. ASSUME NEW p \in Procs \ {q} PROVE LogOf(p)'
  BY LogOther DEF LogInv
<1>3. ASSUME NEW f \in Files, NEW b \in Bytes PROVE Explained(f, b)'
  BY DEF LogInv, Explained, Covering
<1> QED BY <1>2, <1>3

\* A step of a child to where no record of its request is remembered, or none yet.
LEMMA LogQuiet ==
  ASSUME IInv, LogInv, NEW q \in Procs, NEW l, UNCHANGED <<wlog, disk, unlogged>>, Goto(q, l),
         woffset' \in [Procs -> Nat],
         \A p \in Procs \ {q} : req'[p] = req[p] /\ woffset'[p] = woffset[p],
         Logs => \/ l \in {"read", "unlock", "end", "exit"}
                 \/ woffset'[q] = 0
                 \/ /\ l \in Writing \ {"io"} /\ pc[q] \in Writing \ {"io"}
                    /\ req'[q] = req[q] /\ woffset'[q] = woffset[q]
  PROVE  LogInv'
<1>1. pc \in [Procs -> Labels]
  BY DEF IInv, Types
<1>2. pc'[q] = l /\ \A p \in Procs \ {q} : pc'[p] = pc[p]
  BY <1>1 DEF Goto
<1>3. ASSUME Logs PROVE LogOf(q)'
  <2>1. LogOf(q)
    BY <1>3 DEF LogInv
  <2>2. CASE l \in {"read", "unlock", "end", "exit"}
    BY <1>2, <2>2 DEF LogOf, Writing
  <2>3. CASE woffset'[q] = 0
    BY <2>3 DEF LogOf
  <2>4. CASE /\ l \in Writing \ {"io"} /\ pc[q] \in Writing \ {"io"}
             /\ req'[q] = req[q] /\ woffset'[q] = woffset[q]
    <3>1. Mine(q)' <=> Mine(q)
      BY <2>4 DEF Mine, Record
    <3>2. woffset[q] # 0 =>
            /\ req[q].type \in WriteTypes /\ Mine(q)
            /\ \A b \in Extent(req[q]) :
                 <<req[q].file, b>> \in unlogged \/ disk[req[q].file][b] = Tag(q, req[q])
      BY <2>1, <2>4 DEF LogOf
    <3>3. l \notin {"open", "lock", "log"}
      BY <2>4 DEF Writing
    <3> QED BY <1>2, <2>4, <3>1, <3>2, <3>3 DEF LogOf
  <2> QED BY <1>3, <2>2, <2>3, <2>4
<1> QED BY <1>2, <1>3, LogStill

\* The end of a child leaves the log as it is.
LEMMA LogExit ==
  ASSUME IInv, LogInv, NEW q \in Procs, NEW e, Exit(q, e), UNCHANGED <<wlog, disk, unlogged>>
  PROVE  LogInv'
<1>1. Goto(q, "exit") /\ UNCHANGED <<req, woffset>> /\ woffset \in [Procs -> Nat]
  BY DEF Exit, LogInv, LogTypes
<1> QED BY <1>1, LogQuiet

\* Taking a request, and the steps before the first record of it.
LEMMA LogBefore ==
  ASSUME IInv, LogInv, NEW q \in Procs,
         \/ ReadRequest(q) \/ OpenFile(q) \/ SkipRequest(q) \/ LockFileRegion(q)
         \/ LogFails(q)
  PROVE  LogInv'
<1>0. woffset \in [Procs -> Nat] /\ req \in [Procs -> Requests]
  BY DEF LogInv, LogTypes, IInv, Types
<1>1. CASE ReadRequest(q)
  <2>1. UNCHANGED <<wlog, disk, unlogged>>
    BY <1>1 DEF ReadRequest
  <2>2. CASE Releasing(q) /\ Open(q) = {}
    BY <1>1, <2>1, <2>2, LogExit DEF ReadRequest
  <2>3. CASE TakeRequest(q)
    <3>1. PICK r \in Requests : req' = [req EXCEPT ![q] = r]
      BY <2>3 DEF TakeRequest
    <3>2. woffset' = [woffset EXCEPT ![q] = 0] /\ Goto(q, "open")
      BY <2>3 DEF TakeRequest
    <3>3. /\ woffset' \in [Procs -> Nat] /\ woffset'[q] = 0
          /\ \A p \in Procs \ {q} : req'[p] = req[p] /\ woffset'[p] = woffset[p]
      BY <1>0, <3>1, <3>2
    <3> QED BY <2>1, <3>2, <3>3, LogQuiet
  <2> QED BY <1>1, <2>2, <2>3 DEF ReadRequest
<1>2. CASE OpenFile(q) \/ LockFileRegion(q) \/ LogFails(q)
  <2>1. UNCHANGED <<wlog, disk, unlogged, req, woffset>> /\ pc[q] \in {"open", "lock", "log"}
    BY <1>2 DEF OpenFile, LockFileRegion, LogFails
  <2>2. \E l : Goto(q, l)
    BY <1>2 DEF OpenFile, LockFileRegion, LogFails
  <2>3. Logs => woffset[q] = 0
    BY <2>1 DEF LogInv, LogOf
  <2> QED BY <1>0, <2>1, <2>2, <2>3, LogQuiet
<1>3. CASE SkipRequest(q)
  <2>1. UNCHANGED <<wlog, disk, unlogged, req, woffset>> /\ Goto(q, "read")
    BY <1>3 DEF SkipRequest, EndRequest
  <2> QED BY <1>0, <2>1, LogQuiet
<1> QED BY <1>1, <1>2, <1>3

\* Requests that are no writes, the verification, and the way back.
LEMMA LogAfter ==
  ASSUME IInv, LogInv, NEW q \in Procs,
         \/ DoRead(q) \/ DoSync(q) \/ OpenCheck(q) \/ Compare(q) \/ UnlockFileRegion(q)
         \/ Return(q) \/ ReadEof(q) \/ CallFails(q) \/ Killed(q)
  PROVE  LogInv'
<1>0. woffset \in [Procs -> Nat]
  BY DEF LogInv, LogTypes
<1>1. CASE DoRead(q) \/ DoSync(q)
  <2>1. UNCHANGED <<wlog, disk, unlogged, req, woffset>> /\ Goto(q, AfterIo(q, TRUE))
    BY <1>1 DEF DoRead, DoSync
  <2>2. AfterIo(q, TRUE) = "end"
    BY <1>1 DEF DoRead, DoSync, AfterIo, ReadTypes, SyncTypes, WriteTypes, CtlTypes
  <2> QED BY <1>0, <2>1, <2>2, LogQuiet
<1>2. CASE OpenCheck(q)
  <2>1. /\ UNCHANGED <<wlog, disk, unlogged, req, woffset>> /\ Goto(q, "compare")
        /\ pc[q] = "check"
    BY <1>2 DEF OpenCheck
  <2>2. {"check", "compare"} \subseteq Writing \ {"io"}
    BY DEF Writing
  <2> QED BY <1>0, <2>1, <2>2, LogQuiet
<1>3. CASE Compare(q)
  <2>1. UNCHANGED <<wlog, disk, unlogged>> /\ pc[q] = "compare"
    BY <1>3 DEF Compare
  <2>2. CASE Matches(q)
    <3>1. UNCHANGED <<req, woffset>> /\ Goto(q, "logdone")
      BY <1>3, <2>2 DEF Compare
    <3>2. {"compare", "logdone"} \subseteq Writing \ {"io"}
      BY DEF Writing
    <3> QED BY <1>0, <2>1, <3>1, <3>2, LogQuiet
  <2>3. CASE ~Matches(q)
    BY <1>3, <2>1, <2>3, LogExit DEF Compare
  <2> QED BY <2>2, <2>3
<1>4. CASE UnlockFileRegion(q)
  <2>1. UNCHANGED <<wlog, disk, unlogged, req, woffset>> /\ Goto(q, "end")
    BY <1>4 DEF UnlockFileRegion
  <2> QED BY <1>0, <2>1, LogQuiet
<1>5. CASE Return(q)
  <2>1. UNCHANGED <<wlog, disk, unlogged>>
    BY <1>5 DEF Return
  <2>2. CASE rval[q]
    <3>1. UNCHANGED <<req, woffset>> /\ Goto(q, "read")
      BY <1>5, <2>2 DEF Return, EndRequest
    <3> QED BY <1>0, <2>1, <3>1, LogQuiet
  <2>3. CASE ~rval[q]
    BY <1>5, <2>1, <2>3, LogExit DEF Return
  <2> QED BY <2>2, <2>3
<1>6. CASE ReadEof(q) \/ CallFails(q) \/ Killed(q)
  <2>1. UNCHANGED <<wlog, disk, unlogged>> /\ \E e : Exit(q, e)
    BY <1>6 DEF ReadEof, CallFails, Killed
  <2> QED BY <2>1, LogExit
<1> QED BY <1>1, <1>2, <1>3, <1>4, <1>5, <1>6

\* The preliminary record becomes the last one of its bytes, and only of these.
LEMMA LogLogWrite ==
  ASSUME IInv, LogInv, NEW q \in Procs, LogWrite(q) PROVE LogInv'
<1> DEFINE x == Record(q, FALSE)
           n == Len(wlog)
           r == req[q]
<1>0. /\ Types /\ woffset \in [Procs -> Nat] /\ wlog \in Seq(LogRec) /\ n \in Nat
      /\ pc \in [Procs -> Labels]
  BY DEF LogInv, LogTypes, IInv, Types
<1>1. /\ pc[q] = "log" /\ wlog' = Append(wlog, x)
      /\ woffset' = [woffset EXCEPT ![q] = n + 1] /\ pc' = [pc EXCEPT ![q] = "io"]
      /\ UNCHANGED <<req, disk, unlogged>>
  BY DEF LogWrite, Goto
<1>2. x \in LogRec /\ x.file = r.file /\ x.extent = Extent(r) /\ x.done = FALSE
  BY <1>0, RecordType
<1> HIDE DEF x
<1>3. /\ wlog' \in Seq(LogRec) /\ Len(wlog') = n + 1 /\ wlog'[n + 1] = x
      /\ \A i \in 1 .. n : wlog'[i] = wlog[i]
  BY <1>0, <1>1, <1>2
<1> HIDE DEF n
<1>4. /\ woffset' \in [Procs -> Nat] /\ woffset'[q] = n + 1 /\ pc'[q] = "io"
      /\ \A p \in Procs \ {q} : woffset'[p] = woffset[p] /\ pc'[p] = pc[p]
  BY <1>0, <1>1
<1>5. LogTypes'
  BY <1>3, <1>4 DEF LogTypes
<1> SUFFICES ASSUME Logs
             PROVE  /\ \A p \in Procs : LogOf(p)'
                    /\ \A f \in Files, b \in Bytes : Explained(f, b)'
  BY <1>5 DEF LogInv, Logs, DescriptorsSuffice
<1>6. r.type \in WriteTypes
  BY <1>1 DEF IInv, Local, Kinds
<1>7. LogOf(q)'
  <2>1. Mine(q)'
    <3>1. x = Record(q, FALSE)'
      BY <1>1 DEF x, Record
    <3>2. n + 1 \in 1 .. n + 1 /\ ~(\E j \in 1 .. n + 1 : j > n + 1)
      BY <1>0
    <3> QED BY <1>3, <1>4, <3>1, <3>2 DEF Mine
  <2> QED BY <1>1, <1>4, <1>6, <2>1 DEF LogOf
<1>8. ASSUME NEW p \in Procs \ {q} PROVE LogOf(p)'
  <2>1. LogOf(p)
    BY DEF LogInv
  <2>2. ASSUME pc[p] \in Writing, woffset[p] # 0
        PROVE  req[p].type \in WriteTypes /\ Mine(p)'
    <3>1. req[p].type \in WriteTypes /\ Mine(p)
      BY <2>1, <2>2 DEF LogOf
    <3>2. Span(req[p].file, Extent(req[p])) \cap Span(r.file, Extent(r)) = {}
      BY <1>1, <1>6, <2>2, <3>1, SpansApart
    <3>3. r.file = req[p].file => Extent(r) \cap Extent(req[p]) = {}
      <4> SUFFICES ASSUME r.file = req[p].file, NEW b \in Extent(r), b \in Extent(req[p])
                   PROVE  FALSE
        OBVIOUS
      <4>1. /\ <<r.file, b>> \in Span(r.file, Extent(r))
            /\ <<r.file, b>> \in Span(req[p].file, Extent(req[p]))
        BY DEF Span
      <4> QED BY <3>2, <4>1
    <3>4. woffset[p] \in 1 .. n /\ wlog[woffset[p]] = Record(p, FALSE)
      BY <3>1 DEF Mine, n
    <3>5. ASSUME NEW j \in 1 .. n + 1, j > woffset[p], wlog'[j].file = req[p].file
          PROVE  wlog'[j].extent \cap Extent(req[p]) = {}
      <4>1. CASE j = n + 1
        BY <1>2, <1>3, <3>3, <3>5, <4>1
      <4>2. CASE j # n + 1
        <5>1. j \in 1 .. n
          BY <1>0, <4>2
        <5> QED BY <1>3, <3>1, <3>5, <5>1 DEF Mine, n
      <4> QED BY <4>1, <4>2
    <3>6. woffset'[p] \in 1 .. n + 1 /\ wlog'[woffset'[p]] = wlog[woffset[p]]
      <4>1. woffset'[p] = woffset[p] /\ woffset[p] \in 1 .. n /\ p \in Procs
        BY <1>4, <3>4
      <4>2. 1 .. n \subseteq 1 .. n + 1
        BY <1>0
      <4> QED BY <1>3, <4>1, <4>2
    <3>7. Record(p, FALSE)' = Record(p, FALSE) /\ req'[p] = req[p]
      BY <1>1 DEF Record
    <3> QED BY <1>3, <1>4, <3>1, <3>4, <3>5, <3>6, <3>7 DEF Mine
  <2> QED BY <1>1, <1>4, <2>1, <2>2 DEF LogOf
<1>9. ASSUME NEW f \in Files, NEW b \in Bytes PROVE Explained(f, b)'
  <2>1. Explained(f, b)
    BY DEF LogInv
  <2>2. Covering(f, b) = {i \in 1 .. n : wlog[i].file = f /\ b \in wlog[i].extent}
    BY <1>0 DEF Covering, n
  <2>3. Covering(f, b)' = {i \in 1 .. n + 1 : wlog'[i].file = f /\ b \in wlog'[i].extent}
    BY <1>3 DEF Covering
  <2>4. CASE f = r.file /\ b \in Extent(r)
    <3>1. n + 1 \in Covering(f, b)'
      BY <1>0, <1>2, <1>3, <2>3, <2>4
    <3>2. ASSUME NEW i \in Covering(f, b)', \A j \in Covering(f, b)' : j <= i
          PROVE  ~wlog'[i].done
      <4>1. i = n + 1
        BY <1>0, <2>3, <3>1, <3>2
      <4> QED BY <1>2, <1>3, <4>1
    <3> QED BY <3>1, <3>2 DEF Explained
  <2>5. CASE ~(f = r.file /\ b \in Extent(r))
    <3>1. Covering(f, b)' = Covering(f, b)
      <4>1. n + 1 \notin Covering(f, b)'
        BY <1>2, <1>3, <2>3, <2>5
      <4>2. \A i \in 1 .. n + 1 : i = n + 1 \/ i \in 1 .. n
        BY <1>0
      <4>3. 1 .. n \subseteq 1 .. n + 1
        BY <1>0
      <4> QED BY <1>3, <2>2, <2>3, <4>1, <4>2, <4>3
    <3>2. \A i \in Covering(f, b) : wlog'[i] = wlog[i]
      BY <1>3, <2>2
    <3> QED BY <1>1, <2>1, <3>1, <3>2 DEF Explained
  <2> QED BY <2>4, <2>5
<1> QED BY <1>7, <1>8, <1>9

\* Marking the record as done claims what the write and the lock have seen to.
LEMMA LogLogDone ==
  ASSUME IInv, LogInv, NEW q \in Procs, LogDone(q) PROVE LogInv'
<1> DEFINE i == woffset[q]
           y == [wlog[i] EXCEPT !.done = TRUE]
           r == req[q]
           l == IF Locking(req[q]) THEN "unlock" ELSE "end"
<1>0. /\ Types /\ woffset \in [Procs -> Nat] /\ wlog \in Seq(LogRec)
      /\ pc \in [Procs -> Labels]
  BY DEF LogInv, LogTypes, IInv, Types
<1>1. /\ pc[q] = "logdone" /\ Goto(q, l) /\ UNCHANGED <<req, woffset, disk, unlogged>>
      /\ wlog' = IF i # 0 THEN [wlog EXCEPT ![i] = y] ELSE wlog
  BY DEF LogDone
<1>2. CASE i = 0
  <2>1. wlog' = wlog /\ l \in {"unlock", "end"}
    BY <1>1, <1>2
  <2> HIDE DEF l
  <2> QED BY <1>0, <1>1, <2>1, LogQuiet
<1>3. CASE i # 0
  <2>1. wlog' = [wlog EXCEPT ![i] = y]
    BY <1>1, <1>3
  <2>2. Len(wlog') = Len(wlog) /\ DOMAIN wlog' = DOMAIN wlog /\ DOMAIN wlog = 1 .. Len(wlog)
    BY <1>0, <2>1
  <2>3. \A j \in 1 .. Len(wlog) :
          wlog[j] \in LogRec /\ wlog'[j] = IF j = i THEN y ELSE wlog[j]
    BY <1>0, <2>1
  <2>4. ASSUME NEW j \in 1 .. Len(wlog)
        PROVE  /\ wlog'[j] \in LogRec /\ wlog'[j].file = wlog[j].file
               /\ wlog'[j].extent = wlog[j].extent /\ wlog'[j].tag = wlog[j].tag
               /\ wlog'[j].proc = wlog[j].proc
               /\ j # i => wlog'[j] = wlog[j]
    <3>1. CASE j = i
      <4>1. wlog'[j] = y /\ wlog[i] \in LogRec
        BY <2>3, <3>1
      <4>2. /\ y \in LogRec /\ y.file = wlog[i].file /\ y.extent = wlog[i].extent
            /\ y.tag = wlog[i].tag /\ y.proc = wlog[i].proc
        BY <4>1 DEF LogRec
      <4> QED BY <3>1, <4>1, <4>2
    <3>2. CASE j # i
      BY <2>3, <3>2
    <3> QED BY <3>1, <3>2
  <2> HIDE DEF y
  <2>5. wlog' \in Seq(LogRec)
    <3>1. wlog' \in [1 .. Len(wlog) -> LogRec] /\ Len(wlog) \in Nat
      <4>1. wlog \in [1 .. Len(wlog) -> LogRec] /\ Len(wlog) \in Nat
        BY <1>0
      <4>2. wlog' = [j \in 1 .. Len(wlog) |-> wlog'[j]]
        BY <2>1, <4>1
      <4> QED BY <2>4, <4>1, <4>2
    <3> QED BY <3>1
  <2>6. LogTypes'
    BY <1>0, <1>1, <2>5 DEF LogTypes
  <2> SUFFICES ASSUME Logs
               PROVE  /\ \A p \in Procs : LogOf(p)'
                      /\ \A f \in Files, b \in Bytes : Explained(f, b)'
    BY <2>6 DEF LogInv, Logs, DescriptorsSuffice
  <2>7. /\ Mine(q) /\ r.type \in WriteTypes
        /\ \A b \in Extent(r) : <<r.file, b>> \in unlogged \/ disk[r.file][b] = Tag(q, r)
    BY <1>1, <1>3 DEF LogInv, LogOf, Writing
  <2>8. /\ i \in 1 .. Len(wlog) /\ wlog[i].file = r.file /\ wlog[i].extent = Extent(r)
        /\ wlog[i].tag = Tag(q, r) /\ wlog[i].proc = q
    BY <1>0, <2>7, RecordType DEF Mine
  <2>9. LogOf(q)'
    <3>1. pc'[q] = l /\ l \in {"unlock", "end"}
      BY <1>0, <1>1 DEF Goto
    <3> QED BY <3>1 DEF LogOf, Writing
  <2>10. ASSUME NEW p \in Procs \ {q} PROVE LogOf(p)'
    <3>1. LogOf(p)
      BY DEF LogInv
    <3>2. ASSUME pc[p] \in Writing, woffset[p] # 0
          PROVE  req[p].type \in WriteTypes /\ Mine(p)'
      <4>1. req[p].type \in WriteTypes /\ Mine(p)
        BY <3>1, <3>2 DEF LogOf
      <4>2. woffset[p] \in 1 .. Len(wlog) /\ wlog[woffset[p]] = Record(p, FALSE)
        BY <4>1 DEF Mine
      <4>3. woffset[p] # i
        <5>1. Record(p, FALSE).proc = p
          BY <1>0, RecordType
        <5> QED BY <2>8, <4>2, <5>1
      <4>4. wlog'[woffset'[p]] = Record(p, FALSE)
        BY <1>1, <2>4, <4>2, <4>3
      <4>5. Record(p, FALSE)' = Record(p, FALSE) /\ req'[p] = req[p]
        BY <1>1 DEF Record
      <4>6. \A j \in 1 .. Len(wlog) :
              j > woffset[p] /\ wlog'[j].file = req[p].file
                => wlog'[j].extent \cap Extent(req[p]) = {}
        BY <2>4, <4>1 DEF Mine
      <4> QED BY <1>1, <2>2, <4>1, <4>2, <4>4, <4>5, <4>6 DEF Mine
    <3>3. pc'[p] = pc[p]
      BY <1>0, <1>1 DEF Goto
    <3> QED BY <1>1, <3>1, <3>2, <3>3 DEF LogOf
  <2>11. ASSUME NEW f \in Files, NEW b \in Bytes PROVE Explained(f, b)'
    <3>1. Explained(f, b)
      BY DEF LogInv
    <3>2. Covering(f, b)' = Covering(f, b) /\ Covering(f, b) \subseteq 1 .. Len(wlog)
      BY <2>2, <2>4 DEF Covering
    <3>3. ASSUME NEW j \in Covering(f, b), wlog'[j].done, \A k \in Covering(f, b) : k <= j,
                 <<f, b>> \notin unlogged
          PROVE  disk[f][b] = wlog'[j].tag
      <4>1. CASE j = i
        <5>1. f = r.file /\ b \in Extent(r)
          BY <2>8, <4>1 DEF Covering
        <5> QED BY <2>4, <2>7, <2>8, <3>3, <4>1, <5>1
      <4>2. CASE j # i
        BY <2>4, <3>1, <3>2, <3>3, <4>2 DEF Explained
      <4> QED BY <4>1, <4>2
    <3> QED BY <1>1, <3>1, <3>2, <3>3 DEF Explained
  <2> QED BY <2>9, <2>10, <2>11
<1> QED BY <1>2, <1>3

\* A call that changes bytes of its own request only.
LEMMA LogTouch ==
  ASSUME IInv, LogInv, NEW q \in Procs, pc[q] = "io",
         req[q].type \in WriteTypes \cup CtlTypes, NEW l, Goto(q, l),
         UNCHANGED <<wlog, req, woffset>>,
         \A f \in Files, b \in Bytes :
           <<f, b>> \notin Span(req[q].file, Extent(req[q])) =>
             disk'[f][b] = disk[f][b] /\ (<<f, b>> \in unlogged' <=> <<f, b>> \in unlogged),
         Logs => LogOf(q)' /\ \A b \in Extent(req[q]) : Explained(req[q].file, b)'
  PROVE  LogInv'
<1>0. Types /\ pc \in [Procs -> Labels]
  BY DEF IInv, Types
<1>1. LogTypes'
  BY DEF LogInv, LogTypes
<1> SUFFICES ASSUME Logs
             PROVE  /\ \A p \in Procs : LogOf(p)'
                    /\ \A f \in Files, b \in Bytes : Explained(f, b)'
  BY <1>1 DEF LogInv, Logs, DescriptorsSuffice
<1>2. ASSUME NEW p \in Procs \ {q} PROVE LogOf(p)'
  <2>1. LogOf(p) /\ pc'[p] = pc[p] /\ req'[p] = req[p] /\ woffset'[p] = woffset[p]
    BY <1>0 DEF LogInv, Goto
  <2>2. ASSUME pc[p] \in Writing, woffset[p] # 0, NEW b \in Extent(req[p])
        PROVE  /\ disk'[req[p].file][b] = disk[req[p].file][b]
               /\ <<req[p].file, b>> \in unlogged => <<req[p].file, b>> \in unlogged'
    <3>1. req[p].type \in WriteTypes
      BY <2>1, <2>2 DEF LogOf
    <3>2. Span(req[p].file, Extent(req[p])) \cap Span(req[q].file, Extent(req[q])) = {}
      BY <2>2, <3>1, SpansApart DEF Writing
    <3>3. <<req[p].file, b>> \in Span(req[p].file, Extent(req[p]))
      BY <2>2 DEF Span
    <3>4. req[p].file \in Files /\ b \in Bytes
      BY <1>0, <2>2, RequestFields DEF Types, Extent
    <3> QED BY <3>2, <3>3, <3>4
  <2> QED BY <2>1, <2>2, LogOther
<1>3. ASSUME NEW f \in Files, NEW b \in Bytes PROVE Explained(f, b)'
  <2>1. CASE <<f, b>> \in Span(req[q].file, Extent(req[q]))
    <3>1. f = req[q].file /\ b \in Extent(req[q])
      BY <2>1 DEF Span
    <3> QED BY <3>1
  <2>2. CASE <<f, b>> \notin Span(req[q].file, Extent(req[q]))
    <3>1. Explained(f, b) /\ Covering(f, b)' = Covering(f, b)
      BY DEF LogInv, Covering
    <3> QED BY <2>2, <3>1 DEF Explained
  <2> QED BY <2>1, <2>2
<1> QED BY <1>2, <1>3

\* A write: with a record, the record is the last one and not done yet; without, the
\* bytes are left out.
LEMMA LogDoWrite ==
  ASSUME IInv, LogInv, NEW q \in Procs, DoWrite(q) PROVE LogInv'
<1> DEFINE r == req[q]
<1>0. Types /\ pc \in [Procs -> Labels]
  BY DEF IInv, Types
<1>1. /\ pc[q] = "io" /\ r.type \in WriteTypes /\ UNCHANGED <<wlog, req, woffset>>
      /\ disk' = Filled(r.file, Extent(r), Tag(q, r)) /\ Goto(q, AfterIo(q, TRUE))
      /\ unlogged' = IF woffset[q] # 0 THEN unlogged \ Span(r.file, Extent(r))
                     ELSE unlogged \cup Span(r.file, Extent(r))
  BY DEF DoWrite
<1>2. /\ r \in Requests /\ r.file \in Files /\ Tag(q, r) \in {<<>>} \cup (Procs \X Patterns)
      /\ Extent(r) \subseteq Bytes
  BY <1>0, RequestFields DEF Types, Tag, Extent
<1>3. \A g \in Files, b \in Bytes :
        disk'[g][b] = IF g = r.file /\ b \in Extent(r) THEN Tag(q, r) ELSE disk[g][b]
  BY <1>0, <1>1, <1>2, FilledEffect
<1>4. \A f \in Files, b \in Bytes :
        <<f, b>> \notin Span(r.file, Extent(r)) =>
          disk'[f][b] = disk[f][b] /\ (<<f, b>> \in unlogged' <=> <<f, b>> \in unlogged)
  BY <1>1, <1>3 DEF Span
<1>5. \A b \in Extent(r) : disk'[r.file][b] = Tag(q, r)
  BY <1>2, <1>3
<1>6. ASSUME Logs PROVE LogOf(q)'
  <2>1. LogOf(q)
    BY <1>6 DEF LogInv
  <2>2. pc'[q] \in {"check", "logdone"}
    BY <1>0, <1>1 DEF Goto, AfterIo
  <2>3. woffset[q] # 0 => Mine(q)
    BY <1>1, <2>1 DEF LogOf, Writing
  <2>4. Mine(q)' <=> Mine(q)
    BY <1>1 DEF Mine, Record
  <2> QED BY <1>1, <1>5, <2>2, <2>3, <2>4 DEF LogOf
<1>7. ASSUME Logs, NEW b \in Extent(r) PROVE Explained(r.file, b)'
  <2>1. CASE woffset[q] = 0
    <3>1. <<r.file, b>> \in unlogged'
      BY <1>1, <2>1 DEF Span
    <3> QED BY <1>1, <3>1 DEF Explained
  <2>2. CASE woffset[q] # 0
    <3> DEFINE i == woffset[q]
               C == Covering(r.file, b)
    <3>1. Mine(q)
      BY <1>1, <1>7, <2>2 DEF LogInv, LogOf, Writing
    <3>2. /\ i \in 1 .. Len(wlog) /\ wlog[i].file = r.file /\ wlog[i].extent = Extent(r)
          /\ wlog[i].done = FALSE
      <4>1. /\ Record(q, FALSE).file = r.file /\ Record(q, FALSE).extent = Extent(r)
            /\ Record(q, FALSE).done = FALSE
        BY <1>0, RecordType
      <4>2. i \in 1 .. Len(wlog) /\ wlog[i] = Record(q, FALSE)
        BY <3>1 DEF Mine
      <4> QED BY <4>1, <4>2
    <3>3. wlog \in Seq(LogRec) /\ DOMAIN wlog = 1 .. Len(wlog)
      BY DEF LogInv, LogTypes
    <3>4. i \in C
      BY <3>2, <3>3 DEF Covering
    <3>5. ASSUME NEW j \in C PROVE ~(j > i)
      <4>1. j \in 1 .. Len(wlog) /\ wlog[j].file = r.file /\ b \in wlog[j].extent
        BY <3>3 DEF Covering
      <4>2. j > i => wlog[j].extent \cap Extent(r) = {}
        BY <3>1, <4>1 DEF Mine
      <4> QED BY <4>1, <4>2
    <3>6. ASSUME NEW j \in C, \A k \in C : k <= j PROVE ~wlog[j].done
      <4>1. i <= j /\ ~(j > i) /\ i \in Int /\ j \in Int
        BY <3>2, <3>3, <3>4, <3>5, <3>6 DEF Covering
      <4>2. j = i
        BY <4>1
      <4> QED BY <3>2, <4>2
    <3>7. Covering(r.file, b)' = C /\ wlog' = wlog /\ C # {}
      BY <1>1, <3>4 DEF Covering
    <3> HIDE DEF C
    <3> QED BY <1>1, <3>6, <3>7 DEF Explained
  <2> QED BY <2>1, <2>2
<1> QED BY <1>1, <1>4, <1>6, <1>7, LogTouch

\* A failed or cut write and freed space are left out.
LEMMA LogLeftOut ==
  ASSUME IInv, LogInv, NEW q \in Procs, DoXfsctl(q) \/ IoFails(q) PROVE LogInv'
<1> DEFINE r == req[q]
<1>0. Types /\ pc \in [Procs -> Labels] /\ woffset \in [Procs -> Nat] /\ r \in Requests
      /\ r.file \in Files /\ Extent(r) \subseteq Bytes
  BY RequestFields DEF IInv, Types, LogInv, LogTypes, Extent
<1>1. pc[q] = "io" /\ UNCHANGED <<wlog, req, woffset>>
  BY DEF DoXfsctl, IoFails
<1>2. ASSUME NEW S \in SUBSET Extent(r), NEW t \in {<<>>} \cup (Procs \X Patterns),
             disk' = Filled(r.file, S, t),
             NEW U \in SUBSET Extent(r), S \subseteq U,
             unlogged' = unlogged \cup Span(r.file, U)
      PROVE  /\ \A f \in Files, b \in Bytes :
                  /\ disk'[f][b] # disk[f][b] => <<f, b>> \in unlogged'
                  /\ <<f, b>> \notin Span(r.file, Extent(r)) =>
                       /\ disk'[f][b] = disk[f][b]
                       /\ <<f, b>> \in unlogged' <=> <<f, b>> \in unlogged
             /\ unlogged \subseteq unlogged'
  <2>1. \A g \in Files, b \in Bytes :
          disk'[g][b] = IF g = r.file /\ b \in S THEN t ELSE disk[g][b]
    BY <1>0, <1>2, FilledEffect
  <2> QED BY <1>2, <2>1 DEF Span
<1>3. ASSUME \A f \in Files, b \in Bytes :
               disk'[f][b] # disk[f][b] => <<f, b>> \in unlogged',
             unlogged \subseteq unlogged'
      PROVE  Logs => \A b \in Extent(r) : Explained(r.file, b)'
  <2> SUFFICES ASSUME Logs, NEW b \in Extent(r) PROVE Explained(r.file, b)'
    OBVIOUS
  <2>1. b \in Bytes /\ r.file \in Files
    BY <1>0
  <2>2. Explained(r.file, b) /\ Covering(r.file, b)' = Covering(r.file, b)
    BY <1>1, <2>1 DEF LogInv, Covering
  <2> QED BY <1>1, <1>3, <2>1, <2>2 DEF Explained
<1>4. CASE DoXfsctl(q)
  <2> DEFINE freed == IF r.type = "unresvsp" THEN Extent(r) ELSE {}
  <2>1. /\ r.type \in CtlTypes /\ disk' = Filled(r.file, freed, <<>>)
        /\ unlogged' = unlogged \cup Span(r.file, freed) /\ Goto(q, AfterIo(q, TRUE))
    BY <1>4 DEF DoXfsctl
  <2>2. freed \in SUBSET Extent(r) /\ AfterIo(q, TRUE) = "unlock"
    BY <2>1 DEF AfterIo, CtlTypes, WriteTypes
  <2> HIDE DEF freed
  <2>3. LogOf(q)'
    <3>1. pc'[q] = "unlock"
      BY <1>0, <2>1, <2>2 DEF Goto
    <3> QED BY <3>1 DEF LogOf, Writing
  <2>4. /\ \A f \in Files, b \in Bytes :
             /\ disk'[f][b] # disk[f][b] => <<f, b>> \in unlogged'
             /\ <<f, b>> \notin Span(r.file, Extent(r)) =>
                  /\ disk'[f][b] = disk[f][b]
                  /\ <<f, b>> \in unlogged' <=> <<f, b>> \in unlogged
        /\ unlogged \subseteq unlogged'
    BY <1>2, <2>1, <2>2
  <2>5. Logs => \A b \in Extent(r) : Explained(r.file, b)'
    BY <1>3, <2>4
  <2> QED BY <1>1, <2>1, <2>3, <2>4, <2>5, LogTouch
<1>5. CASE IoFails(q) /\ r.type \in WriteTypes
  <2>1. PICK n \in 0 .. r.nbytes - 1 :
          disk' = Filled(r.file, {b \in Extent(r) : b < r.offset + n}, Tag(q, r))
    BY <1>5 DEF IoFails
  <2> DEFINE S == {b \in Extent(r) : b < r.offset + n}
  <2>2. /\ S \in SUBSET Extent(r) /\ disk' = Filled(r.file, S, Tag(q, r))
        /\ Tag(q, r) \in {<<>>} \cup (Procs \X Patterns)
        /\ unlogged' = unlogged \cup Span(r.file, Extent(r))
        /\ Goto(q, AfterIo(q, FALSE))
    BY <1>0, <1>5, <2>1, RequestFields DEF IoFails, Tag
  <2> HIDE DEF S
  <2>3. ASSUME Logs PROVE LogOf(q)'
    <3>1. pc'[q] \in {"check", "logdone"}
      BY <1>0, <1>5, <2>2 DEF Goto, AfterIo
    <3>2. woffset[q] # 0 => Mine(q)
      BY <1>1, <2>3 DEF LogInv, LogOf, Writing
    <3>3. Mine(q)' <=> Mine(q)
      BY <1>1 DEF Mine, Record
    <3>4. \A b \in Extent(r) : <<r.file, b>> \in unlogged'
      BY <2>2 DEF Span
    <3> QED BY <1>1, <1>5, <3>1, <3>2, <3>3, <3>4 DEF LogOf
  <2>4. /\ \A f \in Files, b \in Bytes :
             /\ disk'[f][b] # disk[f][b] => <<f, b>> \in unlogged'
             /\ <<f, b>> \notin Span(r.file, Extent(r)) =>
                  /\ disk'[f][b] = disk[f][b]
                  /\ <<f, b>> \in unlogged' <=> <<f, b>> \in unlogged
        /\ unlogged \subseteq unlogged'
    BY <1>2, <2>2
  <2>5. Logs => \A b \in Extent(r) : Explained(r.file, b)'
    BY <1>3, <2>4
  <2>6. req[q].type \in WriteTypes \cup CtlTypes /\ \E l : Goto(q, l)
    BY <1>5, <2>2
  <2>7. \A f \in Files, b \in Bytes :
          <<f, b>> \notin Span(req[q].file, Extent(req[q])) =>
            disk'[f][b] = disk[f][b] /\ (<<f, b>> \in unlogged' <=> <<f, b>> \in unlogged)
    BY <2>4
  <2>8. Logs => LogOf(q)' /\ \A b \in Extent(req[q]) : Explained(req[q].file, b)'
    BY <2>3, <2>5
  <2> QED BY <1>1, <2>6, <2>7, <2>8, LogTouch
<1>6. CASE IoFails(q) /\ r.type \notin WriteTypes
  <2>1. UNCHANGED <<disk, unlogged>> /\ Goto(q, AfterIo(q, FALSE))
    BY <1>6 DEF IoFails
  <2>2. AfterIo(q, FALSE) \in {"unlock", "end"}
    BY <1>6 DEF AfterIo
  <2> QED BY <1>0, <1>1, <2>1, <2>2, LogQuiet
<1> QED BY <1>4, <1>5, <1>6

\* At the start nothing is logged and nothing written.
LEMMA LogInit == Init => LogInv
<1> SUFFICES ASSUME Init PROVE LogInv
  OBVIOUS
<1>1. LogTypes /\ wlog = <<>>
  BY DEF Init, LogTypes
<1>2. ASSUME NEW p \in Procs PROVE LogOf(p)
  BY DEF Init, LogOf
<1>3. ASSUME NEW f \in Files, NEW b \in Bytes PROVE Explained(f, b)
  <2>1. Covering(f, b) = {} /\ disk[f][b] = <<>>
    BY <1>1 DEF Init, Covering
  <2> QED BY <2>1 DEF Explained
<1> QED BY <1>1, <1>2, <1>3 DEF LogInv

\* Every step keeps the log true.
LEMMA LogNext == IInv /\ LogInv /\ [Next]_vars => LogInv'
<1> SUFFICES ASSUME IInv, LogInv, [Next]_vars PROVE LogInv'
  OBVIOUS
<1>1. ASSUME NEW q \in Procs, Step(q) PROVE LogInv'
  BY <1>1, LogBefore, LogAfter, LogLogWrite, LogDoWrite, LogLeftOut, LogLogDone DEF Step
<1>2. ASSUME NEW q \in Procs, Fault(q) PROVE LogInv'
  BY <1>2, LogBefore, LogAfter, LogLeftOut DEF Fault
<1>3. CASE UNCHANGED vars
  <2>1. UNCHANGED <<pc, req, woffset, wlog, disk, unlogged>>
    BY <1>3 DEF vars, childVars
  <2>2. LogTypes'
    BY <2>1 DEF LogInv, LogTypes
  <2>3. ASSUME Logs, NEW p \in Procs PROVE LogOf(p)'
    BY <2>1, <2>3, LogOther DEF LogInv
  <2>4. ASSUME Logs, NEW f \in Files, NEW b \in Bytes PROVE Explained(f, b)'
    BY <2>1, <2>4 DEF LogInv, Explained, Covering
  <2> QED BY <2>2, <2>3, <2>4 DEF LogInv, Logs, DescriptorsSuffice
<1> QED BY <1>1, <1>2, <1>3 DEF Next

\* At any moment, and after the death of any child, a record of the write log that is
\* done and the last one of a byte tells what is in the file there.
THEOREM LogIsTrue == Spec => []WlogExplains
<1>1. IInv /\ LogInv => WlogExplains
  BY LogExplains
<1> QED BY <1>1, InitIInv, NextIInv, LogInit, LogNext, PTL DEF Spec

-----------------------------------------------------------------------------
(* The requests of iogen *)

\* Quotient and remainder.
LEMMA DivMod ==
  ASSUME NEW a \in Int, NEW b \in Nat \ {0}
  PROVE  /\ a \div b \in Int /\ a % b \in 0 .. b - 1
         /\ a = b * (a \div b) + (a % b)
<1>1. a \div b \in Int
  OBVIOUS
<1>2. a % b \in 0 .. b - 1
  OBVIOUS
<1>3. a = b * (a \div b) + (a % b)
  OBVIOUS
<1> QED BY <1>1, <1>2, <1>3

\* A product is a multiple.
LEMMA ModOfMultiple ==
  \A x, k \in Int : \A b \in Nat \ {0} : x = b * k => x % b = 0
OBVIOUS

\* The rounded values are multiples, and so is a difference of multiples.
LEMMA Multiples ==
  ASSUME NEW a \in Int, NEW b \in Nat \ {0}
  PROVE  /\ (a - (a % b)) % b = 0
         /\ (a + ((-a) % b)) % b = 0
         /\ \A c \in Int : a % b = 0 /\ c % b = 0 => (a - c) % b = 0
         /\ a % b = 0 /\ a > 0 => a >= b
<1>1. (a - (a % b)) % b = 0
  <2>1. a - (a % b) = b * (a \div b)
    BY DivMod
  <2>2. a \div b \in Int /\ a - (a % b) \in Int
    BY DivMod
  <2> QED BY <2>1, <2>2, ModOfMultiple, Zenon
<1>2. (a + ((-a) % b)) % b = 0
  <2> DEFINE q == (-a) \div b
             r == (-a) % b
  <2>1. -a \in Int
    OBVIOUS
  <2>2. q \in Int /\ r \in Int /\ -a = b * q + r
    BY <2>1, DivMod
  <2> HIDE DEF q, r
  <2>3. b * q \in Int /\ b * (-q) = -(b * q)
    BY <2>2
  <2>4. a + r = b * (-q) /\ -q \in Int /\ a + r \in Int
    BY <2>2, <2>3
  <2>5. (a + r) % b = 0
    BY <2>4, ModOfMultiple, Zenon
  <2> QED BY <2>5 DEF r
<1>3. ASSUME NEW c \in Int, a % b = 0, c % b = 0 PROVE (a - c) % b = 0
  <2> DEFINE q == a \div b
             r == c \div b
  <2>1. q \in Int /\ r \in Int /\ a = b * q /\ c = b * r
    BY <1>3, DivMod
  <2> HIDE DEF q, r
  <2>2. b * (q - r) = b * q - b * r
    BY <2>1
  <2>3. a - c = b * (q - r)
    BY <2>1, <2>2
  <2>4. q - r \in Int /\ a - c \in Int
    BY <2>1
  <2> QED BY <2>3, <2>4, ModOfMultiple, Zenon
<1>4. ASSUME a % b = 0, a > 0 PROVE a >= b
  BY <1>4
<1> QED BY <1>1, <1>2, <1>3, <1>4

\* The larger one of two numbers.
LEMMA MaxTwo ==
  ASSUME NEW a \in Int, NEW b \in Int
  PROVE  Max({a, b}) = IF a < b THEN b ELSE a
BY DEF Max

\* The smaller one of two numbers.
LEMMA MinTwo ==
  ASSUME NEW a \in Int, NEW b \in Int
  PROVE  Min({a, b}) = IF a < b THEN a ELSE b
BY DEF Min

\* What can be cut out of a length.
LEMMA DivBounds ==
  ASSUME NEW a \in Nat, NEW b \in Nat \ {0}
  PROVE  /\ a \div b \in Nat
         /\ (a \div b) * b <= a
         /\ \A c \in Nat : c * b <= a => c <= a \div b
<1> DEFINE q == a \div b
<1>1. q \in Int /\ a = b * q + (a % b) /\ a % b \in 0 .. b - 1
  BY DivMod
<1>2. q \in Nat
  OBVIOUS
<1> HIDE DEF q
<1>3. q * b = b * q
  BY <1>1
<1>4. ASSUME NEW c \in Nat, c * b <= a PROVE c <= q
  <2>1. b * c = c * b /\ b * c < b * q + b
    BY <1>1, <1>4
  <2>2. \A k, l \in Int : \A d \in Nat \ {0} : d * k < d * l + d => k <= l
    OBVIOUS
  <2> QED BY <2>1, <2>2, <1>1
<1> QED BY <1>1, <1>2, <1>3, <1>4 DEF q

\* What parse_cmdline() lets through, and the shortest request that is tried for.
LEMMA FileFacts ==
  ASSUME NEW o \in Options, NEW f \in FilesFor(o)
  PROVE  /\ o.Mintrans \in Nat \ {0} /\ o.Maxtrans \in Nat \ {0} /\ f.length \in Nat
         /\ o.Mintrans <= o.Maxtrans /\ o.Maxtrans <= f.length
         /\ f.mult \in Nat \ {0} /\ f.lastoffset \in Nat /\ lastend(f) \in Int
         /\ f.lastoffset <= lastend(f) + 1 /\ lastend(f) < f.length
         /\ minlength(o, f) \in Nat \ {0} /\ minlength(o, f) <= o.Maxtrans
         /\ minlength(o, f) >= f.mult
         /\ o.Mintrans % f.mult = 0 => minlength(o, f) % f.mult = 0
<1>1. /\ o.Mintrans \in Nat \ {0} /\ o.Maxtrans \in Nat \ {0} /\ o.Mintrans <= o.Maxtrans
  BY IogenAssumption DEF Options
<1>2. /\ f.length \in o.Maxtrans .. MaxLength /\ f.mult \in 1 .. MaxMult
      /\ f.lastoffset \in 0 .. MaxLength /\ f.lastlength \in 0 .. MaxLength
      /\ f.lastoffset + f.lastlength <= f.length
      /\ random_range(o.Mintrans, o.Maxtrans, f.mult) # {}
  BY DEF FilesFor
<1>3. /\ f.length \in Nat /\ o.Maxtrans <= f.length /\ f.mult \in Nat \ {0}
      /\ f.lastoffset \in Nat /\ f.lastlength \in Nat
  BY <1>1, <1>2, IogenAssumption
<1>4. lastend(f) \in Int /\ f.lastoffset <= lastend(f) + 1 /\ lastend(f) < f.length
  BY <1>2, <1>3 DEF lastend
<1>5. minlength(o, f) = IF o.Mintrans < f.mult THEN f.mult ELSE o.Mintrans
  BY <1>1, <1>3, MaxTwo DEF minlength
<1>6. PICK x \in o.Mintrans .. o.Maxtrans : x % f.mult = 0
  BY <1>2 DEF random_range
<1>7. x >= f.mult
  BY <1>1, <1>3, <1>6, Multiples
<1>8. minlength(o, f) <= o.Maxtrans
  BY <1>1, <1>3, <1>5, <1>6, <1>7
<1>9. f.mult % f.mult = 0
  BY <1>3, ModOfMultiple
<1>10. o.Mintrans % f.mult = 0 => minlength(o, f) % f.mult = 0
  BY <1>5, <1>9
<1>11. minlength(o, f) \in Nat \ {0} /\ minlength(o, f) >= f.mult
  BY <1>1, <1>3, <1>5
<1> QED BY <1>1, <1>3, <1>4, <1>8, <1>10, <1>11

\* The request lies within the file, is aligned, not empty and not too long.
Suits(o, f, r) ==
  /\ r.offset \in Int /\ r.nbytes \in Int
  /\ r.offset >= 0 /\ r.offset + r.nbytes <= f.length
  /\ r.nbytes \in 1 .. o.Maxtrans
  /\ r.offset % f.mult = 0 /\ r.nbytes % f.mult = 0

\* Sequential requests suit the file.
LEMMA SequentialSuits ==
  ASSUME NEW o \in Options, NEW f \in FilesFor(o), NEW r \in Sequential(o, f)
  PROVE  Suits(o, f, r)
<1> DEFINE starts == IF Overlap(o, f) THEN f.lastoffset .. lastend(f) ELSE {lastend(f) + 1}
           up(s)  == s + ((-s) % f.mult)
           off(s) == IF minlength(o, f) > f.length - up(s) THEN 0 ELSE up(s)
           lens(s) == random_range(minlength(o, f), Min({f.length - off(s), o.Maxtrans}), f.mult)
<1>1. PICK s \in starts : r \in Requested(off(s), lens(s))
  BY DEF Sequential
<1>2. PICK n \in lens(s) : r = [offset |-> off(s), nbytes |-> n]
  BY <1>1 DEF Requested
<1>3. s \in Nat
  BY FileFacts
<1>4. up(s) \in Nat /\ up(s) % f.mult = 0
  <2>1. -s \in Int /\ (-s) % f.mult \in Nat
    BY <1>3, FileFacts
  <2>2. up(s) \in Nat
    BY <1>3, <2>1
  <2>3. s \in Int /\ f.mult \in Nat \ {0}
    BY <1>3, FileFacts
  <2>4. up(s) % f.mult = 0
    BY <2>3, Multiples, Zenon
  <2> QED BY <2>2, <2>4
<1> HIDE DEF up
<1>5. off(s) \in Nat /\ off(s) % f.mult = 0 
  <2>1. 0 % f.mult = 0
    BY FileFacts, ModOfMultiple
  <2> QED BY <1>4, <2>1
<1> HIDE DEF off
<1>6. Min({f.length - off(s), o.Maxtrans}) =
        IF f.length - off(s) < o.Maxtrans THEN f.length - off(s) ELSE o.Maxtrans
  BY <1>5, FileFacts, MinTwo
<1>7. n \in Int /\ minlength(o, f) <= n /\ n <= f.length - off(s) /\ n <= o.Maxtrans
      /\ n % f.mult = 0
  BY <1>5, <1>6, FileFacts DEF random_range
<1>8. n \in 1 .. o.Maxtrans /\ off(s) + n <= f.length
  BY <1>5, <1>7, FileFacts
<1> QED BY <1>2, <1>5, <1>7, <1>8 DEF Suits

\* Requests backwards suit the file.
LEMMA BackwardSuits ==
  ASSUME NEW o \in Options, NEW f \in FilesFor(o), NEW r \in Backward(o, f)
  PROVE  Suits(o, f, r)
<1> DEFINE max  == Min({f.lastoffset, o.Maxtrans})
           wrap == minlength(o, f) > max
           start == IF wrap THEN f.length ELSE f.lastoffset
           lens == random_range(minlength(o, f), IF wrap THEN o.Maxtrans ELSE max, f.mult)
           in   == IF ~wrap /\ Overlap(o, f) THEN 1 .. lastend(f) - f.lastoffset ELSE {0}
           down(x) == x - (x % f.mult)
<1>1. PICK n \in lens, i \in in : r = [offset |-> down(start - n + i), nbytes |-> n]
  <2>1. Backward(o, f) = {[offset |-> down(start - n + i), nbytes |-> n] : n \in lens, i \in in}
    BY DEF Backward
  <2> HIDE DEF lens, in, start, down
  <2> QED BY <2>1
<1>2. max = IF f.lastoffset < o.Maxtrans THEN f.lastoffset ELSE o.Maxtrans
  BY FileFacts, MinTwo
<1>3. n \in Nat \ {0} /\ n <= o.Maxtrans /\ n <= start /\ n % f.mult = 0 /\ start \in Nat
  BY <1>2, FileFacts DEF random_range
<1>4. i \in Nat /\ start + i <= f.length
  BY FileFacts DEF Overlap
<1> HIDE DEF start, lens, in
<1> DEFINE x == start - n + i
<1>5. x \in Nat /\ x + n <= f.length
  BY <1>3, <1>4, FileFacts
<1> HIDE DEF x
<1>6. x % f.mult \in 0 .. x
  <2>1. \A a \in Nat : \A b \in Nat \ {0} : a % b \in 0 .. a
    OBVIOUS
  <2> QED BY <1>5, <2>1, FileFacts
<1>7. down(x) \in Nat /\ down(x) + n <= f.length
  BY <1>3, <1>5, <1>6, FileFacts
<1>8. down(x) % f.mult = 0
  BY <1>5, FileFacts, Multiples
<1>9. r = [offset |-> down(x), nbytes |-> n]
  BY <1>1 DEF x
<1> HIDE DEF down
<1> QED BY <1>3, <1>7, <1>8, <1>9, FileFacts DEF Suits

\* Random requests suit the file, and meet the last one when they are to overlap.
LEMMA RandomSuits ==
  ASSUME NEW o \in Options, NEW f \in FilesFor(o), NEW r \in Random(o, f)
  PROVE  /\ Suits(o, f, r)
         /\ Overlap(o, f) => r.offset <= lastend(f) /\ r.offset + r.nbytes > f.lastoffset
<1> DEFINE min(n) == IF Overlap(o, f) THEN Max({0, f.lastoffset - n + 1}) ELSE 0
           max(n) == IF Overlap(o, f) /\ lastend(f) + n <= f.length
                     THEN lastend(f) ELSE f.length - n
<1>1. PICK n \in RandomLengths(o, f) :
        r \in {[offset |-> x, nbytes |-> n] : x \in random_range(min(n), max(n), f.mult)}
  BY Zenon DEF Random
<1>2. PICK x \in random_range(min(n), max(n), f.mult) : r = [offset |-> x, nbytes |-> n]
  BY <1>1
<1>3. RandomLengths(o, f) = random_range(o.Mintrans, o.Maxtrans, f.mult)
  BY DEF RandomLengths, FilesFor
<1>4. n \in Nat \ {0} /\ n <= o.Maxtrans /\ n % f.mult = 0
  BY <1>3, FileFacts DEF random_range
<1>5. Max({0, f.lastoffset - n + 1}) =
        IF 0 < f.lastoffset - n + 1 THEN f.lastoffset - n + 1 ELSE 0
  BY <1>4, FileFacts, MaxTwo
<1>6. x \in Int /\ min(n) <= x /\ x <= max(n) /\ x % f.mult = 0
  BY <1>4, <1>5, FileFacts DEF random_range
<1>7. x >= 0 /\ x + n <= f.length
  BY <1>4, <1>5, <1>6, FileFacts
<1>8. Overlap(o, f) => x <= lastend(f) /\ x + n > f.lastoffset
  BY <1>4, <1>5, <1>6, FileFacts
<1>9. n \in 1 .. o.Maxtrans
  BY <1>4, FileFacts
<1> QED BY <1>2, <1>4, <1>6, <1>7, <1>8, <1>9 DEF Suits

\* If the sizes are multiples, there is a sequential request,
LEMMA SequentialExists ==
  ASSUME NEW o \in Options, NEW f \in FilesFor(o), o.Mintrans % f.mult = 0
  PROVE  Sequential(o, f) # {}
<1> DEFINE starts == IF Overlap(o, f) THEN f.lastoffset .. lastend(f) ELSE {lastend(f) + 1}
           up(s)  == s + ((-s) % f.mult)
           off(s) == IF minlength(o, f) > f.length - up(s) THEN 0 ELSE up(s)
           lens(s) == random_range(minlength(o, f), Min({f.length - off(s), o.Maxtrans}), f.mult)
           n == minlength(o, f)
<1>1. \E s \in starts : s \in Nat
  BY FileFacts DEF Overlap
<1>2. PICK s \in starts : s \in Nat
  BY <1>1
<1>3. up(s) \in Nat
  <2>1. (-s) % f.mult \in Nat
    BY <1>2, FileFacts
  <2> QED BY <1>2, <2>1
<1> HIDE DEF up
<1>4. off(s) \in Nat /\ n <= f.length - off(s)
  BY <1>3, FileFacts
<1> HIDE DEF off
<1>5. Min({f.length - off(s), o.Maxtrans}) =
        IF f.length - off(s) < o.Maxtrans THEN f.length - off(s) ELSE o.Maxtrans
  BY <1>4, FileFacts, MinTwo
<1>6. n \in lens(s)
  BY <1>4, <1>5, FileFacts DEF random_range
<1>7. [offset |-> off(s), nbytes |-> n] \in Requested(off(s), lens(s))
  BY <1>6, Zenon DEF Requested
<1> HIDE DEF starts, lens
<1>8. [offset |-> off(s), nbytes |-> n] \in UNION {Requested(off(z), lens(z)) : z \in starts}
  BY <1>2, <1>7, Zenon
<1> QED BY <1>8, Zenon DEF Sequential, starts, up, off, lens

\* one backwards,
LEMMA BackwardExists ==
  ASSUME NEW o \in Options, NEW f \in FilesFor(o), o.Mintrans % f.mult = 0
  PROVE  Backward(o, f) # {}
<1> DEFINE max  == Min({f.lastoffset, o.Maxtrans})
           wrap == minlength(o, f) > max
           start == IF wrap THEN f.length ELSE f.lastoffset
           lens == random_range(minlength(o, f), IF wrap THEN o.Maxtrans ELSE max, f.mult)
           in   == IF ~wrap /\ Overlap(o, f) THEN 1 .. lastend(f) - f.lastoffset ELSE {0}
           down(x) == x - (x % f.mult)
<1>1. max = IF f.lastoffset < o.Maxtrans THEN f.lastoffset ELSE o.Maxtrans
  BY FileFacts, MinTwo
<1>2. minlength(o, f) \in lens
  BY <1>1, FileFacts DEF random_range
<1>3. PICK i \in in : TRUE
  BY FileFacts DEF Overlap
<1> DEFINE n == minlength(o, f)
<1>4. Backward(o, f) = {[offset |-> down(start - k + j), nbytes |-> k] : k \in lens, j \in in}
  BY DEF Backward
<1> HIDE DEF lens, in, start, down
<1>5. [offset |-> down(start - n + i), nbytes |-> n] \in Backward(o, f)
  BY <1>2, <1>3, <1>4
<1> QED BY <1>5

\* and one anywhere.
LEMMA RandomExists ==
  ASSUME NEW o \in Options, NEW f \in FilesFor(o), o.Mintrans % f.mult = 0,
         f.length % f.mult = 0
  PROVE  Random(o, f) # {}
<1> DEFINE min(n) == IF Overlap(o, f) THEN Max({0, f.lastoffset - n + 1}) ELSE 0
           max(n) == IF Overlap(o, f) /\ lastend(f) + n <= f.length
                     THEN lastend(f) ELSE f.length - n
           m == o.Mintrans
           down == f.lastoffset - (f.lastoffset % f.mult)
           x == IF ~Overlap(o, f) THEN 0
                ELSE IF lastend(f) + m <= f.length THEN down ELSE f.length - m
<1>1. m \in RandomLengths(o, f)
  BY FileFacts DEF RandomLengths, random_range, FilesFor
<1>2. Max({0, f.lastoffset - m + 1}) =
        IF 0 < f.lastoffset - m + 1 THEN f.lastoffset - m + 1 ELSE 0
  BY FileFacts, MaxTwo
<1>3. m >= f.mult
  BY FileFacts, Multiples
<1>4. down \in Nat /\ down <= f.lastoffset /\ down >= f.lastoffset - f.mult + 1
      /\ down % f.mult = 0
  <2>1. f.lastoffset \in Nat /\ f.mult \in Nat \ {0}
    BY FileFacts
  <2>2. f.lastoffset % f.mult \in 0 .. f.mult - 1 /\ f.lastoffset % f.mult <= f.lastoffset
    BY <2>1
  <2>3. down % f.mult = 0
    BY <2>1, Multiples
  <2> QED BY <2>1, <2>2, <2>3
<1>5. f.length - m \in Nat /\ (f.length - m) % f.mult = 0 /\ 0 % f.mult = 0
  <2>1. f.length \in Int /\ m \in Int /\ f.mult \in Nat \ {0} /\ f.length - m \in Nat
    BY FileFacts
  <2>2. (f.length - m) % f.mult = 0
    BY <2>1, Multiples, Zenon
  <2> QED BY <2>1, <2>2
<1> HIDE DEF down
<1>6. x \in Int /\ min(m) <= x /\ x <= max(m)
  BY <1>2, <1>3, <1>4, <1>5, FileFacts DEF Overlap
<1>7. x % f.mult = 0
  BY <1>4, <1>5
<1>8. min(m) \in Int /\ max(m) \in Int
  BY <1>2, FileFacts
<1> HIDE DEF x, min, max
<1>9. x \in random_range(min(m), max(m), f.mult)
  BY <1>6, <1>7, <1>8 DEF random_range
<1> HIDE DEF m
<1> DEFINE of(n) == {[offset |-> z, nbytes |-> n] : z \in random_range(min(n), max(n), f.mult)}
<1>10. [offset |-> x, nbytes |-> m] \in of(m)
  BY <1>9
<1>11. Random(o, f) = UNION {of(n) : n \in RandomLengths(o, f)}
  BY Zenon DEF Random, min, max
<1> HIDE DEF of
<1> QED BY <1>1, <1>10, <1>11

\* The strides of a request are aligned, not empty and fit into it.
LEMMA StridesFit ==
  ASSUME NEW N \in Nat \ {0}, NEW m \in Nat \ {0}, NEW s \in Strides(N, m)
  PROVE  /\ s.n \in 1 .. Maxstrides /\ s.n * s.length <= N
         /\ s.length > 0 /\ s.length % m = 0
<1> DEFINE len(n) == N \div n
           t(n) == IF m > len(n) THEN m ELSE len(n) - (len(n) % m)
           stride(n) == IF len(n) % m = 0 THEN [n |-> n, length |-> len(n)]
                        ELSE [n |-> Min({N \div t(n), Maxstrides}), length |-> t(n)]
<1>1. PICK n \in 1 .. Min({N \div m, Maxstrides}) : s = stride(n)
  <2>1. Strides(N, m) = {stride(n) : n \in 1 .. Min({N \div m, Maxstrides})}
    BY DEF Strides
  <2> HIDE DEF stride
  <2> QED BY <2>1
<1>2. Min({N \div m, Maxstrides}) = IF N \div m < Maxstrides THEN N \div m ELSE Maxstrides
  BY MinTwo, IogenAssumption
<1>3. n \in Nat \ {0} /\ n <= N \div m /\ n <= Maxstrides
  BY <1>2, DivBounds, IogenAssumption
<1> DEFINE l == N \div n
<1>4. l \in Nat /\ l * n <= N
  BY <1>3, DivBounds
<1>5. m <= l
  <2>1. N \div m \in Nat /\ (N \div m) * m <= N
    BY DivBounds
  <2>2. n * m <= (N \div m) * m
    BY <1>3, <2>1
  <2>3. m * n <= N
    BY <1>3, <2>1, <2>2
  <2> QED BY <1>3, <2>3, DivBounds
<1> HIDE DEF l
<1>6. CASE l % m = 0
  <2>1. s = [n |-> n, length |-> l]
    BY <1>1, <1>6 DEF l
  <2>2. n * l <= N
    BY <1>3, <1>4
  <2> QED BY <1>3, <1>4, <1>5, <1>6, <2>1, <2>2, IogenAssumption
<1>7. CASE l % m # 0
  <2> DEFINE u == l - (l % m)
             k == N \div u
  <2>1. u \in Nat /\ u <= l /\ u > 0 /\ u % m = 0
    <3>1. l % m \in 0 .. m - 1
      BY <1>4
    <3>2. u % m = 0
      BY <1>4, Multiples
    <3> QED BY <1>4, <1>5, <3>1, <3>2
  <2>2. s = [n |-> Min({k, Maxstrides}), length |-> u]
    <3>1. t(n) = u
      BY <1>4, <1>5 DEF l
    <3> QED BY <1>1, <1>7, <3>1 DEF l
  <2> HIDE DEF u
  <2>3. k \in Nat /\ k * u <= N /\ (\A c \in Nat : c * u <= N => c <= k)
    BY <2>1, DivBounds
  <2>4. k >= 1
    <3>1. l <= N
      BY <1>3, <1>4
    <3> QED BY <1>4, <2>1, <2>3, <3>1
  <2> HIDE DEF k
  <2>5. Min({k, Maxstrides}) = IF k < Maxstrides THEN k ELSE Maxstrides
    BY <2>3, MinTwo, IogenAssumption
  <2> DEFINE c == Min({k, Maxstrides})
  <2>6. c \in 1 .. Maxstrides /\ c <= k
    BY <2>3, <2>4, <2>5, IogenAssumption
  <2> HIDE DEF c
  <2>7. c * u <= k * u
    BY <2>1, <2>3, <2>6, IogenAssumption
  <2>8. c * u <= N
    BY <2>1, <2>3, <2>6, <2>7, IogenAssumption
  <2> QED BY <2>1, <2>2, <2>6, <2>8 DEF c
<1> QED BY <1>6, <1>7

\* Whatever request within a file was the last one, the next one that iogen forms lies
\* within the file, is aligned, not empty and not longer than Maxtrans, meets the last
\* one in random mode when it is to overlap, and has strides that fit into it; and there
\* is one, if the sizes are multiples: for every file, every multiple and every
\* choice of the options.
THEOREM RequestsSuit == RequestsFit
<1> SUFFICES ASSUME NEW o \in Options
             PROVE  /\ \A n \in 1 .. MaxLength : FirstPlace(o.mode, n) \in 0 .. n
                    /\ \A f \in FilesFor(o) :
                         LET rs == form_iorequest(o, f) IN
                         /\ o.Mintrans % f.mult = 0 /\ f.length % f.mult = 0 => rs # {}
                         /\ \A r \in rs :
                              /\ r.offset >= 0 /\ r.offset + r.nbytes <= f.length
                              /\ r.nbytes \in 1 .. o.Maxtrans
                              /\ r.offset % f.mult = 0 /\ r.nbytes % f.mult = 0
                              /\ o.mode = "random" /\ Overlap(o, f) =>
                                   r.offset <= lastend(f) /\ r.offset + r.nbytes > f.lastoffset
                              /\ \A s \in Strides(r.nbytes, f.mult) :
                                   /\ s.n \in 1 .. Maxstrides /\ s.n * s.length <= r.nbytes
                                   /\ s.length > 0 /\ s.length % f.mult = 0
  BY Zenon DEF RequestsFit
<1>1. o.mode \in {"sequential", "reverse", "random"}
  BY DEF Options
<1>2. ASSUME NEW n \in 1 .. MaxLength PROVE FirstPlace(o.mode, n) \in 0 .. n
  <2>1. n \in Nat /\ n \div 2 \in 0 .. n
    BY IogenAssumption
  <2> QED BY <1>1, <2>1 DEF FirstPlace
<1>3. ASSUME NEW f \in FilesFor(o)
      PROVE  LET rs == form_iorequest(o, f) IN
             /\ o.Mintrans % f.mult = 0 /\ f.length % f.mult = 0 => rs # {}
             /\ \A r \in rs :
                  /\ Suits(o, f, r)
                  /\ o.mode = "random" /\ Overlap(o, f) =>
                       r.offset <= lastend(f) /\ r.offset + r.nbytes > f.lastoffset
  <2>1. CASE o.mode = "sequential"
    <3>1. form_iorequest(o, f) = Sequential(o, f) /\ o.mode # "random"
      BY <2>1 DEF form_iorequest
    <3> QED BY <3>1, SequentialSuits, SequentialExists
  <2>2. CASE o.mode = "reverse"
    <3>1. form_iorequest(o, f) = Backward(o, f) /\ o.mode # "random"
      BY <2>2 DEF form_iorequest
    <3> QED BY <3>1, BackwardSuits, BackwardExists
  <2>3. CASE o.mode = "random"
    <3>1. form_iorequest(o, f) = Random(o, f)
      BY <2>3 DEF form_iorequest
    <3> QED BY <3>1, RandomSuits, RandomExists
  <2> QED BY <1>1, <2>1, <2>2, <2>3
<1>4. ASSUME NEW f \in FilesFor(o), NEW r \in form_iorequest(o, f),
             NEW s \in Strides(r.nbytes, f.mult)
      PROVE  /\ s.n \in 1 .. Maxstrides /\ s.n * s.length <= r.nbytes
             /\ s.length > 0 /\ s.length % f.mult = 0
  <2>1. r.nbytes \in Nat \ {0} /\ f.mult \in Nat \ {0}
    BY <1>3, FileFacts DEF Suits
  <2> QED BY <2>1, StridesFit
<1> QED BY <1>2, <1>3, <1>4, Zenon DEF Suits

\* The same of the requests that are still to come through the pipe, at any moment.
THEOREM PipeSuits == Spec => []PipeFits
<1>1. PipeFits
  BY RequestsSuit DEF PipeFits
<1> QED BY <1>1, PTL
=============================================================================

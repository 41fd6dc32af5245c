--------------------------- MODULE FsstressProofs ---------------------------
(***************************************************************************)
(* Proofs about Fsstress, for any number of operations, loops and names:   *)
(* the lists of fsstress are exactly the names below its top directory,    *)
(* the attribute counters count the attributes, every operation ends in    *)
(* the directory it began in, and, where no cleanup of the lists is        *)
(* followed by another loop, the cache of directories by id is current.    *)
(*                                                                         *)
(* The lists are read as a set of records (View), whose parent ids form a  *)
(* forest; Matched says that the tree of names is that forest.  A path     *)
(* that check_cwd() or init_pathname() walks is a way through it, and each *)
(* operation adds, drops, moves or exchanges records and names together.   *)
(***************************************************************************)
EXTENDS Fsstress, FiniteSetTheorems, SequenceTheorems, WellFoundedInduction, TLAPS

-----------------------------------------------------------------------------
(* Induction and recursion over an interval.                               *)

\* A set of numbers that has 0, and n + 1 with n, is all of them.
LEMMA Induction ==
  ASSUME NEW T \in SUBSET Nat, 0 \in T, \A n \in T : n + 1 \in T
  PROVE  \A n \in Nat : n \in T
<1> DEFINE R == {ss \in Nat \X Nat : ss[1] < ss[2]}
<1> SUFFICES ASSUME Nat \ T # {} PROVE FALSE
  OBVIOUS
<1>1. IsWellFoundedOn(R, Nat)
  BY NatLessThanWellFounded DEF OpToRel
<1> HIDE DEF R
<1>2. PICK x \in Nat \ T : \A y \in Nat \ T : ~(<<y, x>> \in R)
  BY <1>1, WFMin
<1>3. x # 0 /\ x - 1 \in Nat /\ (x - 1) + 1 = x
  OBVIOUS
<1>4. <<x - 1, x>> \in R
  BY <1>3 DEF R
<1>5. x - 1 \in T
  BY <1>2, <1>3, <1>4
<1> QED BY <1>3, <1>5

\* The same up to a bound.
LEMMA BoundedInduction ==
  ASSUME NEW N \in Nat, NEW T, 0 \in T, \A n \in 0 .. N - 1 : n \in T => n + 1 \in T
  PROVE  \A n \in 0 .. N : n \in T
<1> DEFINE U == {n \in Nat : n <= N => n \in T}
<1>1. U \in SUBSET Nat /\ 0 \in U
  OBVIOUS
<1>2. \A n \in U : n + 1 \in U
  OBVIOUS
<1> HIDE DEF U
<1>3. \A n \in Nat : n \in U
  BY <1>1, <1>2, Induction
<1> QED BY <1>3 DEF U

\* A function is f step by step: F[i] takes the value at i - 1 to the one at i.
Steps(N, z, F, f) == \A i \in 0 .. N : f[i] = IF i = 0 THEN z ELSE F[i][f[i - 1]]

\* There is one.
LEMMA StepsExist ==
  ASSUME NEW N \in Nat, NEW Z, NEW z \in Z, NEW F \in [1 .. N -> [Z -> Z]]
  PROVE  \E f \in [0 .. N -> Z] : Steps(N, z, F, f)
<1> DEFINE T == {n \in 0 .. N : \E f \in [0 .. n -> Z] : Steps(n, z, F, f)}
<1>1. 0 \in T
  <2>1. [i \in 0 .. 0 |-> z] \in [0 .. 0 -> Z] /\ Steps(0, z, F, [i \in 0 .. 0 |-> z])
    BY DEF Steps
  <2> QED BY <2>1
<1>2. ASSUME NEW n \in 0 .. N - 1, n \in T PROVE n + 1 \in T
  <2>1. PICK f \in [0 .. n -> Z] : Steps(n, z, F, f)
    BY <1>2
  <2>2. n + 1 \in 1 .. N /\ n \in 0 .. n /\ n + 1 \in 0 .. N
    OBVIOUS
  <2>3. F[n + 1][f[n]] \in Z
    BY <2>1, <2>2
  <2> DEFINE g == [i \in 0 .. n + 1 |-> IF i = n + 1 THEN F[n + 1][f[n]] ELSE f[i]]
  <2>4. g \in [0 .. n + 1 -> Z]
    BY <2>1, <2>3
  <2>5. ASSUME NEW i \in 0 .. n + 1
        PROVE  g[i] = IF i = 0 THEN z ELSE F[i][g[i - 1]]
    <3>1. CASE i = n + 1
      <4>1. g[i] = F[n + 1][f[n]] /\ g[i - 1] = f[n] /\ i # 0
        BY <3>1
      <4> QED BY <3>1, <4>1
    <3>2. CASE i # n + 1
      <4>1. i \in 0 .. n /\ g[i] = f[i] /\ (i # 0 => g[i - 1] = f[i - 1])
        BY <3>2
      <4>2. f[i] = IF i = 0 THEN z ELSE F[i][f[i - 1]]
        BY <2>1, <4>1 DEF Steps
      <4> QED BY <4>1, <4>2
    <3> QED BY <3>1, <3>2
  <2> HIDE DEF g
  <2>6. Steps(n + 1, z, F, g)
    BY <2>5 DEF Steps
  <2> QED BY <2>2, <2>4, <2>6
<1> HIDE DEF T
<1>3. \A n \in 0 .. N : n \in T
  BY <1>1, <1>2, BoundedInduction
<1>4. N \in T
  BY <1>3
<1> QED BY <1>4 DEF T

-----------------------------------------------------------------------------
(* The tree.                                                               *)

\* One step of a path.
Step(D, y, n) ==
  LET hit == {x \in D : x.dir = y /\ x.name = n}
  IN IF hit = {} THEN NoInode ELSE (CHOOSE x \in hit : TRUE).ino

\* One "..".
StepUp(D, y) ==
  LET up == {x \in D : x.ino = y} IN IF up = {} THEN NoInode ELSE (CHOOSE x \in up : TRUE).dir

\* Resolve() goes step by step.
LEMMA ResolveSteps ==
  ASSUME NEW d, NEW path, Len(path) \in Nat, NEW a, a[0] = d,
         \A i \in 1 .. Len(path) : a[i] = Step(dirents, a[i - 1], path[i])
  PROVE  Resolve(d, path) = a[Len(path)]
<1> DEFINE N == Len(path)
           E(f) == [i \in 0 .. N |-> IF i = 0 THEN d ELSE Step(dirents, f[i - 1], path[i])]
           at == CHOOSE f : f = E(f)
           b == [i \in 0 .. N |-> a[i]]
<1>1. Resolve(d, path) = at[N]
  BY DEF Resolve, Step
<1>2. b = E(b)
  <2>1. ASSUME NEW i \in 0 .. N
        PROVE  b[i] = IF i = 0 THEN d ELSE Step(dirents, b[i - 1], path[i])
    <3>1. CASE i = 0
      BY <3>1
    <3>2. CASE i # 0
      <4>1. i \in 1 .. N /\ i - 1 \in 0 .. N
        BY <3>2
      <4> QED BY <3>2, <4>1
    <3> QED BY <3>1, <3>2
  <2> QED BY <2>1
<1>3. at = E(at)
  <2> HIDE DEF E, b
  <2> QED BY <1>2
<1> HIDE DEF at
<1>4. \A i \in 0 .. N : at[i] = IF i = 0 THEN d ELSE Step(dirents, at[i - 1], path[i])
  <2> DEFINE f == E(at)
  <2>1. \A i \in 0 .. N : f[i] = IF i = 0 THEN d ELSE Step(dirents, at[i - 1], path[i])
    OBVIOUS
  <2> HIDE DEF f
  <2>2. at = f
    BY <1>3 DEF f
  <2> QED BY <2>1, <2>2
<1> DEFINE T == {i \in 0 .. N : at[i] = a[i]}
<1>5. 0 \in T
  BY <1>4
<1>6. ASSUME NEW n \in 0 .. N - 1, n \in T PROVE n + 1 \in T
  <2>1. n + 1 \in 1 .. N /\ n + 1 \in 0 .. N /\ (n + 1) - 1 = n /\ at[n] = a[n]
    BY <1>6
  <2>2. at[n + 1] = Step(dirents, at[n], path[n + 1])
    BY <1>4, <2>1
  <2>3. a[n + 1] = Step(dirents, a[n], path[n + 1])
    BY <2>1
  <2> QED BY <2>1, <2>2, <2>3
<1>7. N \in Nat
  OBVIOUS
<1> HIDE DEF T, N
<1>8. \A n \in 0 .. N : n \in T
  BY <1>5, <1>6, <1>7, BoundedInduction
<1>9. N \in T
  BY <1>7, <1>8
<1> QED BY <1>1, <1>9 DEF T, N

\* Climb() goes up step by step.
LEMMA ClimbSteps ==
  ASSUME NEW D, NEW k \in Nat, NEW a, \A i \in 1 .. k : a[i] = StepUp(D, a[i - 1])
  PROVE  Climb(D, a[0], k) = a[k]
<1> DEFINE E(f) == [i \in 0 .. k |-> IF i = 0 THEN a[0] ELSE StepUp(D, f[i - 1])]
           at == CHOOSE f : f = E(f)
           b == [i \in 0 .. k |-> a[i]]
<1>1. Climb(D, a[0], k) = at[k]
  BY DEF Climb, StepUp
<1>2. b = E(b)
  <2>1. ASSUME NEW i \in 0 .. k
        PROVE  b[i] = IF i = 0 THEN a[0] ELSE StepUp(D, b[i - 1])
    <3>1. CASE i = 0
      BY <3>1
    <3>2. CASE i # 0
      <4>1. i \in 1 .. k /\ i - 1 \in 0 .. k
        BY <3>2
      <4> QED BY <3>2, <4>1
    <3> QED BY <3>1, <3>2
  <2> QED BY <2>1
<1>3. at = E(at)
  <2> HIDE DEF E, b
  <2> QED BY <1>2
<1> HIDE DEF at
<1>4. \A i \in 0 .. k : at[i] = IF i = 0 THEN a[0] ELSE StepUp(D, at[i - 1])
  <2> DEFINE f == E(at)
  <2>1. \A i \in 0 .. k : f[i] = IF i = 0 THEN a[0] ELSE StepUp(D, at[i - 1])
    OBVIOUS
  <2> HIDE DEF f
  <2>2. at = f
    BY <1>3 DEF f
  <2> QED BY <2>1, <2>2
<1> DEFINE T == {i \in 0 .. k : at[i] = a[i]}
<1>5. 0 \in T
  BY <1>4
<1>6. ASSUME NEW n \in 0 .. k - 1, n \in T PROVE n + 1 \in T
  <2>1. n + 1 \in 1 .. k /\ n + 1 \in 0 .. k /\ (n + 1) - 1 = n /\ at[n] = a[n]
    BY <1>6
  <2>2. at[n + 1] = StepUp(D, at[n])
    BY <1>4, <2>1
  <2>3. a[n + 1] = StepUp(D, a[n])
    BY <2>1
  <2> QED BY <2>1, <2>2, <2>3
<1> HIDE DEF T
<1>7. k \in T
  BY <1>5, <1>6, BoundedInduction
<1> QED BY <1>1, <1>7 DEF T

\* a has the inodes on the way along the first n names of a path from the top.
Walk(D, path, n, a) ==
  /\ a[0] = Top
  /\ \A i \in 1 .. n : \E x \in D : x.name = path[i] /\ x.dir = a[i - 1] /\ x.ino = a[i]

\* In the tree D the way back from a[n] is the same.
WayBack(D, n, a) ==
  \A i \in 1 .. n : /\ \E x \in D : x.ino = a[i]
                    /\ \A x \in D : x.ino = a[i] => x.dir = a[i - 1]

NamesOnce(D) == \A x, y \in D : x.name = y.name => x = y

\* Where every name is there once, Resolve() finds the way.
LEMMA WalkResolves ==
  ASSUME NEW S, NEW path \in Seq(S), NEW n \in 0 .. Len(path), NEW a,
         NamesOnce(dirents), Walk(dirents, path, n, a), NEW k \in 0 .. n
  PROVE  Resolve(Top, SubSeq(path, 1, k)) = a[k]
<1> DEFINE q == SubSeq(path, 1, k)
<1>1. k \in Nat /\ k <= Len(path) /\ Len(path) \in Nat
  OBVIOUS
<1>2. Len(q) = k /\ \A i \in 1 .. k : q[i] = path[i]
  BY <1>1
<1> HIDE DEF q
<1>3. ASSUME NEW i \in 1 .. k PROVE a[i] = Step(dirents, a[i - 1], q[i])
  <2>1. i \in 1 .. n
    OBVIOUS
  <2>2. PICK x \in dirents : x.name = path[i] /\ x.dir = a[i - 1] /\ x.ino = a[i]
    BY <2>1 DEF Walk
  <2> DEFINE hit == {y \in dirents : y.dir = a[i - 1] /\ y.name = q[i]}
  <2>3. hit = {x}
    BY <1>2, <2>2 DEF NamesOnce
  <2> HIDE DEF hit
  <2>4. (CHOOSE y \in hit : TRUE) = x
    BY <2>3
  <2>5. Step(dirents, a[i - 1], q[i]) = x.ino
    BY <2>3, <2>4 DEF Step, hit
  <2> QED BY <2>2, <2>5
<1>4. a[0] = Top
  BY DEF Walk
<1>5. Len(q) \in Nat /\ \A i \in 1 .. Len(q) : a[i] = Step(dirents, a[i - 1], q[i])
  BY <1>1, <1>2, <1>3
<1>6. Resolve(Top, q) = a[Len(q)]
  BY <1>4, <1>5, ResolveSteps
<1> QED BY <1>2, <1>6 DEF q

\* Climb() finds the way back.
LEMMA WalkClimbs ==
  ASSUME NEW D, NEW n \in Nat, NEW a, WayBack(D, n, a), NEW k \in 0 .. n
  PROVE  Climb(D, a[n], n - k) = a[k]
<1> DEFINE b == [i \in 0 .. n |-> a[n - i]]
           j == n - k
<1>1. ASSUME NEW i \in 1 .. j PROVE b[i] = StepUp(D, b[i - 1])
  <2> DEFINE m == n - (i - 1)
             up == {x \in D : x.ino = a[m]}
  <2>1. m \in 1 .. n /\ b[i - 1] = a[m] /\ b[i] = a[m - 1]
    OBVIOUS
  <2> HIDE DEF m, b
  <2>2. up # {} /\ \A x \in up : x.dir = a[m - 1]
    BY <2>1 DEF WayBack
  <2> HIDE DEF up
  <2>3. (CHOOSE x \in up : TRUE).dir = a[m - 1]
    BY <2>2
  <2>4. StepUp(D, a[m]) = a[m - 1]
    BY <2>2, <2>3 DEF StepUp, up
  <2> QED BY <2>1, <2>4
<1>2. b[0] = a[n] /\ b[j] = a[k] /\ j \in Nat
  OBVIOUS
<1> HIDE DEF b, j
<1>3. Climb(D, b[0], j) = b[j]
  BY <1>1, <1>2, ClimbSteps
<1> QED BY <1>2, <1>3 DEF j

\* A call that walks down along a path comes back, if the way is still there.
LEMMA ChdirHome ==
  ASSUME NEW S, NEW path \in Seq(S), path # <<>>, NEW a, NEW D, cwd = Top,
         NamesOnce(dirents), Walk(dirents, path, Len(path) - 1, a),
         WayBack(D, Len(path) - 1, a)
  PROVE  ChdirBack(D, path) \subseteq {Top}
<1> DEFINE n == Len(path) - 1
<1>1. n \in Nat /\ n \in 0 .. Len(path)
  BY EmptySeq
<1> HIDE DEF n
<1>2. ASSUME NEW k \in 0 .. n PROVE Climb(D, Resolve(cwd, SubSeq(path, 1, k)), k) = Top
  <2>1. Resolve(Top, SubSeq(path, 1, k)) = a[k]
    BY <1>1, WalkResolves DEF n
  <2>2. Climb(D, a[k], k - 0) = a[0]
    <3>1. k \in Nat /\ 0 \in 0 .. k /\ WayBack(D, n, a)
      BY <1>1 DEF n
    <3>2. WayBack(D, k, a)
      BY <1>1, <3>1 DEF WayBack
    <3> QED BY <3>1, <3>2, WalkClimbs
  <2>3. a[0] = Top /\ k - 0 = k
    BY DEF Walk
  <2> QED BY <2>1, <2>2, <2>3
<1> QED BY <1>2 DEF ChdirBack, n

-----------------------------------------------------------------------------
(* The lists: the parents of an entry and the cache.                       *)

EntryRec == [id : Nat, parent : Nat \cup {-1}, xattr_counter : Nat]
Caches   == [0 .. NDCACHE - 1 -> Nat]

Listed == flist \in [FTypes -> Seq(EntryRec)]

\* No two entries have the same id.
Slotted ==
  \A t, r \in FTypes : \A s \in Slots(t), u \in Slots(r) :
    flist[t][s].id = flist[r][u].id => t = r /\ s = u

\* Every parent is the top or a directory of the list; no directory is above itself.
DirIds == {Dirs[s].id : s \in Slots("d")}
Rooted ==
  /\ \A t \in FTypes : \A s \in Slots(t) : flist[t][s].parent \in DirIds \cup {-1}
  /\ \A S \in SUBSET DirIds :
       S # {} => \E s \in Slots("d") : Dirs[s].id \in S /\ Dirs[s].parent \notin S

Lists == Listed /\ Slotted /\ Rooted

\* What CacheCurrent says, for any cache.
Current(c) ==
  \A h \in 0 .. NDCACHE - 1 :
    c[h] # 0 => c[h] \in Slots("d") /\ Dirs[c[h]].id % NDCACHE = h

\* What there is to know of the slots of directories.
LEMMA DirSlots ==
  ASSUME Listed
  PROVE  /\ Len(Dirs) \in Nat /\ Slots("d") = 1 .. Len(Dirs)
         /\ \A s \in Slots("d") : /\ Dirs[s] \in EntryRec /\ s \in Nat \ {0}
                                  /\ Dirs[s].id \in Nat /\ Dirs[s].parent \in Nat \cup {-1}
<1>1. Dirs \in Seq(EntryRec)
  BY DEF Listed, Dirs, FTypes
<1>2. Len(Dirs) \in Nat /\ Slots("d") = 1 .. Len(Dirs)
  BY <1>1 DEF Slots, Dirs
<1>3. \A s \in Slots("d") : Dirs[s] \in EntryRec
  BY <1>1, <1>2
<1> QED BY <1>2, <1>3 DEF EntryRec

\* A directory is found in one slot.
LEMMA Found ==
  ASSUME Listed, Slotted, NEW s \in Slots("d")
  PROVE  dirid_to_fent(Dirs[s].id) = {s}
BY DEF dirid_to_fent, Slotted, Dirs, FTypes

\* The lookup of a directory yields a cache, and a current one from a current one.
LEMMA LookupKeeps ==
  ASSUME Listed, Slotted, NEW c \in Caches, NEW d \in Int
  PROVE  Lookup(c, d) \in Caches /\ (Current(c) => Current(Lookup(c, d)))
<1>1. CASE Hit(c, d) \/ dirid_to_fent(d) = {}
  BY <1>1 DEF Lookup
<1>2. CASE ~(Hit(c, d) \/ dirid_to_fent(d) = {})
  <2>1. PICK s \in Slots("d") : Dirs[s].id = d
    BY <1>2 DEF dirid_to_fent
  <2>2. dirid_to_fent(d) = {s}
    BY <2>1, Found
  <2>3. (CHOOSE w \in dirid_to_fent(d) : \A u \in dirid_to_fent(d) : w <= u) = s
    <3>1. s <= s
      BY DirSlots
    <3> QED BY <2>2, <3>1
  <2> DEFINE h == d % NDCACHE
  <2>4. Lookup(c, d) = [c EXCEPT ![h] = s]
    BY <1>2, <2>3 DEF Lookup
  <2>5. h \in 0 .. NDCACHE - 1 /\ s \in Nat
    BY FsstressAssumption, DirSlots
  <2>6. Dirs[s].id % NDCACHE = h
    BY <2>1
  <2> HIDE DEF h
  <2>7. [c EXCEPT ![h] = s] \in Caches
    BY <2>5 DEF Caches
  <2>8. ASSUME Current(c) PROVE Current([c EXCEPT ![h] = s])
    BY <2>5, <2>6, <2>8 DEF Current, Caches
  <2> QED BY <2>4, <2>7, <2>8
<1> QED BY <1>1, <1>2

\* One step of Parents().
UpStep(u) ==
  IF u.at = -1 THEN u
  ELSE [ids |-> Append(u.ids, u.at),
        at |-> IF dirid_to_fent(u.at) = {} THEN -1
               ELSE Dirs[CHOOSE s \in dirid_to_fent(u.at) : TRUE].parent,
        cache |-> Lookup(u.cache, u.at)]

Ups == [ids : Seq(Int), at : Int, cache : Caches]
Begin(c, p) == [ids |-> <<>>, at |-> p, cache |-> c]

\* Parents() goes step by step.
LEMMA ParentsSteps ==
  ASSUME Listed, NEW c, NEW p, NEW a, a[0] = Begin(c, p),
         \A i \in 1 .. Len(Dirs) : a[i] = UpStep(a[i - 1])
  PROVE  Parents(c, p) = a[Len(Dirs)]
<1> DEFINE N == Len(Dirs)
           E(f) == [i \in 0 .. N |-> IF i = 0 THEN Begin(c, p) ELSE UpStep(f[i - 1])]
           at == CHOOSE f : f = E(f)
           b == [i \in 0 .. N |-> a[i]]
<1>0. N \in Nat
  BY DirSlots
<1>1. Parents(c, p) = at[N]
  BY DEF Parents, UpStep, Begin
<1> HIDE DEF N
<1>2. b = E(b)
  <2>1. ASSUME NEW i \in 0 .. N
        PROVE  b[i] = IF i = 0 THEN Begin(c, p) ELSE UpStep(b[i - 1])
    <3>1. CASE i = 0
      BY <3>1
    <3>2. CASE i # 0
      <4>1. i \in 1 .. N /\ i - 1 \in 0 .. N
        BY <1>0, <3>2
      <4> QED BY <3>2, <4>1 DEF N
    <3> QED BY <3>1, <3>2
  <2> QED BY <2>1
<1>3. at = E(at)
  <2> HIDE DEF E, b
  <2> QED BY <1>2
<1> HIDE DEF at
<1>4. \A i \in 0 .. N : at[i] = IF i = 0 THEN Begin(c, p) ELSE UpStep(at[i - 1])
  <2> DEFINE f == E(at)
  <2>1. \A i \in 0 .. N : f[i] = IF i = 0 THEN Begin(c, p) ELSE UpStep(at[i - 1])
    OBVIOUS
  <2> HIDE DEF f
  <2>2. at = f
    BY <1>3 DEF f
  <2> QED BY <2>1, <2>2
<1> DEFINE T == {i \in 0 .. N : at[i] = a[i]}
<1>5. 0 \in T
  BY <1>0, <1>4
<1>6. ASSUME NEW n \in 0 .. N - 1, n \in T PROVE n + 1 \in T
  <2>1. n + 1 \in 1 .. N /\ n + 1 \in 0 .. N /\ (n + 1) - 1 = n /\ at[n] = a[n]
    BY <1>0, <1>6
  <2>2. at[n + 1] = UpStep(at[n])
    BY <1>0, <1>4, <2>1
  <2>3. a[n + 1] = UpStep(a[n])
    BY <2>1 DEF N
  <2> QED BY <2>1, <2>2, <2>3
<1> HIDE DEF T
<1>7. \A n \in 0 .. N : n \in T
  BY <1>0, <1>5, <1>6, BoundedInduction
<1>8. N \in T
  BY <1>0, <1>7
<1> QED BY <1>1, <1>8 DEF T, N

\* The steps of Parents() exist, and the cache stays a cache.
LEMMA UpsExist ==
  ASSUME Listed, Slotted, NEW c \in Caches, NEW p \in Int
  PROVE  \E a \in [0 .. Len(Dirs) -> Ups] :
           /\ a[0] = Begin(c, p)
           /\ \A i \in 1 .. Len(Dirs) : a[i] = UpStep(a[i - 1])
           /\ Parents(c, p) = a[Len(Dirs)]
<1> DEFINE N == Len(Dirs)
           F == [i \in 1 .. N |-> [u \in Ups |-> UpStep(u)]]
<1>0. N \in Nat
  BY DirSlots
<1>1. ASSUME NEW u \in Ups PROVE UpStep(u) \in Ups
  <2>1. CASE u.at = -1
    BY <2>1 DEF UpStep
  <2>2. CASE u.at # -1
    <3>1. u.ids \in Seq(Int) /\ u.at \in Int /\ u.cache \in Caches
      BY DEF Ups
    <3>2. Append(u.ids, u.at) \in Seq(Int)
      BY <3>1
    <3>3. Lookup(u.cache, u.at) \in Caches
      BY <3>1, LookupKeeps
    <3> DEFINE q == IF dirid_to_fent(u.at) = {} THEN -1
                    ELSE Dirs[CHOOSE s \in dirid_to_fent(u.at) : TRUE].parent
    <3>4. q \in Int
      BY DirSlots DEF dirid_to_fent
    <3>5. UpStep(u) = [ids |-> Append(u.ids, u.at), at |-> q, cache |-> Lookup(u.cache, u.at)]
      BY <2>2 DEF UpStep
    <3> HIDE DEF q
    <3> QED BY <3>2, <3>3, <3>4, <3>5 DEF Ups
  <2> QED BY <2>1, <2>2
<1>2. Begin(c, p) \in Ups
  BY DEF Begin, Ups
<1>3. F \in [1 .. N -> [Ups -> Ups]]
  BY <1>1
<1> HIDE DEF N, F
<1>4. PICK a \in [0 .. N -> Ups] : Steps(N, Begin(c, p), F, a)
  BY <1>0, <1>2, <1>3, StepsExist
<1>5. a[0] = Begin(c, p)
  BY <1>0, <1>4 DEF Steps
<1>6. ASSUME NEW i \in 1 .. N PROVE a[i] = UpStep(a[i - 1])
  <2>1. i \in 0 .. N /\ i # 0 /\ a[i - 1] \in Ups
    BY <1>0
  <2>2. a[i] = F[i][a[i - 1]]
    BY <1>4, <2>1 DEF Steps
  <2>3. F[i][a[i - 1]] = UpStep(a[i - 1])
    BY <2>1 DEF F
  <2> QED BY <2>2, <2>3
<1>7. Parents(c, p) = a[N]
  BY <1>5, <1>6, ParentsSteps DEF N
<1> QED BY <1>4, <1>5, <1>6, <1>7 DEF N

\* q has ids of directories, each the parent of the one before it.
Chain(q, n) ==
  \A j \in 1 .. n : \E s \in Slots("d") :
    Dirs[s].id = q[j] /\ (j < n => Dirs[s].parent = q[j + 1])

\* No directory is twice on a chain.
LEMMA NoRepeat ==
  ASSUME Lists, NEW n \in Nat, NEW q, Chain(q, n), NEW i \in 1 .. n, NEW j \in 1 .. n, i < j
  PROVE  q[i] # q[j]
<1> SUFFICES ASSUME q[i] = q[j] PROVE FALSE
  OBVIOUS
<1> DEFINE S == {q[k] : k \in i .. j - 1}
<1>1. S \in SUBSET DirIds
  <2>1. ASSUME NEW k \in i .. j - 1 PROVE q[k] \in DirIds
    <3>1. k \in 1 .. n
      OBVIOUS
    <3> QED BY <3>1 DEF Chain, DirIds
  <2> QED BY <2>1
<1>2. i \in i .. j - 1
  OBVIOUS
<1>3. S # {}
  BY <1>2
<1>4. PICK s \in Slots("d") : Dirs[s].id \in S /\ Dirs[s].parent \notin S
  <2> HIDE DEF S
  <2> QED BY <1>1, <1>3 DEF Lists, Rooted
<1>5. PICK k \in i .. j - 1 : Dirs[s].id = q[k]
  BY <1>4
<1>6. k \in 1 .. n /\ k < n /\ k + 1 \in i .. j
  OBVIOUS
<1>7. PICK u \in Slots("d") : Dirs[u].id = q[k] /\ Dirs[u].parent = q[k + 1]
  BY <1>6 DEF Chain
<1>8. u = s
  BY <1>5, <1>7, Found DEF Lists
<1>9. q[k + 1] \in S
  <2>1. CASE k + 1 = j
    BY <1>2, <2>1
  <2>2. CASE k + 1 # j
    <3>1. k + 1 \in i .. j - 1
      BY <2>2
    <3> QED BY <3>1
  <2> QED BY <2>1, <2>2
<1> QED BY <1>4, <1>7, <1>8, <1>9

\* A chain is no longer than the list.
LEMMA ChainShort ==
  ASSUME Lists, NEW n \in Nat, NEW q, Chain(q, n)
  PROVE  n <= Len(Dirs)
<1> DEFINE slot == [j \in 1 .. n |-> CHOOSE s \in Slots("d") : Dirs[s].id = q[j]]
<1>1. Len(Dirs) \in Nat /\ Slots("d") = 1 .. Len(Dirs)
  BY DirSlots DEF Lists
<1>2. ASSUME NEW j \in 1 .. n PROVE slot[j] \in Slots("d") /\ Dirs[slot[j]].id = q[j]
  <2>1. \E s \in Slots("d") : Dirs[s].id = q[j]
    BY DEF Chain
  <2> QED BY <2>1
<1>3. slot \in [1 .. n -> 1 .. Len(Dirs)]
  BY <1>1, <1>2
<1> HIDE DEF slot
<1>4. ASSUME NEW i \in 1 .. n, NEW j \in 1 .. n, slot[i] = slot[j] PROVE i = j
  <2>1. q[i] = q[j]
    BY <1>2, <1>4
  <2>2. ~(i < j) /\ ~(j < i)
    BY <2>1, NoRepeat
  <2> QED BY <2>2
<1>5. slot \in Injection(1 .. n, 1 .. Len(Dirs))
  BY <1>3, <1>4 DEF Injection, IsInjective
<1>6. IsFiniteSet(1 .. Len(Dirs)) /\ Cardinality(1 .. Len(Dirs)) = Len(Dirs)
  <2> DEFINE N == Len(Dirs)
  <2>1. N \in Nat
    BY <1>1
  <2> HIDE DEF N
  <2>2. IsFiniteSet(1 .. N) /\ Cardinality(1 .. N) = N
    BY <2>1, FS_Interval
  <2> QED BY <2>2 DEF N
<1>7. Cardinality(1 .. n) = n
  BY FS_Interval
<1>8. Cardinality(1 .. n) <= Cardinality(1 .. Len(Dirs))
  BY <1>5, <1>6, FS_Injection DEF ExistsInjection
<1> QED BY <1>6, <1>7, <1>8

\* What Parents() has found after some steps from p.
Climbed(u, p) ==
  LET m == Len(u.ids) IN
  /\ m = 0 => u.at = p
  /\ m > 0 => u.ids[1] = p
  /\ u.at \in DirIds \cup {-1}
  /\ \A j \in 1 .. m : \E s \in Slots("d") :
       Dirs[s].id = u.ids[j] /\ Dirs[s].parent = IF j = m THEN u.at ELSE u.ids[j + 1]

\* A step of Parents() keeps that, and the cache current.
LEMMA UpStepKeeps ==
  ASSUME Lists, NEW p, NEW u \in Ups, Climbed(u, p), u.at # -1
  PROVE  /\ Climbed(UpStep(u), p)
         /\ Len(UpStep(u).ids) = Len(u.ids) + 1
         /\ Current(u.cache) => Current(UpStep(u).cache)
<1> DEFINE m == Len(u.ids)
           w == UpStep(u)
<1>1. PICK s \in Slots("d") : Dirs[s].id = u.at
  BY DEF Climbed, DirIds
<1>2. dirid_to_fent(u.at) = {s}
  BY <1>1, Found DEF Lists
<1>3. u.ids \in Seq(Int) /\ u.at \in Int /\ u.cache \in Caches /\ m \in Nat
  BY DEF Ups
<1>4. (CHOOSE k \in dirid_to_fent(u.at) : TRUE) = s
  BY <1>2
<1>5. w = [ids |-> Append(u.ids, u.at), at |-> Dirs[s].parent, cache |-> Lookup(u.cache, u.at)]
  BY <1>2, <1>4 DEF UpStep
<1> HIDE DEF w
<1>6. Len(w.ids) = m + 1 /\ w.ids[m + 1] = u.at /\ \A j \in 1 .. m : w.ids[j] = u.ids[j]
  BY <1>3, <1>5
<1>7. Current(u.cache) => Current(w.cache)
  BY <1>3, <1>5, LookupKeeps DEF Lists
<1>8. w.at = Dirs[s].parent /\ w.at \in DirIds \cup {-1}
  <2>1. Dirs[s].parent \in DirIds \cup {-1}
    BY DEF Lists, Rooted, Dirs, FTypes
  <2> QED BY <1>5, <2>1
<1>9. w.ids[1] = p
  <2>1. CASE m = 0
    BY <1>6, <2>1 DEF Climbed
  <2>2. CASE m # 0
    BY <1>3, <1>6, <2>2 DEF Climbed
  <2> QED BY <2>1, <2>2
<1>10. ASSUME NEW j \in 1 .. m + 1
       PROVE  \E k \in Slots("d") :
                Dirs[k].id = w.ids[j] /\ Dirs[k].parent = IF j = m + 1 THEN w.at ELSE w.ids[j + 1]
  <2>1. CASE j = m + 1
    BY <1>1, <1>6, <1>8, <2>1
  <2>2. CASE j # m + 1
    <3>1. j \in 1 .. m
      BY <1>3, <2>2
    <3>2. PICK k \in Slots("d") :
            Dirs[k].id = u.ids[j] /\ Dirs[k].parent = IF j = m THEN u.at ELSE u.ids[j + 1]
      BY <3>1 DEF Climbed
    <3>3. w.ids[j + 1] = IF j = m THEN u.at ELSE u.ids[j + 1]
      <4>1. CASE j = m
        BY <1>6, <4>1
      <4>2. CASE j # m
        <5>1. j + 1 \in 1 .. m
          BY <1>3, <3>1, <4>2
        <5> QED BY <1>6, <4>2, <5>1
      <4> QED BY <4>1, <4>2
    <3> QED BY <1>6, <2>2, <3>1, <3>2, <3>3
  <2> QED BY <2>1, <2>2
<1> HIDE DEF m
<1>11. Climbed(w, p)
  BY <1>3, <1>6, <1>8, <1>9, <1>10 DEF Climbed
<1> QED BY <1>6, <1>7, <1>11 DEF w, m

\* The parents from p: a chain to the top, and a cache.
LEMMA ParentsChain ==
  ASSUME Lists, NEW c \in Caches, NEW p \in DirIds \cup {-1}
  PROVE  LET u == Parents(c, p)
             m == Len(u.ids)
         IN /\ u.ids \in Seq(Int) /\ m \in Nat /\ u.cache \in Caches
            /\ Current(c) => Current(u.cache)
            /\ u.at = -1 /\ Climbed(u, p)
<1> DEFINE N == Len(Dirs)
           u == Parents(c, p)
<1>0. N \in Nat /\ p \in Int
  BY DirSlots DEF Lists, DirIds
<1>1. PICK a \in [0 .. N -> Ups] : /\ a[0] = Begin(c, p)
                                   /\ \A i \in 1 .. N : a[i] = UpStep(a[i - 1])
                                   /\ u = a[N]
  BY <1>0, UpsExist DEF Lists
<1> HIDE DEF N, u
<1> DEFINE Good(i) == /\ Climbed(a[i], p)
                      /\ a[i].at # -1 => Len(a[i].ids) = i
                      /\ Current(c) => Current(a[i].cache)
           T == {i \in 0 .. N : Good(i)}
<1>2. 0 \in T
  <2>1. Len(<<>>) = 0
    OBVIOUS
  <2> QED BY <1>0, <1>1, <2>1 DEF Begin, Climbed
<1>3. ASSUME NEW n \in 0 .. N - 1, n \in T PROVE n + 1 \in T
  <2>1. n + 1 \in 1 .. N /\ n + 1 \in 0 .. N /\ n \in 0 .. N /\ (n + 1) - 1 = n
    BY <1>0
  <2>2. a[n + 1] = UpStep(a[n]) /\ a[n] \in Ups
    BY <1>1, <2>1
  <2>3. Good(n)
    BY <1>3
  <2>4. CASE a[n].at = -1
    <3>1. a[n + 1] = a[n]
      BY <2>2, <2>4 DEF UpStep
    <3>2. Good(n + 1)
      BY <2>3, <2>4, <3>1
    <3> QED BY <2>1, <3>2
  <2>5. CASE a[n].at # -1
    <3>1. Good(n + 1)
      BY <2>2, <2>3, <2>5, UpStepKeeps
    <3> QED BY <2>1, <3>1
  <2> QED BY <2>4, <2>5
<1> HIDE DEF T
<1>4. \A n \in 0 .. N : n \in T
  BY <1>0, <1>2, <1>3, BoundedInduction
<1>5. Climbed(u, p) /\ (u.at # -1 => Len(u.ids) = N) /\ (Current(c) => Current(u.cache))
  <2>1. N \in T
    BY <1>0, <1>4
  <2> QED BY <1>1, <2>1 DEF T
<1>6. u \in Ups
  BY <1>0, <1>1
<1>7. u.ids \in Seq(Int) /\ Len(u.ids) \in Nat /\ u.cache \in Caches /\ u.at \in Int
  BY <1>6 DEF Ups
<1>8. u.at = -1
  <2> SUFFICES ASSUME u.at # -1 PROVE FALSE
    OBVIOUS
  <2>1. Len(u.ids) = N
    BY <1>5
  <2> DEFINE q == Append(u.ids, u.at)
  <2>2. q[N + 1] = u.at /\ \A j \in 1 .. N : q[j] = u.ids[j]
    BY <1>7, <2>1
  <2> HIDE DEF q
  <2>3. ASSUME NEW j \in 1 .. N + 1
        PROVE  \E s \in Slots("d") : Dirs[s].id = q[j] /\ (j < N + 1 => Dirs[s].parent = q[j + 1])
    <3>1. CASE j = N + 1
      <4>1. u.at \in DirIds
        BY <1>5 DEF Climbed
      <4> QED BY <1>0, <2>2, <3>1, <4>1 DEF DirIds
    <3>2. CASE j # N + 1
      <4>1. j \in 1 .. N /\ (j # N => j + 1 \in 1 .. N)
        BY <1>0, <3>2
      <4>2. PICK s \in Slots("d") :
              Dirs[s].id = u.ids[j] /\ Dirs[s].parent = IF j = N THEN u.at ELSE u.ids[j + 1]
        BY <1>5, <2>1, <4>1 DEF Climbed
      <4>3. q[j + 1] = IF j = N THEN u.at ELSE u.ids[j + 1]
        BY <2>2, <4>1
      <4> QED BY <2>2, <4>1, <4>2, <4>3
    <3> QED BY <3>1, <3>2
  <2>4. Chain(q, N + 1) /\ N + 1 \in Nat
    BY <1>0, <2>3 DEF Chain
  <2>5. N + 1 <= N
    BY <2>4, ChainShort DEF N
  <2> QED BY <1>0, <2>5
<1> QED BY <1>5, <1>7, <1>8 DEF u

-----------------------------------------------------------------------------
(* The lists and the tree together.                                        *)

\* The entries as a set: the slots do not matter to the tree.
Rec(t, e) == [type |-> t, id |-> e.id, parent |-> e.parent, count |-> e.xattr_counter]
Recs == [type : FTypes, id : Nat, parent : Nat \cup {-1}, count : Nat]
View(fl) == {v \in Recs : \E t \in FTypes : \E s \in 1 .. Len(fl[t]) : v = Rec(t, fl[t][s])}
DirsOf(V) == {v \in V : v.type = "d"}
NameOf(v) == <<v.type, v.id>>

\* Every parent is the top or a directory; no directory is above itself.
Ids(V) == {v.id : v \in DirsOf(V)}
Grounded(V) ==
  \A S \in SUBSET Ids(V) : S # {} => \E v \in DirsOf(V) : v.id \in S /\ v.parent \notin S
Forest(V) ==
  /\ \A v \in V : v.parent \in Ids(V) \cup {-1}
  /\ Grounded(V)

\* Inode d is the directory with id q in the tree D.
At(D, d, q) == IF q = -1 THEN d = Top ELSE \E y \in D : y.name = <<"d", q>> /\ d = y.ino

DirentRec == [dir : FTypes \X Int, name : FTypes \X Nat, ino : FTypes \X Nat]

\* The names of the tree are those of the entries, each in the directory that
\* is its parent.
Named(V, D) ==
  /\ D \in SUBSET DirentRec /\ IsFiniteSet(D)
  /\ NamesOnce(D)
  /\ \A x \in D : \E v \in V : x.name = NameOf(v)
  /\ \A v \in V : \E x \in D : x.name = NameOf(v) /\ At(D, x.dir, v.parent)

\* An inode has the type of its names, and one name unless it is linked.
Inodes(D, L, n) ==
  /\ \A x \in D : x.ino[1] = x.name[1] /\ x.ino[2] < n /\ x.name[2] < n
  /\ \A x, y \in D : x.ino = y.ino /\ x # y => x.ino \in L /\ x.ino[1] # "d"

\* The attributes belong to files of the tree, and are counted.
Attrs(V, D, X, L) ==
  /\ X \in SUBSET ((FTypes \X Nat) \X Nat)
  /\ \A a \in X : \E x \in D : x.ino = a[1]
  /\ \A v \in V, x \in D, a \in X :
       x.name = NameOf(v) /\ x.ino \notin L /\ a[1] = x.ino => a[2] \in 1 .. v.count

Tree == /\ Listed /\ Slotted /\ Forest(View(flist)) /\ nameseq \in Nat
        /\ Named(View(flist), dirents) /\ Inodes(dirents, linked, nameseq)

\* An entry and its record.
LEMMA EntryRecord ==
  ASSUME Listed, NEW t \in FTypes, NEW s \in Slots(t)
  PROVE  /\ flist[t][s] \in EntryRec /\ Rec(t, flist[t][s]) \in View(flist)
         /\ flist[t][s].id \in Nat /\ flist[t][s].parent \in Nat \cup {-1}
         /\ flist[t][s].xattr_counter \in Nat /\ s \in Nat \ {0}
<1>1. flist[t] \in Seq(EntryRec) /\ Len(flist[t]) \in Nat /\ s \in 1 .. Len(flist[t])
  BY DEF Listed, Slots
<1>2. flist[t][s] \in EntryRec
  BY <1>1
<1>3. Rec(t, flist[t][s]) \in Recs
  BY <1>2 DEF EntryRec, Rec, Recs
<1> QED BY <1>1, <1>2, <1>3 DEF View, EntryRec

\* A record and its entry.
LEMMA RecordEntry ==
  ASSUME NEW v \in View(flist)
  PROVE  /\ v \in Recs /\ v.type \in FTypes
         /\ \E s \in Slots(v.type) : v = Rec(v.type, flist[v.type][s])
<1>1. PICK t \in FTypes : \E s \in 1 .. Len(flist[t]) : v = Rec(t, flist[t][s])
  BY DEF View
<1>2. v.type = t
  BY <1>1 DEF Rec
<1> QED BY <1>1, <1>2 DEF View, Slots, Recs

\* The records have different ids.
LEMMA IdsOnce ==
  ASSUME Slotted, NEW u \in View(flist), NEW v \in View(flist), u.id = v.id
  PROVE  u = v
<1>1. PICK s \in Slots(u.type) : u = Rec(u.type, flist[u.type][s])
  BY RecordEntry
<1>2. PICK r \in Slots(v.type) : v = Rec(v.type, flist[v.type][r])
  BY RecordEntry
<1>3. u.type \in FTypes /\ v.type \in FTypes
  BY RecordEntry
<1>4. flist[u.type][s].id = u.id
  BY <1>1 DEF Rec
<1>5. flist[v.type][r].id = v.id
  BY <1>2 DEF Rec
<1>6. u.type = v.type /\ s = r
  BY <1>3, <1>4, <1>5 DEF Slotted
<1> QED BY <1>1, <1>2, <1>6

\* The ids of directories, of the slots and of the records.
LEMMA DirIdsView ==
  ASSUME Listed
  PROVE  /\ DirIds = Ids(View(flist))
         /\ \A s \in Slots("d") : /\ Rec("d", Dirs[s]) \in DirsOf(View(flist))
                                  /\ Rec("d", Dirs[s]).id = Dirs[s].id
                                  /\ Rec("d", Dirs[s]).parent = Dirs[s].parent
         /\ \A v \in DirsOf(View(flist)) : \E s \in Slots("d") : v = Rec("d", Dirs[s])
<1>1. ASSUME NEW s \in Slots("d")
      PROVE  /\ Rec("d", Dirs[s]) \in DirsOf(View(flist))
             /\ Rec("d", Dirs[s]).id = Dirs[s].id
             /\ Rec("d", Dirs[s]).parent = Dirs[s].parent
  <2>1. Rec("d", Dirs[s]) \in View(flist)
    BY EntryRecord DEF FTypes, Dirs
  <2> QED BY <2>1 DEF DirsOf, Rec
<1>2. ASSUME NEW v \in DirsOf(View(flist)) PROVE \E s \in Slots("d") : v = Rec("d", Dirs[s])
  BY RecordEntry DEF DirsOf, Dirs
<1>3. DirIds = Ids(View(flist))
  <2>1. ASSUME NEW i \in DirIds PROVE i \in Ids(View(flist))
    BY <1>1 DEF DirIds, Ids
  <2>2. ASSUME NEW i \in Ids(View(flist)) PROVE i \in DirIds
    <3>1. PICK v \in DirsOf(View(flist)) : v.id = i
      BY DEF Ids
    <3>2. PICK s \in Slots("d") : v = Rec("d", Dirs[s])
      BY <1>2
    <3> QED BY <1>1, <3>1, <3>2 DEF DirIds
  <2> QED BY <2>1, <2>2
<1> QED BY <1>1, <1>2, <1>3

\* A tree of records is what Lists says of the lists: parents are in them, and
\* no set of directories is its own parent.
LEMMA TreeLists ==
  ASSUME Tree
  PROVE  Lists
<1>1. ASSUME NEW t \in FTypes, NEW s \in Slots(t) PROVE flist[t][s].parent \in DirIds \cup {-1}
  <2>1. Rec(t, flist[t][s]) \in View(flist)
    BY EntryRecord DEF Tree
  <2>2. Rec(t, flist[t][s]).parent = flist[t][s].parent
    BY DEF Rec
  <2> QED BY <2>1, <2>2, DirIdsView DEF Tree, Forest
<1>2. ASSUME NEW S \in SUBSET DirIds, S # {}
      PROVE  \E s \in Slots("d") : Dirs[s].id \in S /\ Dirs[s].parent \notin S
  <2>1. S \in SUBSET Ids(View(flist))
    BY DirIdsView DEF Tree
  <2>2. PICK v \in DirsOf(View(flist)) : v.id \in S /\ v.parent \notin S
    BY <1>2, <2>1 DEF Tree, Forest, Grounded
  <2>3. PICK s \in Slots("d") : v = Rec("d", Dirs[s])
    BY DirIdsView DEF Tree
  <2> QED BY <2>2, <2>3, DirIdsView DEF Tree
<1> QED BY <1>1, <1>2 DEF Lists, Rooted, Tree

-----------------------------------------------------------------------------
(* The paths of the entries in the tree.                                   *)

\* The inode with a name, and the inodes on the way along a path.
Ino(nm) == (CHOOSE x \in dirents : x.name = nm).ino
Spots(path) == [k \in 0 .. Len(path) |-> IF k = 0 THEN Top ELSE Ino(path[k])]

Names == FTypes \X Int

\* The first n names of a path lead down from the top through directories that
\* the list knows, each once.
Way(path, n) ==
  /\ path \in Seq(Names) /\ n \in 0 .. Len(path)
  /\ Walk(dirents, path, n, Spots(path))
  /\ \A i \in 1 .. n : \E s \in Slots("d") :
       /\ path[i] = <<"d", Dirs[s].id>>
       /\ Dirs[s].parent = IF i = 1 THEN -1 ELSE path[i - 1][2]
  /\ \A i, j \in 1 .. n : i < j => path[i] # path[j]

\* The inode with the name of a dirent.
LEMMA InoOf ==
  ASSUME Tree, NEW x \in dirents
  PROVE  Ino(x.name) = x.ino
<1>1. \A y \in dirents : y.name = x.name => y = x
  BY DEF Tree, Named, NamesOnce
<1>2. (CHOOSE y \in dirents : y.name = x.name) = x
  BY <1>1
<1> QED BY <1>2 DEF Ino

\* The dirent of an entry.
LEMMA EntryDirent ==
  ASSUME Tree, NEW t \in FTypes, NEW s \in Slots(t)
  PROVE  \E x \in dirents : /\ x.name = <<t, flist[t][s].id>> /\ x.ino = Ino(x.name)
                            /\ At(dirents, x.dir, flist[t][s].parent)
<1> DEFINE v == Rec(t, flist[t][s])
<1>1. v \in View(flist)
  BY EntryRecord DEF Tree
<1>2. v.type = t /\ v.id = flist[t][s].id /\ v.parent = flist[t][s].parent
  BY DEF Rec
<1> HIDE DEF v
<1>3. PICK x \in dirents : x.name = NameOf(v) /\ At(dirents, x.dir, v.parent)
  BY <1>1 DEF Tree, Named
<1> QED BY <1>2, <1>3, InoOf DEF NameOf

\* The directory with an id that is the top's or a directory's.
DirIno(q) == IF q = -1 THEN Top ELSE Ino(<<"d", q>>)

\* The directory that At() finds under an id has that id's inode.
LEMMA AtIs ==
  ASSUME Tree, NEW d, NEW q, At(dirents, d, q)
  PROVE  d = DirIno(q)
BY InoOf DEF At, DirIno

\* A chain of n directories to the top, and a path along it.
ToTop(q, n) ==
  \A j \in 1 .. n : \E s \in Slots("d") :
    Dirs[s].id = q[j] /\ Dirs[s].parent = IF j = n THEN -1 ELSE q[j + 1]
Along(path, n, q) == \A i \in 1 .. n : path[i] = <<"d", q[n + 1 - i]>>

\* A path whose names are those of a chain to the top is a way.
LEMMA ChainWay ==
  ASSUME Tree, NEW path \in Seq(Names), NEW n \in 0 .. Len(path), NEW q,
         Along(path, n, q), ToTop(q, n)
  PROVE  Way(path, n) /\ Spots(path)[n] = DirIno(IF n = 0 THEN -1 ELSE q[1])
<1> DEFINE a == Spots(path)
<1>0. n \in Nat /\ Len(path) \in Nat /\ n <= Len(path)
  OBVIOUS
<1>1. a[0] = Top /\ \A i \in 1 .. n : a[i] = Ino(path[i])
  BY <1>0 DEF Spots
<1> HIDE DEF a
<1>2. ASSUME NEW i \in 1 .. n
      PROVE  \E s \in Slots("d") : /\ path[i] = <<"d", Dirs[s].id>>
                                   /\ Dirs[s].parent = IF i = 1 THEN -1 ELSE path[i - 1][2]
  <2>1. n + 1 - i \in 1 .. n /\ (n + 1 - i = n <=> i = 1) /\ (n + 1 - i) + 1 = n + 1 - (i - 1)
    BY <1>0
  <2>2. PICK s \in Slots("d") :
          /\ Dirs[s].id = q[n + 1 - i]
          /\ Dirs[s].parent = IF n + 1 - i = n THEN -1 ELSE q[(n + 1 - i) + 1]
    BY <2>1 DEF ToTop
  <2>3. path[i] = <<"d", Dirs[s].id>>
    BY <2>2 DEF Along
  <2>4. CASE i = 1
    BY <2>1, <2>2, <2>3, <2>4
  <2>5. CASE i # 1
    <3>1. i - 1 \in 1 .. n
      BY <2>5
    <3>2. path[i - 1] = <<"d", q[n + 1 - (i - 1)]>>
      BY <3>1 DEF Along
    <3> QED BY <2>1, <2>2, <2>3, <2>5, <3>2
  <2> QED BY <2>4, <2>5
<1>3. ASSUME NEW i \in 1 .. n
      PROVE  \E x \in dirents : x.name = path[i] /\ x.dir = a[i - 1] /\ x.ino = a[i]
  <2>1. PICK s \in Slots("d") : /\ path[i] = <<"d", Dirs[s].id>>
                                /\ Dirs[s].parent = IF i = 1 THEN -1 ELSE path[i - 1][2]
    BY <1>2
  <2>2. PICK x \in dirents : /\ x.name = <<"d", Dirs[s].id>> /\ x.ino = Ino(x.name)
                             /\ At(dirents, x.dir, Dirs[s].parent)
    BY EntryDirent DEF FTypes, Dirs
  <2>3. x.dir = DirIno(Dirs[s].parent)
    BY <2>2, AtIs
  <2>6. x.name = path[i] /\ x.ino = a[i]
    BY <1>1, <2>1, <2>2
  <2>4. CASE i = 1
    <3>1. Dirs[s].parent = -1 /\ a[i - 1] = Top
      BY <1>1, <2>1, <2>4
    <3> QED BY <2>3, <2>6, <3>1 DEF DirIno
  <2>5. CASE i # 1
    <3>1. i - 1 \in 1 .. n
      BY <2>5
    <3>2. PICK w \in Slots("d") : path[i - 1] = <<"d", Dirs[w].id>>
      BY <1>2, <3>1
    <3>3. Dirs[w].id # -1
      BY DirSlots DEF Tree
    <3>4. a[i - 1] = Ino(path[i - 1])
      BY <1>1, <3>1
    <3>5. Dirs[s].parent = Dirs[w].id
      BY <2>1, <2>5, <3>2
    <3>6. x.dir = Ino(<<"d", Dirs[w].id>>)
      BY <2>3, <3>3, <3>5 DEF DirIno
    <3> QED BY <2>6, <3>2, <3>4, <3>6
  <2> QED BY <2>4, <2>5
<1>4. Chain(q, n)
  <2>1. ASSUME NEW j \in 1 .. n
        PROVE  \E s \in Slots("d") : Dirs[s].id = q[j] /\ (j < n => Dirs[s].parent = q[j + 1])
    <3>1. PICK s \in Slots("d") : Dirs[s].id = q[j] /\ Dirs[s].parent = IF j = n THEN -1 ELSE q[j + 1]
      BY DEF ToTop
    <3>2. j < n => j # n
      OBVIOUS
    <3> QED BY <3>1, <3>2
  <2> QED BY <2>1 DEF Chain
<1>5. ASSUME NEW i \in 1 .. n, NEW j \in 1 .. n, i < j PROVE path[i] # path[j]
  <2>1. n + 1 - i \in 1 .. n /\ n + 1 - j \in 1 .. n /\ n + 1 - j < n + 1 - i
    BY <1>5
  <2>2. q[n + 1 - j] # q[n + 1 - i]
    BY <1>0, <1>4, <2>1, NoRepeat, TreeLists
  <2> QED BY <2>2 DEF Along
<1>6. a[n] = DirIno(IF n = 0 THEN -1 ELSE q[1])
  <2>1. CASE n = 0
    BY <1>1, <2>1 DEF DirIno
  <2>2. CASE n # 0
    <3>1. n \in 1 .. n /\ n + 1 - n = 1
      BY <1>0, <2>2
    <3>2. a[n] = Ino(<<"d", q[1]>>)
      BY <1>1, <3>1 DEF Along
    <3>3. PICK w \in Slots("d") : path[n] = <<"d", Dirs[w].id>>
      BY <1>2, <3>1
    <3>4. q[1] # -1
      <4>1. Dirs[w].id # -1
        BY DirSlots DEF Tree
      <4>2. path[n] = <<"d", q[n + 1 - n]>>
        BY <3>1 DEF Along
      <4> QED BY <3>1, <3>3, <4>1, <4>2
    <3> QED BY <2>2, <3>2, <3>4 DEF DirIno
  <2> QED BY <2>1, <2>2
<1> QED BY <1>1, <1>2, <1>3, <1>5, <1>6 DEF Way, Walk, a

\* The path that is built for an entry, and the cache after it.
LEMMA EntryPath ==
  ASSUME Tree, NEW c \in Caches, NEW t \in FTypes, NEW s \in Slots(t)
  PROVE  LET e == flist[t][s]
             f == fent_to_name(c, t, e)
             n == Len(f.path)
         IN /\ f.cache \in Caches /\ (Current(c) => Current(f.cache))
            /\ n \in Nat \ {0} /\ f.path[n] = <<t, e.id>>
            /\ Way(f.path, n - 1) /\ (t = "d" => Way(f.path, n))
            /\ Spots(f.path)[n - 1] = DirIno(e.parent)
            /\ e.parent = IF n = 1 THEN -1 ELSE f.path[n - 1][2]
<1> DEFINE e == flist[t][s]
           p == e.parent
           f == fent_to_name(c, t, e)
           u == Parents(c, p)
           m == Len(u.ids)
           r == [i \in 1 .. m |-> <<"d", u.ids[m + 1 - i]>>]
           nm == <<t, e.id>>
<1>1. p \in DirIds \cup {-1}
  BY TreeLists DEF Lists, Rooted
<1>2. e.id \in Nat
  BY EntryRecord DEF Tree
<1>3. f.path = Append(r, nm) /\ f.cache = u.cache
  BY DEF fent_to_name
<1> HIDE DEF p, f, u
<1>4. /\ u.ids \in Seq(Int) /\ m \in Nat /\ u.cache \in Caches
      /\ Current(c) => Current(u.cache)
      /\ u.at = -1 /\ Climbed(u, p)
  BY <1>1, TreeLists, ParentsChain DEF u
<1>5. /\ m = 0 => p = -1
      /\ m > 0 => u.ids[1] = p
      /\ \A j \in 1 .. m : \E w \in Slots("d") :
           Dirs[w].id = u.ids[j] /\ Dirs[w].parent = IF j = m THEN -1 ELSE u.ids[j + 1]
  BY <1>4 DEF Climbed
<1>6. nm \in Names
  BY <1>2 DEF Names
<1>7. r \in Seq(Names)
  <2>1. ASSUME NEW i \in 1 .. m PROVE <<"d", u.ids[m + 1 - i]>> \in Names
    <3>1. m + 1 - i \in 1 .. m
      BY <1>4
    <3>2. u.ids[m + 1 - i] \in Int
      BY <1>4, <3>1
    <3> QED BY <3>2 DEF Names, FTypes
  <2>2. r \in [1 .. m -> Names]
    BY <2>1
  <2> HIDE DEF r, m
  <2>3. m \in Nat
    BY <1>4 DEF m
  <2> QED BY <2>2, <2>3
<1>8. Len(r) = m /\ \A i \in 1 .. m : r[i] = <<"d", u.ids[m + 1 - i]>>
  BY <1>4
<1> HIDE DEF r, nm, m
<1>9. /\ f.path \in Seq(Names) /\ Len(f.path) = m + 1 /\ f.path[m + 1] = nm
      /\ \A i \in 1 .. m : f.path[i] = r[i]
  BY <1>3, <1>4, <1>6, <1>7, <1>8 DEF m
<1>10. m \in Nat
  BY <1>4 DEF m
<1> DEFINE n == m + 1
<1>11. Way(f.path, m) /\ Spots(f.path)[m] = DirIno(p)
  <2>4. m \in 0 .. Len(f.path)
    BY <1>9, <1>10
  <2>5. ToTop(u.ids, m)
    BY <1>5 DEF ToTop
  <2>1. Along(f.path, m, u.ids)
    BY <1>8, <1>9 DEF Along
  <2>2. Way(f.path, m) /\ Spots(f.path)[m] = DirIno(IF m = 0 THEN -1 ELSE u.ids[1])
    BY <1>9, <2>1, <2>4, <2>5, ChainWay
  <2>3. p = IF m = 0 THEN -1 ELSE u.ids[1]
    BY <1>5, <1>10
  <2> QED BY <2>2, <2>3
<1>12. ASSUME t = "d" PROVE Way(f.path, m + 1)
  <2> DEFINE q == [j \in 1 .. m + 1 |-> IF j = 1 THEN e.id ELSE u.ids[j - 1]]
  <2>1. m + 1 \in 0 .. Len(f.path)
    BY <1>9, <1>10
  <2>2. ASSUME NEW i \in 1 .. m + 1 PROVE f.path[i] = <<"d", q[m + 1 + 1 - i]>>
    <3>1. CASE i = m + 1
      <4>1. m + 1 + 1 - i = 1 /\ 1 \in 1 .. m + 1
        BY <1>10, <3>1
      <4> QED BY <1>9, <1>12, <3>1, <4>1 DEF nm
    <3>2. CASE i # m + 1
      <4>1. i \in 1 .. m /\ m + 1 + 1 - i \in 1 .. m + 1 /\ m + 1 + 1 - i # 1
            /\ (m + 1 + 1 - i) - 1 = m + 1 - i
        BY <1>10, <3>2
      <4> QED BY <1>8, <1>9, <4>1
    <3> QED BY <3>1, <3>2
  <2>3. ASSUME NEW j \in 1 .. m + 1
        PROVE  \E w \in Slots("d") :
                 Dirs[w].id = q[j] /\ Dirs[w].parent = IF j = m + 1 THEN -1 ELSE q[j + 1]
    <3>1. CASE j = 1
      <4>1. s \in Slots("d") /\ Dirs[s] = e
        BY <1>12 DEF Dirs
      <4>2. p = IF j = m + 1 THEN -1 ELSE q[j + 1]
        <5>1. CASE m = 0
          BY <1>5, <3>1, <5>1
        <5>2. CASE m # 0
          <6>1. j + 1 \in 1 .. m + 1 /\ j + 1 # 1 /\ (j + 1) - 1 = 1 /\ j # m + 1 /\ m > 0
            BY <1>10, <3>1, <5>2
          <6> QED BY <1>5, <6>1
        <5> QED BY <5>1, <5>2
      <4>3. q[j] = e.id
        BY <3>1
      <4> QED BY <4>1, <4>2, <4>3 DEF p
    <3>2. CASE j # 1
      <4>1. j - 1 \in 1 .. m /\ (j - 1 = m <=> j = m + 1)
            /\ (j # m + 1 => j + 1 \in 1 .. m + 1 /\ j + 1 # 1 /\ (j + 1) - 1 = (j - 1) + 1)
        BY <1>10, <3>2
      <4>2. PICK w \in Slots("d") :
              Dirs[w].id = u.ids[j - 1] /\ Dirs[w].parent = IF j - 1 = m THEN -1 ELSE u.ids[(j - 1) + 1]
        BY <1>5, <4>1
      <4>3. q[j] = u.ids[j - 1]
        BY <3>2
      <4>4. j # m + 1 => q[j + 1] = u.ids[(j - 1) + 1]
        BY <4>1
      <4> QED BY <4>1, <4>2, <4>3, <4>4
    <3> QED BY <3>1, <3>2
  <2> HIDE DEF q
  <2>4. Along(f.path, m + 1, q) /\ ToTop(q, m + 1)
    BY <2>2, <2>3 DEF Along, ToTop
  <2> QED BY <1>9, <2>1, <2>4, ChainWay
<1>13. p = IF n = 1 THEN -1 ELSE f.path[n - 1][2]
  <2>1. CASE m = 0
    BY <1>5, <2>1
  <2>2. CASE m # 0
    <3>1. m \in 1 .. m /\ n - 1 = m /\ n # 1 /\ m + 1 - m = 1 /\ m > 0
      BY <1>10, <2>2
    <3>2. f.path[m] = <<"d", u.ids[m + 1 - m]>>
      BY <1>8, <1>9, <3>1
    <3>3. f.path[m] = <<"d", p>>
      BY <1>5, <3>1, <3>2
    <3> QED BY <3>1, <3>3
  <2> QED BY <2>1, <2>2
<1>14. n - 1 = m /\ n \in Nat \ {0} /\ Len(f.path) = n
  BY <1>9, <1>10
<1>15. f.cache \in Caches /\ (Current(c) => Current(f.cache))
  BY <1>3, <1>4
<1>16. f.path[n] = <<t, e.id>>
  BY <1>9 DEF nm
<1> HIDE DEF n, e
<1>17. /\ f.cache \in Caches /\ (Current(c) => Current(f.cache))
       /\ Len(f.path) \in Nat \ {0} /\ f.path[Len(f.path)] = <<t, e.id>>
       /\ Way(f.path, Len(f.path) - 1) /\ (t = "d" => Way(f.path, Len(f.path)))
       /\ Spots(f.path)[Len(f.path) - 1] = DirIno(p)
       /\ p = IF Len(f.path) = 1 THEN -1 ELSE f.path[Len(f.path) - 1][2]
  BY <1>11, <1>12, <1>13, <1>14, <1>15, <1>16 DEF n
<1> QED BY <1>17 DEF f, p, e

\* The dirents on a way: directories, each with one name.
LEMMA WayDirent ==
  ASSUME Tree, NEW path, NEW n, Way(path, n), NEW k \in 1 .. n
  PROVE  /\ Spots(path)[k][1] = "d" /\ Spots(path)[k][2] < nameseq
         /\ \E y \in dirents : /\ y.name = path[k] /\ y.dir = Spots(path)[k - 1]
                               /\ y.ino = Spots(path)[k]
                               /\ \A z \in dirents : z.ino = y.ino => z = y
<1> DEFINE a == Spots(path)
<1>1. PICK y \in dirents : y.name = path[k] /\ y.dir = a[k - 1] /\ y.ino = a[k]
  BY DEF Way, Walk
<1>2. PICK s \in Slots("d") : path[k] = <<"d", Dirs[s].id>>
  BY DEF Way
<1>3. y.ino[1] = "d" /\ y.ino[2] < nameseq
  BY <1>1, <1>2 DEF Tree, Inodes
<1>4. \A z \in dirents : z.ino = y.ino => z = y
  BY <1>3 DEF Tree, Inodes
<1> QED BY <1>1, <1>3, <1>4

\* The dirents in which the tree D differs are not those of the directories on
\* the way.
Untouched(D, path, n) ==
  \A x \in (dirents \ D) \cup (D \ dirents) : \A k \in 1 .. n : x.ino # Spots(path)[k]

\* A way is back as it was if no dirent of its directories has changed.
LEMMA WayHome ==
  ASSUME Tree, cwd = Top, NEW path, path # <<>>, Way(path, Len(path) - 1), NEW D,
         Untouched(D, path, Len(path) - 1)
  PROVE  ChdirBack(D, path) \subseteq {Top}
<1> DEFINE a == Spots(path)
           n == Len(path) - 1
<1>0. Way(path, n)
  OBVIOUS
<1> HIDE DEF n
<1>1. ASSUME NEW k \in 1 .. n
      PROVE  (\E x \in D : x.ino = a[k]) /\ (\A x \in D : x.ino = a[k] => x.dir = a[k - 1])
  <2>1. PICK y \in dirents : /\ y.name = path[k] /\ y.dir = a[k - 1] /\ y.ino = a[k]
                             /\ \A z \in dirents : z.ino = y.ino => z = y
    BY <1>0, WayDirent
  <2>2. y \in D
    BY <2>1 DEF Untouched, n
  <2>3. \A x \in D : x.ino = a[k] => x = y
    BY <2>1 DEF Untouched, n
  <2> QED BY <2>1, <2>2, <2>3
<1> HIDE DEF a
<1>2. WayBack(D, n, a)
  BY <1>1 DEF WayBack
<1>3. Walk(dirents, path, n, a) /\ path \in Seq(Names) /\ NamesOnce(dirents)
  BY <1>0 DEF Way, a, Tree, Named
<1> QED BY <1>2, <1>3, ChdirHome DEF n

\* A way is no longer than there are dirents.
LEMMA WayShort ==
  ASSUME Tree, NEW path, NEW n, Way(path, n)
  PROVE  n \in Nat /\ n <= Cardinality(dirents) /\ Cardinality(dirents) \in Nat
<1>0. n \in Nat
  BY DEF Way
<1> DEFINE h == [k \in 1 .. n |-> CHOOSE x \in dirents : x.name = path[k]]
<1>1. ASSUME NEW k \in 1 .. n PROVE h[k] \in dirents /\ h[k].name = path[k]
  <2>1. \E x \in dirents : x.name = path[k]
    BY WayDirent
  <2> QED BY <2>1
<1>2. h \in [1 .. n -> dirents]
  BY <1>1
<1> HIDE DEF h
<1>3. ASSUME NEW i \in 1 .. n, NEW j \in 1 .. n, h[i] = h[j] PROVE i = j
  <2>1. path[i] = path[j]
    BY <1>1, <1>3
  <2>2. ~(i < j) /\ ~(j < i)
    BY <2>1 DEF Way
  <2> QED BY <1>0, <2>2
<1>4. h \in Injection(1 .. n, dirents)
  BY <1>2, <1>3 DEF Injection, IsInjective
<1>5. IsFiniteSet(dirents)
  BY DEF Tree, Named
<1>6. Cardinality(1 .. n) = n
  BY <1>0, FS_Interval
<1>7. Cardinality(1 .. n) <= Cardinality(dirents)
  BY <1>4, <1>5, FS_Injection DEF ExistsInjection
<1>8. Cardinality(dirents) \in Nat
  BY <1>5, FS_CardinalityType
<1> QED BY <1>0, <1>6, <1>7, <1>8

\* What is not above the end of a way is not on it.
LEMMA BelowClear ==
  ASSUME Tree, NEW path, NEW n, Way(path, n), NEW i, ~Below(Spots(path)[n], i), NEW k \in 0 .. n
  PROVE  Spots(path)[k] # i
<1> DEFINE a == Spots(path)
<1>1. n \in Nat /\ n <= Cardinality(dirents) /\ Cardinality(dirents) \in Nat
  BY WayShort
<1>2. WayBack(dirents, n, a)
  <2>1. ASSUME NEW j \in 1 .. n
        PROVE  (\E x \in dirents : x.ino = a[j]) /\ (\A x \in dirents : x.ino = a[j] => x.dir = a[j - 1])
    <3>1. PICK y \in dirents : /\ y.name = path[j] /\ y.dir = a[j - 1] /\ y.ino = a[j]
                               /\ \A z \in dirents : z.ino = y.ino => z = y
      BY WayDirent
    <3> QED BY <3>1
  <2> QED BY <2>1 DEF WayBack
<1> HIDE DEF a
<1>3. n \in 0 .. n /\ n - k \in 0 .. n /\ n - (n - k) = k /\ n - k \in 0 .. Cardinality(dirents)
  BY <1>1
<1>4. Climb(dirents, a[n], n - k) = a[k]
  BY <1>1, <1>2, WalkClimbs
<1>5. Climb(dirents, a[n], n - k) # i
  BY <1>3 DEF Below, a
<1> QED BY <1>3, <1>4, <1>5 DEF a

\* The file of an entry, where its path leads.
LEMMA EntryFile ==
  ASSUME Tree, NEW c \in Caches, NEW t \in FTypes, NEW s \in Slots(t)
  PROVE  LET e == flist[t][s]
             f == fent_to_name(c, t, e)
             n == Len(f.path) - 1
         IN \E x \in dirents :
              /\ x.name = <<t, e.id>> /\ At(dirents, x.dir, e.parent)
              /\ Resolve(Top, f.path) = x.ino /\ Resolve(Top, Front(f.path)) = x.dir
              /\ Way(f.path, n) /\ x.dir = Spots(f.path)[n] /\ f.path # <<>>
              /\ \A k \in 1 .. n : Spots(f.path)[k] # x.ino
              /\ \A k \in 1 .. n : f.path[k] # x.name
<1> DEFINE e == flist[t][s]
           f == fent_to_name(c, t, e)
           n == Len(f.path) - 1
           a == Spots(f.path)
<1>1. /\ Len(f.path) \in Nat \ {0} /\ f.path[Len(f.path)] = <<t, e.id>>
      /\ Way(f.path, n) /\ (t = "d" => Way(f.path, n + 1))
      /\ a[n] = DirIno(e.parent)
  <2>1. /\ Len(f.path) \in Nat \ {0} /\ f.path[Len(f.path)] = <<t, e.id>>
        /\ Way(f.path, Len(f.path) - 1) /\ (t = "d" => Way(f.path, Len(f.path)))
        /\ Spots(f.path)[Len(f.path) - 1] = DirIno(e.parent)
    BY EntryPath
  <2> HIDE DEF f, e
  <2>2. n + 1 = Len(f.path)
    BY <2>1
  <2> QED BY <2>1, <2>2
<1>2. PICK x \in dirents : /\ x.name = <<t, e.id>> /\ x.ino = Ino(x.name)
                           /\ At(dirents, x.dir, e.parent)
  BY EntryDirent
<1>3. x.dir = a[n]
  BY <1>1, <1>2, AtIs
<1>4. a[n + 1] = x.ino
  BY <1>1, <1>2 DEF Spots
<1>5. n \in Nat /\ n + 1 = Len(f.path) /\ f.path \in Seq(Names) /\ f.path # <<>>
  BY <1>1 DEF Way
<1> HIDE DEF f, n, e, a
<1>6. Walk(dirents, f.path, n + 1, a)
  <2>1. Walk(dirents, f.path, n, a)
    BY <1>1 DEF Way, a
  <2>2. ASSUME NEW i \in 1 .. n + 1
        PROVE  \E y \in dirents : y.name = f.path[i] /\ y.dir = a[i - 1] /\ y.ino = a[i]
    <3>1. CASE i = n + 1
      BY <1>1, <1>2, <1>3, <1>4, <1>5, <3>1, SMTT(30)
    <3>2. CASE i # n + 1
      <4>1. i \in 1 .. n
        BY <1>5, <3>2
      <4> QED BY <2>1, <4>1 DEF Walk
    <3> QED BY <3>1, <3>2
  <2> QED BY <2>1, <2>2 DEF Walk
<1>7. Resolve(Top, SubSeq(f.path, 1, n + 1)) = x.ino /\ Resolve(Top, SubSeq(f.path, 1, n)) = x.dir
  <2>1. n + 1 \in 0 .. Len(f.path) /\ n + 1 \in 0 .. n + 1 /\ n \in 0 .. n + 1
    BY <1>5
  <2>2. NamesOnce(dirents)
    BY DEF Tree, Named
  <2>3. Resolve(Top, SubSeq(f.path, 1, n + 1)) = a[n + 1]
    BY <1>5, <1>6, <2>1, <2>2, WalkResolves
  <2>4. Resolve(Top, SubSeq(f.path, 1, n)) = a[n]
    BY <1>5, <1>6, <2>1, <2>2, WalkResolves
  <2> QED BY <1>3, <1>4, <2>3, <2>4
<1>8. SubSeq(f.path, 1, n + 1) = f.path /\ Front(f.path) = SubSeq(f.path, 1, n)
  <2>1. SubSeq(f.path, 1, n + 1) = f.path
    BY <1>5
  <2> QED BY <2>1 DEF Front, n
<1>9. ASSUME NEW k \in 1 .. n PROVE f.path[k] # x.name
  <2>1. PICK w \in Slots("d") : f.path[k] = <<"d", Dirs[w].id>>
    BY <1>1 DEF Way
  <2>2. CASE t # "d"
    BY <1>2, <2>1, <2>2
  <2>3. CASE t = "d"
    <3>1. k \in 1 .. n + 1 /\ n + 1 \in 1 .. n + 1 /\ k < n + 1
      BY <1>5
    <3>2. f.path[k] # f.path[n + 1]
      BY <1>1, <2>3, <3>1 DEF Way
    <3> QED BY <1>1, <1>2, <1>5, <3>2
  <2> QED BY <2>2, <2>3
<1>10. ASSUME NEW k \in 1 .. n PROVE a[k] # x.ino
  <2>1. PICK y \in dirents : /\ y.name = f.path[k] /\ y.ino = a[k]
                             /\ \A z \in dirents : z.ino = y.ino => z = y
    BY <1>1, WayDirent DEF a
  <2> QED BY <1>9, <2>1
<1>11. /\ x.name = <<t, e.id>> /\ At(dirents, x.dir, e.parent)
       /\ Resolve(Top, f.path) = x.ino /\ Resolve(Top, Front(f.path)) = x.dir
       /\ Way(f.path, n) /\ x.dir = a[n] /\ f.path # <<>>
       /\ \A k \in 1 .. n : a[k] # x.ino
       /\ \A k \in 1 .. n : f.path[k] # x.name
  BY <1>1, <1>2, <1>3, <1>5, <1>7, <1>8, <1>9, <1>10
<1> QED BY <1>11 DEF e, f, n, a

\* The directory of a new name.
LEMMA NewPath ==
  ASSUME Tree, NEW c \in Caches, NEW s \in NewParents
  PROVE  LET g == generate_fname(c, s)
             n == Len(g.path)
         IN /\ g.cache \in Caches /\ (Current(c) => Current(g.cache))
            /\ Way(g.path, n) /\ Resolve(Top, g.path) = Spots(g.path)[n]
            /\ At(dirents, Resolve(Top, g.path), ParentId(s))
            /\ ParentId(s) = IF n = 0 THEN -1 ELSE g.path[n][2]
            /\ ParentId(s) \in Ids(View(flist)) \cup {-1}
            /\ Resolve(Top, g.path) \in FTypes \X Int
<1> DEFINE g == generate_fname(c, s)
<1>1. CASE s = 0
  <2>1. g.path = <<>> /\ g.cache = c /\ ParentId(s) = -1
    BY <1>1 DEF generate_fname, ParentId
  <2>2. Len(<<>>) = 0 /\ <<>> \in Seq(Names)
    OBVIOUS
  <2>3. Spots(<<>>)[0] = Top
    BY <2>2 DEF Spots
  <2>4. Way(<<>>, 0)
    BY <2>2, <2>3 DEF Way, Walk
  <2>5. Resolve(Top, <<>>) = Top
    BY <2>2, <2>3, ResolveSteps
  <2>6. Top \in FTypes \X Int
    BY DEF Top, FTypes
  <2> QED BY <2>1, <2>2, <2>3, <2>4, <2>5, <2>6 DEF At
<1>2. CASE s # 0
  <2>1. s \in Slots("d")
    BY <1>2 DEF NewParents
  <2>2. g = fent_to_name(c, "d", flist["d"][s]) /\ ParentId(s) = Dirs[s].id
    BY <1>2 DEF generate_fname, ParentId, Dirs
  <2> HIDE DEF g
  <2> DEFINE n == Len(g.path)
  <2>3. "d" \in FTypes
    BY DEF FTypes
  <2>4. /\ g.cache \in Caches /\ (Current(c) => Current(g.cache))
        /\ n \in Nat \ {0} /\ g.path[n] = <<"d", Dirs[s].id>>
        /\ Way(g.path, n)
    BY <2>1, <2>2, <2>3, EntryPath DEF Dirs
  <2>5. PICK x \in dirents : x.name = <<"d", Dirs[s].id>> /\ Resolve(Top, g.path) = x.ino
    BY <2>1, <2>2, <2>3, EntryFile DEF Dirs
  <2>6. Spots(g.path)[n] = x.ino
    BY <2>4, <2>5, InoOf DEF Spots
  <2>7. Dirs[s].id \in Nat
    BY <2>1, DirSlots DEF Tree
  <2>8. At(dirents, x.ino, Dirs[s].id)
    BY <2>5, <2>7 DEF At
  <2>9. Dirs[s].id \in Ids(View(flist))
    BY <2>1, DirIdsView DEF Tree, DirIds
  <2>10. x.ino \in FTypes \X Int
    BY DEF Tree, Named, DirentRec
  <2> HIDE DEF n
  <2>11. ParentId(s) = IF n = 0 THEN -1 ELSE g.path[n][2]
    BY <2>2, <2>4
  <2> QED BY <2>2, <2>4, <2>5, <2>6, <2>8, <2>9, <2>10, <2>11 DEF n, g
<1> QED BY <1>1, <1>2

\* A name below the end of a way.
LEMMA ChildWay ==
  ASSUME Tree, NEW path, Way(path, Len(path)), NEW t \in FTypes, NEW i \in Int
  PROVE  LET child == Child(path, t, i) IN
         /\ child # <<>> /\ Len(child) - 1 = Len(path) /\ Way(child, Len(child) - 1)
         /\ \A k \in 0 .. Len(path) : Spots(child)[k] = Spots(path)[k]
<1> DEFINE child == Child(path, t, i)
           nm == <<t, i>>
           n == Len(path)
<1>1. path \in Seq(Names) /\ nm \in Names /\ n \in Nat
  BY DEF Way, Names
<1>2. child = Append(path, nm)
  BY DEF Child
<1> HIDE DEF nm, child
<1>3. /\ child \in Seq(Names) /\ Len(child) = n + 1
      /\ \A k \in 1 .. n : child[k] = path[k]
  BY <1>1, <1>2
<1>4. child # <<>> /\ Len(child) - 1 = n
  BY <1>1, <1>3
<1>5. ASSUME NEW k \in 0 .. n PROVE Spots(child)[k] = Spots(path)[k]
  <2>1. k \in 0 .. Len(child) /\ (k # 0 => k \in 1 .. n)
    BY <1>1, <1>3
  <2> QED BY <1>3, <2>1 DEF Spots
<1>6. Walk(dirents, child, n, Spots(child))
  <2>1. Walk(dirents, path, n, Spots(path))
    BY DEF Way
  <2>2. 0 \in 0 .. n /\ \A k \in 1 .. n : k \in 0 .. n /\ k - 1 \in 0 .. n
    BY <1>1
  <2> HIDE DEF n
  <2>3. Spots(child)[0] = Top
    BY <1>5, <2>1, <2>2 DEF Walk
  <2>4. ASSUME NEW k \in 1 .. n
        PROVE  \E x \in dirents : /\ x.name = child[k] /\ x.dir = Spots(child)[k - 1]
                                  /\ x.ino = Spots(child)[k]
    <3>1. PICK x \in dirents : /\ x.name = path[k] /\ x.dir = Spots(path)[k - 1]
                               /\ x.ino = Spots(path)[k]
      BY <2>1 DEF Walk
    <3> QED BY <1>3, <1>5, <2>2, <3>1
  <2> QED BY <2>3, <2>4 DEF Walk
<1>7. ASSUME NEW k \in 1 .. n
      PROVE  \E s \in Slots("d") : /\ child[k] = <<"d", Dirs[s].id>>
                                   /\ Dirs[s].parent = IF k = 1 THEN -1 ELSE child[k - 1][2]
  <2>1. PICK s \in Slots("d") : /\ path[k] = <<"d", Dirs[s].id>>
                                /\ Dirs[s].parent = IF k = 1 THEN -1 ELSE path[k - 1][2]
    BY DEF Way
  <2>2. k # 1 => k - 1 \in 1 .. n
    BY <1>1
  <2> QED BY <1>3, <2>1, <2>2
<1>8. \A k, j \in 1 .. n : k < j => child[k] # child[j]
  BY <1>3 DEF Way
<1>9. n \in 0 .. Len(child)
  BY <1>1, <1>3
<1>10. Way(child, n)
  BY <1>3, <1>6, <1>7, <1>8, <1>9 DEF Way
<1> HIDE DEF n
<1>11. Way(child, Len(child) - 1)
  BY <1>4, <1>10
<1> QED BY <1>4, <1>5, <1>11 DEF child, n

\* A set of directories with all that are above them.
Closed(V, A) ==
  A \in SUBSET Ids(V) /\ \A v \in DirsOf(V) : v.id \in A => v.parent \in A \cup {-1}

\* The directories on a way.
OnWay(path, n) == {path[k][2] : k \in 1 .. n}

\* The directories on a way are closed under parents, and no other link to an
\* inode that is off the way has one of their names.
LEMMA WayClosed ==
  ASSUME Tree, NEW path, NEW n, Way(path, n)
  PROVE  /\ Closed(View(flist), OnWay(path, n))
         /\ (IF n = 0 THEN -1 ELSE path[n][2]) \in OnWay(path, n) \cup {-1}
         /\ \A x \in dirents : (\A k \in 1 .. n : Spots(path)[k] # x.ino) /\ x.name[1] = "d" =>
                                  x.name[2] \notin OnWay(path, n)
<1> DEFINE A == OnWay(path, n)
<1>0. n \in Nat
  BY DEF Way
<1>1. ASSUME NEW k \in 1 .. n
      PROVE  \E s \in Slots("d") : /\ path[k] = <<"d", Dirs[s].id>>
                                   /\ Dirs[s].parent \in A \cup {-1}
  <2>1. PICK s \in Slots("d") : /\ path[k] = <<"d", Dirs[s].id>>
                                /\ Dirs[s].parent = IF k = 1 THEN -1 ELSE path[k - 1][2]
    BY DEF Way
  <2>2. k # 1 => k - 1 \in 1 .. n
    BY <1>0
  <2> QED BY <2>1, <2>2 DEF OnWay
<1>2. A \in SUBSET Ids(View(flist))
  <2>1. ASSUME NEW k \in 1 .. n PROVE path[k][2] \in Ids(View(flist))
    <3>1. PICK s \in Slots("d") : path[k] = <<"d", Dirs[s].id>>
      BY <1>1
    <3> QED BY <3>1, DirIdsView DEF Tree, DirIds
  <2> QED BY <2>1 DEF OnWay
<1>3. ASSUME NEW v \in DirsOf(View(flist)), v.id \in A PROVE v.parent \in A \cup {-1}
  <2>1. PICK k \in 1 .. n : v.id = path[k][2]
    BY <1>3 DEF OnWay
  <2>2. PICK s \in Slots("d") : path[k] = <<"d", Dirs[s].id>> /\ Dirs[s].parent \in A \cup {-1}
    BY <1>1
  <2>3. PICK w \in Slots("d") : v = Rec("d", Dirs[w])
    BY DirIdsView DEF Tree
  <2>4. Dirs[w].id = Dirs[s].id /\ v.parent = Dirs[w].parent
    BY <2>1, <2>2, <2>3, DirIdsView DEF Tree
  <2>5. w = s
    BY <2>4, Found DEF Tree
  <2> QED BY <2>2, <2>4, <2>5
<1>4. (IF n = 0 THEN -1 ELSE path[n][2]) \in A \cup {-1}
  <2>1. n # 0 => n \in 1 .. n
    BY <1>0
  <2> QED BY <2>1 DEF OnWay
<1>5. ASSUME NEW x \in dirents, \A k \in 1 .. n : Spots(path)[k] # x.ino, x.name[1] = "d",
             x.name[2] \in A
      PROVE  FALSE
  <2>1. PICK k \in 1 .. n : x.name[2] = path[k][2]
    BY <1>5 DEF OnWay
  <2>2. PICK s \in Slots("d") : path[k] = <<"d", Dirs[s].id>>
    BY <1>1
  <2>3. x.name = path[k]
    <3>1. x.name \in FTypes \X Nat
      BY DEF Tree, Named, DirentRec
    <3>2. x.name = <<x.name[1], x.name[2]>>
      BY <3>1
    <3> QED BY <1>5, <2>1, <2>2, <3>2
  <2>4. PICK y \in dirents : y.name = path[k] /\ y.ino = Spots(path)[k]
    BY WayDirent
  <2>5. y = x
    BY <2>3, <2>4 DEF Tree, Named, NamesOnce
  <2> QED BY <1>5, <2>4, <2>5
<1> QED BY <1>2, <1>3, <1>4, <1>5 DEF Closed

\* The walk of fents_ancestor_check() keeps the cache current.
LEMMA AncestorCache ==
  ASSUME Tree, NEW c \in Caches, NEW t \in FTypes, NEW s \in Slots(t), NEW d
  PROVE  LET k == AncestorCheck(c, flist[t][s], d).cache IN
         k \in Caches /\ (Current(c) => Current(k))
<1> DEFINE up == Parents(c, flist[t][s].parent)
           hits == {i \in DOMAIN up.ids : up.ids[i] = d}
           N == Len(up.ids)
           On(n, w) == IF \E i \in hits : i <= n THEN w ELSE Lookup(w, up.ids[n])
           E(f) == [n \in 0 .. N |-> IF n = 0 THEN c ELSE On(n, f[n - 1])]
           walk == CHOOSE f : f = E(f)
           Z == {w \in Caches : Current(c) => Current(w)}
           F == [n \in 1 .. N |-> [w \in Z |-> On(n, w)]]
<1>1. AncestorCheck(c, flist[t][s], d).cache = walk[N]
  BY DEF AncestorCheck
<1>2. up.ids \in Seq(Int) /\ N \in Nat
  <2>1. flist[t][s].parent \in DirIds \cup {-1}
    BY TreeLists DEF Lists, Rooted
  <2> QED BY <2>1, TreeLists, ParentsChain
<1> HIDE DEF up, hits
<1>3. ASSUME NEW n \in 1 .. N, NEW w \in Z PROVE On(n, w) \in Z
  <2>1. up.ids[n] \in Int
    BY <1>2
  <2>2. Lookup(w, up.ids[n]) \in Caches /\ (Current(w) => Current(Lookup(w, up.ids[n])))
    BY <2>1, LookupKeeps DEF Tree
  <2> QED BY <2>2
<1> HIDE DEF On, N
<1>4. c \in Z
  OBVIOUS
<1>5. F \in [1 .. N -> [Z -> Z]]
  BY <1>3
<1> HIDE DEF F, Z
<1>6. PICK b \in [0 .. N -> Z] : Steps(N, c, F, b)
  <2>1. N \in Nat
    BY <1>2
  <2> QED BY <1>4, <1>5, <2>1, StepsExist
<1>7. ASSUME NEW i \in 0 .. N PROVE b[i] = IF i = 0 THEN c ELSE On(i, b[i - 1])
  <2>1. b[i] = IF i = 0 THEN c ELSE F[i][b[i - 1]]
    BY <1>6 DEF Steps
  <2>2. CASE i = 0
    BY <2>1, <2>2
  <2>3. CASE i # 0
    <3>1. i \in 1 .. N /\ i - 1 \in 0 .. N
      BY <1>2, <2>3
    <3>2. b[i - 1] \in Z
      BY <1>6, <3>1
    <3>3. F[i][b[i - 1]] = On(i, b[i - 1])
      BY <3>1, <3>2 DEF F
    <3> QED BY <2>1, <2>3, <3>3
  <2> QED BY <2>2, <2>3
<1>8. b = E(b)
  BY <1>6, <1>7
<1>9. walk = E(walk)
  <2> HIDE DEF E
  <2> QED BY <1>8
<1> HIDE DEF walk
<1>10. \A i \in 0 .. N : walk[i] = IF i = 0 THEN c ELSE On(i, walk[i - 1])
  <2> DEFINE f == E(walk)
  <2>1. \A i \in 0 .. N : f[i] = IF i = 0 THEN c ELSE On(i, walk[i - 1])
    OBVIOUS
  <2> HIDE DEF f
  <2>2. walk = f
    BY <1>9 DEF f
  <2> QED BY <2>1, <2>2
<1> DEFINE T == {i \in 0 .. N : walk[i] \in Z}
<1>11. 0 \in T
  BY <1>2, <1>4, <1>10
<1>12. ASSUME NEW n \in 0 .. N - 1, n \in T PROVE n + 1 \in T
  <2>1. n + 1 \in 1 .. N /\ n + 1 \in 0 .. N /\ (n + 1) - 1 = n /\ walk[n] \in Z
    BY <1>2, <1>12
  <2>2. walk[n + 1] = On(n + 1, walk[n])
    BY <1>10, <2>1
  <2> QED BY <1>3, <2>1, <2>2
<1> HIDE DEF T
<1>13. N \in Nat
  BY <1>2
<1>14. \A n \in 0 .. N : n \in T
  BY <1>11, <1>12, <1>13, BoundedInduction
<1>15. walk[N] \in Z
  BY <1>13, <1>14 DEF T
<1> QED BY <1>1, <1>15 DEF Z

-----------------------------------------------------------------------------
(* What the operations on the lists do to the set of entries.              *)

FLists == [FTypes -> Seq(EntryRec)]

\* Slotted, for any lists.
Apart(fl) ==
  \A t, r \in FTypes : \A s \in 1 .. Len(fl[t]), u \in 1 .. Len(fl[r]) :
    fl[t][s].id = fl[r][u].id => t = r /\ s = u

\* Two slots with one id are one slot.
LEMMA ApartAt ==
  ASSUME NEW fl, Apart(fl), NEW t \in FTypes, NEW r \in FTypes, NEW s \in 1 .. Len(fl[t]),
         NEW u \in 1 .. Len(fl[r]), fl[t][s].id = fl[r][u].id
  PROVE  t = r /\ s = u
BY DEF Apart

\* What there is to know of a slot.
LEMMA ListSlot ==
  ASSUME NEW fl \in FLists, NEW t \in FTypes
  PROVE  /\ fl[t] \in Seq(EntryRec) /\ Len(fl[t]) \in Nat
         /\ \A s \in 1 .. Len(fl[t]) :
              /\ fl[t][s] \in EntryRec /\ Rec(t, fl[t][s]) \in View(fl)
              /\ fl[t][s].id \in Nat /\ fl[t][s].parent \in Nat \cup {-1}
              /\ fl[t][s].xattr_counter \in Nat
<1>1. fl[t] \in Seq(EntryRec) /\ Len(fl[t]) \in Nat
  BY DEF FLists
<1>2. ASSUME NEW s \in 1 .. Len(fl[t])
      PROVE  fl[t][s] \in EntryRec /\ Rec(t, fl[t][s]) \in Recs
  <2>1. fl[t][s] \in EntryRec
    BY <1>1
  <2> QED BY <2>1 DEF Rec, Recs, EntryRec
<1> QED BY <1>1, <1>2 DEF View, EntryRec

\* A record of the view has a slot.
LEMMA ViewSlot ==
  ASSUME NEW fl, NEW v \in View(fl)
  PROVE  /\ v \in Recs
         /\ \E t \in FTypes : \E s \in 1 .. Len(fl[t]) : v = Rec(t, fl[t][s])
BY DEF View

\* Lists in which the slots have the same ids as before.
SameIds(fl, fm) ==
  \A t \in FTypes : /\ Len(fm[t]) = Len(fl[t])
                    /\ \A s \in 1 .. Len(fl[t]) : fm[t][s].id = fl[t][s].id

\* Lists with the ids of lists that keep them apart keep them apart.
LEMMA SameIdsApart ==
  ASSUME NEW fl, NEW fm, SameIds(fl, fm), Apart(fl)
  PROVE  Apart(fm)
<1> SUFFICES ASSUME NEW t \in FTypes, NEW r \in FTypes, NEW s \in 1 .. Len(fm[t]),
                    NEW u \in 1 .. Len(fm[r]), fm[t][s].id = fm[r][u].id
             PROVE  t = r /\ s = u
  BY DEF Apart
<1>1. Len(fm[t]) = Len(fl[t]) /\ Len(fm[r]) = Len(fl[r])
  BY DEF SameIds
<1>2. fm[t][s].id = fl[t][s].id /\ fm[r][u].id = fl[r][u].id
  BY <1>1 DEF SameIds
<1>3. fl[t][s].id = fl[r][u].id /\ s \in 1 .. Len(fl[t]) /\ u \in 1 .. Len(fl[r])
  BY <1>1, <1>2
<1> QED BY <1>3, ApartAt

\* add_to_flist() adds one entry.
LEMMA AddView ==
  ASSUME NEW fl \in FLists, NEW t \in FTypes, NEW e \in EntryRec
  PROVE  LET fm == add_to_flist(fl, t, e) IN
         /\ fm \in FLists
         /\ View(fm) = View(fl) \cup {Rec(t, e)}
         /\ Apart(fl) /\ (\A v \in View(fl) : v.id # e.id) => Apart(fm)
         /\ Len(fm[t]) = Len(fl[t]) + 1
         /\ \A r \in FTypes : /\ r # t => fm[r] = fl[r]
                              /\ \A s \in 1 .. Len(fl[r]) : fm[r][s] = fl[r][s]
<1> DEFINE fm == add_to_flist(fl, t, e)
           n == Len(fl[t])
<1>1. fl[t] \in Seq(EntryRec) /\ n \in Nat
  BY ListSlot
<1>2. fm[t] = Append(fl[t], e) /\ \A r \in FTypes : r # t => fm[r] = fl[r]
  BY DEF add_to_flist, FLists
<1>3. fm \in FLists
  <2>1. Append(fl[t], e) \in Seq(EntryRec)
    BY <1>1
  <2>2. fm = [fl EXCEPT ![t] = Append(fl[t], e)]
    BY DEF add_to_flist
  <2> QED BY <2>1, <2>2 DEF FLists
<1> HIDE DEF fm
<1>4. Len(fm[t]) = n + 1 /\ fm[t][n + 1] = e /\ \A s \in 1 .. n : fm[t][s] = fl[t][s]
  BY <1>1, <1>2
<1>5. \A r \in FTypes : \A s \in 1 .. Len(fl[r]) : fm[r][s] = fl[r][s]
  BY <1>2, <1>4
<1>6. \A r \in FTypes : \A s \in 1 .. Len(fm[r]) : (r = t /\ s = n + 1) \/ s \in 1 .. Len(fl[r])
  BY <1>1, <1>2, <1>4
<1>7. \A r \in FTypes : \A s \in 1 .. Len(fl[r]) : s \in 1 .. Len(fm[r])
  BY <1>1, <1>2, <1>4
<1>8. n + 1 \in 1 .. Len(fm[t])
  BY <1>1, <1>4
<1> HIDE DEF n
<1>9. ASSUME NEW v \in View(fm) PROVE v \in View(fl) \cup {Rec(t, e)}
  <2>1. PICK r \in FTypes : \E s \in 1 .. Len(fm[r]) : v = Rec(r, fm[r][s])
    BY ViewSlot
  <2>2. PICK s \in 1 .. Len(fm[r]) : v = Rec(r, fm[r][s])
    BY <2>1
  <2>3. CASE r = t /\ s = n + 1
    BY <1>4, <2>2, <2>3
  <2>4. CASE s \in 1 .. Len(fl[r])
    BY <1>5, <2>2, <2>4, ListSlot
  <2> QED BY <1>6, <2>3, <2>4
<1>10. ASSUME NEW v \in View(fl) PROVE v \in View(fm)
  <2>1. PICK r \in FTypes : \E s \in 1 .. Len(fl[r]) : v = Rec(r, fl[r][s])
    BY ViewSlot
  <2>2. PICK s \in 1 .. Len(fl[r]) : v = Rec(r, fl[r][s])
    BY <2>1
  <2> QED BY <1>3, <1>5, <1>7, <2>2, ListSlot
<1>11. Rec(t, e) \in View(fm)
  BY <1>3, <1>4, <1>8, ListSlot
<1>12. ASSUME Apart(fl), \A v \in View(fl) : v.id # e.id PROVE Apart(fm)
  <2>1. ASSUME NEW r \in FTypes, NEW s \in 1 .. Len(fl[r]) PROVE fl[r][s].id # e.id
    <3>1. Rec(r, fl[r][s]) \in View(fl)
      BY ListSlot
    <3> QED BY <1>12, <3>1 DEF Rec
  <2> SUFFICES ASSUME NEW q \in FTypes, NEW r \in FTypes, NEW s \in 1 .. Len(fm[q]),
                      NEW u \in 1 .. Len(fm[r]), fm[q][s].id = fm[r][u].id
               PROVE  q = r /\ s = u
    BY DEF Apart
  <2>2. CASE s \in 1 .. Len(fl[q]) /\ u \in 1 .. Len(fl[r])
    <3>1. fl[q][s].id = fl[r][u].id
      BY <1>5, <2>2
    <3> QED BY <1>12, <2>2, <3>1, ApartAt
  <2>3. CASE q = t /\ s = n + 1 /\ u \in 1 .. Len(fl[r])
    BY <1>4, <1>5, <2>1, <2>3
  <2>4. CASE r = t /\ u = n + 1 /\ s \in 1 .. Len(fl[q])
    BY <1>4, <1>5, <2>1, <2>4
  <2>5. CASE q = t /\ s = n + 1 /\ r = t /\ u = n + 1
    BY <2>5
  <2> QED BY <1>6, <2>2, <2>3, <2>4, <2>5
<1>13. View(fm) = View(fl) \cup {Rec(t, e)}
  BY <1>9, <1>10, <1>11
<1> QED BY <1>2, <1>3, <1>4, <1>5, <1>12, <1>13 DEF fm, n

\* del_from_flist() removes one; the last one moves to its slot.
LEMMA DelView ==
  ASSUME NEW fl \in FLists, Apart(fl), NEW t \in FTypes, NEW s \in 1 .. Len(fl[t])
  PROVE  LET fm == del_from_flist(fl, t, s) IN
         /\ fm \in FLists
         /\ View(fm) = View(fl) \ {Rec(t, fl[t][s])}
         /\ Apart(fm)
         /\ Len(fm[t]) = Len(fl[t]) - 1
         /\ \A r \in FTypes : r # t => fm[r] = fl[r]
         /\ \A i \in 1 .. Len(fl[t]) - 1 : i # s => fm[t][i] = fl[t][i]
<1> DEFINE n == Len(fl[t])
           old == fl[t]
           new == [i \in 1 .. n - 1 |-> IF i = s THEN old[n] ELSE old[i]]
           fm == del_from_flist(fl, t, s)
<1>1. old \in Seq(EntryRec) /\ n \in Nat /\ n > 0 /\ s \in 1 .. n /\ n \in 1 .. n
  BY ListSlot
<1>2. \A i \in 1 .. n : old[i] \in EntryRec
  BY <1>1
<1>3. fm = [fl EXCEPT ![t] = new]
  BY DEF del_from_flist
<1>4. new \in [1 .. n - 1 -> EntryRec] /\ n - 1 \in Nat
  BY <1>1, <1>2
<1>5. /\ \A i \in 1 .. n - 1 : i # s => new[i] = old[i]
      /\ s \in 1 .. n - 1 => new[s] = old[n]
  OBVIOUS
<1> HIDE DEF new, fm
<1>6. new \in Seq(EntryRec) /\ Len(new) = n - 1
  <2> DEFINE m == n - 1
  <2>1. m \in Nat /\ new \in [1 .. m -> EntryRec]
    BY <1>4
  <2> HIDE DEF m
  <2>2. new \in Seq(EntryRec) /\ Len(new) = m
    BY <2>1
  <2> QED BY <2>2 DEF m
<1>7. fm \in FLists /\ fm[t] = new /\ \A r \in FTypes : r # t => fm[r] = fl[r]
  BY <1>3, <1>6 DEF FLists
<1> DEFINE to(r, i) == IF r = t /\ i = s THEN n ELSE i
<1>8. ASSUME NEW r \in FTypes, NEW i \in 1 .. Len(fm[r])
      PROVE  /\ to(r, i) \in 1 .. Len(fl[r]) /\ fm[r][i] = fl[r][to(r, i)]
             /\ ~(r = t /\ to(r, i) = s)
  <2>1. CASE r # t
    BY <1>7, <2>1
  <2>2. CASE r = t
    <3>1. i \in 1 .. n - 1 /\ fm[r] = new
      BY <1>6, <1>7, <2>2
    <3>2. CASE i = s
      BY <1>1, <1>5, <2>2, <3>1, <3>2
    <3>3. CASE i # s
      BY <1>1, <1>5, <2>2, <3>1, <3>3
    <3> QED BY <3>2, <3>3
  <2> QED BY <2>1, <2>2
<1>9. ASSUME NEW r \in FTypes, NEW i \in 1 .. Len(fl[r]), ~(r = t /\ i = s)
      PROVE  \E j \in 1 .. Len(fm[r]) : fm[r][j] = fl[r][i]
  <2>1. CASE r # t
    BY <1>7, <2>1
  <2>2. CASE r = t
    <3>1. fm[r] = new /\ Len(fm[r]) = n - 1
      BY <1>6, <1>7, <2>2
    <3>2. CASE i = n
      <4>1. s \in 1 .. n - 1
        BY <1>1, <1>9, <2>2, <3>2
      <4> QED BY <1>5, <2>2, <3>1, <3>2, <4>1
    <3>3. CASE i # n
      <4>1. i \in 1 .. n - 1 /\ i # s
        BY <1>1, <1>9, <2>2, <3>3
      <4> QED BY <1>5, <2>2, <3>1, <4>1
    <3> QED BY <3>2, <3>3
  <2> QED BY <2>1, <2>2
<1>10. Apart(fm)
  <2> SUFFICES ASSUME NEW q \in FTypes, NEW r \in FTypes, NEW i \in 1 .. Len(fm[q]),
                      NEW j \in 1 .. Len(fm[r]), fm[q][i].id = fm[r][j].id
               PROVE  q = r /\ i = j
    BY DEF Apart
  <2>1. q = r /\ to(q, i) = to(r, j)
    <3>1. /\ to(q, i) \in 1 .. Len(fl[q]) /\ fm[q][i] = fl[q][to(q, i)]
          /\ to(r, j) \in 1 .. Len(fl[r]) /\ fm[r][j] = fl[r][to(r, j)]
      BY <1>8
    <3> HIDE DEF to
    <3>2. fl[q][to(q, i)].id = fl[r][to(r, j)].id
      BY <3>1
    <3> QED BY <3>1, <3>2, SMTT(30) DEF Apart
  <2>2. q = t => i \in 1 .. n - 1 /\ j \in 1 .. n - 1
    BY <1>6, <1>7, <2>1
  <2> QED BY <1>1, <2>1, <2>2
<1>11. ASSUME NEW v \in View(fm) PROVE v \in View(fl) \ {Rec(t, fl[t][s])}
  <2>1. PICK r \in FTypes : \E i \in 1 .. Len(fm[r]) : v = Rec(r, fm[r][i])
    BY ViewSlot
  <2>2. PICK i \in 1 .. Len(fm[r]) : v = Rec(r, fm[r][i])
    BY <2>1
  <2> DEFINE k == to(r, i)
  <2>3. k \in 1 .. Len(fl[r]) /\ fm[r][i] = fl[r][k] /\ ~(r = t /\ k = s)
    BY <1>8
  <2> HIDE DEF k
  <2>4. v = Rec(r, fl[r][k]) /\ v \in View(fl)
    BY <2>2, <2>3, ListSlot
  <2>5. fl[r][k].id # fl[t][s].id
    BY <2>3 DEF Apart
  <2> QED BY <2>4, <2>5 DEF Rec
<1>12. ASSUME NEW v \in View(fl) \ {Rec(t, fl[t][s])} PROVE v \in View(fm)
  <2>1. PICK r \in FTypes : \E i \in 1 .. Len(fl[r]) : v = Rec(r, fl[r][i])
    BY ViewSlot
  <2>2. PICK i \in 1 .. Len(fl[r]) : v = Rec(r, fl[r][i])
    BY <2>1
  <2>3. PICK j \in 1 .. Len(fm[r]) : fm[r][j] = fl[r][i]
    BY <1>9, <1>12, <2>2
  <2> QED BY <1>7, <2>2, <2>3, ListSlot
<1>13. View(fm) = View(fl) \ {Rec(t, fl[t][s])}
  BY <1>11, <1>12
<1> QED BY <1>5, <1>6, <1>7, <1>10, <1>13 DEF fm

\* fix_parent() on one record.
Moved(q, old, new, swap) == IF q = old THEN new ELSE IF swap /\ q = new THEN old ELSE q
Fixed(v, old, new, swap) == [v EXCEPT !.parent = Moved(@, old, new, swap)]

\* fix_parent() changes the parents of the records, each on its own.
LEMMA FixView ==
  ASSUME NEW fl \in FLists, NEW old \in Nat, NEW new \in Nat, NEW swap \in BOOLEAN
  PROVE  LET fm == fix_parent(fl, old, new, swap) IN
         /\ fm \in FLists /\ SameIds(fl, fm)
         /\ \A t \in FTypes : \A s \in 1 .. Len(fl[t]) :
              Rec(t, fm[t][s]) = Fixed(Rec(t, fl[t][s]), old, new, swap)
         /\ View(fm) = {Fixed(v, old, new, swap) : v \in View(fl)}
<1> DEFINE fm == fix_parent(fl, old, new, swap)
           fix(e) == [e EXCEPT !.parent = Moved(@, old, new, swap)]
<1>1. ASSUME NEW t \in FTypes
      PROVE  /\ fm[t] \in Seq(EntryRec) /\ Len(fm[t]) = Len(fl[t])
             /\ \A s \in 1 .. Len(fl[t]) : fm[t][s] = fix(fl[t][s])
  <2>1. fl[t] \in Seq(EntryRec) /\ Len(fl[t]) \in Nat /\ DOMAIN fl[t] = 1 .. Len(fl[t])
    BY ListSlot
  <2> DEFINE n == Len(fl[t])
             g == [i \in 1 .. n |-> fix(fl[t][i])]
  <2>2. fm[t] = g
    BY <2>1 DEF fix_parent, Moved
  <2>3. \A i \in 1 .. n : fix(fl[t][i]) \in EntryRec
    <3>1. \A i \in 1 .. n : fl[t][i] \in EntryRec
      BY <2>1
    <3> QED BY <3>1 DEF EntryRec, Moved
  <2>4. g \in [1 .. n -> EntryRec] /\ \A i \in 1 .. n : g[i] = fix(fl[t][i])
    BY <2>3
  <2> HIDE DEF g, n, fix
  <2>5. n \in Nat
    BY <2>1 DEF n
  <2>6. g \in Seq(EntryRec) /\ Len(g) = n
    BY <2>4, <2>5
  <2> QED BY <2>2, <2>4, <2>6 DEF n
<1>2. fm \in FLists
  <2>1. fm = [t \in FTypes |-> fm[t]]
    BY DEF fix_parent
  <2> HIDE DEF fm
  <2> QED BY <1>1, <2>1 DEF FLists
<1> HIDE DEF fm
<1>3. ASSUME NEW t \in FTypes, NEW s \in 1 .. Len(fl[t])
      PROVE  /\ fm[t][s].id = fl[t][s].id /\ s \in 1 .. Len(fm[t])
             /\ Rec(t, fm[t][s]) = Fixed(Rec(t, fl[t][s]), old, new, swap)
  <2>1. fm[t][s] = fix(fl[t][s]) /\ fl[t][s] \in EntryRec /\ s \in 1 .. Len(fm[t])
    BY <1>1, ListSlot
  <2>2. /\ fm[t][s].id = fl[t][s].id /\ fm[t][s].xattr_counter = fl[t][s].xattr_counter
        /\ fm[t][s].parent = Moved(fl[t][s].parent, old, new, swap)
    BY <2>1 DEF EntryRec
  <2> QED BY <2>1, <2>2 DEF Rec, Fixed
<1>4. SameIds(fl, fm)
  BY <1>1, <1>3 DEF SameIds
<1>5. ASSUME NEW w \in View(fm) PROVE w \in {Fixed(v, old, new, swap) : v \in View(fl)}
  <2>1. PICK t \in FTypes : \E s \in 1 .. Len(fm[t]) : w = Rec(t, fm[t][s])
    BY ViewSlot
  <2>2. PICK s \in 1 .. Len(fm[t]) : w = Rec(t, fm[t][s])
    BY <2>1
  <2>3. s \in 1 .. Len(fl[t])
    BY <1>1
  <2>4. Rec(t, fl[t][s]) \in View(fl)
    BY <2>3, ListSlot
  <2> QED BY <1>3, <2>2, <2>3, <2>4
<1>6. ASSUME NEW v \in View(fl) PROVE Fixed(v, old, new, swap) \in View(fm)
  <2>1. PICK t \in FTypes : \E s \in 1 .. Len(fl[t]) : v = Rec(t, fl[t][s])
    BY ViewSlot
  <2>2. PICK s \in 1 .. Len(fl[t]) : v = Rec(t, fl[t][s])
    BY <2>1
  <2>3. s \in 1 .. Len(fm[t]) /\ Rec(t, fm[t][s]) = Fixed(v, old, new, swap)
    BY <1>3, <2>2
  <2> QED BY <1>2, <2>3, ListSlot
<1> QED BY <1>2, <1>3, <1>4, <1>5, <1>6 DEF fm

\* An xattr_counter that is set.
Counted(v, k) == [v EXCEPT !.count = k]
SetCount(fl, t, s, k) == [fl EXCEPT ![t][s].xattr_counter = k]

\* Setting an xattr_counter changes one record, and nothing else in it.
LEMMA CountView ==
  ASSUME NEW fl \in FLists, Apart(fl), NEW t \in FTypes, NEW s \in 1 .. Len(fl[t]), NEW k \in Nat
  PROVE  LET fm == SetCount(fl, t, s, k)
             v == Rec(t, fl[t][s])
         IN /\ fm \in FLists /\ SameIds(fl, fm)
            /\ Rec(t, fm[t][s]) = Counted(v, k)
            /\ \A r \in FTypes : \A u \in 1 .. Len(fl[r]) : ~(r = t /\ u = s) => fm[r][u] = fl[r][u]
            /\ View(fm) = (View(fl) \ {v}) \cup {Counted(v, k)}
<1> DEFINE fm == SetCount(fl, t, s, k)
           v == Rec(t, fl[t][s])
           e == [fl[t][s] EXCEPT !.xattr_counter = k]
           g == [fl[t] EXCEPT ![s] = e]
<1>1. fl[t] \in Seq(EntryRec) /\ Len(fl[t]) \in Nat /\ fl[t][s] \in EntryRec
  BY ListSlot
<1>2. e \in EntryRec /\ e.id = fl[t][s].id /\ Rec(t, e) = Counted(v, k)
  BY <1>1, SMTT(30) DEF EntryRec, Rec, Counted
<1>3. fm = [fl EXCEPT ![t] = g]
  BY DEF FLists, SetCount
<1> HIDE DEF e, fm
<1>4. /\ g \in Seq(EntryRec) /\ Len(g) = Len(fl[t])
      /\ g[s] = e /\ \A u \in 1 .. Len(fl[t]) : u # s => g[u] = fl[t][u]
  BY <1>1, <1>2
<1> HIDE DEF g
<1>5. fm \in FLists /\ fm[t] = g /\ \A r \in FTypes : r # t => fm[r] = fl[r]
  BY <1>3, <1>4 DEF FLists
<1>6. \A r \in FTypes : \A u \in 1 .. Len(fl[r]) : ~(r = t /\ u = s) => fm[r][u] = fl[r][u]
  BY <1>4, <1>5
<1>7. \A r \in FTypes : Len(fm[r]) = Len(fl[r])
  BY <1>4, <1>5
<1>8. fm[t][s] = e
  BY <1>4, <1>5
<1>9. SameIds(fl, fm)
  BY <1>2, <1>6, <1>7, <1>8 DEF SameIds
<1>10. ASSUME NEW w \in View(fm) PROVE w \in (View(fl) \ {v}) \cup {Counted(v, k)}
  <2>1. PICK r \in FTypes : \E u \in 1 .. Len(fm[r]) : w = Rec(r, fm[r][u])
    BY ViewSlot
  <2>2. PICK u \in 1 .. Len(fm[r]) : w = Rec(r, fm[r][u])
    BY <2>1
  <2>3. u \in 1 .. Len(fl[r])
    BY <1>7
  <2>4. CASE r = t /\ u = s
    BY <1>2, <1>8, <2>2, <2>4
  <2>5. CASE ~(r = t /\ u = s)
    <3>1. w = Rec(r, fl[r][u]) /\ w \in View(fl)
      BY <1>6, <2>2, <2>3, <2>5, ListSlot
    <3>2. fl[r][u].id # fl[t][s].id
      BY <2>3, <2>5, ApartAt
    <3>3. w # v
      BY <3>1, <3>2 DEF Rec
    <3> QED BY <3>1, <3>3
  <2> QED BY <2>4, <2>5
<1>11. ASSUME NEW w \in View(fl), w # v PROVE w \in View(fm)
  <2>1. PICK r \in FTypes : \E u \in 1 .. Len(fl[r]) : w = Rec(r, fl[r][u])
    BY ViewSlot
  <2>2. PICK u \in 1 .. Len(fl[r]) : w = Rec(r, fl[r][u])
    BY <2>1
  <2>3. ~(r = t /\ u = s)
    BY <1>11, <2>2
  <2>4. u \in 1 .. Len(fm[r]) /\ fm[r][u] = fl[r][u]
    BY <1>6, <1>7, <2>3
  <2> QED BY <1>5, <2>2, <2>4, ListSlot
<1>12. Counted(v, k) \in View(fm)
  <2>1. s \in 1 .. Len(fm[t])
    BY <1>7
  <2> QED BY <1>2, <1>5, <1>8, <2>1, ListSlot
<1> HIDE DEF v
<1>13. View(fm) = (View(fl) \ {v}) \cup {Counted(v, k)}
  BY <1>10, <1>11, <1>12
<1> QED BY <1>2, <1>5, <1>6, <1>8, <1>9, <1>13 DEF fm, v

\* What CacheCurrent says, for any cache and any lists.
CurrentIn(fl, c) ==
  \A h \in 0 .. NDCACHE - 1 :
    c[h] # 0 => c[h] \in 1 .. Len(fl["d"]) /\ fl["d"][c[h]].id % NDCACHE = h

\* A cache stays current when the slots keep their ids and more are added.
LEMMA CurrentKept ==
  ASSUME NEW fl \in FLists, NEW fm \in FLists, NEW c, CurrentIn(fl, c),
         Len(fl["d"]) <= Len(fm["d"]),
         \A s \in 1 .. Len(fl["d"]) : fm["d"][s].id = fl["d"][s].id
  PROVE  CurrentIn(fm, c)
<1>1. Len(fl["d"]) \in Nat /\ Len(fm["d"]) \in Nat
  BY ListSlot DEF FTypes
<1>2. ASSUME NEW h \in 0 .. NDCACHE - 1, c[h] # 0
      PROVE  c[h] \in 1 .. Len(fm["d"]) /\ fm["d"][c[h]].id % NDCACHE = h
  <2>1. c[h] \in 1 .. Len(fl["d"]) /\ fl["d"][c[h]].id % NDCACHE = h
    BY <1>2 DEF CurrentIn
  <2> QED BY <1>1, <2>1
<1> QED BY <1>2 DEF CurrentIn

\* One purge: the directory's slot is no longer in the cache.
LEMMA PurgeOne ==
  ASSUME Listed, NEW c \in Caches, Current(c), NEW s \in Slots("d")
  PROVE  LET k == dcache_purge(c, Dirs[s].id) IN
         /\ k \in Caches /\ Current(k)
         /\ \A h \in 0 .. NDCACHE - 1 : k[h] # s /\ (k[h] # 0 => k[h] = c[h])
<1> DEFINE d == Dirs[s].id
           k == dcache_purge(c, d)
           j == d % NDCACHE
<1>1. d \in Nat /\ j \in 0 .. NDCACHE - 1 /\ s \in Nat \ {0}
  BY DirSlots, FsstressAssumption
<1>2. CASE Hit(c, d)
  <2>1. k = [c EXCEPT ![j] = 0]
    BY <1>2 DEF dcache_purge
  <2> HIDE DEF k, j
  <2>2. k \in Caches /\ \A h \in 0 .. NDCACHE - 1 : k[h] = IF h = j THEN 0 ELSE c[h]
    BY <1>1, <2>1 DEF Caches
  <2>3. ASSUME NEW h \in 0 .. NDCACHE - 1, k[h] = s PROVE FALSE
    <3>1. h # j /\ c[h] = s
      BY <1>1, <2>2, <2>3
    <3>2. d % NDCACHE = h
      BY <1>1, <3>1 DEF Current
    <3> QED BY <3>1, <3>2 DEF j
  <2>4. Current(k)
    BY <2>2 DEF Current
  <2> QED BY <2>2, <2>3, <2>4 DEF k
<1>3. CASE ~Hit(c, d)
  <2>1. k = c
    BY <1>3 DEF dcache_purge
  <2>2. ASSUME NEW h \in 0 .. NDCACHE - 1, c[h] = s PROVE FALSE
    <3>1. j = h
      BY <1>1, <2>2 DEF Current
    <3> QED BY <1>3, <2>2, <3>1 DEF Hit
  <2> HIDE DEF k
  <2> QED BY <2>1, <2>2 DEF k
<1> QED BY <1>2, <1>3

\* del_from_flist() leaves no slot in the cache that changes.
LEMMA PurgeBoth ==
  ASSUME Listed, NEW c \in Caches, NEW s \in Slots("d")
  PROVE  LET k == PurgeDeleted(c, s) IN
         /\ k \in Caches
         /\ Current(c) =>
              \A h \in 0 .. NDCACHE - 1 :
                k[h] # 0 => /\ k[h] \in 1 .. Len(Dirs) - 1 /\ k[h] # s
                            /\ Dirs[k[h]].id % NDCACHE = h
<1> DEFINE n == Len(Dirs)
           k1 == dcache_purge(c, Dirs[s].id)
           k2 == PurgeDeleted(c, s)
<1>1. n \in Nat /\ Slots("d") = 1 .. n /\ n \in Slots("d")
  BY DirSlots
<1>2. k2 = dcache_purge(k1, Dirs[n].id)
  BY DEF PurgeDeleted
<1>3. k1 \in Caches /\ k2 \in Caches
  <2>1. ASSUME NEW w \in Caches, NEW d \in Nat PROVE dcache_purge(w, d) \in Caches
    <3>1. d % NDCACHE \in 0 .. NDCACHE - 1
      BY FsstressAssumption
    <3> QED BY <3>1 DEF dcache_purge, Caches
  <2>2. Dirs[s].id \in Nat /\ Dirs[n].id \in Nat
    BY <1>1, DirSlots
  <2> HIDE DEF k2, n
  <2>3. k1 \in Caches
    BY <2>1, <2>2
  <2> HIDE DEF k1
  <2> QED BY <1>2, <2>1, <2>2, <2>3
<1> HIDE DEF k2, n
<1>4. ASSUME Current(c), NEW h \in 0 .. NDCACHE - 1, k2[h] # 0
      PROVE  k2[h] \in 1 .. n - 1 /\ k2[h] # s /\ Dirs[k2[h]].id % NDCACHE = h
  <2>1. Current(k1) /\ \A i \in 0 .. NDCACHE - 1 : k1[i] # s
    BY <1>4, PurgeOne
  <2> HIDE DEF k1
  <2>2. /\ Current(k2)
        /\ \A i \in 0 .. NDCACHE - 1 : k2[i] # n /\ (k2[i] # 0 => k2[i] = k1[i])
    BY <1>1, <1>2, <1>3, <2>1, PurgeOne
  <2>3. k2[h] \in Slots("d") /\ Dirs[k2[h]].id % NDCACHE = h
    BY <1>4, <2>2 DEF Current
  <2>4. k2[h] # n /\ k2[h] # s
    BY <1>4, <2>1, <2>2
  <2> QED BY <1>1, <2>3, <2>4
<1> QED BY <1>3, <1>4 DEF k2, n

-----------------------------------------------------------------------------
(* What the calls do to the tree and to the set of entries.                *)

Unique(V) == \A u, v \in V : u.id = v.id => u = v

\* Entries and a tree that belong together.
Matched(V, D, L, X, n) ==
  /\ V \in SUBSET Recs /\ n \in Nat /\ Unique(V)
  /\ Forest(V) /\ Named(V, D) /\ Inodes(D, L, n) /\ Attrs(V, D, X, L)

NewRec(t, i, q, k) == [type |-> t, id |-> i, parent |-> q, count |-> k]

\* The numbers of the names are below nameseq.
LEMMA IdsBelow ==
  ASSUME NEW V, NEW D, NEW L, NEW X, NEW n, Matched(V, D, L, X, n), NEW v \in V
  PROVE  /\ v.id \in Nat /\ v.id < n /\ v.parent \in Nat \cup {-1} /\ v.parent < n
         /\ v.type \in FTypes /\ v.count \in Nat
<1>1. V \in SUBSET Recs /\ n \in Nat
  BY DEF Matched
<1>2. ASSUME NEW u \in V PROVE u.id \in Nat /\ u.id < n
  <2>1. PICK x \in D : x.name = NameOf(u)
    BY DEF Matched, Named
  <2>2. x.name[2] < n
    BY DEF Matched, Inodes
  <2> QED BY <1>1, <2>1, <2>2 DEF NameOf, Recs
<1>3. v.parent < n
  <2>1. v.parent \in Ids(V) \cup {-1}
    BY DEF Matched, Forest
  <2> QED BY <1>1, <1>2, <2>1 DEF Ids, DirsOf
<1> QED BY <1>1, <1>2, <1>3 DEF Recs

\* A directory's id is the id of no other entry.
LEMMA IdsOfDirs ==
  ASSUME NEW V, Unique(V), NEW v \in V
  PROVE  v.id \in Ids(V) <=> v.type = "d"
BY DEF Unique, Ids, DirsOf

\* A new name: of a new file, or of one that is linked.
LEMMA AddName ==
  ASSUME NEW V, NEW D, NEW L, NEW X, NEW n, Matched(V, D, L, X, n),
         NEW t \in FTypes, NEW q \in Ids(V) \cup {-1}, NEW d \in FTypes \X Int, At(D, d, q),
         NEW k \in Nat, NEW i \in FTypes \X Nat, i[1] = t, i[2] <= n,
         NEW M, L \subseteq M, \A x \in D : x.ino = i => i \in M /\ t # "d"
  PROVE  Matched(V \cup {NewRec(t, n, q, k)}, D \cup {Dirent(d, t, n, i)}, M, X, n + 1)
<1> DEFINE v == NewRec(t, n, q, k)
           y == Dirent(d, t, n, i)
           W == V \cup {v}
           E == D \cup {y}
<1>0. V \in SUBSET Recs /\ n \in Nat /\ Unique(V) /\ Forest(V) /\ Named(V, D)
      /\ Inodes(D, L, n) /\ Attrs(V, D, X, L)
  BY DEF Matched
<1>1. \A u \in V : /\ u.id \in Nat /\ u.id < n /\ u.parent \in Nat \cup {-1} /\ u.parent < n
                   /\ u.type \in FTypes
  BY IdsBelow
<1>2. v.type = t /\ v.id = n /\ v.parent = q /\ v.count = k
  BY DEF NewRec
<1>3. y.dir = d /\ y.name = <<t, n>> /\ y.ino = i
  BY DEF Dirent
<1>4. Ids(V) \in SUBSET Nat /\ \A j \in Ids(V) : j < n
  BY <1>1 DEF Ids, DirsOf
<1>5. v \in Recs
  BY <1>0, <1>4 DEF NewRec, Recs
<1>6. y \in DirentRec
  BY <1>0 DEF Dirent, DirentRec
<1> HIDE DEF v, y
<1>7. Unique(W)
  <2> SUFFICES ASSUME NEW u \in W, NEW w \in W, u.id = w.id PROVE u = w
    BY DEF Unique
  <2>1. CASE u \in V /\ w \in V
    BY <1>0, <2>1 DEF Unique
  <2>2. CASE u = v \/ w = v
    BY <1>1, <1>2, <2>2
  <2> QED BY <2>1, <2>2
<1>8. Ids(V) \subseteq Ids(W)
  BY DEF Ids, DirsOf
<1>9. Forest(W)
  <2>1. \A u \in W : u.parent \in Ids(W) \cup {-1}
    BY <1>0, <1>2, <1>8 DEF Forest
  <2>2. ASSUME NEW S \in SUBSET Ids(W), S # {}
        PROVE  \E u \in DirsOf(W) : u.id \in S /\ u.parent \notin S
    <3>1. \A j \in S : j = n \/ j \in Ids(V)
      BY <1>2 DEF Ids, DirsOf
    <3>2. CASE S \ {n} = {}
      <4>1. n \in S /\ n \notin Ids(V)
        BY <1>0, <1>4, <2>2, <3>2
      <4>2. t = "d"
        BY <1>2, <4>1 DEF Ids, DirsOf
      <4>3. q \notin S
        BY <1>0, <1>4, <3>2
      <4> QED BY <1>2, <4>1, <4>2, <4>3 DEF DirsOf
    <3>3. CASE S \ {n} # {}
      <4>1. S \ {n} \in SUBSET Ids(V)
        BY <3>1
      <4>2. PICK u \in DirsOf(V) : u.id \in S \ {n} /\ u.parent \notin S \ {n}
        BY <1>0, <3>3, <4>1 DEF Forest, Grounded
      <4>3. u.parent # n
        BY <1>0, <1>1 DEF DirsOf
      <4> QED BY <4>2, <4>3 DEF DirsOf
    <3> QED BY <3>2, <3>3
  <2> QED BY <2>1, <2>2 DEF Forest, Grounded
<1>10. \A x \in D : x.name # y.name
  BY <1>0, <1>3 DEF Inodes
<1>11. \A e, p : At(D, e, p) => At(E, e, p)
  BY DEF At
<1>12. Named(W, E)
  <2>1. E \in SUBSET DirentRec /\ IsFiniteSet(E)
    BY <1>0, <1>6, FS_AddElement DEF Named
  <2>2. NamesOnce(E)
    BY <1>0, <1>10 DEF Named, NamesOnce
  <2>3. NameOf(v) = y.name
    BY <1>2, <1>3 DEF NameOf
  <2>4. \A x \in E : \E u \in W : x.name = NameOf(u)
    BY <1>0, <2>3 DEF Named
  <2>5. ASSUME NEW u \in W PROVE \E x \in E : x.name = NameOf(u) /\ At(E, x.dir, u.parent)
    <3>1. CASE u = v
      <4>1. At(E, y.dir, u.parent)
        BY <1>2, <1>3, <1>11, <3>1
      <4> QED BY <2>3, <3>1, <4>1
    <3>2. CASE u \in V
      BY <1>0, <1>11, <3>2 DEF Named
    <3> QED BY <3>1, <3>2
  <2> QED BY <2>1, <2>2, <2>4, <2>5 DEF Named
<1>13. Inodes(E, M, n + 1)
  <2>1. \A x \in E : x.ino[1] = x.name[1] /\ x.ino[2] < n + 1 /\ x.name[2] < n + 1
    <3>1. \A x \in D : x.ino[2] \in Nat /\ x.name[2] \in Nat
      BY <1>0 DEF Named, DirentRec
    <3>2. \A x \in D : x.ino[1] = x.name[1] /\ x.ino[2] < n + 1 /\ x.name[2] < n + 1
      BY <1>0, <3>1 DEF Inodes
    <3>3. y.ino[1] = y.name[1] /\ y.ino[2] < n + 1 /\ y.name[2] < n + 1
      BY <1>0, <1>3
    <3> QED BY <3>2, <3>3
  <2>2. \A x, z \in E : x.ino = z.ino /\ x # z => x.ino \in M /\ x.ino[1] # "d"
    BY <1>0, <1>3 DEF Inodes
  <2> QED BY <2>1, <2>2 DEF Inodes
<1>14. Attrs(W, E, X, M)
  <2>1. X \in SUBSET ((FTypes \X Nat) \X Nat) /\ \A a \in X : \E x \in E : x.ino = a[1]
    BY <1>0 DEF Attrs
  <2>2. ASSUME NEW u \in W, NEW x \in E, NEW a \in X,
               x.name = NameOf(u), x.ino \notin M, a[1] = x.ino
        PROVE  a[2] \in 1 .. u.count
    <3>1. x # y
      <4> SUFFICES ASSUME x = y PROVE FALSE
        OBVIOUS
      <4>1. PICK z \in D : z.ino = a[1]
        BY <1>0 DEF Attrs
      <4> QED BY <1>3, <2>2, <4>1
    <3>2. x \in D /\ u # v
      BY <1>2, <1>3, <1>10, <2>2, <3>1 DEF NameOf
    <3>3. u \in V /\ x.ino \notin L
      BY <2>2, <3>2
    <3> QED BY <1>0, <2>2, <3>2, <3>3 DEF Attrs
  <2> QED BY <2>1, <2>2 DEF Attrs
<1>15. W \in SUBSET Recs /\ n + 1 \in Nat
  BY <1>0, <1>5
<1> QED BY <1>7, <1>9, <1>12, <1>13, <1>14, <1>15 DEF Matched, v, y

\* An entry and its dirent are removed; the directory was empty.
LEMMA DropName ==
  ASSUME NEW V, NEW D, NEW L, NEW X, NEW n, Matched(V, D, L, X, n),
         NEW e \in V, NEW x \in D, x.name = NameOf(e), \A y \in D : y.dir # x.ino
  PROVE  Matched(V \ {e}, D \ {x}, L, {a \in X : \E y \in D \ {x} : y.ino = a[1]}, n)
<1> DEFINE W == V \ {e}
           E == D \ {x}
           Y == {a \in X : \E y \in E : y.ino = a[1]}
<1>0. V \in SUBSET Recs /\ n \in Nat /\ Unique(V) /\ Forest(V) /\ Named(V, D)
      /\ Inodes(D, L, n) /\ Attrs(V, D, X, L)
  BY DEF Matched
<1>1. ASSUME NEW v \in V PROVE v.parent # e.id
  <2> SUFFICES ASSUME v.parent = e.id PROVE FALSE
    OBVIOUS
  <2>1. e.id # -1
    BY IdsBelow
  <2>2. e.type = "d"
    BY <1>0, <2>1, IdsOfDirs DEF Forest
  <2>3. PICK y \in D : y.name = NameOf(v) /\ At(D, y.dir, v.parent)
    BY <1>0 DEF Named
  <2>4. PICK z \in D : z.name = <<"d", e.id>> /\ y.dir = z.ino
    BY <2>1, <2>3 DEF At
  <2>5. z = x
    BY <1>0, <2>2, <2>4 DEF Named, NamesOnce, NameOf
  <2> QED BY <2>4, <2>5
<1>2. \A j \in Ids(V) : j # e.id => j \in Ids(W)
  BY DEF Ids, DirsOf
<1>3. Forest(W)
  <2>1. \A v \in W : v.parent \in Ids(W) \cup {-1}
    BY <1>0, <1>1, <1>2 DEF Forest
  <2>2. ASSUME NEW S \in SUBSET Ids(W), S # {}
        PROVE  \E u \in DirsOf(W) : u.id \in S /\ u.parent \notin S
    <3>1. S \in SUBSET Ids(V) /\ e.id \notin S
      BY <1>0 DEF Ids, DirsOf, Unique
    <3>2. PICK u \in DirsOf(V) : u.id \in S /\ u.parent \notin S
      BY <1>0, <2>2, <3>1 DEF Forest, Grounded
    <3> QED BY <3>1, <3>2 DEF DirsOf
  <2> QED BY <2>1, <2>2 DEF Forest, Grounded
<1>4. \A v \in V, y \in D : y.name = NameOf(v) => (y = x <=> v = e)
  <2>1. ASSUME NEW v \in V, NEW y \in D, y.name = NameOf(v), y = x PROVE v = e
    <3>1. v.id = e.id
      BY <2>1 DEF NameOf
    <3> QED BY <1>0, <3>1 DEF Unique
  <2> QED BY <1>0, <2>1 DEF Named, NamesOnce
<1>5. Named(W, E)
  <2>1. E \in SUBSET DirentRec /\ IsFiniteSet(E)
    BY <1>0, FS_RemoveElement DEF Named
  <2>2. NamesOnce(E)
    BY <1>0 DEF Named, NamesOnce
  <2>3. \A y \in E : \E v \in W : y.name = NameOf(v)
    BY <1>0, <1>4 DEF Named
  <2>4. ASSUME NEW v \in W PROVE \E y \in E : y.name = NameOf(v) /\ At(E, y.dir, v.parent)
    <3>1. PICK y \in D : y.name = NameOf(v) /\ At(D, y.dir, v.parent)
      BY <1>0 DEF Named
    <3>2. y \in E
      BY <1>4, <3>1
    <3>3. At(E, y.dir, v.parent)
      <4>1. CASE v.parent = -1
        BY <3>1, <4>1 DEF At
      <4>2. CASE v.parent # -1
        <5>1. PICK z \in D : z.name = <<"d", v.parent>> /\ y.dir = z.ino
          BY <3>1, <4>2 DEF At
        <5>2. z # x
          BY <5>1
        <5> QED BY <4>2, <5>1, <5>2 DEF At
      <4> QED BY <4>1, <4>2
    <3> QED BY <3>1, <3>2, <3>3
  <2> QED BY <2>1, <2>2, <2>3, <2>4 DEF Named
<1>6. Inodes(E, L, n)
  BY <1>0 DEF Inodes
<1>7. Attrs(W, E, Y, L)
  BY <1>0 DEF Attrs
<1>8. W \in SUBSET Recs /\ Unique(W)
  BY <1>0 DEF Unique
<1> QED BY <1>0, <1>3, <1>5, <1>6, <1>7, <1>8 DEF Matched

\* An entry gets a new name: it is not on the way to its new directory.
LEMMA MoveName ==
  ASSUME NEW V, NEW D, NEW L, NEW X, NEW n, Matched(V, D, L, X, n),
         NEW e \in V, NEW x \in D, x.name = NameOf(e),
         NEW q \in Ids(V) \cup {-1}, NEW d \in FTypes \X Int, At(D, d, q),
         NEW A, Closed(V, A), q \in A \cup {-1}, e.id \notin A
  PROVE  Matched({Fixed(v, e.id, n, FALSE) : v \in V \ {e}}
                   \cup {NewRec(e.type, n, q, e.count)},
                 (D \ {x}) \cup {Dirent(d, e.type, n, x.ino)}, L, X, n + 1)
<1> DEFINE F(v) == Fixed(v, e.id, n, FALSE)
           m == NewRec(e.type, n, q, e.count)
           y == Dirent(d, e.type, n, x.ino)
           W == {F(v) : v \in V \ {e}} \cup {m}
           E == (D \ {x}) \cup {y}
<1>0. V \in SUBSET Recs /\ n \in Nat /\ Unique(V) /\ Forest(V) /\ Named(V, D)
      /\ Inodes(D, L, n) /\ Attrs(V, D, X, L)
  BY DEF Matched
<1>1. \A u \in V : /\ u.id \in Nat /\ u.id < n /\ u.parent \in Nat \cup {-1} /\ u.parent < n
                   /\ u.type \in FTypes /\ u.count \in Nat
  BY IdsBelow
<1>2. m.type = e.type /\ m.id = n /\ m.parent = q /\ m.count = e.count
  BY DEF NewRec
<1>3. y.dir = d /\ y.name = <<e.type, n>> /\ y.ino = x.ino
  BY DEF Dirent
<1>4. Ids(V) \in SUBSET Nat /\ \A j \in Ids(V) : j < n
  BY <1>1 DEF Ids, DirsOf
<1>5. m \in Recs
  BY <1>0, <1>1, <1>4 DEF NewRec, Recs
<1>6. y \in DirentRec
  <2>1. x.ino \in FTypes \X Nat
    BY <1>0 DEF Named, DirentRec
  <2> QED BY <1>0, <1>1, <2>1 DEF Dirent, DirentRec
<1>7. ASSUME NEW v \in V
      PROVE  /\ F(v) \in Recs /\ F(v).type = v.type /\ F(v).id = v.id /\ F(v).count = v.count
             /\ F(v).parent = IF v.parent = e.id THEN n ELSE v.parent
             /\ NameOf(F(v)) = NameOf(v)
  <2>1. v \in Recs
    BY <1>0
  <2> QED BY <1>0, <2>1 DEF Fixed, Moved, Recs, NameOf
<1> HIDE DEF F, m, y
<1>8. \A w \in W : w = m \/ \E v \in V \ {e} : w = F(v)
  OBVIOUS
<1>9. Unique(W)
  <2> SUFFICES ASSUME NEW u \in W, NEW w \in W, u.id = w.id PROVE u = w
    BY DEF Unique
  <2>1. CASE u = m /\ w = m
    BY <2>1
  <2>2. CASE u # m /\ w # m
    <3>1. PICK a \in V \ {e} : u = F(a)
      BY <1>8, <2>2
    <3>2. PICK b \in V \ {e} : w = F(b)
      BY <1>8, <2>2
    <3>3. a.id = b.id
      BY <1>7, <3>1, <3>2
    <3> QED BY <1>0, <3>1, <3>2, <3>3 DEF Unique
  <2>3. CASE u = m /\ w # m
    <3>1. PICK b \in V \ {e} : w = F(b)
      BY <1>8, <2>3
    <3> QED BY <1>1, <1>2, <1>7, <2>3, <3>1
  <2>4. CASE u # m /\ w = m
    <3>1. PICK a \in V \ {e} : u = F(a)
      BY <1>8, <2>4
    <3> QED BY <1>1, <1>2, <1>7, <2>4, <3>1
  <2> QED BY <2>1, <2>2, <2>3, <2>4
<1>10. W \in SUBSET Recs
  BY <1>5, <1>7, <1>8
<1>11. \A u \in DirsOf(V) : u # e => F(u) \in DirsOf(W)
  BY <1>7 DEF DirsOf
<1>12. \A j \in Ids(V) : j # e.id => j \in Ids(W)
  <2>1. ASSUME NEW j \in Ids(V), j # e.id PROVE j \in Ids(W)
    <3>1. PICK u \in DirsOf(V) : u.id = j
      BY DEF Ids
    <3>2. F(u) \in DirsOf(W) /\ F(u).id = j
      BY <1>7, <1>11, <2>1, <3>1 DEF DirsOf
    <3> QED BY <3>2 DEF Ids
  <2> QED BY <2>1
<1>13. e.id \in Ids(V) => n \in Ids(W)
  <2>1. ASSUME e.id \in Ids(V) PROVE m \in DirsOf(W)
    BY <1>0, <1>2, <2>1, IdsOfDirs DEF DirsOf
  <2> QED BY <1>2, <2>1 DEF Ids
<1>14. \A j \in Ids(W) : (j = n /\ m \in DirsOf(W)) \/ (j \in Ids(V) /\ j # e.id)
  <2>1. ASSUME NEW j \in Ids(W) PROVE (j = n /\ m \in DirsOf(W)) \/ (j \in Ids(V) /\ j # e.id)
    <3>1. PICK w \in DirsOf(W) : w.id = j
      BY DEF Ids
    <3>2. CASE w = m
      BY <1>2, <3>1, <3>2
    <3>3. CASE w # m
      <4>1. PICK v \in V \ {e} : w = F(v)
        BY <1>8, <3>3 DEF DirsOf
      <4>2. v.id # e.id
        BY <1>0 DEF Unique
      <4>3. v \in DirsOf(V)
        BY <1>7, <4>1 DEF DirsOf
      <4> QED BY <1>7, <3>1, <4>1, <4>2, <4>3 DEF Ids
    <3> QED BY <3>2, <3>3
  <2> QED BY <2>1
<1>15. q # e.id
  BY <1>1
<1>16. Forest(W)
  <2>1. ASSUME NEW w \in W PROVE w.parent \in Ids(W) \cup {-1}
    <3>1. CASE w = m
      BY <1>2, <1>12, <1>15, <3>1
    <3>2. CASE w # m
      <4>1. PICK v \in V \ {e} : w = F(v)
        BY <1>8, <3>2
      <4>2. v.parent \in Ids(V) \cup {-1}
        BY <1>0 DEF Forest
      <4>3. CASE v.parent = e.id
        <5>1. e.id # -1
          BY <1>1
        <5> QED BY <1>7, <1>13, <4>1, <4>2, <4>3, <5>1
      <4>4. CASE v.parent # e.id
        BY <1>7, <1>12, <4>1, <4>2, <4>4
      <4> QED BY <4>3, <4>4
    <3> QED BY <3>1, <3>2
  <2>2. ASSUME NEW S \in SUBSET Ids(W), S # {}
        PROVE  \E u \in DirsOf(W) : u.id \in S /\ u.parent \notin S
    <3>1. e.id \notin S
      <4>1. e.id # n
        BY <1>0, <1>1
      <4> HIDE DEF W
      <4> QED BY <1>14, <4>1
    <3>2. CASE n \notin S
      <4>1. S \in SUBSET Ids(V)
        BY <1>14, <3>2
      <4>2. PICK u \in DirsOf(V) : u.id \in S /\ u.parent \notin S
        BY <1>0, <2>2, <4>1 DEF Forest, Grounded
      <4>3. F(u) \in DirsOf(W)
        BY <1>11, <3>1, <4>2
      <4>4. F(u).id \in S /\ F(u).parent \notin S
        BY <1>7, <3>2, <4>2 DEF DirsOf
      <4> QED BY <4>3, <4>4
    <3>3. CASE n \in S
      <4>1. m \in DirsOf(W)
        BY <1>4, <1>14, <3>3
      <4>2. CASE q \notin S
        BY <1>2, <3>3, <4>1, <4>2
      <4>3. CASE q \in S
        <5>1. -1 \notin S
          <6>1. \A j \in S : j \in Nat
            BY <1>0, <1>4, <1>14
          <6> QED BY <6>1
        <5>2. S \cap A \in SUBSET Ids(V) /\ S \cap A # {}
          BY <4>3, <5>1 DEF Closed
        <5>3. PICK u \in DirsOf(V) : u.id \in S \cap A /\ u.parent \notin S \cap A
          BY <1>0, <5>2 DEF Forest, Grounded
        <5>4. u.parent \in A \cup {-1} /\ u \in V
          BY <5>3 DEF Closed, DirsOf
        <5>5. u.parent # e.id /\ u.parent \notin S /\ u # e
          BY <1>1, <5>1, <5>3, <5>4
        <5>6. F(u) \in DirsOf(W) /\ F(u).id \in S /\ F(u).parent \notin S
          BY <1>7, <1>11, <5>3, <5>4, <5>5
        <5> QED BY <5>6
      <4> QED BY <4>2, <4>3
    <3> QED BY <3>2, <3>3
  <2> QED BY <2>1, <2>2 DEF Forest, Grounded
<1>17. \A v \in V, z \in D : z.name = NameOf(v) => (z = x <=> v = e)
  <2>1. ASSUME NEW v \in V, NEW z \in D, z.name = NameOf(v), z = x PROVE v = e
    <3>1. v.id = e.id
      BY <2>1 DEF NameOf
    <3> QED BY <1>0, <3>1 DEF Unique
  <2> QED BY <1>0, <2>1 DEF Named, NamesOnce
<1>18. \A z \in D : z.name # y.name
  BY <1>0, <1>3 DEF Inodes
<1>19. ASSUME NEW f, NEW p, At(D, f, p), p = -1 \/ p \in Ids(V)
       PROVE  At(E, f, IF p = e.id THEN n ELSE p)
  <2>1. CASE p = -1
    BY <1>1, <1>19, <2>1 DEF At
  <2>2. CASE p # -1
    <3>1. PICK z \in D : z.name = <<"d", p>> /\ f = z.ino
      BY <1>19, <2>2 DEF At
    <3>2. CASE p = e.id
      <4>1. e.type = "d"
        BY <1>0, <1>19, <2>2, <3>2, IdsOfDirs
      <4>2. z = x
        BY <1>0, <3>1, <3>2, <4>1 DEF Named, NamesOnce, NameOf
      <4>3. y \in E /\ y.name = <<"d", n>> /\ f = y.ino /\ n # -1
        BY <1>0, <1>3, <3>1, <4>1, <4>2
      <4> QED BY <3>2, <4>3 DEF At
    <3>3. CASE p # e.id
      <4>1. z # x
        BY <3>1, <3>3 DEF NameOf
      <4> QED BY <2>2, <3>1, <3>3, <4>1 DEF At
    <3> QED BY <3>2, <3>3
  <2> QED BY <2>1, <2>2
<1>20. NameOf(m) = y.name
  BY <1>2, <1>3 DEF NameOf
<1>21. Named(W, E)
  <2>1. E \in SUBSET DirentRec /\ IsFiniteSet(E)
    <3>1. IsFiniteSet(D \ {x})
      BY <1>0, FS_RemoveElement DEF Named
    <3> QED BY <1>0, <1>6, <3>1, FS_AddElement DEF Named
  <2>2. NamesOnce(E)
    BY <1>0, <1>18 DEF Named, NamesOnce
  <2>3. ASSUME NEW z \in E PROVE \E w \in W : z.name = NameOf(w)
    <3>1. CASE z = y
      BY <1>20, <3>1
    <3>2. CASE z # y
      <4>1. PICK v \in V : z.name = NameOf(v)
        BY <1>0, <3>2 DEF Named
      <4>2. v # e
        BY <1>17, <3>2, <4>1
      <4> QED BY <1>7, <4>1, <4>2
    <3> QED BY <3>1, <3>2
  <2>4. ASSUME NEW w \in W PROVE \E z \in E : z.name = NameOf(w) /\ At(E, z.dir, w.parent)
    <3>1. CASE w = m
      <4>1. At(E, d, q)
        BY <1>15, <1>19
      <4> QED BY <1>2, <1>3, <1>20, <3>1, <4>1
    <3>2. CASE w # m
      <4>1. PICK v \in V \ {e} : w = F(v)
        BY <1>8, <3>2
      <4>2. PICK z \in D : z.name = NameOf(v) /\ At(D, z.dir, v.parent)
        BY <1>0 DEF Named
      <4>3. z # x
        BY <1>17, <4>2
      <4>4. At(E, z.dir, F(v).parent)
        <5>1. v.parent = -1 \/ v.parent \in Ids(V)
          BY <1>0 DEF Forest
        <5>2. At(E, z.dir, IF v.parent = e.id THEN n ELSE v.parent)
          BY <1>19, <4>2, <5>1
        <5> QED BY <1>7, <5>2
      <4> QED BY <1>7, <4>1, <4>2, <4>3, <4>4
    <3> QED BY <3>1, <3>2
  <2> QED BY <2>1, <2>2, <2>3, <2>4 DEF Named
<1>22. Inodes(E, L, n + 1)
  <2>1. \A z \in E : z.ino[1] = z.name[1] /\ z.ino[2] < n + 1 /\ z.name[2] < n + 1
    <3>1. \A z \in D : z.ino[2] \in Nat /\ z.name[2] \in Nat
      BY <1>0 DEF Named, DirentRec
    <3>2. \A z \in D : z.ino[1] = z.name[1] /\ z.ino[2] < n + 1 /\ z.name[2] < n + 1
      BY <1>0, <3>1 DEF Inodes
    <3>3. y.ino[1] = y.name[1] /\ y.ino[2] < n + 1 /\ y.name[2] < n + 1
      <4>1. x.name[1] = e.type
        BY DEF NameOf
      <4> QED BY <1>0, <1>3, <3>2, <4>1
    <3> QED BY <3>2, <3>3
  <2>2. \A u, z \in E : u.ino = z.ino /\ u # z => u.ino \in L /\ u.ino[1] # "d"
    BY <1>0, <1>3 DEF Inodes
  <2> QED BY <2>1, <2>2 DEF Inodes
<1>23. Attrs(W, E, X, L)
  <2>1. X \in SUBSET ((FTypes \X Nat) \X Nat) /\ \A a \in X : \E z \in E : z.ino = a[1]
    BY <1>0, <1>3 DEF Attrs
  <2>2. ASSUME NEW w \in W, NEW z \in E, NEW a \in X,
               z.name = NameOf(w), z.ino \notin L, a[1] = z.ino
        PROVE  a[2] \in 1 .. w.count
    <3>1. CASE w = m
      <4>1. z = y
        BY <1>18, <1>20, <2>2, <3>1
      <4> QED BY <1>0, <1>2, <1>3, <2>2, <3>1, <4>1 DEF Attrs
    <3>2. CASE w # m
      <4>1. PICK v \in V \ {e} : w = F(v)
        BY <1>8, <3>2
      <4>2. z.name = NameOf(v)
        BY <1>7, <2>2, <4>1
      <4>3. z \in D
        <5> SUFFICES ASSUME z = y PROVE FALSE
          OBVIOUS
        <5>1. PICK b \in D : b.name = NameOf(v)
          BY <1>0 DEF Named
        <5> QED BY <1>18, <4>2, <5>1
      <4>4. a[2] \in 1 .. v.count
        BY <1>0, <2>2, <4>2, <4>3 DEF Attrs
      <4> QED BY <1>7, <4>1, <4>4
    <3> QED BY <3>1, <3>2
  <2> QED BY <2>1, <2>2 DEF Attrs
<1>24. n + 1 \in Nat
  BY <1>0
<1>25. Matched(W, E, L, X, n + 1)
  BY <1>9, <1>10, <1>16, <1>21, <1>22, <1>23, <1>24 DEF Matched
<1> QED BY <1>25 DEF F, m, y

\* What an exchange of the names of e and f does to a record.
Swapped(v, e, f) ==
  Fixed(Counted(v, IF v = e THEN f.count ELSE IF v = f THEN e.count ELSE v.count),
        e.id, f.id, TRUE)

\* Two names exchange their inodes; neither entry is above the other.
LEMMA ExchangeNames ==
  ASSUME NEW V, NEW D, NEW L, NEW X, NEW n, Matched(V, D, L, X, n),
         NEW e \in V, NEW f \in V, e # f, e.type = f.type,
         NEW x \in D, x.name = NameOf(e), NEW y \in D, y.name = NameOf(f),
         NEW A, Closed(V, A), e.parent \in A \cup {-1}, e.id \notin A, f.id \notin A,
         NEW B, Closed(V, B), f.parent \in B \cup {-1}, e.id \notin B, f.id \notin B
  PROVE  Matched({Swapped(v, e, f) : v \in V},
                 (D \ {x, y}) \cup {[x EXCEPT !.ino = y.ino], [y EXCEPT !.ino = x.ino]},
                 L, X, n)
<1> DEFINE G(v) == Swapped(v, e, f)
           P(p) == Moved(p, e.id, f.id, TRUE)
           x2 == [x EXCEPT !.ino = y.ino]
           y2 == [y EXCEPT !.ino = x.ino]
           W == {G(v) : v \in V}
           E == (D \ {x, y}) \cup {x2, y2}
<1>0. V \in SUBSET Recs /\ n \in Nat /\ Unique(V) /\ Forest(V) /\ Named(V, D)
      /\ Inodes(D, L, n) /\ Attrs(V, D, X, L)
  BY DEF Matched
<1>1. \A u \in V : /\ u.id \in Nat /\ u.parent \in Nat \cup {-1}
                   /\ u.type \in FTypes /\ u.count \in Nat
  BY IdsBelow
<1>2. e.id # f.id /\ x # y
  <2>1. e.id # f.id
    BY <1>0 DEF Unique
  <2> QED BY <2>1 DEF NameOf
<1>3. ASSUME NEW v \in V
      PROVE  /\ G(v) \in Recs /\ G(v).type = v.type /\ G(v).id = v.id
             /\ G(v).count = IF v = e THEN f.count ELSE IF v = f THEN e.count ELSE v.count
             /\ G(v).parent = P(v.parent) /\ NameOf(G(v)) = NameOf(v)
  <2> DEFINE k == IF v = e THEN f.count ELSE IF v = f THEN e.count ELSE v.count
             c == Counted(v, k)
  <2>1. v \in Recs /\ k \in Nat /\ e.id \in Nat /\ f.id \in Nat
    BY <1>0, <1>1
  <2>2. G(v) = Fixed(c, e.id, f.id, TRUE)
    BY DEF Swapped
  <2> HIDE DEF k, c
  <2>3. /\ c \in Recs /\ c.type = v.type /\ c.id = v.id /\ c.parent = v.parent /\ c.count = k
    BY <2>1 DEF c, Counted, Recs
  <2>4. Fixed(c, e.id, f.id, TRUE) = [c EXCEPT !.parent = P(c.parent)]
    BY <2>3 DEF Fixed, Recs
  <2>5. P(c.parent) \in Nat \cup {-1}
    BY <2>1, <2>3 DEF Moved, Recs
  <2> HIDE DEF P, G
  <2>6. /\ G(v) \in Recs /\ G(v).type = v.type /\ G(v).id = v.id
        /\ G(v).parent = P(v.parent) /\ G(v).count = k
    BY <2>2, <2>3, <2>4, <2>5 DEF Recs
  <2> QED BY <2>6 DEF NameOf, k
<1>4. \A p : P(p) = IF p = e.id THEN f.id ELSE IF p = f.id THEN e.id ELSE p
  BY DEF Moved
<1>5. /\ x2.dir = x.dir /\ x2.name = x.name /\ x2.ino = y.ino /\ x2 \in DirentRec
      /\ y2.dir = y.dir /\ y2.name = y.name /\ y2.ino = x.ino /\ y2 \in DirentRec
  <2>1. x \in DirentRec /\ y \in DirentRec
    BY <1>0 DEF Named
  <2> QED BY <2>1 DEF DirentRec
<1> HIDE DEF G, P, x2, y2
<1>6. Unique(W) /\ W \in SUBSET Recs
  <2>1. ASSUME NEW u \in V, NEW v \in V, G(u).id = G(v).id PROVE G(u) = G(v)
    BY <1>0, <1>3, <2>1 DEF Unique
  <2> QED BY <1>3, <2>1 DEF Unique
<1>7. \A u \in DirsOf(V) : u \in V /\ G(u) \in DirsOf(W)
  BY <1>3 DEF DirsOf
<1>8. Ids(W) = Ids(V)
  <2>1. ASSUME NEW j \in Ids(W) PROVE j \in Ids(V)
    <3>1. PICK w \in DirsOf(W) : w.id = j
      BY DEF Ids
    <3>2. PICK v \in V : w = G(v)
      BY DEF DirsOf
    <3>3. v \in DirsOf(V) /\ v.id = j
      BY <1>3, <3>1, <3>2 DEF DirsOf
    <3> QED BY <3>3 DEF Ids
  <2>2. ASSUME NEW j \in Ids(V) PROVE j \in Ids(W)
    <3>1. PICK u \in DirsOf(V) : u.id = j
      BY DEF Ids
    <3>2. G(u) \in DirsOf(W) /\ G(u).id = j
      BY <1>3, <1>7, <3>1
    <3> QED BY <3>2 DEF Ids
  <2> QED BY <2>1, <2>2
<1>9. e.id \in Ids(V) <=> f.id \in Ids(V)
  BY <1>0, IdsOfDirs
<1>10. Ids(V) \in SUBSET Nat
  BY <1>1 DEF Ids, DirsOf
<1>11. Forest(W)
  <2>1. ASSUME NEW w \in W PROVE w.parent \in Ids(W) \cup {-1}
    <3>1. PICK v \in V : w = G(v)
      OBVIOUS
    <3>2. v.parent \in Ids(V) \cup {-1} /\ e.id # -1 /\ f.id # -1
      BY <1>0, <1>1 DEF Forest
    <3> QED BY <1>3, <1>4, <1>8, <1>9, <3>1, <3>2
  <2>2. ASSUME NEW S \in SUBSET Ids(W), S # {}
        PROVE  \E u \in DirsOf(W) : u.id \in S /\ u.parent \notin S
    <3>0. S \in SUBSET Ids(V) /\ -1 \notin S
      BY <1>8, <1>10
    <3>1. CASE e.id \notin S /\ f.id \notin S
      <4>1. PICK u \in DirsOf(V) : u.id \in S /\ u.parent \notin S
        BY <1>0, <2>2, <3>0 DEF Forest, Grounded
      <4>2. G(u) \in DirsOf(W) /\ G(u).id \in S /\ G(u).parent \notin S
        BY <1>3, <1>4, <1>7, <3>1, <4>1
      <4> QED BY <4>2
    <3>2. ASSUME NEW g \in V, NEW C, g.id \in S, Closed(V, C), g.parent \in C \cup {-1},
                 e.id \notin C, f.id \notin C
          PROVE  \E u \in DirsOf(W) : u.id \in S /\ u.parent \notin S
      <4>1. g \in DirsOf(V)
        BY <1>0, <3>0, <3>2, IdsOfDirs DEF DirsOf
      <4>2. e.id # -1 /\ f.id # -1
        BY <1>1
      <4>3. \A p \in C \cup {-1} : P(p) = p
        BY <1>4, <3>2, <4>2
      <4>4. CASE g.parent \notin S
        BY <1>3, <1>7, <3>2, <4>1, <4>3, <4>4
      <4>5. CASE g.parent \in S
        <5>1. S \cap C \in SUBSET Ids(V) /\ S \cap C # {}
          BY <3>0, <3>2, <4>5
        <5>2. PICK u \in DirsOf(V) : u.id \in S \cap C /\ u.parent \notin S \cap C
          BY <1>0, <5>1 DEF Forest, Grounded
        <5>3. u.parent \in C \cup {-1}
          BY <3>2, <5>2 DEF Closed
        <5>4. u.parent \notin S
          BY <3>0, <5>2, <5>3
        <5>5. G(u) \in DirsOf(W) /\ G(u).id \in S /\ G(u).parent \notin S
          BY <1>3, <1>7, <4>3, <5>2, <5>3, <5>4
        <5> QED BY <5>5
      <4> QED BY <4>4, <4>5
    <3> QED BY <3>1, <3>2
  <2> QED BY <2>1, <2>2 DEF Forest, Grounded
<1> DEFINE To(z) == IF z = x THEN x2 ELSE IF z = y THEN y2 ELSE z
<1>12. ASSUME NEW z \in D
       PROVE  To(z) \in E /\ To(z).dir = z.dir /\ To(z).name = z.name
  BY <1>5
<1>13. ASSUME NEW w \in E
       PROVE  \E z \in D : w = To(z)
  BY <1>2
<1>14. x2.ino = y.ino /\ y2.ino = x.ino /\ \A z \in D : z # x /\ z # y => To(z).ino = z.ino
  BY <1>5
<1>15. To(x) = x2 /\ To(y) = y2
  BY <1>2
<1> HIDE DEF To
<1>16. ASSUME NEW h, NEW p, At(D, h, p), p = -1 \/ p \in Ids(V) PROVE At(E, h, P(p))
  <2>1. e.id # -1 /\ f.id # -1
    BY <1>1
  <2>2. CASE p = -1
    BY <1>4, <1>16, <2>1, <2>2 DEF At
  <2>3. CASE p # -1
    <3>1. PICK z \in D : z.name = <<"d", p>> /\ h = z.ino
      BY <1>16, <2>3 DEF At
    <3>2. CASE p = e.id
      <4>1. e.type = "d" /\ f.type = "d"
        BY <1>0, <1>16, <2>3, <3>2, IdsOfDirs
      <4>2. z = x
        BY <1>0, <3>1, <3>2, <4>1, SMTT(30) DEF Named, NamesOnce, NameOf
      <4>3. y2 \in E /\ y2.name = <<"d", f.id>> /\ h = y2.ino
        BY <1>5, <3>1, <4>1, <4>2 DEF NameOf
      <4> QED BY <1>4, <2>1, <3>2, <4>3 DEF At
    <3>3. CASE p = f.id
      <4>1. e.type = "d" /\ f.type = "d"
        BY <1>0, <1>16, <2>3, <3>3, IdsOfDirs
      <4>2. z = y
        BY <1>0, <3>1, <3>3, <4>1 DEF Named, NamesOnce, NameOf
      <4>3. x2 \in E /\ x2.name = <<"d", e.id>> /\ h = x2.ino
        BY <1>5, <3>1, <4>1, <4>2 DEF NameOf
      <4> QED BY <1>2, <1>4, <2>1, <3>3, <4>3 DEF At
    <3>4. CASE p # e.id /\ p # f.id
      <4>1. z # x /\ z # y
        BY <3>1, <3>4 DEF NameOf
      <4> QED BY <1>4, <2>3, <3>1, <3>4, <4>1 DEF At
    <3> QED BY <3>2, <3>3, <3>4
  <2> QED BY <2>2, <2>3
<1>17. Named(W, E)
  <2>1. E \in SUBSET DirentRec /\ IsFiniteSet(E)
    <3>1. IsFiniteSet(D \ {x, y})
      BY <1>0, FS_Subset DEF Named
    <3>2. IsFiniteSet((D \ {x, y}) \cup {x2})
      BY <3>1, FS_AddElement
    <3>3. IsFiniteSet(((D \ {x, y}) \cup {x2}) \cup {y2})
      BY <3>2, FS_AddElement
    <3>4. E = ((D \ {x, y}) \cup {x2}) \cup {y2}
      OBVIOUS
    <3> HIDE DEF E
    <3>5. IsFiniteSet(E)
      BY <3>3, <3>4
    <3> QED BY <1>0, <1>5, <3>4, <3>5 DEF Named
  <2> HIDE DEF E
  <2>2. NamesOnce(E)
    <3> SUFFICES ASSUME NEW u \in E, NEW w \in E, u.name = w.name PROVE u = w
      BY DEF NamesOnce
    <3>1. PICK z \in D : u = To(z)
      BY <1>13
    <3>2. PICK r \in D : w = To(r)
      BY <1>13
    <3>3. z = r
      BY <1>0, <1>12, <3>1, <3>2 DEF Named, NamesOnce
    <3> QED BY <3>1, <3>2, <3>3
  <2>3. ASSUME NEW w \in E PROVE \E v \in W : w.name = NameOf(v)
    <3>1. PICK z \in D : w = To(z)
      BY <1>13
    <3>2. PICK v \in V : z.name = NameOf(v)
      BY <1>0 DEF Named
    <3> QED BY <1>3, <1>12, <3>1, <3>2
  <2>4. ASSUME NEW w \in W PROVE \E z \in E : z.name = NameOf(w) /\ At(E, z.dir, w.parent)
    <3>1. PICK v \in V : w = G(v)
      OBVIOUS
    <3>2. PICK z \in D : z.name = NameOf(v) /\ At(D, z.dir, v.parent)
      BY <1>0 DEF Named
    <3>3. v.parent = -1 \/ v.parent \in Ids(V)
      BY <1>0 DEF Forest
    <3>4. At(E, z.dir, P(v.parent))
      BY <1>16, <3>2, <3>3
    <3>5. To(z) \in E /\ To(z).dir = z.dir /\ To(z).name = z.name
      BY <1>12
    <3> QED BY <1>3, <3>1, <3>2, <3>4, <3>5
  <2> QED BY <2>1, <2>2, <2>3, <2>4 DEF Named
<1>18. ASSUME NEW w \in E PROVE \E z \in D : w.ino = z.ino /\ w.name[1] = z.name[1]
                                   /\ (w.ino # x.ino /\ w.ino # y.ino => w = z)
  BY <1>5 DEF NameOf
<1>19. Inodes(E, L, n)
  <2>1. ASSUME NEW w \in E
        PROVE  w.ino[1] = w.name[1] /\ w.ino[2] < n /\ w.name[2] < n
    <3>1. PICK z \in D : w.ino = z.ino /\ w.name[1] = z.name[1]
      BY <1>18
    <3>2. PICK r \in D : w = To(r)
      BY <1>13
    <3>3. w.name = r.name
      BY <1>12, <3>2
    <3> QED BY <1>0, <3>1, <3>3 DEF Inodes
  <2>2. ASSUME NEW u \in E, NEW w \in E, u.ino = w.ino, u # w
        PROVE  u.ino \in L /\ u.ino[1] # "d"
    <3> DEFINE Back(r) == IF r = x2 THEN y ELSE IF r = y2 THEN x ELSE r
    <3>1. ASSUME NEW r \in E PROVE Back(r) \in D /\ Back(r).ino = r.ino
      BY <1>5
    <3>2. Back(u) # Back(w)
      <4>1. x2 # y2
        <5>1. x2.name # y2.name
          BY <1>2, <1>5 DEF NameOf
        <5> QED BY <5>1
      <4> QED BY <1>2, <2>2, <4>1
    <3> HIDE DEF Back
    <3> QED BY <1>0, <2>2, <3>1, <3>2 DEF Inodes
  <2> QED BY <2>1, <2>2 DEF Inodes
<1>20. Attrs(W, E, X, L)
  <2>1. ASSUME NEW a \in X PROVE \E w \in E : w.ino = a[1]
    <3>1. PICK z \in D : z.ino = a[1]
      BY <1>0 DEF Attrs
    <3>2. CASE z = x
      BY <1>5, <3>1, <3>2
    <3>3. CASE z = y
      BY <1>5, <3>1, <3>3
    <3>4. CASE z # x /\ z # y
      BY <3>1, <3>4
    <3> QED BY <3>2, <3>3, <3>4
  <2>2. ASSUME NEW w \in W, NEW z \in E, NEW a \in X,
               z.name = NameOf(w), z.ino \notin L, a[1] = z.ino
        PROVE  a[2] \in 1 .. w.count
    <3>1. PICK v \in V : w = G(v)
      OBVIOUS
    <3>2. PICK r \in D : z = To(r)
      BY <1>13
    <3>3. r.name = NameOf(v)
      BY <1>3, <1>12, <2>2, <3>1, <3>2
    <3>4. \A u \in D, c \in V : u.name = NameOf(c) /\ u.ino \notin L /\ a[1] = u.ino => a[2] \in 1 .. c.count
      BY <1>0 DEF Attrs
    <3>5. CASE v = e
      <4>1. r = x
        BY <1>0, <3>3, <3>5 DEF Named, NamesOnce
      <4>2. a[2] \in 1 .. f.count
        BY <1>14, <1>15, <2>2, <3>2, <3>4, <4>1
      <4> QED BY <1>3, <3>1, <3>5, <4>2
    <3>6. CASE v = f
      <4>1. r = y
        BY <1>0, <3>3, <3>6 DEF Named, NamesOnce
      <4>2. a[2] \in 1 .. e.count
        BY <1>14, <1>15, <2>2, <3>2, <3>4, <4>1
      <4> QED BY <1>3, <3>1, <3>6, <4>2
    <3>7. CASE v # e /\ v # f
      <4>1. r # x /\ r # y
        <5>1. v.id # e.id /\ v.id # f.id
          BY <1>0, <3>7 DEF Unique
        <5> QED BY <3>3, <5>1 DEF NameOf
      <4>2. a[2] \in 1 .. v.count
        BY <1>14, <2>2, <3>2, <3>3, <3>4, <4>1
      <4> QED BY <1>3, <3>1, <3>7, <4>2
    <3> QED BY <3>5, <3>6, <3>7
  <2>3. X \in SUBSET ((FTypes \X Nat) \X Nat)
    BY <1>0 DEF Attrs
  <2> QED BY <2>1, <2>2, <2>3 DEF Attrs
<1>21. Matched(W, E, L, X, n)
  BY <1>0, <1>6, <1>11, <1>17, <1>19, <1>20 DEF Matched
<1> QED BY <1>21 DEF G, x2, y2

\* An xattr_counter grows, with at most an attribute that it counts.
LEMMA CountName ==
  ASSUME NEW V, NEW D, NEW L, NEW X, NEW n, Matched(V, D, L, X, n),
         NEW e \in V, NEW x \in D, x.name = NameOf(e), NEW k \in Nat, k >= e.count,
         NEW j \in 1 .. k
  PROVE  Matched((V \ {e}) \cup {Counted(e, k)}, D, L, X \cup {<<x.ino, j>>}, n)
<1> DEFINE g == Counted(e, k)
           W == (V \ {e}) \cup {g}
           Y == X \cup {<<x.ino, j>>}
           H(v) == IF v = e THEN g ELSE v
<1>0. V \in SUBSET Recs /\ n \in Nat /\ Unique(V) /\ Forest(V) /\ Named(V, D)
      /\ Inodes(D, L, n) /\ Attrs(V, D, X, L)
  BY DEF Matched
<1>1. /\ g \in Recs /\ g.type = e.type /\ g.id = e.id /\ g.parent = e.parent /\ g.count = k
      /\ NameOf(g) = NameOf(e)
  BY <1>0 DEF Counted, Recs, NameOf
<1> HIDE DEF g
<1>2. ASSUME NEW v \in V
      PROVE  /\ H(v) \in W /\ H(v).type = v.type /\ H(v).id = v.id /\ H(v).parent = v.parent
             /\ NameOf(H(v)) = NameOf(v)
  BY <1>1
<1>3. ASSUME NEW w \in W PROVE \E v \in V : w = H(v)
  OBVIOUS
<1> HIDE DEF H
<1>4. Unique(W) /\ W \in SUBSET Recs
  <2>1. Unique(W)
    <3> SUFFICES ASSUME NEW u \in W, NEW w \in W, u.id = w.id PROVE u = w
      BY DEF Unique
    <3>1. PICK a \in V : u = H(a)
      BY <1>3
    <3>2. PICK b \in V : w = H(b)
      BY <1>3
    <3>3. a.id = b.id
      BY <1>2, <3>1, <3>2
    <3> QED BY <1>0, <3>1, <3>2, <3>3 DEF Unique
  <2> QED BY <1>0, <1>1, <2>1
<1>5. \A u \in DirsOf(V) : u \in V /\ H(u) \in DirsOf(W)
  BY <1>2 DEF DirsOf
<1>6. Ids(W) = Ids(V)
  <2>1. ASSUME NEW i \in Ids(W) PROVE i \in Ids(V)
    <3>1. PICK w \in DirsOf(W) : w.id = i
      BY DEF Ids
    <3>2. PICK v \in V : w = H(v)
      BY <1>3 DEF DirsOf
    <3>3. v \in DirsOf(V) /\ v.id = i
      BY <1>2, <3>1, <3>2 DEF DirsOf
    <3> QED BY <3>3 DEF Ids
  <2>2. ASSUME NEW i \in Ids(V) PROVE i \in Ids(W)
    <3>1. PICK u \in DirsOf(V) : u.id = i
      BY DEF Ids
    <3>2. H(u) \in DirsOf(W) /\ H(u).id = i
      BY <1>2, <1>5, <3>1
    <3> QED BY <3>2 DEF Ids
  <2> QED BY <2>1, <2>2
<1>7. Forest(W)
  <2>1. ASSUME NEW w \in W PROVE w.parent \in Ids(W) \cup {-1}
    <3>1. PICK v \in V : w = H(v)
      BY <1>3
    <3> QED BY <1>0, <1>2, <1>6, <3>1 DEF Forest
  <2>2. ASSUME NEW S \in SUBSET Ids(W), S # {}
        PROVE  \E u \in DirsOf(W) : u.id \in S /\ u.parent \notin S
    <3>1. PICK u \in DirsOf(V) : u.id \in S /\ u.parent \notin S
      BY <1>0, <1>6, <2>2 DEF Forest, Grounded
    <3> QED BY <1>2, <1>5, <3>1
  <2> QED BY <2>1, <2>2 DEF Forest, Grounded
<1>8. Named(W, D)
  <2>1. ASSUME NEW y \in D PROVE \E w \in W : y.name = NameOf(w)
    <3>1. PICK v \in V : y.name = NameOf(v)
      BY <1>0 DEF Named
    <3> QED BY <1>2, <3>1
  <2>2. ASSUME NEW w \in W PROVE \E y \in D : y.name = NameOf(w) /\ At(D, y.dir, w.parent)
    <3>1. PICK v \in V : w = H(v)
      BY <1>3
    <3> QED BY <1>0, <1>2, <3>1 DEF Named
  <2> QED BY <1>0, <2>1, <2>2 DEF Named
<1>9. Attrs(W, D, Y, L)
  <2>1. Y \in SUBSET ((FTypes \X Nat) \X Nat)
    <3>1. x.ino \in FTypes \X Nat
      BY <1>0 DEF Named, DirentRec
    <3> QED BY <1>0, <3>1 DEF Attrs
  <2>2. \A a \in Y : \E z \in D : z.ino = a[1]
    BY <1>0 DEF Attrs
  <2>3. ASSUME NEW w \in W, NEW z \in D, NEW a \in Y,
               z.name = NameOf(w), z.ino \notin L, a[1] = z.ino
        PROVE  a[2] \in 1 .. w.count
    <3>1. PICK v \in V : w = H(v)
      BY <1>3
    <3>2. z.name = NameOf(v)
      BY <1>2, <2>3, <3>1
    <3>3. v.count \in Nat /\ (v = e => w.count = k) /\ (v # e => w.count = v.count)
      BY <1>0, <1>1, <3>1 DEF H, Recs
    <3>4. CASE a \in X
      <4>1. a[2] \in 1 .. v.count
        BY <1>0, <2>3, <3>2, <3>4 DEF Attrs
      <4> QED BY <3>3, <4>1
    <3>5. CASE a = <<x.ino, j>>
      <4>1. z = x
        BY <1>0, <2>3, <3>5 DEF Inodes
      <4>2. v.id = e.id
        BY <3>2, <4>1 DEF NameOf
      <4>3. v = e
        BY <1>0, <4>2 DEF Unique
      <4> QED BY <3>3, <3>5, <4>3
    <3> QED BY <3>4, <3>5
  <2> QED BY <2>1, <2>2, <2>3 DEF Attrs
<1>10. Matched(W, D, L, Y, n)
  BY <1>0, <1>4, <1>7, <1>8, <1>9 DEF Matched
<1> QED BY <1>10 DEF g

\* Fewer attributes and more numbers do no harm.
LEMMA MatchedKept ==
  ASSUME NEW V, NEW D, NEW L, NEW X, NEW n, Matched(V, D, L, X, n),
         NEW Y \in SUBSET X, NEW m \in Nat, n <= m
  PROVE  Matched(V, D, L, Y, m)
<1>1. n \in Nat /\ Named(V, D) /\ Inodes(D, L, n) /\ Attrs(V, D, X, L)
  BY DEF Matched
<1>2. Inodes(D, L, m)
  <2>1. \A x \in D : x.ino[2] \in Nat /\ x.name[2] \in Nat
    BY <1>1 DEF Named, DirentRec
  <2> QED BY <1>1, <2>1 DEF Inodes
<1>3. Attrs(V, D, Y, L)
  BY <1>1 DEF Attrs
<1> QED BY <1>2, <1>3 DEF Matched

-----------------------------------------------------------------------------
(* The invariant.                                                          *)

LInv == /\ flist \in FLists /\ Apart(flist) /\ dcache \in Caches
        /\ Matched(View(flist), dirents, linked, xattrs, nameseq)
        /\ nameseq <= MaxNames /\ \A t \in FTypes : Len(flist[t]) <= nameseq
        /\ cwd = Top

\* A step keeps the cache current.
CacheKept == CurrentIn(flist, dcache) => CurrentIn(flist', dcache')

\* Current() is CurrentIn() of the lists as they are.
LEMMA CurrentSame ==
  ASSUME NEW c
  PROVE  Current(c) <=> CurrentIn(flist, c)
BY DEF Current, CurrentIn, Slots, Dirs

\* The invariant has the lists a tree.
LEMMA InvTree ==
  ASSUME LInv
  PROVE  Tree
<1>1. Listed /\ Slotted
  BY DEF LInv, Listed, FLists, Slotted, Apart, Slots
<1> QED BY <1>1 DEF LInv, Matched, Tree

\* The first three parts of the invariant are what a step has to establish of
\* the lists and the cache.
LEMMA InvStep ==
  ASSUME flist' \in FLists, Apart(flist'), dcache' \in Caches,
         Matched(View(flist'), dirents', linked', xattrs', nameseq'),
         nameseq' <= MaxNames, \A t \in FTypes : Len(flist'[t]) <= nameseq',
         cwd' = Top
  PROVE  LInv'
BY DEF LInv

\* An entry that get_fname() may choose.
LEMMA Chosen ==
  ASSUME LInv, NEW which \in SUBSET FTypes, NEW p \in get_fname(which)
  PROVE  /\ p[1] \in FTypes /\ p[1] \in which /\ p[2] \in Slots(p[1])
         /\ p[2] \in 1 .. Len(flist[p[1]]) /\ Ent(p) = flist[p[1]][p[2]]
BY DEF get_fname, Ent, Slots

\* Nothing but the cache and the number of the next name has changed.
LEMMA QuietStep ==
  ASSUME LInv, UNCHANGED <<flist, dirents, linked>>, xattrs' \in SUBSET xattrs,
         nameseq' = nameseq \/ nameseq' = nameseq + 1, nameseq' <= MaxNames,
         dcache' \in Caches, CurrentIn(flist, dcache) => CurrentIn(flist, dcache'), cwd' = Top
  PROVE  LInv' /\ CacheKept
<1>1. nameseq \in Nat
  BY DEF LInv, Matched
<1>2. nameseq' \in Nat /\ nameseq <= nameseq'
  BY <1>1
<1>3. Matched(View(flist), dirents, linked, xattrs', nameseq')
  <2>1. Matched(View(flist), dirents, linked, xattrs, nameseq)
    BY DEF LInv
  <2> QED BY <1>2, <2>1, MatchedKept
<1>4. \A t \in FTypes : Len(flist[t]) <= nameseq'
  <2>1. \A t \in FTypes : Len(flist[t]) \in Nat
    BY ListSlot DEF LInv
  <2> QED BY <1>1, <1>2, <2>1 DEF LInv
<1>5. LInv'
  BY <1>3, <1>4, InvStep DEF LInv
<1> QED BY <1>5 DEF CacheKept

\* No call that walks to an entry and changes nothing moves the process.
LEMMA QuietHome ==
  ASSUME LInv, NEW path, path # <<>>, Way(path, Len(path) - 1)
  PROVE  ChdirBack(dirents, path) \subseteq {Top}
<1>1. Untouched(dirents, path, Len(path) - 1)
  BY DEF Untouched
<1> QED BY <1>1, InvTree, WayHome DEF LInv

\* The path of an entry that is chosen.
LEMMA ChosenPath ==
  ASSUME LInv, NEW c \in Caches, NEW t \in FTypes, NEW s \in Slots(t)
  PROVE  LET e == flist[t][s]
             f == fent_to_name(c, t, e)
             n == Len(f.path) - 1
             v == Rec(t, e)
         IN /\ f.cache \in Caches /\ (CurrentIn(flist, c) => CurrentIn(flist, f.cache))
            /\ v \in View(flist) /\ v.type = t /\ v.id = e.id /\ v.parent = e.parent
            /\ v.count = e.xattr_counter
            /\ Way(f.path, n) /\ f.path # <<>>
            /\ ChdirBack(dirents, f.path) \subseteq {Top}
            /\ \E x \in dirents :
                 /\ x.name = NameOf(v) /\ At(dirents, x.dir, v.parent)
                 /\ Resolve(Top, f.path) = x.ino /\ Resolve(Top, Front(f.path)) = x.dir
                 /\ x = Dirent(x.dir, t, e.id, x.ino)
                 /\ x.dir = Spots(f.path)[n]
                 /\ \A k \in 1 .. n : Spots(f.path)[k] # x.ino
<1> DEFINE e == flist[t][s]
           f == fent_to_name(c, t, e)
           n == Len(f.path) - 1
           v == Rec(t, e)
<1>1. Tree
  BY InvTree
<1>2. f.cache \in Caches /\ (Current(c) => Current(f.cache))
  BY <1>1, EntryPath
<1>3. PICK x \in dirents :
        /\ x.name = <<t, e.id>> /\ At(dirents, x.dir, e.parent)
        /\ Resolve(Top, f.path) = x.ino /\ Resolve(Top, Front(f.path)) = x.dir
        /\ Way(f.path, n) /\ x.dir = Spots(f.path)[n] /\ f.path # <<>>
        /\ \A k \in 1 .. n : Spots(f.path)[k] # x.ino
  BY <1>1, EntryFile
<1>4. v \in View(flist)
  BY <1>1, EntryRecord DEF Tree
<1>5. v.type = t /\ v.id = e.id /\ v.parent = e.parent /\ v.count = e.xattr_counter
  BY DEF Rec
<1> HIDE DEF f, e, v
<1>6. ChdirBack(dirents, f.path) \subseteq {Top}
  BY <1>3, QuietHome
<1>7. x = Dirent(x.dir, t, e.id, x.ino)
  <2>1. x \in DirentRec
    BY <1>1 DEF Tree, Named
  <2>2. x.name = <<t, e.id>>
    BY <1>3
  <2> QED BY <2>1, <2>2 DEF DirentRec, Dirent
<1>8. x.name = NameOf(v)
  BY <1>3, <1>5 DEF NameOf
<1>9. /\ f.cache \in Caches /\ (CurrentIn(flist, c) => CurrentIn(flist, f.cache))
      /\ v \in View(flist) /\ v.type = t /\ v.id = e.id /\ v.parent = e.parent
      /\ v.count = e.xattr_counter
      /\ Way(f.path, n) /\ f.path # <<>>
      /\ ChdirBack(dirents, f.path) \subseteq {Top}
      /\ \E z \in dirents :
           /\ z.name = NameOf(v) /\ At(dirents, z.dir, v.parent)
           /\ Resolve(Top, f.path) = z.ino /\ Resolve(Top, Front(f.path)) = z.dir
           /\ z = Dirent(z.dir, t, e.id, z.ino)
           /\ z.dir = Spots(f.path)[n]
           /\ \A k \in 1 .. n : Spots(f.path)[k] # z.ino
  <2>1. At(dirents, x.dir, v.parent)
    BY <1>3, <1>5
  <2> HIDE DEF n
  <2> QED BY <1>2, <1>3, <1>4, <1>5, <1>6, <1>7, <1>8, <2>1, CurrentSame
<1> QED BY <1>9 DEF e, f, v

\* What is known of the path f of entry e (record v) in slot s, built with cache c.
PathKnown(c, t, s, e, f, v) ==
  /\ f.cache \in Caches /\ (CurrentIn(flist, c) => CurrentIn(flist, f.cache))
  /\ v \in View(flist) /\ v.type = t /\ v.id = e.id /\ v.parent = e.parent
  /\ v.count = e.xattr_counter
  /\ Way(f.path, Len(f.path) - 1) /\ f.path # <<>>
  /\ ChdirBack(dirents, f.path) \subseteq {Top}
  /\ \E x \in dirents :
       /\ x.name = NameOf(v) /\ At(dirents, x.dir, v.parent)
       /\ Resolve(Top, f.path) = x.ino /\ Resolve(Top, Front(f.path)) = x.dir
       /\ x = Dirent(x.dir, t, e.id, x.ino)
       /\ x.dir = Spots(f.path)[Len(f.path) - 1]
       /\ \A k \in 1 .. Len(f.path) - 1 : Spots(f.path)[k] # x.ino

\* The same, with names for the entry, the result and the record.
LEMMA PathOfEntry ==
  ASSUME LInv, NEW c \in Caches, NEW t \in FTypes, NEW s \in Slots(t),
         NEW e, e = flist[t][s], NEW f, f = fent_to_name(c, t, e), NEW v, v = Rec(t, e)
  PROVE  PathKnown(c, t, s, e, f, v)
<1> DEFINE ee == flist[t][s]
           ff == fent_to_name(c, t, ee)
           vv == Rec(t, ee)
<1>1. PathKnown(c, t, s, ee, ff, vv)
  BY ChosenPath DEF PathKnown
<1>2. e = ee /\ f = ff /\ v = vv
  OBVIOUS
<1> HIDE DEF ee, ff, vv
<1>3. QED
  BY <1>1, <1>2

-----------------------------------------------------------------------------
(* The steps.                                                              *)

\* A call on one file that changes nothing.
LEMMA VisitStep ==
  ASSUME LInv, NEW which \in SUBSET FTypes, Visit(which),
         nameseq' = nameseq \/ nameseq' = nameseq + 1, nameseq' <= MaxNames
  PROVE  LInv' /\ CacheKept
<1>1. PICK p \in get_fname(which) :
        LET f == fent_to_name(dcache, p[1], Ent(p)) IN dcache' = f.cache /\ NoChange(f.path)
  BY DEF Visit
<1> DEFINE f == fent_to_name(dcache, p[1], Ent(p))
<1>2. p[1] \in FTypes /\ p[2] \in Slots(p[1]) /\ Ent(p) = flist[p[1]][p[2]]
  BY Chosen
<1>3. dcache \in Caches /\ cwd = Top
  BY DEF LInv
<1>4. /\ f.cache \in Caches /\ (CurrentIn(flist, dcache) => CurrentIn(flist, f.cache))
      /\ ChdirBack(dirents, f.path) \subseteq {Top}
  <2>1. f = fent_to_name(dcache, p[1], flist[p[1]][p[2]])
    BY <1>2
  <2> HIDE DEF f
  <2> QED BY <1>2, <1>3, <2>1, ChosenPath, ZenonT(60)
<1>5. /\ dcache' = f.cache /\ cwd' \in ChdirBack(dirents, f.path)
      /\ UNCHANGED <<flist, dirents, xattrs, linked>>
  BY <1>1 DEF NoChange, CwdAfter
<1> HIDE DEF f
<1>6. cwd' = Top /\ dcache' \in Caches /\ (CurrentIn(flist, dcache) => CurrentIn(flist, dcache'))
      /\ xattrs' \in SUBSET xattrs /\ UNCHANGED <<flist, dirents, linked>>
  BY <1>4, <1>5
<1> QED BY <1>6, QuietStep

\* The operations that leave names and lists alone.
LEMMA VisitSteps ==
  ASSUME LInv, DataOp \/ SyncOp \/ InodeOp \/ ReadlinkOp \/ GetdentsOp
  PROVE  LInv' /\ CacheKept
<1>1. nameseq' = nameseq /\ nameseq' <= MaxNames
  BY DEF DataOp, SyncOp, InodeOp, ReadlinkOp, GetdentsOp, Choose
<1>2. PICK which \in SUBSET FTypes : Visit(which)
  <2>1. /\ FT_REGFILE \in SUBSET FTypes /\ (FT_REGFILE \cup {"d"}) \in SUBSET FTypes
        /\ FTypes \in SUBSET FTypes /\ {"l"} \in SUBSET FTypes /\ {"d"} \in SUBSET FTypes
    BY DEF FT_REGFILE, FTypes
  <2> QED BY <2>1 DEF DataOp, SyncOp, InodeOp, ReadlinkOp, GetdentsOp
<1> QED BY <1>1, <1>2, VisitStep

\* Two files.
LEMMA RangeStep ==
  ASSUME LInv, RangeOp
  PROVE  LInv' /\ CacheKept
<1>1. PICK p, q \in get_fname({"f"}) :
        LET f == fent_to_name(dcache, "f", Ent(p))
            g == fent_to_name(f.cache, "f", Ent(q))
        IN /\ dcache' = g.cache
           /\ CwdAfter2(dirents, f.path, g.path)
           /\ UNCHANGED <<flist, dirents, xattrs, linked>>
  BY DEF RangeOp
<1> DEFINE f == fent_to_name(dcache, "f", Ent(p))
           g == fent_to_name(f.cache, "f", Ent(q))
<1>2. /\ p[2] \in Slots("f") /\ Ent(p) = flist["f"][p[2]]
      /\ q[2] \in Slots("f") /\ Ent(q) = flist["f"][q[2]] /\ "f" \in FTypes
  <2>1. {"f"} \in SUBSET FTypes
    BY DEF FTypes
  <2>2. p[1] = "f" /\ q[1] = "f"
    BY <2>1, Chosen
  <2> QED BY <2>1, <2>2, Chosen
<1>3. dcache \in Caches /\ cwd = Top
  BY DEF LInv
<1>4. /\ f.cache \in Caches /\ (CurrentIn(flist, dcache) => CurrentIn(flist, f.cache))
      /\ ChdirBack(dirents, f.path) \subseteq {Top}
  <2>1. f = fent_to_name(dcache, "f", flist["f"][p[2]])
    BY <1>2
  <2> HIDE DEF f
  <2> QED BY <1>2, <1>3, <2>1, ChosenPath, ZenonT(60)
<1>5. /\ dcache' = g.cache
      /\ cwd' \in ChdirBack(dirents, f.path) \cup ChdirBack(dirents, g.path)
      /\ UNCHANGED <<flist, dirents, xattrs, linked>>
  BY <1>1 DEF CwdAfter2
<1>6. nameseq' = nameseq /\ nameseq' <= MaxNames
  BY DEF RangeOp, Choose
<1> HIDE DEF f
<1>7. /\ g.cache \in Caches /\ (CurrentIn(flist, f.cache) => CurrentIn(flist, g.cache))
      /\ ChdirBack(dirents, g.path) \subseteq {Top}
  <2>1. g = fent_to_name(f.cache, "f", flist["f"][q[2]])
    BY <1>2
  <2> HIDE DEF g
  <2> QED BY <1>2, <1>3, <1>4, <2>1, ChosenPath, ZenonT(60)
<1> HIDE DEF g
<1>8. cwd' = Top /\ dcache' \in Caches /\ (CurrentIn(flist, dcache) => CurrentIn(flist, dcache'))
      /\ xattrs' \in SUBSET xattrs /\ UNCHANGED <<flist, dirents, linked>>
  BY <1>4, <1>5, <1>7
<1> QED BY <1>6, <1>8, QuietStep

\* attr_set_f(), which may find no entry to choose.
LEMMA AttrSetStep ==
  ASSUME LInv, attr_set_f
  PROVE  LInv' /\ CacheKept
<1>1. nameseq' = nameseq + 1 /\ nameseq' <= MaxNames
  BY DEF attr_set_f, Choose
<1>2. CASE Visit(FTypes)
  <2>1. FTypes \in SUBSET FTypes
    OBVIOUS
  <2> QED BY <1>1, <1>2, <2>1, VisitStep
<1>3. CASE UNCHANGED <<flist, dcache, dirents, xattrs, cwd, sets, linked>>
  <2>1. cwd' = Top /\ dcache' \in Caches /\ (CurrentIn(flist, dcache) => CurrentIn(flist, dcache'))
        /\ xattrs' \in SUBSET xattrs /\ UNCHANGED <<flist, dirents, linked>>
    BY <1>3 DEF LInv
  <2> QED BY <1>1, <2>1, QuietStep
<1> QED BY <1>2, <1>3 DEF attr_set_f

\* One attribute less.
LEMMA RemovefattrStep ==
  ASSUME LInv, removefattr_f
  PROVE  LInv' /\ CacheKept
<1> DEFINE which == FT_REGFILE \cup {"d"}
<1>1. which \in SUBSET FTypes
  BY DEF FT_REGFILE, FTypes
<1>2. PICK p \in get_fname(which) :
        /\ dcache' = fent_to_name(dcache, p[1], Ent(p)).cache
        /\ xattrs' \in SUBSET xattrs
        /\ UNCHANGED <<flist, dirents, cwd, linked>>
  BY DEF removefattr_f
<1> DEFINE f == fent_to_name(dcache, p[1], Ent(p))
<1>3. p[1] \in FTypes /\ p[2] \in Slots(p[1]) /\ Ent(p) = flist[p[1]][p[2]]
  BY <1>1, Chosen
<1>4. dcache \in Caches /\ cwd = Top
  BY DEF LInv
<1>5. f.cache \in Caches /\ (CurrentIn(flist, dcache) => CurrentIn(flist, f.cache))
  BY <1>3, <1>4, ChosenPath
<1>6. nameseq' = nameseq /\ nameseq' <= MaxNames
  BY DEF removefattr_f, Choose
<1>7. dcache' = f.cache
  BY <1>2
<1> HIDE DEF f
<1>8. cwd' = Top /\ dcache' \in Caches /\ (CurrentIn(flist, dcache) => CurrentIn(flist, dcache'))
  BY <1>2, <1>4, <1>5, <1>7
<1> QED BY <1>2, <1>6, <1>8, QuietStep

\* A setxattr() that fails.
LEMMA SetfattrFails ==
  ASSUME LInv, NEW p \in get_fname(FT_REGFILE \cup {"d"}), Choose(nameseq),
         dcache' = fent_to_name(dcache, p[1], Ent(p)).cache,
         UNCHANGED <<flist, xattrs, dirents, cwd, linked>>
  PROVE  LInv' /\ CacheKept
<1> DEFINE which == FT_REGFILE \cup {"d"}
           f == fent_to_name(dcache, p[1], Ent(p))
<1>1. which \in SUBSET FTypes
  BY DEF FT_REGFILE, FTypes
<1>2. p[1] \in FTypes /\ p[2] \in Slots(p[1]) /\ Ent(p) = flist[p[1]][p[2]]
  BY <1>1, Chosen
<1>3. dcache \in Caches /\ cwd = Top
  BY DEF LInv
<1>4. f.cache \in Caches /\ (CurrentIn(flist, dcache) => CurrentIn(flist, f.cache))
  BY <1>2, <1>3, ChosenPath
<1>5. nameseq' = nameseq /\ nameseq' <= MaxNames
  BY DEF Choose
<1>6. dcache' = f.cache
  OBVIOUS
<1> HIDE DEF f
<1>7. cwd' = Top /\ dcache' \in Caches /\ (CurrentIn(flist, dcache) => CurrentIn(flist, dcache'))
      /\ xattrs' \in SUBSET xattrs /\ UNCHANGED <<flist, dirents, linked>>
  BY <1>3, <1>4, <1>6
<1> QED BY <1>5, <1>7, QuietStep

\* One attribute and one call more.
LEMMA SetfattrSucceeds ==
  ASSUME LInv, setfattr_f, ~UNCHANGED <<flist, xattrs, sets>>
  PROVE  LInv' /\ CacheKept
<1> DEFINE which == FT_REGFILE \cup {"d"}
<1>1. which \in SUBSET FTypes
  BY DEF FT_REGFILE, FTypes
<1>2. PICK p \in get_fname(which) : \E flag \in {"none", "create", "replace"} :
        LET f == fent_to_name(dcache, p[1], Ent(p))
            n == Ent(p).xattr_counter
            i == Resolve(cwd, f.path)
        IN /\ dcache' = f.cache
           /\ \E num \in (IF flag = "create" THEN {} ELSE 1 .. n)
                    \cup (IF flag = "replace" THEN {} ELSE {n + 1}) :
                /\ i # NoInode
                /\ flag = "create" => <<i, num>> \notin xattrs
                /\ flag = "replace" => <<i, num>> \in xattrs
                /\ xattrs' = xattrs \cup {<<i, num>>}
           /\ flist' = [flist EXCEPT ![p[1]][p[2]].xattr_counter = n + 1]
           /\ sets' = sets + 1
           /\ UNCHANGED <<dirents, cwd, linked>>
  BY DEF setfattr_f
<1> DEFINE f == fent_to_name(dcache, p[1], Ent(p))
           n == Ent(p).xattr_counter
           e == flist[p[1]][p[2]]
           v == Rec(p[1], e)
<1>3. p[1] \in FTypes /\ p[2] \in Slots(p[1]) /\ Ent(p) = e /\ p[2] \in 1 .. Len(flist[p[1]])
  BY <1>1, Chosen
<1>4. dcache \in Caches /\ cwd = Top /\ flist \in FLists /\ Apart(flist)
  BY DEF LInv
<1>5. n \in Nat
  BY <1>3, <1>4, ListSlot
<1>6. PICK num \in 1 .. n + 1 : xattrs' = xattrs \cup {<<Resolve(cwd, f.path), num>>}
  BY <1>2, <1>5
<1>7. /\ dcache' = f.cache
      /\ flist' = [flist EXCEPT ![p[1]][p[2]].xattr_counter = n + 1]
      /\ UNCHANGED <<dirents, cwd, linked>>
  BY <1>2
<1>8. /\ f.cache \in Caches /\ (CurrentIn(flist, dcache) => CurrentIn(flist, f.cache))
      /\ v \in View(flist) /\ v.count = n
      /\ \E x \in dirents : x.name = NameOf(v) /\ Resolve(Top, f.path) = x.ino
  <2>1. f = fent_to_name(dcache, p[1], e)
    BY <1>3
  <2> HIDE DEF f, n
  <2> QED BY <1>3, <1>4, <2>1, ChosenPath DEF n
<1> HIDE DEF f, n, v, e
<1>9. PICK x \in dirents : x.name = NameOf(v) /\ Resolve(Top, f.path) = x.ino
  BY <1>8
<1>10. Matched(View(flist), dirents, linked, xattrs, nameseq)
  BY DEF LInv
<1>11. n + 1 \in Nat /\ n + 1 >= v.count
  BY <1>5, <1>8
<1>12. Matched((View(flist) \ {v}) \cup {Counted(v, n + 1)}, dirents, linked,
               xattrs \cup {<<x.ino, num>>}, nameseq)
  BY <1>8, <1>9, <1>10, <1>11, CountName
<1>13. /\ flist' \in FLists /\ SameIds(flist, flist')
       /\ View(flist') = (View(flist) \ {v}) \cup {Counted(v, n + 1)}
  <2> DEFINE fm == SetCount(flist, p[1], p[2], n + 1)
  <2>1. /\ fm \in FLists /\ SameIds(flist, fm)
        /\ View(fm) = (View(flist) \ {Rec(p[1], flist[p[1]][p[2]])})
                        \cup {Counted(Rec(p[1], flist[p[1]][p[2]]), n + 1)}
    BY <1>3, <1>4, <1>11, CountView
  <2>2. flist' = fm
    BY <1>7 DEF SetCount
  <2> HIDE DEF fm
  <2> QED BY <2>1, <2>2 DEF v, e
<1>14. Apart(flist')
  BY <1>4, <1>13, SameIdsApart
<1>15. nameseq' = nameseq /\ nameseq' <= MaxNames
  BY DEF setfattr_f, Choose
<1>16. \A t \in FTypes : Len(flist'[t]) <= nameseq'
  BY <1>13, <1>15 DEF SameIds, LInv
<1>17. Matched(View(flist'), dirents', linked', xattrs', nameseq')
  BY <1>4, <1>6, <1>7, <1>9, <1>12, <1>13, <1>15
<1>18. LInv'
  <2>1. dcache' \in Caches /\ cwd' = Top
    BY <1>4, <1>7, <1>8
  <2> QED BY <1>13, <1>14, <1>15, <1>16, <1>17, <2>1, InvStep
<1>19. CacheKept
  <2>1. "d" \in FTypes
    BY DEF FTypes
  <2>2. Len(flist'["d"]) = Len(flist["d"])
        /\ \A s \in 1 .. Len(flist["d"]) : flist'["d"][s].id = flist["d"][s].id
    BY <1>13, <2>1 DEF SameIds
  <2>3. Len(flist["d"]) \in Nat
    BY <1>4, <2>1, ListSlot
  <2> SUFFICES ASSUME CurrentIn(flist, dcache') PROVE CurrentIn(flist', dcache')
    BY <1>7, <1>8 DEF CacheKept
  <2> QED BY <1>4, <1>13, <2>2, <2>3, CurrentKept
<1> QED BY <1>18, <1>19

\* setfattr_f() succeeds or does not.
LEMMA SetfattrStep ==
  ASSUME LInv, setfattr_f
  PROVE  LInv' /\ CacheKept
<1>1. CASE UNCHANGED <<flist, xattrs, sets>>
  <2>1. PICK p \in get_fname(FT_REGFILE \cup {"d"}) :
          /\ dcache' = fent_to_name(dcache, p[1], Ent(p)).cache
          /\ UNCHANGED <<dirents, cwd, linked>>
    BY DEF setfattr_f
  <2>2. Choose(nameseq)
    BY DEF setfattr_f
  <2> QED BY <1>1, <2>1, <2>2, SetfattrFails
<1> QED BY <1>1, SetfattrSucceeds

\* Lists with a new entry.
LEMMA AddedEntry ==
  ASSUME NEW fl \in FLists, Apart(fl), NEW n \in Nat, \A v \in View(fl) : v.id # n,
         \A t \in FTypes : Len(fl[t]) <= n,
         NEW t \in FTypes, NEW q \in Nat \cup {-1}, NEW k \in Nat
  PROVE  LET fm == add_to_flist(fl, t, NewEntry(n, q, k)) IN
         /\ fm \in FLists /\ Apart(fm)
         /\ View(fm) = View(fl) \cup {NewRec(t, n, q, k)}
         /\ \A r \in FTypes : Len(fm[r]) <= n + 1
         /\ \A c : CurrentIn(fl, c) => CurrentIn(fm, c)
<1> DEFINE e == NewEntry(n, q, k)
           fm == add_to_flist(fl, t, e)
<1>1. e \in EntryRec /\ e.id = n /\ Rec(t, e) = NewRec(t, n, q, k)
  BY DEF NewEntry, EntryRec, Rec, NewRec
<1> HIDE DEF e
<1>2. /\ fm \in FLists /\ View(fm) = View(fl) \cup {Rec(t, e)} /\ Apart(fm)
      /\ Len(fm[t]) = Len(fl[t]) + 1
      /\ \A r \in FTypes : /\ r # t => fm[r] = fl[r]
                           /\ \A s \in 1 .. Len(fl[r]) : fm[r][s] = fl[r][s]
  BY <1>1, AddView
<1> HIDE DEF fm
<1>3. \A r \in FTypes : Len(fl[r]) \in Nat
  BY ListSlot
<1>4. \A r \in FTypes : Len(fm[r]) <= n + 1 /\ Len(fl[r]) <= Len(fm[r])
  BY <1>2, <1>3
<1>5. ASSUME NEW c, CurrentIn(fl, c) PROVE CurrentIn(fm, c)
  <2>1. /\ Len(fl["d"]) <= Len(fm["d"])
        /\ \A s \in 1 .. Len(fl["d"]) : fm["d"][s].id = fl["d"][s].id
    BY <1>2, <1>4 DEF FTypes
  <2> QED BY <1>2, <1>5, <2>1, CurrentKept
<1> QED BY <1>1, <1>2, <1>4, <1>5 DEF e, fm

\* A new name moves nobody on a way: its inode is new or that of a file.
LEMMA AddHome ==
  ASSUME LInv, NEW path, path # <<>>, Way(path, Len(path) - 1),
         NEW x, x.ino[1] # "d" \/ x.ino[2] = nameseq
  PROVE  ChdirBack(dirents \cup {x}, path) \subseteq {Top}
<1>1. Tree /\ cwd = Top /\ nameseq \in Nat
  BY InvTree DEF LInv, Matched
<1>2. \A k \in 1 .. Len(path) - 1 : Spots(path)[k][1] = "d" /\ Spots(path)[k][2] < nameseq
  BY <1>1, WayDirent
<1>3. Untouched(dirents \cup {x}, path, Len(path) - 1)
  BY <1>1, <1>2 DEF Untouched
<1> QED BY <1>1, <1>3, WayHome

\* The path of a new name below a directory that may be chosen.
LEMMA ChosenNew ==
  ASSUME LInv, NEW c \in Caches, NEW s \in NewParents, NEW t \in FTypes
  PROVE  LET g == generate_fname(c, s)
             n == Len(g.path)
             d == Resolve(Top, g.path)
             path == Child(g.path, t, nameseq)
         IN /\ g.cache \in Caches /\ (CurrentIn(flist, c) => CurrentIn(flist, g.cache))
            /\ ParentId(s) \in Ids(View(flist)) \cup {-1} /\ ParentId(s) \in Nat \cup {-1}
            /\ d \in FTypes \X Int /\ At(dirents, d, ParentId(s))
            /\ path # <<>> /\ Way(path, Len(path) - 1)
            /\ Spots(path)[Len(path) - 1] = d
            /\ ParentId(s) \in OnWay(path, Len(path) - 1) \cup {-1}
<1> DEFINE g == generate_fname(c, s)
           n == Len(g.path)
           d == Resolve(Top, g.path)
           path == Child(g.path, t, nameseq)
<1>1. Tree
  BY InvTree
<1>2. /\ g.cache \in Caches /\ (Current(c) => Current(g.cache))
      /\ Way(g.path, n) /\ d = Spots(g.path)[n]
      /\ At(dirents, d, ParentId(s))
      /\ ParentId(s) = IF n = 0 THEN -1 ELSE g.path[n][2]
      /\ ParentId(s) \in Ids(View(flist)) \cup {-1}
      /\ d \in FTypes \X Int
  BY <1>1, NewPath
<1> HIDE DEF g, d
<1>3. nameseq \in Int /\ n \in Nat
  <2>1. n \in Nat
    BY <1>2 DEF Way
  <2> QED BY <1>1, <2>1 DEF Tree
<1>4. /\ path # <<>> /\ Len(path) - 1 = n /\ Way(path, Len(path) - 1)
      /\ \A k \in 0 .. n : Spots(path)[k] = Spots(g.path)[k]
  BY <1>1, <1>2, <1>3, ChildWay
<1>5. ParentId(s) \in Nat \cup {-1}
  <2>1. \A v \in View(flist) : v.id \in Nat
    BY ViewSlot DEF Recs
  <2> QED BY <1>2, <2>1 DEF Ids, DirsOf
<1>6. \A k \in 1 .. n : path[k] = g.path[k]
  <2>1. g.path \in Seq(Names)
    BY <1>2 DEF Way
  <2> QED BY <1>3, <2>1 DEF Child
<1>7. ParentId(s) \in OnWay(path, n) \cup {-1}
  <2>1. n # 0 => n \in 1 .. n
    BY <1>3
  <2> HIDE DEF n, path
  <2> QED BY <1>2, <1>6, <2>1 DEF OnWay
<1>8. Spots(path)[Len(path) - 1] = d
  <2>1. n \in 0 .. n
    BY <1>3
  <2> HIDE DEF n, path
  <2> QED BY <1>2, <1>4, <2>1
<1> HIDE DEF n, path
<1>9. /\ g.cache \in Caches /\ (CurrentIn(flist, c) => CurrentIn(flist, g.cache))
      /\ ParentId(s) \in Ids(View(flist)) \cup {-1} /\ ParentId(s) \in Nat \cup {-1}
      /\ d \in FTypes \X Int /\ At(dirents, d, ParentId(s))
      /\ path # <<>> /\ Way(path, Len(path) - 1)
      /\ Spots(path)[Len(path) - 1] = d
      /\ ParentId(s) \in OnWay(path, Len(path) - 1) \cup {-1}
  BY <1>2, <1>4, <1>5, <1>7, <1>8, CurrentSame
<1> QED BY <1>9 DEF g, d, n, path

\* Nothing has the number of the next name.
LEMMA FreshId ==
  ASSUME LInv
  PROVE  /\ nameseq \in Nat /\ \A v \in View(flist) : v.id # nameseq
         /\ \A x \in dirents : x.ino[2] # nameseq /\ x.ino \in FTypes \X Nat
<1>1. Matched(View(flist), dirents, linked, xattrs, nameseq) /\ nameseq \in Nat
  BY DEF LInv, Matched
<1>2. \A v \in View(flist) : v.id \in Nat /\ v.id < nameseq
  BY <1>1, IdsBelow
<1>3. \A x \in dirents : x.ino[2] < nameseq /\ x.ino \in FTypes \X Nat
  BY <1>1 DEF Matched, Inodes, Named, DirentRec
<1> QED BY <1>1, <1>2, <1>3

\* A new name of type t.
LEMMA NewNameStep ==
  ASSUME LInv, NEW t \in FTypes, NewName(t)
  PROVE  LInv' /\ CacheKept
<1>1. nameseq' = nameseq + 1 /\ nameseq' <= MaxNames
  BY DEF NewName, Choose
<1>2. PICK s \in NewParents :
        LET g    == generate_fname(dcache, s)
            d    == Resolve(cwd, g.path)
            path == Child(g.path, t, nameseq)
        IN /\ dcache' = g.cache
           /\ \/ NoChange(path)
              \/ /\ d[1] = "d"
                 /\ dirents' = dirents \cup {Dirent(d, t, nameseq, <<t, nameseq>>)}
                 /\ flist' = add_to_flist(flist, t, NewEntry(nameseq, ParentId(s), 0))
                 /\ CwdAfter(dirents', path)
                 /\ UNCHANGED <<xattrs, sets, linked>>
  BY DEF NewName
<1> DEFINE g    == generate_fname(dcache, s)
           d    == Resolve(Top, g.path)
           path == Child(g.path, t, nameseq)
           q    == ParentId(s)
           x    == Dirent(d, t, nameseq, <<t, nameseq>>)
<1>3. dcache \in Caches /\ cwd = Top /\ flist \in FLists /\ Apart(flist)
      /\ Matched(View(flist), dirents, linked, xattrs, nameseq)
      /\ \A r \in FTypes : Len(flist[r]) <= nameseq
  BY DEF LInv
<1>4. /\ g.cache \in Caches /\ (CurrentIn(flist, dcache) => CurrentIn(flist, g.cache))
      /\ q \in Ids(View(flist)) \cup {-1} /\ q \in Nat \cup {-1}
      /\ d \in FTypes \X Int /\ At(dirents, d, q)
      /\ path # <<>> /\ Way(path, Len(path) - 1)
  BY <1>3, ChosenNew
<1>5. dcache' = g.cache
  BY <1>2
<1>6. nameseq \in Nat /\ (\A v \in View(flist) : v.id # nameseq)
      /\ \A y \in dirents : y.ino[2] # nameseq
  BY FreshId
<1>7. \/ NoChange(path)
      \/ /\ dirents' = dirents \cup {x}
         /\ flist' = add_to_flist(flist, t, NewEntry(nameseq, q, 0))
         /\ CwdAfter(dirents', path)
         /\ UNCHANGED <<xattrs, sets, linked>>
  BY <1>2, <1>3
<1> HIDE DEF g, d, path, q
<1>8. CASE NoChange(path)
  <2>1. UNCHANGED <<flist, dirents, xattrs, linked>> /\ cwd' \in ChdirBack(dirents, path)
    BY <1>8 DEF NoChange, CwdAfter
  <2>2. cwd' = Top
    BY <1>4, <2>1, QuietHome
  <2> QED BY <1>1, <1>4, <1>5, <2>1, <2>2, QuietStep
<1>9. CASE /\ dirents' = dirents \cup {x}
           /\ flist' = add_to_flist(flist, t, NewEntry(nameseq, q, 0))
           /\ CwdAfter(dirents', path)
           /\ UNCHANGED <<xattrs, sets, linked>>
  <2>1. /\ flist' \in FLists /\ Apart(flist')
        /\ View(flist') = View(flist) \cup {NewRec(t, nameseq, q, 0)}
        /\ \A r \in FTypes : Len(flist'[r]) <= nameseq + 1
        /\ \A c : CurrentIn(flist, c) => CurrentIn(flist', c)
    <3> DEFINE fm == add_to_flist(flist, t, NewEntry(nameseq, q, 0))
    <3>1. /\ fm \in FLists /\ Apart(fm)
          /\ View(fm) = View(flist) \cup {NewRec(t, nameseq, q, 0)}
          /\ \A r \in FTypes : Len(fm[r]) <= nameseq + 1
          /\ \A c : CurrentIn(flist, c) => CurrentIn(fm, c)
      <4> HIDE DEF fm
      <4>1. 0 \in Nat
        OBVIOUS
      <4> QED BY <1>3, <1>4, <1>6, <4>1, AddedEntry DEF fm
    <3>2. flist' = fm
      BY <1>9
    <3> HIDE DEF fm
    <3> QED BY <3>1, <3>2
  <2>2. Matched(View(flist) \cup {NewRec(t, nameseq, q, 0)}, dirents \cup {x}, linked, xattrs,
                nameseq + 1)
    <3> DEFINE i == <<t, nameseq>>
    <3>1. i \in FTypes \X Nat /\ i[1] = t /\ i[2] <= nameseq /\ \A y \in dirents : y.ino # i
      BY <1>6
    <3> HIDE DEF i
    <3>2. linked \subseteq linked /\ 0 \in Nat
      OBVIOUS
    <3>3. Matched(View(flist) \cup {NewRec(t, nameseq, q, 0)},
                  dirents \cup {Dirent(d, t, nameseq, i)}, linked, xattrs, nameseq + 1)
      BY <1>3, <1>4, <3>1, <3>2, AddName
    <3> QED BY <3>3 DEF i
  <2>3. x.ino[2] = nameseq
    BY DEF Dirent
  <2> HIDE DEF x
  <2>4. cwd' = Top
    <3>1. ChdirBack(dirents \cup {x}, path) \subseteq {Top}
      BY <1>4, <2>3, AddHome
    <3> QED BY <1>9, <3>1 DEF CwdAfter
  <2>5. Matched(View(flist'), dirents', linked', xattrs', nameseq')
    BY <1>1, <1>9, <2>1, <2>2
  <2>6. LInv'
    BY <1>1, <1>4, <1>5, <2>1, <2>4, <2>5, InvStep
  <2>7. CacheKept
    BY <1>4, <1>5, <2>1 DEF CacheKept
  <2> QED BY <2>6, <2>7
<1> QED BY <1>7, <1>8, <1>9

\* A second name for a file.
LEMMA LinkStep ==
  ASSUME LInv, link_f
  PROVE  LInv' /\ CacheKept
<1>1. nameseq' = nameseq + 1 /\ nameseq' <= MaxNames
  BY DEF link_f, Choose
<1>2. PICK p \in get_fname(FT_NOTDIR), s \in NewParents :
        LET f    == fent_to_name(dcache, p[1], Ent(p))
            g    == generate_fname(f.cache, s)
            d    == Resolve(cwd, g.path)
            i    == Resolve(cwd, f.path)
            path == Child(g.path, p[1], nameseq)
        IN /\ dcache' = g.cache
           /\ \/ /\ CwdAfter2(dirents, f.path, path)
                 /\ UNCHANGED <<flist, dirents, xattrs, sets, linked>>
              \/ /\ d[1] = "d" /\ i # NoInode
                 /\ dirents' = dirents \cup {Dirent(d, p[1], nameseq, i)}
                 /\ linked' = linked \cup {i}
                 /\ flist' = add_to_flist(flist, p[1],
                               NewEntry(nameseq, ParentId(s), Ent(p).xattr_counter))
                 /\ CwdAfter2(dirents', f.path, path)
                 /\ UNCHANGED <<xattrs, sets>>
  BY DEF link_f
<1> DEFINE t    == p[1]
           e    == flist[t][p[2]]
           f    == fent_to_name(dcache, t, e)
           g    == generate_fname(f.cache, s)
           d    == Resolve(Top, g.path)
           i    == Resolve(Top, f.path)
           path == Child(g.path, t, nameseq)
           q    == ParentId(s)
           k    == e.xattr_counter
           x    == Dirent(d, t, nameseq, i)
<1>3. t \in FTypes /\ t # "d" /\ p[2] \in Slots(t) /\ Ent(p) = e
  <2>1. FT_NOTDIR \in SUBSET FTypes /\ "d" \notin FT_NOTDIR
    BY DEF FT_NOTDIR
  <2> QED BY <2>1, Chosen
<1>4. dcache \in Caches /\ cwd = Top /\ flist \in FLists /\ Apart(flist)
      /\ Matched(View(flist), dirents, linked, xattrs, nameseq)
      /\ \A r \in FTypes : Len(flist[r]) <= nameseq
  BY DEF LInv
<1>5. /\ dcache' = g.cache
      /\ \/ /\ CwdAfter2(dirents, f.path, path)
            /\ UNCHANGED <<flist, dirents, xattrs, sets, linked>>
         \/ /\ dirents' = dirents \cup {x}
            /\ linked' = linked \cup {i}
            /\ flist' = add_to_flist(flist, t, NewEntry(nameseq, q, k))
            /\ CwdAfter2(dirents', f.path, path)
            /\ UNCHANGED <<xattrs, sets>>
  BY <1>2, <1>3, <1>4
<1>6. /\ f.cache \in Caches /\ (CurrentIn(flist, dcache) => CurrentIn(flist, f.cache))
      /\ Way(f.path, Len(f.path) - 1) /\ f.path # <<>>
      /\ ChdirBack(dirents, f.path) \subseteq {Top}
      /\ \E y \in dirents : /\ y.name = NameOf(Rec(t, e)) /\ i = y.ino
                            /\ Rec(t, e).type = t
  <2> DEFINE s2 == p[2]
             v  == Rec(t, e)
  <2>1. s2 \in Slots(t) /\ t \in FTypes /\ dcache \in Caches
    BY <1>3, <1>4
  <2>2. e = flist[t][s2] /\ f = fent_to_name(dcache, t, e) /\ v = Rec(t, e)
        /\ i = Resolve(Top, f.path)
    OBVIOUS
  <2> HIDE DEF t, e, f, s2, i
  <2>3. v = Rec(t, e)
    OBVIOUS
  <2> HIDE DEF v
  <2>4. PathKnown(dcache, t, s2, e, f, v)
    BY <2>1, <2>2, <2>3, PathOfEntry
  <2> QED BY <2>2, <2>3, <2>4 DEF PathKnown
<1>7. k \in Nat
  BY <1>3, EntryRecord, InvTree DEF Tree
<1> HIDE DEF t, e, f, i, k
<1>8. /\ g.cache \in Caches /\ (CurrentIn(flist, f.cache) => CurrentIn(flist, g.cache))
      /\ q \in Ids(View(flist)) \cup {-1} /\ q \in Nat \cup {-1}
      /\ d \in FTypes \X Int /\ At(dirents, d, q)
      /\ path # <<>> /\ Way(path, Len(path) - 1)
  BY <1>3, <1>6, ChosenNew
<1> HIDE DEF g, d, path, q
<1>9. i \in FTypes \X Nat /\ i[1] = t /\ i[2] <= nameseq
  <2>1. PICK y \in dirents : y.name = NameOf(Rec(t, e)) /\ i = y.ino /\ Rec(t, e).type = t
    BY <1>6
  <2>2. y.name[1] = t
    BY <2>1 DEF NameOf
  <2>3. Inodes(dirents, linked, nameseq) /\ Named(View(flist), dirents) /\ nameseq \in Nat
    BY <1>4 DEF Matched
  <2>4. y.ino \in FTypes \X Nat
    BY <2>3 DEF Named, DirentRec
  <2> QED BY <2>1, <2>2, <2>3, <2>4 DEF Inodes
<1>10. nameseq \in Nat /\ (\A v \in View(flist) : v.id # nameseq)
  BY FreshId
<1>11. CASE /\ CwdAfter2(dirents, f.path, path)
            /\ UNCHANGED <<flist, dirents, xattrs, sets, linked>>
  <2>1. cwd' = Top
    BY <1>6, <1>8, <1>11, QuietHome DEF CwdAfter2
  <2>2. dcache' \in Caches /\ (CurrentIn(flist, dcache) => CurrentIn(flist, dcache'))
    BY <1>5, <1>6, <1>8
  <2> QED BY <1>1, <1>11, <2>1, <2>2, QuietStep
<1>12. CASE /\ dirents' = dirents \cup {x}
            /\ linked' = linked \cup {i}
            /\ flist' = add_to_flist(flist, t, NewEntry(nameseq, q, k))
            /\ CwdAfter2(dirents', f.path, path)
            /\ UNCHANGED <<xattrs, sets>>
  <2>1. /\ flist' \in FLists /\ Apart(flist')
        /\ View(flist') = View(flist) \cup {NewRec(t, nameseq, q, k)}
        /\ \A r \in FTypes : Len(flist'[r]) <= nameseq + 1
        /\ \A c : CurrentIn(flist, c) => CurrentIn(flist', c)
    <3> DEFINE fm == add_to_flist(flist, t, NewEntry(nameseq, q, k))
    <3>1. /\ fm \in FLists /\ Apart(fm)
          /\ View(fm) = View(flist) \cup {NewRec(t, nameseq, q, k)}
          /\ \A r \in FTypes : Len(fm[r]) <= nameseq + 1
          /\ \A c : CurrentIn(flist, c) => CurrentIn(fm, c)
      <4> HIDE DEF fm
      <4> QED BY <1>3, <1>4, <1>7, <1>8, <1>10, AddedEntry DEF fm
    <3>2. flist' = fm
      BY <1>12
    <3> HIDE DEF fm
    <3> QED BY <3>1, <3>2
  <2>2. Matched(View(flist) \cup {NewRec(t, nameseq, q, k)}, dirents \cup {x},
                linked \cup {i}, xattrs, nameseq + 1)
    <3>1. linked \subseteq linked \cup {i} /\ \A y \in dirents : y.ino = i => i \in linked \cup {i} /\ t # "d"
      BY <1>3
    <3>2. Matched(View(flist) \cup {NewRec(t, nameseq, q, k)},
                  dirents \cup {Dirent(d, t, nameseq, i)}, linked \cup {i}, xattrs, nameseq + 1)
      BY <1>3, <1>4, <1>7, <1>8, <1>9, <3>1, AddName
    <3> QED BY <3>2
  <2>3. x.ino[1] # "d"
    BY <1>3, <1>9 DEF Dirent
  <2> HIDE DEF x
  <2>4. cwd' = Top
    <3>1. ChdirBack(dirents \cup {x}, path) \subseteq {Top}
      BY <1>8, <2>3, AddHome
    <3>2. ChdirBack(dirents \cup {x}, f.path) \subseteq {Top}
      BY <1>6, <2>3, AddHome
    <3> QED BY <1>12, <3>1, <3>2 DEF CwdAfter2
  <2>5. Matched(View(flist'), dirents', linked', xattrs', nameseq')
    BY <1>1, <1>12, <2>1, <2>2
  <2>6. LInv'
    BY <1>1, <1>5, <1>8, <2>1, <2>4, <2>5, InvStep
  <2>7. CacheKept
    BY <1>5, <1>6, <1>8, <2>1 DEF CacheKept
  <2> QED BY <2>6, <2>7
<1> QED BY <1>5, <1>11, <1>12

\* The tree without the dirent of an entry: nobody is below it on the way.
LEMMA DropHome ==
  ASSUME LInv, NEW path, path # <<>>, Way(path, Len(path) - 1), NEW x,
         \A k \in 1 .. Len(path) - 1 : Spots(path)[k] # x.ino
  PROVE  ChdirBack(dirents \ {x}, path) \subseteq {Top}
<1>1. Tree /\ cwd = Top
  BY InvTree DEF LInv
<1>2. Untouched(dirents \ {x}, path, Len(path) - 1)
  BY DEF Untouched
<1> QED BY <1>1, <1>2, WayHome

\* The cache after an entry has been deleted.
LEMMA DeletedCache ==
  ASSUME flist \in FLists, Apart(flist), NEW t \in FTypes, NEW s \in 1 .. Len(flist[t]),
         NEW c \in Caches, NEW k, k = IF t = "d" THEN PurgeDeleted(c, s) ELSE c,
         NEW fl \in FLists, SameIds(flist, fl), NEW fm, fm = del_from_flist(fl, t, s)
  PROVE  k \in Caches /\ (CurrentIn(flist, c) => CurrentIn(fm, k))
<1>0. Listed /\ "d" \in FTypes /\ Slots("d") = 1 .. Len(flist["d"])
  BY DEF Listed, FLists, FTypes, Slots
<1>1. /\ Len(fl["d"]) = Len(flist["d"])
      /\ \A i \in 1 .. Len(flist["d"]) : fl["d"][i].id = flist["d"][i].id
  BY <1>0 DEF SameIds
<1>2. Apart(fl) /\ s \in 1 .. Len(fl[t])
  BY SameIdsApart DEF SameIds
<1>3. /\ Len(fm[t]) = Len(fl[t]) - 1
      /\ \A r \in FTypes : r # t => fm[r] = fl[r]
      /\ \A i \in 1 .. Len(fl[t]) - 1 : i # s => fm[t][i] = fl[t][i]
  BY <1>2, DelView
<1>4. CASE t = "d"
  <2>1. k = PurgeDeleted(c, s)
    BY <1>4
  <2>2. /\ k \in Caches
        /\ Current(c) =>
             \A h \in 0 .. NDCACHE - 1 :
               k[h] # 0 => /\ k[h] \in 1 .. Len(Dirs) - 1 /\ k[h] # s
                           /\ Dirs[k[h]].id % NDCACHE = h
    BY <1>0, <1>4, <2>1, PurgeBoth
  <2>3. ASSUME CurrentIn(flist, c), NEW h \in 0 .. NDCACHE - 1, k[h] # 0
        PROVE  k[h] \in 1 .. Len(fm["d"]) /\ fm["d"][k[h]].id % NDCACHE = h
    <3>1. k[h] \in 1 .. Len(flist["d"]) - 1 /\ k[h] # s /\ flist["d"][k[h]].id % NDCACHE = h
      BY <2>2, <2>3, CurrentSame DEF Dirs
    <3>2. Len(flist["d"]) \in Nat
      BY <1>0, ListSlot
    <3>3. fm["d"][k[h]] = fl["d"][k[h]] /\ k[h] \in 1 .. Len(fm["d"])
      BY <1>1, <1>3, <1>4, <3>1
    <3>4. fl["d"][k[h]].id = flist["d"][k[h]].id
      BY <1>1, <3>1, <3>2
    <3> QED BY <3>1, <3>3, <3>4
  <2> QED BY <2>2, <2>3 DEF CurrentIn
<1>5. CASE t # "d"
  <2>1. k = c /\ fm["d"] = fl["d"]
    BY <1>0, <1>3, <1>5
  <2> QED BY <1>1, <2>1 DEF CurrentIn
<1> QED BY <1>4, <1>5

\* rmdir_f() and unlink_f().
LEMMA RemoveStep ==
  ASSUME LInv, NEW which \in SUBSET FTypes, RemoveName(which)
  PROVE  LInv' /\ CacheKept
<1>1. nameseq' = nameseq /\ nameseq' <= MaxNames
  BY DEF RemoveName, Choose
<1>2. PICK p \in get_fname(which) :
       LET f == fent_to_name(dcache, p[1], Ent(p))
           i == Resolve(cwd, f.path)
           x == Dirent(Resolve(cwd, Front(f.path)), p[1], Ent(p).id, i)
       IN \/ dcache' = f.cache /\ NoChange(f.path)
          \/ /\ i # NoInode
             /\ ~\E y \in dirents : y.dir = i
             /\ Unlinked(x)
             /\ flist' = del_from_flist(flist, p[1], p[2])
             /\ dcache' = IF p[1] = "d" THEN PurgeDeleted(f.cache, p[2]) ELSE f.cache
             /\ CwdAfter(dirents', f.path)
             /\ UNCHANGED <<sets, linked>>
  BY DEF RemoveName
<1> DEFINE t == p[1]
           s == p[2]
           e == flist[t][s]
           v == Rec(t, e)
           f == fent_to_name(dcache, t, e)
<1>3. t \in FTypes /\ s \in Slots(t) /\ s \in 1 .. Len(flist[t]) /\ Ent(p) = e
  BY Chosen
<1>4. dcache \in Caches /\ cwd = Top /\ flist \in FLists /\ Apart(flist)
      /\ Matched(View(flist), dirents, linked, xattrs, nameseq)
      /\ \A r \in FTypes : Len(flist[r]) <= nameseq
  BY DEF LInv
<1>5. \/ dcache' = f.cache /\ NoChange(f.path)
      \/ /\ ~\E y \in dirents : y.dir = Resolve(Top, f.path)
         /\ Unlinked(Dirent(Resolve(Top, Front(f.path)), t, e.id, Resolve(Top, f.path)))
         /\ flist' = del_from_flist(flist, t, s)
         /\ dcache' = IF t = "d" THEN PurgeDeleted(f.cache, s) ELSE f.cache
         /\ CwdAfter(dirents', f.path)
         /\ UNCHANGED <<sets, linked>>
  BY <1>2, <1>3, <1>4
<1> HIDE DEF t, s
<1>6. /\ f.cache \in Caches /\ (CurrentIn(flist, dcache) => CurrentIn(flist, f.cache))
      /\ v \in View(flist)
      /\ Way(f.path, Len(f.path) - 1) /\ f.path # <<>>
      /\ ChdirBack(dirents, f.path) \subseteq {Top}
      /\ \E x \in dirents :
           /\ x.name = NameOf(v)
           /\ Resolve(Top, f.path) = x.ino /\ Resolve(Top, Front(f.path)) = x.dir
           /\ x = Dirent(x.dir, t, e.id, x.ino)
           /\ \A k \in 1 .. Len(f.path) - 1 : Spots(f.path)[k] # x.ino
  <2>1. e = flist[t][s] /\ f = fent_to_name(dcache, t, e) /\ v = Rec(t, e)
    OBVIOUS
  <2> HIDE DEF e, f, v
  <2>2. PathKnown(dcache, t, s, e, f, v)
    BY <1>3, <1>4, <2>1, PathOfEntry
  <2> QED BY <2>2 DEF PathKnown
<1> HIDE DEF v, f, e
<1>7. CASE dcache' = f.cache /\ NoChange(f.path)
  <2>1. UNCHANGED <<flist, dirents, xattrs, linked>> /\ cwd' = Top
    BY <1>6, <1>7 DEF NoChange, CwdAfter
  <2> QED BY <1>1, <1>6, <1>7, <2>1, QuietStep
<1>8. CASE /\ ~\E y \in dirents : y.dir = Resolve(Top, f.path)
           /\ Unlinked(Dirent(Resolve(Top, Front(f.path)), t, e.id, Resolve(Top, f.path)))
           /\ flist' = del_from_flist(flist, t, s)
           /\ dcache' = IF t = "d" THEN PurgeDeleted(f.cache, s) ELSE f.cache
           /\ CwdAfter(dirents', f.path)
           /\ UNCHANGED <<sets, linked>>
  <2>1. PICK x \in dirents :
          /\ x.name = NameOf(v)
          /\ Resolve(Top, f.path) = x.ino /\ Resolve(Top, Front(f.path)) = x.dir
          /\ x = Dirent(x.dir, t, e.id, x.ino)
          /\ \A k \in 1 .. Len(f.path) - 1 : Spots(f.path)[k] # x.ino
    BY <1>6
  <2>2. /\ \A y \in dirents : y.dir # x.ino
        /\ dirents' = dirents \ {x}
        /\ xattrs' = {a \in xattrs : \E y \in dirents \ {x} : y.ino = a[1]}
    <3>1. Unlinked(x)
      BY <1>8, <2>1
    <3> QED BY <1>8, <2>1, <3>1 DEF Unlinked
  <2>3. Matched(View(flist) \ {v}, dirents \ {x}, linked,
                {a \in xattrs : \E y \in dirents \ {x} : y.ino = a[1]}, nameseq)
    BY <1>4, <1>6, <2>1, <2>2, DropName
  <2>4. /\ flist' \in FLists /\ View(flist') = View(flist) \ {v} /\ Apart(flist')
        /\ Len(flist'[t]) = Len(flist[t]) - 1
        /\ \A r \in FTypes : r # t => flist'[r] = flist[r]
    <3> DEFINE fm == del_from_flist(flist, t, s)
    <3>1. /\ fm \in FLists /\ View(fm) = View(flist) \ {Rec(t, flist[t][s])} /\ Apart(fm)
          /\ Len(fm[t]) = Len(flist[t]) - 1
          /\ \A r \in FTypes : r # t => fm[r] = flist[r]
      BY <1>3, <1>4, DelView
    <3>2. flist' = fm
      BY <1>8
    <3> HIDE DEF fm
    <3> QED BY <3>1, <3>2 DEF v, e
  <2>5. \A r \in FTypes : Len(flist'[r]) <= nameseq'
    <3>1. nameseq \in Nat /\ \A r \in FTypes : Len(flist[r]) \in Nat
      BY <1>4, ListSlot DEF Matched
    <3> QED BY <1>1, <1>4, <2>4, <3>1
  <2>6. dcache' \in Caches /\ (CurrentIn(flist, f.cache) => CurrentIn(flist', dcache'))
    <3>1. SameIds(flist, flist)
      BY DEF SameIds
    <3> QED BY <1>3, <1>4, <1>6, <1>8, <3>1, DeletedCache
  <2>7. cwd' = Top
    <3>1. ChdirBack(dirents \ {x}, f.path) \subseteq {Top}
      BY <1>6, <2>1, DropHome
    <3> QED BY <1>8, <2>2, <3>1 DEF CwdAfter
  <2>8. Matched(View(flist'), dirents', linked', xattrs', nameseq')
    BY <1>1, <1>8, <2>2, <2>3, <2>4
  <2>9. LInv'
    BY <1>1, <2>4, <2>5, <2>6, <2>7, <2>8, InvStep
  <2> QED BY <1>6, <2>6, <2>9 DEF CacheKept
<1> QED BY <1>5, <1>7, <1>8

-----------------------------------------------------------------------------
(* rename_f().                                                             *)

\* The parents are corrected when a directory has moved.
FixList(fl, t, old, new, swap) == IF t = "d" THEN fix_parent(fl, old, new, swap) ELSE fl

\* Without a directory nothing is to be corrected.
LEMMA FixListView ==
  ASSUME NEW fl \in FLists, NEW t \in FTypes, NEW old \in Nat, NEW new \in Nat,
         NEW swap \in BOOLEAN,
         t # "d" => \A v \in View(fl) : v.parent # old /\ (swap => v.parent # new)
  PROVE  LET fm == FixList(fl, t, old, new, swap) IN
         /\ fm \in FLists /\ SameIds(fl, fm)
         /\ \A r \in FTypes : \A s \in 1 .. Len(fl[r]) :
              Rec(r, fm[r][s]) = Fixed(Rec(r, fl[r][s]), old, new, swap)
         /\ View(fm) = {Fixed(v, old, new, swap) : v \in View(fl)}
<1>1. CASE t = "d"
  <2>1. FixList(fl, t, old, new, swap) = fix_parent(fl, old, new, swap)
    BY <1>1 DEF FixList
  <2> QED BY <2>1, FixView
<1>2. CASE t # "d"
  <2>1. FixList(fl, t, old, new, swap) = fl
    BY <1>2 DEF FixList
  <2>2. ASSUME NEW v \in View(fl) PROVE Fixed(v, old, new, swap) = v
    <3>1. v \in Recs
      BY ViewSlot
    <3>2. Moved(v.parent, old, new, swap) = v.parent
      BY <1>2 DEF Moved
    <3> QED BY <3>1, <3>2 DEF Fixed, Recs
  <2>3. \A r \in FTypes : \A s \in 1 .. Len(fl[r]) : Rec(r, fl[r][s]) \in View(fl)
    BY ListSlot
  <2>4. SameIds(fl, fl)
    BY DEF SameIds
  <2> QED BY <2>1, <2>2, <2>3, <2>4
<1> QED BY <1>1, <1>2

\* The three changes of the lists, by name.
FixedAs(fl, old, new, swap, fm) ==
  /\ fm \in FLists /\ SameIds(fl, fm)
  /\ \A r \in FTypes : \A s \in 1 .. Len(fl[r]) :
       Rec(r, fm[r][s]) = Fixed(Rec(r, fl[r][s]), old, new, swap)
  /\ View(fm) = {Fixed(v, old, new, swap) : v \in View(fl)}
DeletedAs(fl, t, s, fm) ==
  /\ fm \in FLists /\ View(fm) = View(fl) \ {Rec(t, fl[t][s])} /\ Apart(fm)
  /\ Len(fm[t]) = Len(fl[t]) - 1
  /\ \A r \in FTypes : r # t => fm[r] = fl[r]
AddedAs(fl, n, v, fm) ==
  /\ fm \in FLists /\ Apart(fm) /\ View(fm) = View(fl) \cup {v}
  /\ \A r \in FTypes : Len(fm[r]) <= n + 1
  /\ \A c : CurrentIn(fl, c) => CurrentIn(fm, c)

\* The lemmas about them, for results that have names.
LEMMA FixAs ==
  ASSUME NEW fl \in FLists, NEW t \in FTypes, NEW old \in Nat, NEW new \in Nat,
         NEW swap \in BOOLEAN,
         t # "d" => \A v \in View(fl) : v.parent # old /\ (swap => v.parent # new),
         NEW fm, fm = FixList(fl, t, old, new, swap)
  PROVE  FixedAs(fl, old, new, swap, fm)
<1>1. FixedAs(fl, old, new, swap, FixList(fl, t, old, new, swap))
  BY FixListView DEF FixedAs
<1> QED BY <1>1

\* del_from_flist().
LEMMA DelAs ==
  ASSUME NEW fl \in FLists, Apart(fl), NEW t \in FTypes, NEW s \in 1 .. Len(fl[t]),
         NEW fm, fm = del_from_flist(fl, t, s)
  PROVE  DeletedAs(fl, t, s, fm)
<1>1. DeletedAs(fl, t, s, del_from_flist(fl, t, s))
  BY DelView DEF DeletedAs
<1> QED BY <1>1

\* add_to_flist().
LEMMA AddAs ==
  ASSUME NEW fl \in FLists, Apart(fl), NEW n \in Nat, \A v \in View(fl) : v.id # n,
         \A t \in FTypes : Len(fl[t]) <= n,
         NEW t \in FTypes, NEW q \in Nat \cup {-1}, NEW k \in Nat,
         NEW fm, fm = add_to_flist(fl, t, NewEntry(n, q, k))
  PROVE  AddedAs(fl, n, NewRec(t, n, q, k), fm)
<1>1. AddedAs(fl, n, NewRec(t, n, q, k), add_to_flist(fl, t, NewEntry(n, q, k)))
  BY AddedEntry DEF AddedAs
<1> QED BY <1>1

\* The cache k, after c, when slot s has been deleted from fl, and the result is fm.
CacheAs(t, s, c, k, fl, fm) == k \in Caches /\ (CurrentIn(flist, c) => CurrentIn(fm, k))

\* DeletedCache, for results that have names.
LEMMA CacheAfter ==
  ASSUME flist \in FLists, Apart(flist), NEW t \in FTypes, NEW s \in 1 .. Len(flist[t]),
         NEW c \in Caches, NEW k, k = IF t = "d" THEN PurgeDeleted(c, s) ELSE c,
         NEW fl \in FLists, SameIds(flist, fl), NEW fm, fm = del_from_flist(fl, t, s)
  PROVE  CacheAs(t, s, c, k, fl, fm)
BY DeletedCache DEF CacheAs

\* A deletion after the correction of the parents, with the records of a set.
DeletedView(fl, t, s, old, n, fx, fd) ==
  /\ \A w \in View(fl) : Fixed(w, old, n, FALSE).id = w.id
  /\ View(fd) = {Fixed(w, old, n, FALSE) : w \in View(fl) \ {Rec(t, fl[t][s])}}
  /\ \A r \in FTypes : Len(fd[r]) \in Nat /\ Len(fd[r]) <= Len(fl[r])

\* The view after both.
LEMMA FixedThenDeleted ==
  ASSUME NEW fl \in FLists, Apart(fl), Unique(View(fl)), NEW t \in FTypes,
         NEW s \in 1 .. Len(fl[t]), NEW old, NEW n, NEW fx, FixedAs(fl, old, n, FALSE, fx),
         NEW fd, DeletedAs(fx, t, s, fd)
  PROVE  DeletedView(fl, t, s, old, n, fx, fd)
<1> DEFINE v == Rec(t, fl[t][s])
<1>1. v \in View(fl)
  BY ListSlot
<1>2. /\ View(fx) = {Fixed(w, old, n, FALSE) : w \in View(fl)}
      /\ Rec(t, fx[t][s]) = Fixed(v, old, n, FALSE)
  BY DEF FixedAs
<1> HIDE DEF v
<1>3. ASSUME NEW w \in View(fl)
      PROVE  /\ Fixed(w, old, n, FALSE).id = w.id
             /\ Fixed(w, old, n, FALSE) = Fixed(v, old, n, FALSE) => w = v
  <2>1. w \in Recs /\ v \in Recs
    BY <1>1, ViewSlot
  <2>2. Fixed(w, old, n, FALSE).id = w.id /\ Fixed(v, old, n, FALSE).id = v.id
    BY <2>1 DEF Fixed, Recs
  <2> QED BY <1>1, <2>2 DEF Unique
<1>4. View(fd) = View(fx) \ {Fixed(v, old, n, FALSE)}
  BY <1>2 DEF DeletedAs
<1>5. View(fd) = {Fixed(w, old, n, FALSE) : w \in View(fl) \ {v}}
  <2> DEFINE F(w) == Fixed(w, old, n, FALSE)
  <2>1. /\ View(fx) = {F(w) : w \in View(fl)} /\ View(fd) = View(fx) \ {F(v)}
        /\ \A w \in View(fl) : F(w) = F(v) => w = v
    BY <1>2, <1>3, <1>4
  <2> HIDE DEF F
  <2>2. View(fd) = {F(w) : w \in View(fl) \ {v}}
    BY <2>1
  <2> QED BY <2>2 DEF F
<1>6. ASSUME NEW r \in FTypes PROVE Len(fd[r]) \in Nat /\ Len(fd[r]) <= Len(fl[r])
  <2>1. Len(fl[r]) \in Nat /\ Len(fx[r]) = Len(fl[r])
    BY ListSlot DEF FixedAs, SameIds
  <2>2. Len(fd[r]) \in Nat
    BY ListSlot DEF DeletedAs
  <2>3. r # t => fd[r] = fx[r]
    BY DEF DeletedAs
  <2>4. r = t => Len(fd[r]) = Len(fx[r]) - 1
    BY DEF DeletedAs
  <2> QED BY <2>1, <2>2, <2>3, <2>4
<1> QED BY <1>3, <1>5, <1>6 DEF v, DeletedView

\* Slot s of type t has been renamed: n is the number of the new name, q its
\* parent, c and k the cache before and after the deletion, fl the lists with
\* their parents corrected and fm the result.
RenamedAs(n, t, s, q, e, v, c, k, fl, fm) ==
  /\ fm \in FLists /\ Apart(fm) /\ \A r \in FTypes : Len(fm[r]) <= n + 1
  /\ View(fm) = {Fixed(w, e.id, n, FALSE) : w \in View(flist) \ {v}}
                  \cup {NewRec(t, n, q, e.xattr_counter)}
  /\ k \in Caches /\ (CurrentIn(flist, c) => CurrentIn(fm, k))

\* The lists and the cache after a rename.
LEMMA RenameLists ==
  ASSUME flist \in FLists, Apart(flist), Unique(View(flist)), NEW n \in Nat,
         \A v \in View(flist) : v.id # n, \A r \in FTypes : Len(flist[r]) <= n,
         NEW t \in FTypes, NEW s \in 1 .. Len(flist[t]), NEW q \in Nat \cup {-1},
         NEW e, e = flist[t][s], NEW v, v = Rec(t, e),
         t # "d" => \A w \in View(flist) : w.parent # e.id,
         NEW c \in Caches, NEW k, k = IF t = "d" THEN PurgeDeleted(c, s) ELSE c,
         NEW fl, fl = FixList(flist, t, e.id, n, FALSE), NEW fm,
         fm = add_to_flist(del_from_flist(fl, t, s), t, NewEntry(n, q, e.xattr_counter))
  PROVE  RenamedAs(n, t, s, q, e, v, c, k, fl, fm)
<1>1. e.id \in Nat /\ e.xattr_counter \in Nat /\ v \in View(flist) /\ v.id = e.id
  BY ListSlot DEF Rec
<1>2. FixedAs(flist, e.id, n, FALSE, fl)
  <2>1. FALSE \in BOOLEAN
    OBVIOUS
  <2>2. t # "d" => \A w \in View(flist) : w.parent # e.id /\ (FALSE => w.parent # n)
    OBVIOUS
  <2> QED BY <1>1, <2>1, <2>2, FixAs
<1>3. fl \in FLists /\ SameIds(flist, fl) /\ Apart(fl) /\ s \in 1 .. Len(fl[t])
  <2>1. fl \in FLists /\ SameIds(flist, fl)
    BY <1>2 DEF FixedAs
  <2>2. Len(fl[t]) = Len(flist[t])
    BY <2>1 DEF SameIds
  <2> QED BY <2>1, <2>2, SameIdsApart
<1> DEFINE fd == del_from_flist(fl, t, s)
<1>4. fd = del_from_flist(fl, t, s)
  OBVIOUS
<1>5. fm = add_to_flist(fd, t, NewEntry(n, q, e.xattr_counter))
  OBVIOUS
<1> HIDE DEF fd
<1>6. DeletedAs(fl, t, s, fd)
  BY <1>3, <1>4, DelAs
<1>7. k \in Caches /\ (CurrentIn(flist, c) => CurrentIn(fd, k))
  <2>1. CacheAs(t, s, c, k, fl, fd)
    BY <1>3, <1>4, CacheAfter
  <2> QED BY <2>1 DEF CacheAs
<1>8. /\ \A w \in View(flist) : Fixed(w, e.id, n, FALSE).id = w.id
      /\ View(fd) = {Fixed(w, e.id, n, FALSE) : w \in View(flist) \ {v}}
      /\ \A r \in FTypes : Len(fd[r]) \in Nat /\ Len(fd[r]) <= Len(flist[r])
  <2>1. DeletedView(flist, t, s, e.id, n, fl, fd)
    BY <1>2, <1>6, FixedThenDeleted
  <2> QED BY <2>1 DEF DeletedView
<1>9. \A w \in View(fd) : w.id # n
  <2> DEFINE F(w) == Fixed(w, e.id, n, FALSE)
  <2>1. View(fd) = {F(w) : w \in View(flist) \ {v}} /\ \A w \in View(flist) : F(w).id # n
    BY <1>8
  <2> HIDE DEF F
  <2> QED BY <2>1
<1>10. \A r \in FTypes : Len(fd[r]) <= n
  BY <1>8, ListSlot
<1>11. AddedAs(fd, n, NewRec(t, n, q, e.xattr_counter), fm)
  <2>1. fd \in FLists /\ Apart(fd)
    BY <1>6 DEF DeletedAs
  <2> QED BY <1>1, <1>5, <1>9, <1>10, <2>1, AddAs
<1> QED BY <1>7, <1>8, <1>11 DEF AddedAs, RenamedAs

\* What is known of the path of a new name of type t below slot s, built with cache c.
NewKnown(c, s, t, g, d, path, q) ==
  /\ g.cache \in Caches /\ (CurrentIn(flist, c) => CurrentIn(flist, g.cache))
  /\ q \in Ids(View(flist)) \cup {-1} /\ q \in Nat \cup {-1}
  /\ d \in FTypes \X Int /\ At(dirents, d, q)
  /\ path # <<>> /\ Way(path, Len(path) - 1)
  /\ Spots(path)[Len(path) - 1] = d
  /\ q \in OnWay(path, Len(path) - 1) \cup {-1}

\* ChosenNew, for results that have names.
LEMMA PathOfNew ==
  ASSUME LInv, NEW c \in Caches, NEW s \in NewParents, NEW t \in FTypes,
         NEW g, g = generate_fname(c, s), NEW d, d = Resolve(Top, g.path),
         NEW path, path = Child(g.path, t, nameseq), NEW q, q = ParentId(s)
  PROVE  NewKnown(c, s, t, g, d, path, q)
<1> DEFINE gg == generate_fname(c, s)
           dd == Resolve(Top, gg.path)
           pp == Child(gg.path, t, nameseq)
<1>1. NewKnown(c, s, t, gg, dd, pp, ParentId(s))
  BY ChosenNew DEF NewKnown
<1>2. g = gg /\ d = dd /\ path = pp
  OBVIOUS
<1> HIDE DEF gg, dd, pp
<1> QED BY <1>1, <1>2

\* The tree after a rename into a directory that is not below the renamed one.
LEMMA RenameTree ==
  ASSUME LInv, NEW v \in View(flist), NEW x \in dirents, x.name = NameOf(v),
         NEW path, Way(path, Len(path) - 1), NEW d \in FTypes \X Int,
         Spots(path)[Len(path) - 1] = d, ~Below(d, x.ino),
         NEW q \in Ids(View(flist)) \cup {-1}, At(dirents, d, q),
         q \in OnWay(path, Len(path) - 1) \cup {-1}
  PROVE  /\ Matched({Fixed(w, v.id, nameseq, FALSE) : w \in View(flist) \ {v}}
                      \cup {NewRec(v.type, nameseq, q, v.count)},
                    (dirents \ {x}) \cup {Dirent(d, v.type, nameseq, x.ino)},
                    linked, xattrs, nameseq + 1)
         /\ \A k \in 1 .. Len(path) - 1 : Spots(path)[k] # x.ino
<1> DEFINE n == Len(path) - 1
           A == OnWay(path, n)
<1>1. Tree /\ Matched(View(flist), dirents, linked, xattrs, nameseq)
  BY InvTree DEF LInv
<1>2. n \in Nat
  BY DEF Way
<1>3. \A k \in 0 .. n : Spots(path)[k] # x.ino
  <2>1. Way(path, n) /\ ~Below(Spots(path)[n], x.ino)
    OBVIOUS
  <2> HIDE DEF n
  <2> QED BY <1>1, <2>1, BelowClear
<1>4. /\ Closed(View(flist), A)
      /\ (\A k \in 1 .. n : Spots(path)[k] # x.ino) /\ x.name[1] = "d" => x.name[2] \notin A
  <2>1. Way(path, n)
    OBVIOUS
  <2> HIDE DEF n
  <2> QED BY <1>1, <2>1, WayClosed
<1>5. \A k \in 1 .. n : Spots(path)[k] # x.ino
  BY <1>2, <1>3
<1>6. v.id \notin A
  <2>1. CASE v.type = "d"
    BY <1>4, <1>5, <2>1 DEF NameOf
  <2>2. CASE v.type # "d"
    <3>1. v.id \notin Ids(View(flist))
      BY <1>1, <2>2, IdsOfDirs DEF Matched
    <3> QED BY <1>4, <3>1 DEF Closed
  <2> QED BY <2>1, <2>2
<1> HIDE DEF n, A
<1>7. q \in A \cup {-1}
  BY DEF n, A
<1>8. Matched({Fixed(w, v.id, nameseq, FALSE) : w \in View(flist) \ {v}}
                \cup {NewRec(v.type, nameseq, q, v.count)},
              (dirents \ {x}) \cup {Dirent(d, v.type, nameseq, x.ino)},
              linked, xattrs, nameseq + 1)
  BY <1>1, <1>4, <1>6, <1>7, MoveName
<1> QED BY <1>5, <1>8 DEF n

\* A way is back as it was when only the name of a directory off the way has changed.
LEMMA MovedHome ==
  ASSUME LInv, NEW path, path # <<>>, Way(path, Len(path) - 1), NEW x, NEW y, y.ino = x.ino,
         \A k \in 1 .. Len(path) - 1 : Spots(path)[k] # x.ino
  PROVE  ChdirBack((dirents \ {x}) \cup {y}, path) \subseteq {Top}
<1>1. Tree /\ cwd = Top
  BY InvTree DEF LInv
<1>2. Untouched((dirents \ {x}) \cup {y}, path, Len(path) - 1)
  <2>1. ASSUME NEW z \in (dirents \ ((dirents \ {x}) \cup {y})) \cup (((dirents \ {x}) \cup {y}) \ dirents)
        PROVE  z.ino = x.ino
    OBVIOUS
  <2> QED BY <2>1 DEF Untouched
<1> QED BY <1>1, <1>2, WayHome

\* No record of a file is the parent of another.
LEMMA FileNoParent ==
  ASSUME LInv, NEW v \in View(flist), v.type # "d", NEW w \in View(flist)
  PROVE  w.parent # v.id
<1>1. Unique(View(flist)) /\ Forest(View(flist)) /\ v.id \in Nat
  BY IdsBelow DEF LInv, Matched
<1>2. v.id \notin Ids(View(flist)) /\ w.parent \in Ids(View(flist)) \cup {-1}
  BY <1>1, IdsOfDirs DEF Forest
<1> QED BY <1>1, <1>2

\* rename_f() and rnoreplace_f().
LEMMA RenameStep ==
  ASSUME LInv, rename_f
  PROVE  LInv' /\ CacheKept
<1>1. nameseq' = nameseq + 1 /\ nameseq' <= MaxNames
  BY DEF rename_f, Choose
<1>2. PICK p \in get_fname(FTypes), s \in NewParents :
       LET t     == p[1]
           f     == fent_to_name(dcache, t, Ent(p))
           g     == generate_fname(f.cache, s)
           d     == Resolve(cwd, g.path)
           i     == Resolve(cwd, f.path)
           from  == Dirent(Resolve(cwd, Front(f.path)), t, Ent(p).id, i)
           path  == Child(g.path, t, nameseq)
           fixed == IF t = "d" THEN fix_parent(flist, Ent(p).id, nameseq, FALSE)
                    ELSE flist
       IN \/ /\ dcache' = g.cache
             /\ CwdAfter2(dirents, f.path, path)
             /\ UNCHANGED <<flist, dirents, xattrs, sets, linked>>
          \/ /\ d[1] = "d" /\ i # NoInode /\ ~Below(d, i)
             /\ dirents' = (dirents \ {from}) \cup {Dirent(d, t, nameseq, i)}
             /\ flist' = add_to_flist(del_from_flist(fixed, t, p[2]), t,
                           NewEntry(nameseq, ParentId(s), Ent(p).xattr_counter))
             /\ dcache' = IF t = "d" THEN PurgeDeleted(g.cache, p[2]) ELSE g.cache
             /\ CwdAfter2(dirents', f.path, path)
             /\ UNCHANGED <<xattrs, sets, linked>>
  BY DEF rename_f
<1> DEFINE t    == p[1]
           u    == p[2]
           e    == flist[t][u]
           v    == Rec(t, e)
           f    == fent_to_name(dcache, t, e)
           g    == generate_fname(f.cache, s)
           d    == Resolve(Top, g.path)
           i    == Resolve(Top, f.path)
           dir  == Resolve(Top, Front(f.path))
           path == Child(g.path, t, nameseq)
           q    == ParentId(s)
           fl   == FixList(flist, t, e.id, nameseq, FALSE)
           fm   == add_to_flist(del_from_flist(fl, t, u), t, NewEntry(nameseq, q, e.xattr_counter))
           k    == IF t = "d" THEN PurgeDeleted(g.cache, u) ELSE g.cache
<1>3. t \in FTypes /\ u \in Slots(t) /\ u \in 1 .. Len(flist[t]) /\ Ent(p) = e
  <2>1. FTypes \in SUBSET FTypes
    OBVIOUS
  <2> QED BY <2>1, Chosen
<1>4. dcache \in Caches /\ cwd = Top /\ flist \in FLists /\ Apart(flist)
      /\ Matched(View(flist), dirents, linked, xattrs, nameseq)
      /\ \A r \in FTypes : Len(flist[r]) <= nameseq
  BY DEF LInv
<1>5. \/ /\ dcache' = g.cache
         /\ CwdAfter2(dirents, f.path, path)
         /\ UNCHANGED <<flist, dirents, xattrs, linked>>
      \/ /\ ~Below(d, i)
         /\ dirents' = (dirents \ {Dirent(dir, t, e.id, i)}) \cup {Dirent(d, t, nameseq, i)}
         /\ flist' = fm
         /\ dcache' = k
         /\ CwdAfter2(dirents', f.path, path)
         /\ UNCHANGED <<xattrs, linked>>
  BY <1>2, <1>3, <1>4 DEF FixList
<1>6. /\ e = flist[t][u] /\ f = fent_to_name(dcache, t, e) /\ v = Rec(t, e)
      /\ g = generate_fname(f.cache, s) /\ d = Resolve(Top, g.path)
      /\ i = Resolve(Top, f.path) /\ dir = Resolve(Top, Front(f.path))
      /\ path = Child(g.path, t, nameseq) /\ q = ParentId(s)
      /\ fl = FixList(flist, t, e.id, nameseq, FALSE)
      /\ fm = add_to_flist(del_from_flist(fl, t, u), t, NewEntry(nameseq, q, e.xattr_counter))
      /\ k = IF t = "d" THEN PurgeDeleted(g.cache, u) ELSE g.cache
  OBVIOUS
<1> HIDE DEF t, u, e, v, f, g, d, i, dir, path, q, fl, fm, k
<1>7. PathKnown(dcache, t, u, e, f, v)
  BY <1>3, <1>4, <1>6, PathOfEntry
<1>8. /\ f.cache \in Caches /\ (CurrentIn(flist, dcache) => CurrentIn(flist, f.cache))
      /\ v \in View(flist) /\ v.type = t /\ v.id = e.id /\ v.count = e.xattr_counter
      /\ Way(f.path, Len(f.path) - 1) /\ f.path # <<>>
      /\ ChdirBack(dirents, f.path) \subseteq {Top}
  BY <1>7 DEF PathKnown
<1>9. NewKnown(f.cache, s, t, g, d, path, q)
  BY <1>3, <1>6, <1>8, PathOfNew
<1>10. /\ g.cache \in Caches /\ (CurrentIn(flist, f.cache) => CurrentIn(flist, g.cache))
       /\ q \in Ids(View(flist)) \cup {-1} /\ q \in Nat \cup {-1}
       /\ d \in FTypes \X Int /\ At(dirents, d, q)
       /\ path # <<>> /\ Way(path, Len(path) - 1)
       /\ Spots(path)[Len(path) - 1] = d /\ q \in OnWay(path, Len(path) - 1) \cup {-1}
  BY <1>9 DEF NewKnown
<1>11. CASE /\ dcache' = g.cache
            /\ CwdAfter2(dirents, f.path, path)
            /\ UNCHANGED <<flist, dirents, xattrs, linked>>
  <2>1. cwd' = Top
    BY <1>8, <1>10, <1>11, QuietHome DEF CwdAfter2
  <2>2. dcache' \in Caches /\ (CurrentIn(flist, dcache) => CurrentIn(flist, dcache'))
    BY <1>8, <1>10, <1>11
  <2> QED BY <1>1, <1>11, <2>1, <2>2, QuietStep
<1>12. CASE /\ ~Below(d, i)
            /\ dirents' = (dirents \ {Dirent(dir, t, e.id, i)}) \cup {Dirent(d, t, nameseq, i)}
            /\ flist' = fm
            /\ dcache' = k
            /\ CwdAfter2(dirents', f.path, path)
            /\ UNCHANGED <<xattrs, linked>>
  <2>1. PICK x \in dirents :
          /\ x.name = NameOf(v) /\ Resolve(Top, f.path) = x.ino /\ Resolve(Top, Front(f.path)) = x.dir
          /\ x = Dirent(x.dir, t, e.id, x.ino)
          /\ \A j \in 1 .. Len(f.path) - 1 : Spots(f.path)[j] # x.ino
    BY <1>7 DEF PathKnown
  <2> DEFINE y == Dirent(d, t, nameseq, x.ino)
  <2>2. y.ino = x.ino /\ y = Dirent(d, t, nameseq, x.ino)
    BY DEF Dirent
  <2> HIDE DEF y
  <2>3. dirents' = (dirents \ {x}) \cup {y} /\ i = x.ino /\ ~Below(d, x.ino)
    BY <1>6, <1>12, <2>1, <2>2
  <2>4. /\ Matched({Fixed(w, v.id, nameseq, FALSE) : w \in View(flist) \ {v}}
                      \cup {NewRec(v.type, nameseq, q, v.count)},
                   (dirents \ {x}) \cup {Dirent(d, v.type, nameseq, x.ino)},
                   linked, xattrs, nameseq + 1)
        /\ \A j \in 1 .. Len(path) - 1 : Spots(path)[j] # x.ino
    BY <1>8, <1>10, <2>1, <2>3, RenameTree
  <2>5. nameseq \in Nat /\ (\A w \in View(flist) : w.id # nameseq) /\ Unique(View(flist))
    BY <1>4, FreshId DEF Matched
  <2>6. t # "d" => \A w \in View(flist) : w.parent # e.id
    BY <1>8, FileNoParent
  <2>7. /\ fm \in FLists /\ Apart(fm) /\ \A r \in FTypes : Len(fm[r]) <= nameseq + 1
        /\ View(fm) = {Fixed(w, e.id, nameseq, FALSE) : w \in View(flist) \ {v}}
                        \cup {NewRec(t, nameseq, q, e.xattr_counter)}
        /\ k \in Caches /\ (CurrentIn(flist, g.cache) => CurrentIn(fm, k))
    <3>1. RenamedAs(nameseq, t, u, q, e, v, g.cache, k, fl, fm)
      BY <1>3, <1>4, <1>6, <1>10, <2>5, <2>6, RenameLists
    <3> QED BY <3>1 DEF RenamedAs
  <2>8. Matched(View(flist'), dirents', linked', xattrs', nameseq')
    <3>1. Matched(View(fm), dirents', linked, xattrs, nameseq + 1)
      BY <1>8, <2>2, <2>3, <2>4, <2>7
    <3> QED BY <1>1, <1>12, <3>1
  <2>9. cwd' = Top
    <3>1. ChdirBack((dirents \ {x}) \cup {y}, path) \subseteq {Top}
      BY <1>10, <2>2, <2>4, MovedHome
    <3>2. ChdirBack((dirents \ {x}) \cup {y}, f.path) \subseteq {Top}
      BY <1>8, <2>1, <2>2, MovedHome
    <3> QED BY <1>12, <2>3, <3>1, <3>2 DEF CwdAfter2
  <2>10. LInv'
    BY <1>1, <1>12, <2>7, <2>8, <2>9, InvStep
  <2>11. CacheKept
    BY <1>8, <1>10, <1>12, <2>7 DEF CacheKept
  <2> QED BY <2>10, <2>11
<1> QED BY <1>5, <1>11, <1>12

-----------------------------------------------------------------------------
(* rwhiteout_f().                                                          *)

\* The ids of all directories are closed, and no file's id is among them.
LEMMA AllClosed ==
  ASSUME NEW V, NEW D, NEW L, NEW X, NEW n, Matched(V, D, L, X, n)
  PROVE  /\ Closed(V, Ids(V))
         /\ \A v \in V : v.parent \in Ids(V) \cup {-1} /\ (v.type # "d" => v.id \notin Ids(V))
<1>1. Unique(V) /\ Forest(V)
  BY DEF Matched
<1>2. \A v \in V : v.type # "d" => v.id \notin Ids(V)
  BY <1>1, IdsOfDirs
<1>3. Closed(V, Ids(V))
  BY <1>1 DEF Forest, Closed, DirsOf
<1> QED BY <1>1, <1>2, <1>3 DEF Forest

\* What an exchange of two files does to a record: only the counters change.
LEMMA SwappedFiles ==
  ASSUME NEW V, NEW D, NEW L, NEW X, NEW n, Matched(V, D, L, X, n),
         NEW e \in V, NEW f \in V, e # f, e.type # "d", f.type # "d", NEW v \in V
  PROVE  Swapped(v, e, f) = IF v = e THEN Counted(e, f.count)
                            ELSE IF v = f THEN Counted(f, e.count) ELSE v
<1>1. /\ v.parent \in Ids(V) \cup {-1} /\ e.id \notin Ids(V) /\ f.id \notin Ids(V)
      /\ e.id \in Nat /\ f.id \in Nat /\ v \in Recs
  BY AllClosed, IdsBelow DEF Matched
<1> DEFINE k == IF v = e THEN f.count ELSE IF v = f THEN e.count ELSE v.count
<1>2. Counted(v, k).parent = v.parent
  BY <1>1 DEF Counted, Recs
<1>3. Moved(v.parent, e.id, f.id, TRUE) = v.parent
  BY <1>1 DEF Moved
<1>4. Counted(v, k) = [type |-> v.type, id |-> v.id, parent |-> v.parent, count |-> k]
  BY <1>1 DEF Counted, Recs
<1>5. Fixed(Counted(v, k), e.id, f.id, TRUE) = Counted(v, k)
  BY <1>2, <1>3, <1>4 DEF Fixed
<1>6. Swapped(v, e, f) = Counted(v, k)
  BY <1>5 DEF Swapped
<1>7. Counted(v, v.count) = v
  BY <1>1 DEF Counted, Recs
<1> QED BY <1>6, <1>7

\* A device gets a new name and another stays behind under the old one: a new
\* name for a new device, and then an exchange.
LEMMA WhiteName ==
  ASSUME NEW V, NEW D, NEW L, NEW X, NEW n, Matched(V, D, L, X, n),
         NEW e \in V, e.type = "c", NEW x \in D, x.name = NameOf(e),
         NEW q \in Ids(V) \cup {-1}, NEW d \in FTypes \X Int, At(D, d, q)
  PROVE  Matched((V \ {e}) \cup {Counted(e, 0), NewRec("c", n, q, e.count)},
                 (D \ {x}) \cup {Dirent(x.dir, "c", e.id, <<"c", n>>),
                                 Dirent(d, "c", n, x.ino)},
                 L, X, n + 1)
<1> DEFINE i == <<"c", n>>
           m == NewRec("c", n, q, 0)
           y == Dirent(d, "c", n, i)
           W == V \cup {m}
           E == D \cup {y}
<1>1. n \in Nat /\ "c" \in FTypes /\ "c" # "d" /\ 0 \in Nat /\ Named(V, D) /\ Inodes(D, L, n)
      /\ V \in SUBSET Recs
  BY DEF Matched, FTypes
<1>2. \A z \in D : z.ino[2] < n /\ z.ino[2] \in Nat /\ z.name[2] < n /\ z.name[2] \in Nat
  BY <1>1 DEF Inodes, Named, DirentRec
<1>3. Matched(W, E, L, X, n + 1)
  <2>1. i \in FTypes \X Nat /\ i[1] = "c" /\ i[2] <= n
    BY <1>1
  <2>2. \A z \in D : z.ino = i => i \in L /\ "c" # "d"
    BY <1>1, <1>2
  <2>3. L \subseteq L
    OBVIOUS
  <2> HIDE DEF i
  <2> QED BY <1>1, <2>1, <2>2, <2>3, AddName
<1>4. /\ m.type = "c" /\ m.id = n /\ m.parent = q /\ m.count = 0
      /\ Counted(m, e.count) = NewRec("c", n, q, e.count)
  BY DEF NewRec, Counted
<1>5. y.dir = d /\ y.name = <<"c", n>> /\ y.ino = i /\ y.name = NameOf(m)
      /\ [y EXCEPT !.ino = x.ino] = Dirent(d, "c", n, x.ino)
  BY <1>4 DEF Dirent, NameOf
<1>6. [x EXCEPT !.ino = i] = Dirent(x.dir, "c", e.id, i)
  <2>1. x \in DirentRec /\ x.name = <<"c", e.id>>
    BY <1>1 DEF Named, NameOf
  <2> HIDE DEF i
  <2> QED BY <2>1 DEF DirentRec, Dirent
<1>7. e # m /\ e \in W /\ m \in W /\ x \in E /\ y \in E /\ y \notin D
  <2>1. e.id < n /\ e.id \in Nat
    BY IdsBelow
  <2> QED BY <1>1, <1>2, <1>4, <1>5, <2>1
<1> HIDE DEF i, m, y
<1>8. /\ Closed(W, Ids(W)) /\ e.parent \in Ids(W) \cup {-1} /\ m.parent \in Ids(W) \cup {-1}
      /\ e.id \notin Ids(W) /\ m.id \notin Ids(W)
  <2> HIDE DEF W, E
  <2> QED BY <1>1, <1>3, <1>4, <1>7, AllClosed
<1>9. Matched({Swapped(v, e, m) : v \in W},
              (E \ {x, y}) \cup {[x EXCEPT !.ino = y.ino], [y EXCEPT !.ino = x.ino]},
              L, X, n + 1)
  <2> HIDE DEF W, E
  <2> QED BY <1>3, <1>4, <1>5, <1>7, <1>8, ExchangeNames
<1>10. {Swapped(v, e, m) : v \in W} = (V \ {e}) \cup {Counted(e, 0), NewRec("c", n, q, e.count)}
  <2>1. \A v \in W : Swapped(v, e, m) = IF v = e THEN Counted(e, m.count)
                                       ELSE IF v = m THEN Counted(m, e.count) ELSE v
    <3> HIDE DEF W, E
    <3> QED BY <1>1, <1>3, <1>4, <1>7, SwappedFiles
  <2>2. m \notin V
    <3>1. \A v \in V : v.id < n /\ v.id \in Nat
      BY IdsBelow
    <3> QED BY <1>1, <1>4, <3>1
  <2> DEFINE S(v) == Swapped(v, e, m)
             a == Counted(e, 0)
             b == NewRec("c", n, q, e.count)
  <2>3. S(e) = a /\ S(m) = b /\ \A v \in V : v # e => S(v) = v
    BY <1>4, <1>7, <2>1, <2>2
  <2> HIDE DEF S, a, b
  <2>4. {S(v) : v \in W} = (V \ {e}) \cup {a, b}
    BY <2>2, <2>3
  <2> QED BY <2>4 DEF S, a, b
<1>11. (E \ {x, y}) \cup {[x EXCEPT !.ino = y.ino], [y EXCEPT !.ino = x.ino]} =
         (D \ {x}) \cup {Dirent(x.dir, "c", e.id, i), Dirent(d, "c", n, x.ino)}
  BY <1>5, <1>6, <1>7
<1> HIDE DEF W, E
<1>12. Matched((V \ {e}) \cup {Counted(e, 0), NewRec("c", n, q, e.count)},
               (D \ {x}) \cup {Dirent(x.dir, "c", e.id, i), Dirent(d, "c", n, x.ino)},
               L, X, n + 1)
  BY <1>9, <1>10, <1>11
<1> QED BY <1>12 DEF i

\* No way is touched when only names of files have changed.
LEMMA FilesHome ==
  ASSUME LInv, NEW path, path # <<>>, Way(path, Len(path) - 1), NEW D,
         \A z \in (dirents \ D) \cup (D \ dirents) : z.ino[1] # "d"
  PROVE  ChdirBack(D, path) \subseteq {Top}
<1>1. Tree /\ cwd = Top
  BY InvTree DEF LInv
<1>2. \A k \in 1 .. Len(path) - 1 : Spots(path)[k][1] = "d"
  BY <1>1, WayDirent
<1>3. Untouched(D, path, Len(path) - 1)
  BY <1>2 DEF Untouched
<1> QED BY <1>1, <1>3, WayHome

\* Lists with the same ids have the same current caches.
LEMMA SameCurrent ==
  ASSUME NEW fl \in FLists, NEW fm \in FLists, SameIds(fl, fm), NEW c, CurrentIn(fl, c)
  PROVE  CurrentIn(fm, c)
<1>1. "d" \in FTypes
  BY DEF FTypes
<1>2. Len(fm["d"]) = Len(fl["d"]) /\ \A s \in 1 .. Len(fl["d"]) : fm["d"][s].id = fl["d"][s].id
  BY <1>1 DEF SameIds
<1>3. Len(fl["d"]) \in Nat
  BY <1>1, ListSlot
<1> QED BY <1>2, <1>3, CurrentKept

\* CountView, for a result that has a name.
CountedAs(fl, t, s, k, fm) ==
  /\ fm \in FLists /\ SameIds(fl, fm) /\ Apart(fm)
  /\ Rec(t, fm[t][s]) = Counted(Rec(t, fl[t][s]), k)
  /\ \A r \in FTypes : \A u \in 1 .. Len(fl[r]) : ~(r = t /\ u = s) => fm[r][u] = fl[r][u]
  /\ View(fm) = (View(fl) \ {Rec(t, fl[t][s])}) \cup {Counted(Rec(t, fl[t][s]), k)}

\* An xattr_counter is set.
LEMMA CountAs ==
  ASSUME NEW fl \in FLists, Apart(fl), NEW t \in FTypes, NEW s \in 1 .. Len(fl[t]), NEW k \in Nat,
         NEW fm, fm = SetCount(fl, t, s, k)
  PROVE  CountedAs(fl, t, s, k, fm)
<1> DEFINE fx == SetCount(fl, t, s, k)
<1>1. /\ fx \in FLists /\ SameIds(fl, fx)
      /\ Rec(t, fx[t][s]) = Counted(Rec(t, fl[t][s]), k)
      /\ \A r \in FTypes : \A u \in 1 .. Len(fl[r]) : ~(r = t /\ u = s) => fx[r][u] = fl[r][u]
      /\ View(fx) = (View(fl) \ {Rec(t, fl[t][s])}) \cup {Counted(Rec(t, fl[t][s]), k)}
  BY CountView
<1> HIDE DEF fx
<1>2. Apart(fx)
  BY <1>1, SameIdsApart
<1> QED BY <1>1, <1>2 DEF CountedAs, fx

\* rwhiteout_f().
LEMMA WhiteoutStep ==
  ASSUME LInv, rwhiteout_f
  PROVE  LInv' /\ CacheKept
<1>1. nameseq' = nameseq + 1 /\ nameseq' <= MaxNames
  BY DEF rwhiteout_f, Choose
<1>2. PICK p \in get_fname({"c"}), s \in NewParents :
       LET f    == fent_to_name(dcache, "c", Ent(p))
           g    == generate_fname(f.cache, s)
           d    == Resolve(cwd, g.path)
           i    == Resolve(cwd, f.path)
           dir  == Resolve(cwd, Front(f.path))
           path == Child(g.path, "c", nameseq)
       IN /\ dcache' = g.cache
          /\ \/ /\ CwdAfter2(dirents, f.path, path)
                /\ UNCHANGED <<flist, dirents, xattrs, sets, linked>>
             \/ /\ d[1] = "d" /\ i # NoInode
                /\ dirents' = (dirents \ {Dirent(dir, "c", Ent(p).id, i)})
                       \cup {Dirent(dir, "c", Ent(p).id, <<"c", nameseq>>),
                             Dirent(d, "c", nameseq, i)}
                /\ flist' = add_to_flist([flist EXCEPT !["c"][p[2]].xattr_counter = 0],
                              "c", NewEntry(nameseq, ParentId(s), Ent(p).xattr_counter))
                /\ CwdAfter2(dirents', f.path, path)
                /\ UNCHANGED <<xattrs, sets, linked>>
  BY DEF rwhiteout_f
<1> DEFINE t    == "c"
           u    == p[2]
           e    == flist[t][u]
           v    == Rec(t, e)
           f    == fent_to_name(dcache, t, e)
           g    == generate_fname(f.cache, s)
           d    == Resolve(Top, g.path)
           i    == Resolve(Top, f.path)
           dir  == Resolve(Top, Front(f.path))
           path == Child(g.path, t, nameseq)
           q    == ParentId(s)
           fl   == SetCount(flist, t, u, 0)
           fm   == add_to_flist(fl, t, NewEntry(nameseq, q, e.xattr_counter))
<1>3. t \in FTypes /\ u \in Slots(t) /\ u \in 1 .. Len(flist[t]) /\ Ent(p) = e
  <2>1. {"c"} \in SUBSET FTypes
    BY DEF FTypes
  <2>2. p[1] = "c"
    BY <2>1, Chosen
  <2> QED BY <2>1, <2>2, Chosen
<1>4. dcache \in Caches /\ cwd = Top /\ flist \in FLists /\ Apart(flist)
      /\ Matched(View(flist), dirents, linked, xattrs, nameseq)
      /\ \A r \in FTypes : Len(flist[r]) <= nameseq
  BY DEF LInv
<1>5. /\ dcache' = g.cache
      /\ \/ /\ CwdAfter2(dirents, f.path, path)
            /\ UNCHANGED <<flist, dirents, xattrs, linked>>
         \/ /\ dirents' = (dirents \ {Dirent(dir, t, e.id, i)})
                       \cup {Dirent(dir, t, e.id, <<t, nameseq>>), Dirent(d, t, nameseq, i)}
            /\ flist' = fm
            /\ CwdAfter2(dirents', f.path, path)
            /\ UNCHANGED <<xattrs, linked>>
  BY <1>2, <1>3, <1>4 DEF SetCount
<1>6. /\ e = flist[t][u] /\ f = fent_to_name(dcache, t, e) /\ v = Rec(t, e)
      /\ g = generate_fname(f.cache, s) /\ d = Resolve(Top, g.path)
      /\ i = Resolve(Top, f.path) /\ dir = Resolve(Top, Front(f.path))
      /\ path = Child(g.path, t, nameseq) /\ q = ParentId(s)
      /\ fl = SetCount(flist, t, u, 0)
      /\ fm = add_to_flist(fl, t, NewEntry(nameseq, q, e.xattr_counter)) /\ t = "c"
  OBVIOUS
<1> HIDE DEF t, u, e, v, f, g, d, i, dir, path, q, fl, fm
<1>7. PathKnown(dcache, t, u, e, f, v)
  BY <1>3, <1>4, <1>6, PathOfEntry
<1>8. /\ f.cache \in Caches /\ (CurrentIn(flist, dcache) => CurrentIn(flist, f.cache))
      /\ v \in View(flist) /\ v.type = t /\ v.id = e.id /\ v.count = e.xattr_counter
      /\ Way(f.path, Len(f.path) - 1) /\ f.path # <<>>
      /\ ChdirBack(dirents, f.path) \subseteq {Top}
  BY <1>7 DEF PathKnown
<1>9. NewKnown(f.cache, s, t, g, d, path, q)
  BY <1>3, <1>6, <1>8, PathOfNew
<1>10. /\ g.cache \in Caches /\ (CurrentIn(flist, f.cache) => CurrentIn(flist, g.cache))
       /\ q \in Ids(View(flist)) \cup {-1} /\ q \in Nat \cup {-1}
       /\ d \in FTypes \X Int /\ At(dirents, d, q)
       /\ path # <<>> /\ Way(path, Len(path) - 1)
  BY <1>9 DEF NewKnown
<1>11. CASE /\ CwdAfter2(dirents, f.path, path)
            /\ UNCHANGED <<flist, dirents, xattrs, linked>>
  <2>1. cwd' = Top
    BY <1>8, <1>10, <1>11, QuietHome DEF CwdAfter2
  <2>2. dcache' \in Caches /\ (CurrentIn(flist, dcache) => CurrentIn(flist, dcache'))
    BY <1>5, <1>8, <1>10
  <2> QED BY <1>1, <1>11, <2>1, <2>2, QuietStep
<1>12. CASE /\ dirents' = (dirents \ {Dirent(dir, t, e.id, i)})
                     \cup {Dirent(dir, t, e.id, <<t, nameseq>>), Dirent(d, t, nameseq, i)}
            /\ flist' = fm
            /\ CwdAfter2(dirents', f.path, path)
            /\ UNCHANGED <<xattrs, linked>>
  <2>1. PICK x \in dirents :
          /\ x.name = NameOf(v) /\ Resolve(Top, f.path) = x.ino /\ Resolve(Top, Front(f.path)) = x.dir
          /\ x = Dirent(x.dir, t, e.id, x.ino)
    BY <1>7 DEF PathKnown
  <2> DEFINE y == Dirent(x.dir, t, e.id, <<t, nameseq>>)
             z == Dirent(d, t, nameseq, x.ino)
             D == (dirents \ {x}) \cup {y, z}
  <2>2. dirents' = D
    BY <1>6, <1>12, <2>1
  <2>3. Matched((View(flist) \ {v}) \cup {Counted(v, 0), NewRec(t, nameseq, q, e.xattr_counter)},
                D, linked, xattrs, nameseq + 1)
    <3>1. Matched((View(flist) \ {v}) \cup {Counted(v, 0), NewRec("c", nameseq, q, v.count)},
                  (dirents \ {x}) \cup {Dirent(x.dir, "c", v.id, <<"c", nameseq>>),
                                        Dirent(d, "c", nameseq, x.ino)},
                  linked, xattrs, nameseq + 1)
      BY <1>4, <1>6, <1>8, <1>10, <2>1, WhiteName, SMTT(30)
    <3> QED BY <1>6, <1>8, <3>1
  <2>4. CountedAs(flist, t, u, 0, fl)
    <3>1. 0 \in Nat
      OBVIOUS
    <3> QED BY <1>3, <1>4, <1>6, <3>1, CountAs
  <2>5. /\ fl \in FLists /\ SameIds(flist, fl) /\ Apart(fl)
        /\ View(fl) = (View(flist) \ {v}) \cup {Counted(v, 0)}
    BY <1>6, <2>4 DEF CountedAs
  <2>6. nameseq \in Nat /\ (\A w \in View(flist) : w.id # nameseq) /\ e.xattr_counter \in Nat
    BY <1>3, <1>4, <1>6, FreshId, ListSlot
  <2>7. \A w \in View(fl) : w.id # nameseq
    <3>1. Counted(v, 0).id = v.id
      <4>1. v \in Recs
        BY <1>8, ViewSlot
      <4> QED BY <4>1 DEF Counted, Recs
    <3> QED BY <1>8, <2>5, <2>6, <3>1
  <2>8. \A r \in FTypes : Len(fl[r]) <= nameseq
    BY <1>4, <2>5 DEF SameIds
  <2>9. AddedAs(fl, nameseq, NewRec(t, nameseq, q, e.xattr_counter), fm)
    BY <1>3, <1>6, <1>10, <2>5, <2>6, <2>7, <2>8, AddAs
  <2>10. /\ fm \in FLists /\ Apart(fm) /\ \A r \in FTypes : Len(fm[r]) <= nameseq + 1
         /\ View(fm) = (View(flist) \ {v})
                         \cup {Counted(v, 0), NewRec(t, nameseq, q, e.xattr_counter)}
         /\ \A c : CurrentIn(fl, c) => CurrentIn(fm, c)
    <3>1. View(fm) = View(fl) \cup {NewRec(t, nameseq, q, e.xattr_counter)}
      BY <2>9 DEF AddedAs
    <3>2. View(fm) = (View(flist) \ {v})
                       \cup {Counted(v, 0), NewRec(t, nameseq, q, e.xattr_counter)}
      BY <2>5, <3>1
    <3> QED BY <2>9, <3>2 DEF AddedAs
  <2>11. \A w \in (dirents \ D) \cup (D \ dirents) : w.ino[1] # "d"
    <3>1. x.ino[1] # "d"
      <4>1. x.name[1] = "c"
        BY <1>6, <1>8, <2>1 DEF NameOf
      <4>2. x.ino[1] = x.name[1]
        BY <1>4 DEF Matched, Inodes
      <4> QED BY <4>1, <4>2
    <3>2. y.ino[1] # "d" /\ z.ino = x.ino
      BY <1>6 DEF Dirent
    <3> HIDE DEF y, z
    <3> QED BY <3>1, <3>2
  <2>12. Matched(View(flist'), dirents', linked', xattrs', nameseq')
    BY <1>1, <1>12, <2>2, <2>3, <2>10
  <2> HIDE DEF D
  <2>13. cwd' = Top
    <3>1. ChdirBack(D, path) \subseteq {Top}
      BY <1>10, <2>11, FilesHome
    <3>2. ChdirBack(D, f.path) \subseteq {Top}
      BY <1>8, <2>11, FilesHome
    <3> QED BY <1>12, <2>2, <3>1, <3>2 DEF CwdAfter2
  <2>14. LInv'
    BY <1>1, <1>5, <1>10, <1>12, <2>10, <2>12, <2>13, InvStep
  <2>15. CacheKept
    <3>1. ASSUME CurrentIn(flist, dcache) PROVE CurrentIn(flist', dcache')
      <4>1. CurrentIn(flist, g.cache)
        BY <1>8, <1>10, <3>1
      <4>2. CurrentIn(fl, g.cache)
        BY <1>4, <2>5, <4>1, SameCurrent
      <4> QED BY <1>5, <1>12, <2>10, <4>2
    <3> QED BY <3>1 DEF CacheKept
  <2> QED BY <2>14, <2>15
<1> QED BY <1>5, <1>11, <1>12

-----------------------------------------------------------------------------
(* rexchange_f().                                                          *)

\* The two counters that have changed places.
LEMMA SwapAs ==
  ASSUME NEW fl \in FLists, Apart(fl), NEW t \in FTypes, NEW s \in 1 .. Len(fl[t]),
         NEW u \in 1 .. Len(fl[t]), NEW fm, fm = SwapCounters(fl, t, s, u),
         NEW a, a = Rec(t, fl[t][s]), NEW b, b = Rec(t, fl[t][u])
  PROVE  /\ fm \in FLists /\ SameIds(fl, fm) /\ Apart(fm)
         /\ View(fm) = (View(fl) \ {a, b}) \cup {Counted(a, b.count), Counted(b, a.count)}
<1> DEFINE j == fl[t][s].xattr_counter
           k == fl[t][u].xattr_counter
           fx == SetCount(fl, t, s, k)
<1>1. /\ j \in Nat /\ k \in Nat /\ a \in View(fl) /\ b \in View(fl) /\ a.count = j /\ b.count = k
      /\ a.id = fl[t][s].id /\ b.id = fl[t][u].id
  BY ListSlot DEF Rec
<1>2. fm = SetCount(fx, t, u, j) /\ fx = SetCount(fl, t, s, k)
  BY DEF SwapCounters, SetCount
<1> HIDE DEF j, k, fx
<1>3. CountedAs(fl, t, s, k, fx)
  BY <1>1, <1>2, CountAs
<1>4. /\ fx \in FLists /\ SameIds(fl, fx) /\ Apart(fx) /\ Rec(t, fx[t][s]) = Counted(a, k)
      /\ s # u => fx[t][u] = fl[t][u]
      /\ View(fx) = (View(fl) \ {a}) \cup {Counted(a, k)}
  BY <1>3 DEF CountedAs
<1>5. u \in 1 .. Len(fx[t])
  BY <1>4 DEF SameIds
<1>6. CountedAs(fx, t, u, j, fm)
  BY <1>1, <1>2, <1>4, <1>5, CountAs
<1> DEFINE c == Rec(t, fx[t][u])
<1>7. /\ fm \in FLists /\ SameIds(fx, fm) /\ Apart(fm)
      /\ View(fm) = (View(fx) \ {c}) \cup {Counted(c, j)}
  BY <1>6 DEF CountedAs
<1>8. SameIds(fl, fm)
  BY <1>4, <1>7 DEF SameIds
<1>9. a \in Recs /\ b \in Recs
  BY <1>1, ViewSlot
<1>10. View(fm) = (View(fl) \ {a, b}) \cup {Counted(a, k), Counted(b, j)}
  <2>1. CASE s = u
    <3>1. a = b /\ j = k /\ c = Counted(a, k)
      BY <1>4, <2>1 DEF j, k
    <3>2. Counted(a, k) = a /\ Counted(b, j) = a
      BY <1>1, <1>9, <3>1 DEF Counted, Recs
    <3> HIDE DEF c
    <3> QED BY <1>1, <1>4, <1>7, <3>1, <3>2
  <2>2. CASE s # u
    <3>1. c = b
      BY <1>4, <2>2
    <3>2. Counted(a, k) # b
      <4>1. a.id # b.id
        BY <1>1, <2>2, ApartAt
      <4>2. Counted(a, k).id = a.id
        BY <1>9 DEF Counted, Recs
      <4> QED BY <4>1, <4>2
    <3> HIDE DEF c
    <3> QED BY <1>1, <1>4, <1>7, <3>1, <3>2
  <2> QED BY <2>1, <2>2
<1> QED BY <1>1, <1>7, <1>8, <1>10

\* The result fm of an exchange of the slots s and u, whose records are a and b.
ExchangedAs(fl, t, s, u, a, b, fx, fm) ==
  /\ fm \in FLists /\ SameIds(fl, fm) /\ Apart(fm)
  /\ View(fm) = {Swapped(w, a, b) : w \in View(fl)}

\* What an exchange of a and b does to the lists: their parents and their counters.
LEMMA ExchangeLists ==
  ASSUME NEW fl \in FLists, Apart(fl), Unique(View(fl)), NEW t \in FTypes,
         NEW s \in 1 .. Len(fl[t]), NEW u \in 1 .. Len(fl[t]),
         NEW a, a = Rec(t, fl[t][s]), NEW b, b = Rec(t, fl[t][u]),
         NEW fx, FixedAs(fl, a.id, b.id, TRUE, fx),
         NEW fm, fm = SwapCounters(fx, t, s, u)
  PROVE  ExchangedAs(fl, t, s, u, a, b, fx, fm)
<1> DEFINE F(w) == Fixed(w, a.id, b.id, TRUE)
           G(w) == Swapped(w, a, b)
<1>1. /\ fx \in FLists /\ SameIds(fl, fx) /\ View(fx) = {F(w) : w \in View(fl)}
      /\ Rec(t, fx[t][s]) = F(a) /\ Rec(t, fx[t][u]) = F(b)
  BY DEF FixedAs
<1>2. Apart(fx) /\ s \in 1 .. Len(fx[t]) /\ u \in 1 .. Len(fx[t])
  <2>1. Len(fx[t]) = Len(fl[t])
    BY <1>1 DEF SameIds
  <2> QED BY <1>1, <2>1, SameIdsApart
<1>3. a \in View(fl) /\ b \in View(fl)
  BY ListSlot
<1>4. ASSUME NEW w \in View(fl)
      PROVE  /\ w \in Recs /\ F(w) \in Recs /\ F(w).id = w.id /\ F(w).count = w.count
             /\ \A k \in Nat : Fixed(Counted(w, k), a.id, b.id, TRUE) = Counted(F(w), k)
  <2>1. w \in Recs /\ a \in Recs /\ b \in Recs
    BY <1>3, ViewSlot
  <2>2. a.id \in Nat /\ b.id \in Nat
    BY <2>1 DEF Recs
  <2>3. Moved(w.parent, a.id, b.id, TRUE) \in Nat \cup {-1}
    BY <2>1, <2>2 DEF Moved, Recs
  <2> QED BY <2>1, <2>3 DEF Fixed, Counted, Recs
<1> HIDE DEF F
<1>5. ASSUME NEW w \in View(fl)
      PROVE  G(w) = IF w = a THEN Counted(F(a), b.count)
                    ELSE IF w = b THEN Counted(F(b), a.count) ELSE F(w)
  <2> DEFINE k == IF w = a THEN b.count ELSE IF w = b THEN a.count ELSE w.count
  <2>1. k \in Nat
    BY <1>3, <1>4 DEF Recs
  <2>2. G(w) = Counted(F(w), k)
    BY <1>4, <2>1 DEF Swapped
  <2>3. Counted(F(w), w.count) = F(w)
    BY <1>4 DEF Counted, Recs
  <2> HIDE DEF G, F
  <2> QED BY <2>2, <2>3
<1>6. \A w, z \in View(fl) : F(w) = F(z) => w = z
  BY <1>4, ZenonT(60) DEF Unique
<1>7. /\ fm \in FLists /\ SameIds(fx, fm) /\ Apart(fm)
      /\ View(fm) = (View(fx) \ {F(a), F(b)}) \cup {Counted(F(a), F(b).count), Counted(F(b), F(a).count)}
  <2>1. F(a) = Rec(t, fx[t][s]) /\ F(b) = Rec(t, fx[t][u])
    BY <1>1
  <2> QED BY <1>1, <1>2, <2>1, SwapAs
<1> HIDE DEF G
<1>8. G(a) = Counted(F(a), b.count) /\ G(b) = Counted(F(b), a.count)
      /\ F(a).count = a.count /\ F(b).count = b.count
      /\ \A w \in View(fl) : w # a /\ w # b => G(w) = F(w)
  BY <1>3, <1>4, <1>5
<1>9. View(fm) = (View(fx) \ {F(a), F(b)}) \cup {G(a), G(b)}
  BY <1>7, <1>8
<1>10. View(fm) = {G(w) : w \in View(fl)}
  BY <1>1, <1>3, <1>6, <1>8, <1>9
<1>11. SameIds(fl, fm)
  BY <1>1, <1>7 DEF SameIds
<1> QED BY <1>7, <1>10, <1>11 DEF G, ExchangedAs

\* The parent of what lies at the end of a way is on the way.
LEMMA ParentOnWay ==
  ASSUME Tree, NEW path, NEW n, Way(path, n), NEW q, At(dirents, Spots(path)[n], q)
  PROVE  q \in OnWay(path, n) \cup {-1}
<1>1. CASE q = -1
  BY <1>1
<1>2. CASE q # -1
  <2>1. PICK y \in dirents : y.name = <<"d", q>> /\ Spots(path)[n] = y.ino
    BY <1>2 DEF At
  <2>2. y.ino[2] \in Nat
    BY DEF Tree, Named, DirentRec
  <2>3. n \in Nat
    BY DEF Way
  <2>4. n # 0
    <3> SUFFICES ASSUME n = 0 PROVE FALSE
      OBVIOUS
    <3>1. Spots(path)[n] = Top
      BY DEF Way, Spots
    <3> QED BY <2>1, <2>2, <3>1 DEF Top
  <2>5. n \in 1 .. n
    BY <2>3, <2>4
  <2>6. PICK z \in dirents : /\ z.name = path[n] /\ z.ino = Spots(path)[n]
                             /\ \A w \in dirents : w.ino = z.ino => w = z
    BY <2>5, WayDirent
  <2>7. path[n] = <<"d", q>>
    BY <2>1, <2>6
  <2> QED BY <2>5, <2>7 DEF OnWay
<1> QED BY <1>1, <1>2

\* A directory x at the end of a way, and another one, y, that is not above it.
LEMMA ExchangeClear ==
  ASSUME LInv, NEW path, NEW n, Way(path, n), NEW x \in dirents, NEW y \in dirents,
         x.name[1] = "d", y.name[1] = "d", x.dir = Spots(path)[n], ~Below(x.dir, y.ino),
         NEW q, At(dirents, x.dir, q), \A k \in 1 .. n : Spots(path)[k] # x.ino
  PROVE  /\ Closed(View(flist), OnWay(path, n)) /\ q \in OnWay(path, n) \cup {-1}
         /\ x.name[2] \notin OnWay(path, n) /\ y.name[2] \notin OnWay(path, n)
         /\ \A k \in 1 .. n : Spots(path)[k] # y.ino
<1>1. Tree /\ n \in Nat
  BY InvTree DEF Way
<1>2. \A k \in 0 .. n : Spots(path)[k] # y.ino
  BY <1>1, BelowClear
<1>3. \A k \in 1 .. n : Spots(path)[k] # y.ino
  BY <1>1, <1>2
<1>4. /\ Closed(View(flist), OnWay(path, n))
      /\ \A z \in dirents : (\A k \in 1 .. n : Spots(path)[k] # z.ino) /\ z.name[1] = "d" =>
                               z.name[2] \notin OnWay(path, n)
  BY <1>1, WayClosed
<1>5. q \in OnWay(path, n) \cup {-1}
  BY <1>1, ParentOnWay
<1> QED BY <1>3, <1>4, <1>5

\* Where the process comes back when two names, of directories off the way or of
\* files, have exchanged their inodes.
LEMMA ExchangeHome ==
  ASSUME LInv, NEW path, path # <<>>, Way(path, Len(path) - 1),
         NEW x \in dirents, NEW y \in dirents, NEW z, z.ino = y.ino, NEW w, w.ino = x.ino,
         \A k \in 1 .. Len(path) - 1 : Spots(path)[k] # x.ino /\ Spots(path)[k] # y.ino
  PROVE  ChdirBack((dirents \ {x, y}) \cup {z, w}, path) \subseteq {Top}
<1>1. Tree /\ cwd = Top
  BY InvTree DEF LInv
<1> DEFINE D == (dirents \ {x, y}) \cup {z, w}
<1>2. \A v \in (dirents \ D) \cup (D \ dirents) : v.ino = x.ino \/ v.ino = y.ino
  OBVIOUS
<1> HIDE DEF D
<1>3. Untouched(D, path, Len(path) - 1)
  BY <1>2 DEF Untouched
<1>4. ChdirBack(D, path) \subseteq {Top}
  BY <1>1, <1>3, WayHome
<1> QED BY <1>4 DEF D

\* An entry a, its dirent x and its path, before an exchange with b, whose dirent is y.
Partner(path, a, x, y) ==
  /\ path # <<>> /\ Way(path, Len(path) - 1)
  /\ x.name = NameOf(a) /\ At(dirents, x.dir, a.parent) /\ x.dir = Spots(path)[Len(path) - 1]
  /\ \A k \in 1 .. Len(path) - 1 : Spots(path)[k] # x.ino
  /\ x.ino = y.ino \/ ~Below(x.dir, y.ino)

\* The tree after the exchange of two entries.
LEMMA ExchangeTree ==
  ASSUME LInv, NEW a \in View(flist), NEW b \in View(flist), a # b, a.type = b.type,
         NEW x \in dirents, NEW y \in dirents,
         NEW P, Partner(P, a, x, y), NEW R, Partner(R, b, y, x),
         NEW D, D = (dirents \ {x, y}) \cup {[x EXCEPT !.ino = y.ino], [y EXCEPT !.ino = x.ino]}
  PROVE  /\ Matched({Swapped(w, a, b) : w \in View(flist)}, D, linked, xattrs, nameseq)
         /\ ChdirBack(D, P) \subseteq {Top} /\ ChdirBack(D, R) \subseteq {Top}
<1>1. Tree /\ Matched(View(flist), dirents, linked, xattrs, nameseq)
  BY InvTree DEF LInv
<1>2. /\ x.name[1] = a.type /\ x.name[2] = a.id /\ y.name[1] = b.type /\ y.name[2] = b.id
      /\ x.name = NameOf(a) /\ y.name = NameOf(b)
  BY DEF Partner, NameOf
<1>3. x # y
  <2>1. a.id # b.id
    BY <1>1 DEF Matched, Unique
  <2> QED BY <1>2, <2>1
<1>4. /\ P # <<>> /\ Way(P, Len(P) - 1) /\ R # <<>> /\ Way(R, Len(R) - 1)
      /\ \A k \in 1 .. Len(P) - 1 : Spots(P)[k] # x.ino
      /\ \A k \in 1 .. Len(R) - 1 : Spots(R)[k] # y.ino
  BY DEF Partner
<1> DEFINE z == [x EXCEPT !.ino = y.ino]
           u == [y EXCEPT !.ino = x.ino]
<1>5. z.ino = y.ino /\ u.ino = x.ino
  BY <1>1 DEF Tree, Named, DirentRec
<1>6. D = (dirents \ {x, y}) \cup {z, u}
  OBVIOUS
<1>7. CASE a.type = "d"
  <2>1. x.ino # y.ino
    <3>1. x.ino[1] = "d"
      BY <1>1, <1>2, <1>7 DEF Tree, Inodes
    <3> QED BY <1>1, <1>3, <3>1 DEF Tree, Inodes
  <2>2. /\ Closed(View(flist), OnWay(P, Len(P) - 1)) /\ a.parent \in OnWay(P, Len(P) - 1) \cup {-1}
        /\ x.name[2] \notin OnWay(P, Len(P) - 1) /\ y.name[2] \notin OnWay(P, Len(P) - 1)
        /\ \A k \in 1 .. Len(P) - 1 : Spots(P)[k] # y.ino
    <3>1. x.dir = Spots(P)[Len(P) - 1] /\ At(dirents, x.dir, a.parent) /\ ~Below(x.dir, y.ino)
      BY <2>1 DEF Partner
    <3> QED BY <1>2, <1>4, <1>7, <3>1, ExchangeClear
  <2>3. /\ Closed(View(flist), OnWay(R, Len(R) - 1)) /\ b.parent \in OnWay(R, Len(R) - 1) \cup {-1}
        /\ y.name[2] \notin OnWay(R, Len(R) - 1) /\ x.name[2] \notin OnWay(R, Len(R) - 1)
        /\ \A k \in 1 .. Len(R) - 1 : Spots(R)[k] # x.ino
    <3>1. y.dir = Spots(R)[Len(R) - 1] /\ At(dirents, y.dir, b.parent) /\ ~Below(y.dir, x.ino)
      BY <2>1 DEF Partner
    <3> QED BY <1>2, <1>4, <1>7, <3>1, ExchangeClear
  <2>4. ChdirBack(D, P) \subseteq {Top}
    <3> HIDE DEF z, u
    <3>1. \A k \in 1 .. Len(P) - 1 : Spots(P)[k] # x.ino /\ Spots(P)[k] # y.ino
      BY <1>4, <2>2
    <3> QED BY <1>4, <1>5, <1>6, <3>1, ExchangeHome
  <2>5. ChdirBack(D, R) \subseteq {Top}
    <3> HIDE DEF z, u
    <3>1. \A k \in 1 .. Len(R) - 1 : Spots(R)[k] # x.ino /\ Spots(R)[k] # y.ino
      BY <1>4, <2>3
    <3> QED BY <1>4, <1>5, <1>6, <3>1, ExchangeHome
  <2> DEFINE A == OnWay(P, Len(P) - 1)
             B == OnWay(R, Len(R) - 1)
  <2>6. Closed(View(flist), A) /\ a.parent \in A \cup {-1} /\ a.id \notin A /\ b.id \notin A
    BY <1>2, <2>2
  <2>7. Closed(View(flist), B) /\ b.parent \in B \cup {-1} /\ a.id \notin B /\ b.id \notin B
    BY <1>2, <2>3
  <2> HIDE DEF A, B
  <2>8. Matched({Swapped(w, a, b) : w \in View(flist)},
                (dirents \ {x, y}) \cup {[x EXCEPT !.ino = y.ino], [y EXCEPT !.ino = x.ino]},
                linked, xattrs, nameseq)
    BY <1>1, <1>2, <2>6, <2>7, ExchangeNames, SMTT(30)
  <2> QED BY <2>4, <2>5, <2>8
<1>8. CASE a.type # "d"
  <2> DEFINE A == Ids(View(flist))
  <2>1. /\ Closed(View(flist), A) /\ a.parent \in A \cup {-1} /\ b.parent \in A \cup {-1}
        /\ a.id \notin A /\ b.id \notin A
    BY <1>1, <1>8, AllClosed
  <2> HIDE DEF A
  <2>2. Matched({Swapped(w, a, b) : w \in View(flist)},
                (dirents \ {x, y}) \cup {[x EXCEPT !.ino = y.ino], [y EXCEPT !.ino = x.ino]},
                linked, xattrs, nameseq)
    BY <1>1, <1>2, <2>1, ExchangeNames
  <2>3. x.ino[1] # "d" /\ y.ino[1] # "d"
    BY <1>1, <1>2, <1>8 DEF Tree, Inodes
  <2>4. \A v \in (dirents \ D) \cup (D \ dirents) : v.ino[1] # "d"
    <3> HIDE DEF z, u
    <3> QED BY <1>5, <1>6, <2>3
  <2>5. ChdirBack(D, P) \subseteq {Top} /\ ChdirBack(D, R) \subseteq {Top}
    BY <1>4, <2>4, FilesHome
  <2> QED BY <2>2, <2>5
<1> QED BY <1>7, <1>8

\* AncestorCache, for a result that has a name.
AncestorKnown(c, t, s, e, d, k) == k \in Caches /\ (CurrentIn(flist, c) => CurrentIn(flist, k))

\* The cache after fents_ancestor_check().
LEMMA AncestorAs ==
  ASSUME LInv, NEW c \in Caches, NEW t \in FTypes, NEW s \in Slots(t), NEW e, e = flist[t][s],
         NEW d, NEW k, k = AncestorCheck(c, e, d).cache
  PROVE  AncestorKnown(c, t, s, e, d, k)
<1>1. Tree
  BY InvTree
<1> DEFINE kk == AncestorCheck(c, flist[t][s], d).cache
<1>2. kk \in Caches /\ (Current(c) => Current(kk))
  BY <1>1, AncestorCache
<1>3. k = kk
  OBVIOUS
<1> HIDE DEF kk
<1> QED BY <1>2, <1>3, CurrentSame DEF AncestorKnown

\* An entry that is exchanged with itself.
LEMMA ExchangeSelf ==
  ASSUME LInv, NEW a \in View(flist), NEW x \in dirents, x.name = NameOf(a),
         NEW y \in dirents, y.name = NameOf(a),
         NEW D, D = (dirents \ {x, y}) \cup {[x EXCEPT !.ino = y.ino], [y EXCEPT !.ino = x.ino]}
  PROVE  D = dirents /\ {Swapped(w, a, a) : w \in View(flist)} = View(flist)
<1>1. Matched(View(flist), dirents, linked, xattrs, nameseq)
  BY DEF LInv
<1>2. x = y /\ x \in DirentRec
  BY <1>1 DEF Matched, Named, NamesOnce
<1>3. [x EXCEPT !.ino = x.ino] = x
  BY <1>2 DEF DirentRec
<1>4. D = dirents
  BY <1>2, <1>3
<1>5. ASSUME NEW w \in View(flist) PROVE Swapped(w, a, a) = w
  <2>1. w \in Recs
    BY ViewSlot
  <2>2. Counted(w, IF w = a THEN a.count ELSE IF w = a THEN a.count ELSE w.count) = w
    BY <2>1 DEF Counted, Recs
  <2>3. Fixed(w, a.id, a.id, TRUE) = w
    <3>1. Moved(w.parent, a.id, a.id, TRUE) = w.parent
      BY DEF Moved
    <3> QED BY <2>1, <3>1 DEF Fixed, Recs
  <2> QED BY <2>2, <2>3 DEF Swapped
<1> QED BY <1>4, <1>5

\* rexchange_f().
LEMMA ExchangeStep ==
  ASSUME LInv, rexchange_f
  PROVE  LInv' /\ CacheKept
<1>1. nameseq' = nameseq /\ nameseq' <= MaxNames
  BY DEF rexchange_f, Choose
<1>2. PICK p \in get_fname(FTypes) : \E s2 \in Slots(p[1]) :
       LET t  == p[1]
           e1 == Ent(p)
           e2 == flist[t][s2]
           f  == fent_to_name(dcache, t, e1)
           g  == fent_to_name(f.cache, t, e2)
           c1 == AncestorCheck(g.cache, e1, e2.id)
           c2 == AncestorCheck(c1.cache, e2, e1.id)
           i1 == Resolve(cwd, f.path)
           i2 == Resolve(cwd, g.path)
           x1 == Dirent(Resolve(cwd, Front(f.path)), t, e1.id, i1)
           x2 == Dirent(Resolve(cwd, Front(g.path)), t, e2.id, i2)
           fixed == IF t = "d" THEN fix_parent(flist, e1.id, e2.id, TRUE) ELSE flist
       IN /\ dcache' = IF t # "d" THEN g.cache
                       ELSE IF c1.found THEN c1.cache ELSE c2.cache
          /\ \/ /\ cwd' \in {cwd} \cup
                     IF t = "d" /\ (c1.found \/ c2.found) THEN {}
                     ELSE ChdirBack(dirents, f.path) \cup ChdirBack(dirents, g.path)
                /\ UNCHANGED <<flist, dirents>>
             \/ /\ ~(t = "d" /\ (c1.found \/ c2.found))
                /\ i1 # NoInode /\ i2 # NoInode
                /\ i1 = i2 \/ (~Below(x1.dir, i2) /\ ~Below(x2.dir, i1))
                /\ dirents' = (dirents \ {x1, x2})
                         \cup {[x1 EXCEPT !.ino = i2], [x2 EXCEPT !.ino = i1]}
                /\ flist' = SwapCounters(fixed, t, p[2], s2)
                /\ CwdAfter2(dirents', f.path, g.path)
          /\ UNCHANGED <<xattrs, sets, linked>>
  BY DEF rexchange_f
<1> DEFINE t == p[1]
           s == p[2]
           e1 == flist[t][s]
           a  == Rec(t, e1)
           f  == fent_to_name(dcache, t, e1)
<1>3. t \in FTypes /\ s \in Slots(t) /\ s \in 1 .. Len(flist[t]) /\ Ent(p) = e1
  <2>1. FTypes \in SUBSET FTypes
    OBVIOUS
  <2> QED BY <2>1, Chosen
<1>4. dcache \in Caches /\ cwd = Top /\ flist \in FLists /\ Apart(flist)
      /\ Matched(View(flist), dirents, linked, xattrs, nameseq)
      /\ \A r \in FTypes : Len(flist[r]) <= nameseq
  BY DEF LInv
<1>5. PICK u \in Slots(t) :
       LET e2 == flist[t][u]
           g  == fent_to_name(f.cache, t, e2)
           c1 == AncestorCheck(g.cache, e1, e2.id)
           c2 == AncestorCheck(c1.cache, e2, e1.id)
           i1 == Resolve(Top, f.path)
           i2 == Resolve(Top, g.path)
           x1 == Dirent(Resolve(Top, Front(f.path)), t, e1.id, i1)
           x2 == Dirent(Resolve(Top, Front(g.path)), t, e2.id, i2)
       IN /\ dcache' \in {g.cache, c1.cache, c2.cache}
          /\ \/ /\ cwd' \in {Top} \cup ChdirBack(dirents, f.path) \cup ChdirBack(dirents, g.path)
                /\ UNCHANGED <<flist, dirents>>
             \/ /\ i1 = i2 \/ (~Below(x1.dir, i2) /\ ~Below(x2.dir, i1))
                /\ dirents' = (dirents \ {x1, x2})
                         \cup {[x1 EXCEPT !.ino = i2], [x2 EXCEPT !.ino = i1]}
                /\ flist' = SwapCounters(FixList(flist, t, e1.id, e2.id, TRUE), t, s, u)
                /\ CwdAfter2(dirents', f.path, g.path)
          /\ UNCHANGED <<xattrs, linked>>
  BY <1>2, <1>3, <1>4, ZenonT(60) DEF FixList
<1> DEFINE e2 == flist[t][u]
           b  == Rec(t, e2)
           g  == fent_to_name(f.cache, t, e2)
           k1 == AncestorCheck(g.cache, e1, e2.id).cache
           k2 == AncestorCheck(k1, e2, e1.id).cache
           i1 == Resolve(Top, f.path)
           i2 == Resolve(Top, g.path)
           d1 == Resolve(Top, Front(f.path))
           d2 == Resolve(Top, Front(g.path))
           x1 == Dirent(d1, t, e1.id, i1)
           x2 == Dirent(d2, t, e2.id, i2)
           fx == FixList(flist, t, e1.id, e2.id, TRUE)
           fm == SwapCounters(fx, t, s, u)
<1>6. /\ dcache' \in {g.cache, k1, k2}
      /\ \/ /\ cwd' \in {Top} \cup ChdirBack(dirents, f.path) \cup ChdirBack(dirents, g.path)
            /\ UNCHANGED <<flist, dirents>>
         \/ /\ i1 = i2 \/ (~Below(x1.dir, i2) /\ ~Below(x2.dir, i1))
            /\ dirents' = (dirents \ {x1, x2})
                     \cup {[x1 EXCEPT !.ino = i2], [x2 EXCEPT !.ino = i1]}
            /\ flist' = fm
            /\ CwdAfter2(dirents', f.path, g.path)
      /\ UNCHANGED <<xattrs, linked>>
  BY <1>5
<1>7. /\ e1 = flist[t][s] /\ a = Rec(t, e1) /\ f = fent_to_name(dcache, t, e1)
      /\ e2 = flist[t][u] /\ b = Rec(t, e2) /\ g = fent_to_name(f.cache, t, e2)
      /\ k1 = AncestorCheck(g.cache, e1, e2.id).cache /\ k2 = AncestorCheck(k1, e2, e1.id).cache
      /\ i1 = Resolve(Top, f.path) /\ i2 = Resolve(Top, g.path)
      /\ d1 = Resolve(Top, Front(f.path)) /\ d2 = Resolve(Top, Front(g.path))
      /\ x1 = Dirent(d1, t, e1.id, i1) /\ x2 = Dirent(d2, t, e2.id, i2)
      /\ fx = FixList(flist, t, e1.id, e2.id, TRUE) /\ fm = SwapCounters(fx, t, s, u)
  OBVIOUS
<1> HIDE DEF s, e1, a, f, e2, b, g, k1, k2, i1, i2, d1, d2, x1, x2, fx, fm
<1>8. u \in 1 .. Len(flist[t])
  BY DEF Slots
<1> HIDE DEF t
<1>9. PathKnown(dcache, t, s, e1, f, a)
  BY <1>3, <1>4, <1>7, PathOfEntry
<1>10. /\ f.cache \in Caches /\ (CurrentIn(flist, dcache) => CurrentIn(flist, f.cache))
       /\ a \in View(flist) /\ a.type = t /\ a.id = e1.id
       /\ Way(f.path, Len(f.path) - 1) /\ f.path # <<>>
       /\ ChdirBack(dirents, f.path) \subseteq {Top}
  BY <1>9 DEF PathKnown
<1>11. PathKnown(f.cache, t, u, e2, g, b)
  BY <1>3, <1>7, <1>10, PathOfEntry
<1>12. /\ g.cache \in Caches /\ (CurrentIn(flist, f.cache) => CurrentIn(flist, g.cache))
       /\ b \in View(flist) /\ b.type = t /\ b.id = e2.id
       /\ Way(g.path, Len(g.path) - 1) /\ g.path # <<>>
       /\ ChdirBack(dirents, g.path) \subseteq {Top}
  BY <1>11 DEF PathKnown
<1>13. AncestorKnown(g.cache, t, s, e1, e2.id, k1)
  BY <1>3, <1>7, <1>12, AncestorAs
<1>14. k1 \in Caches /\ (CurrentIn(flist, g.cache) => CurrentIn(flist, k1))
  BY <1>13 DEF AncestorKnown
<1>15. AncestorKnown(k1, t, u, e2, e1.id, k2)
  BY <1>3, <1>7, <1>14, AncestorAs
<1>16. dcache' \in Caches /\ (CurrentIn(flist, dcache) => CurrentIn(flist, dcache'))
  <2>1. k2 \in Caches /\ (CurrentIn(flist, k1) => CurrentIn(flist, k2))
    BY <1>15 DEF AncestorKnown
  <2> QED BY <1>6, <1>10, <1>12, <1>14, <2>1
<1>17. CASE /\ cwd' \in {Top} \cup ChdirBack(dirents, f.path) \cup ChdirBack(dirents, g.path)
            /\ UNCHANGED <<flist, dirents>>
  <2>1. cwd' = Top
    BY <1>10, <1>12, <1>17
  <2> QED BY <1>1, <1>6, <1>16, <1>17, <2>1, QuietStep
<1>18. CASE /\ i1 = i2 \/ (~Below(x1.dir, i2) /\ ~Below(x2.dir, i1))
            /\ dirents' = (dirents \ {x1, x2})
                     \cup {[x1 EXCEPT !.ino = i2], [x2 EXCEPT !.ino = i1]}
            /\ flist' = fm
            /\ CwdAfter2(dirents', f.path, g.path)
  <2>1. PICK x \in dirents :
          /\ x.name = NameOf(a) /\ At(dirents, x.dir, a.parent)
          /\ Resolve(Top, f.path) = x.ino /\ Resolve(Top, Front(f.path)) = x.dir
          /\ x = Dirent(x.dir, t, e1.id, x.ino)
          /\ x.dir = Spots(f.path)[Len(f.path) - 1]
          /\ \A k \in 1 .. Len(f.path) - 1 : Spots(f.path)[k] # x.ino
    BY <1>9 DEF PathKnown
  <2>2. PICK y \in dirents :
          /\ y.name = NameOf(b) /\ At(dirents, y.dir, b.parent)
          /\ Resolve(Top, g.path) = y.ino /\ Resolve(Top, Front(g.path)) = y.dir
          /\ y = Dirent(y.dir, t, e2.id, y.ino)
          /\ y.dir = Spots(g.path)[Len(g.path) - 1]
          /\ \A k \in 1 .. Len(g.path) - 1 : Spots(g.path)[k] # y.ino
    BY <1>11 DEF PathKnown
  <2>3. x1 = x /\ x2 = y /\ i1 = x.ino /\ i2 = y.ino
    BY <1>7, <2>1, <2>2
  <2>4. Partner(f.path, a, x, y) /\ Partner(g.path, b, y, x)
    BY <1>10, <1>12, <1>18, <2>1, <2>2, <2>3 DEF Partner
  <2> DEFINE D == (dirents \ {x, y}) \cup {[x EXCEPT !.ino = y.ino], [y EXCEPT !.ino = x.ino]}
  <2>5. dirents' = D
    BY <1>18, <2>3
  <2>6. D = (dirents \ {x, y}) \cup {[x EXCEPT !.ino = y.ino], [y EXCEPT !.ino = x.ino]}
    OBVIOUS
  <2> HIDE DEF D
  <2>7. /\ Matched({Swapped(w, a, b) : w \in View(flist)}, D, linked, xattrs, nameseq)
        /\ ChdirBack(D, f.path) \subseteq {Top} /\ ChdirBack(D, g.path) \subseteq {Top}
    <3>1. CASE a = b
      <4>1. x.name = NameOf(a) /\ y.name = NameOf(a) /\ a \in View(flist)
        BY <1>10, <2>1, <2>2, <3>1
      <4>2. D = dirents /\ {Swapped(w, a, a) : w \in View(flist)} = View(flist)
        BY <2>6, <4>1, ExchangeSelf
      <4> QED BY <1>4, <1>10, <1>12, <3>1, <4>2
    <3>2. CASE a # b
      BY <1>10, <1>12, <2>4, <2>6, <3>2, ExchangeTree
    <3> QED BY <3>1, <3>2
  <2>8. FixedAs(flist, a.id, b.id, TRUE, fx)
    <3>1. a.id \in Nat /\ b.id \in Nat /\ TRUE \in BOOLEAN
      BY <1>10, <1>12, ViewSlot DEF Recs
    <3>2. t # "d" => \A w \in View(flist) : w.parent # a.id /\ (TRUE => w.parent # b.id)
      BY <1>10, <1>12, FileNoParent
    <3>3. fx = FixList(flist, t, a.id, b.id, TRUE)
      BY <1>7, <1>10, <1>12
    <3> QED BY <1>3, <1>4, <3>1, <3>2, <3>3, FixAs
  <2>9. /\ fm \in FLists /\ SameIds(flist, fm) /\ Apart(fm)
        /\ View(fm) = {Swapped(w, a, b) : w \in View(flist)}
    <3>1. Unique(View(flist))
      BY <1>4 DEF Matched
    <3>2. a = Rec(t, flist[t][s]) /\ b = Rec(t, flist[t][u]) /\ fm = SwapCounters(fx, t, s, u)
      BY <1>7
    <3>3. ExchangedAs(flist, t, s, u, a, b, fx, fm)
      BY <1>3, <1>4, <1>8, <2>8, <3>1, <3>2, ExchangeLists
    <3> QED BY <3>3 DEF ExchangedAs
  <2>10. \A r \in FTypes : Len(fm[r]) <= nameseq
    BY <1>4, <2>9 DEF SameIds
  <2>11. cwd' = Top
    BY <1>18, <2>5, <2>7 DEF CwdAfter2
  <2>12. Matched(View(flist'), dirents', linked', xattrs', nameseq')
    BY <1>1, <1>6, <1>18, <2>5, <2>7, <2>9
  <2>13. LInv'
    BY <1>1, <1>16, <1>18, <2>9, <2>10, <2>11, <2>12, InvStep
  <2>14. CacheKept
    <3>1. ASSUME CurrentIn(flist, dcache) PROVE CurrentIn(flist', dcache')
      <4>1. CurrentIn(flist, dcache')
        BY <1>16, <3>1
      <4> QED BY <1>4, <1>18, <2>9, <4>1, SameCurrent
    <3> QED BY <3>1 DEF CacheKept
  <2> QED BY <2>13, <2>14
<1> QED BY <1>6, <1>17, <1>18

-----------------------------------------------------------------------------
(* The end of a loop, all steps, and the theorems.                         *)

\* Nothing is known of an empty tree.
LEMMA NoNames ==
  ASSUME NEW L, NEW n \in Nat
  PROVE  Matched({}, {}, L, {}, n)
<1>1. DirsOf({}) = {} /\ Ids({}) = {}
  BY DEF DirsOf, Ids
<1>2. Forest({})
  BY <1>1 DEF Forest, Grounded
<1>3. Named({}, {})
  <2>1. IsFiniteSet({})
    BY FS_EmptySet
  <2> QED BY <2>1 DEF Named, NamesOnce
<1>4. Inodes({}, L, n) /\ Attrs({}, {}, {}, L) /\ Unique({})
  BY DEF Inodes, Attrs, Unique
<1> QED BY <1>2, <1>3, <1>4 DEF Matched

\* No entries.
LEMMA EmptyLists ==
  ASSUME NEW fl, fl = [t \in FTypes |-> <<>>]
  PROVE  fl \in FLists /\ Apart(fl) /\ View(fl) = {} /\ \A t \in FTypes : Len(fl[t]) = 0
<1>1. \A t \in FTypes : fl[t] = <<>> /\ fl[t] \in Seq(EntryRec) /\ Len(fl[t]) = 0
  OBVIOUS
<1>2. View(fl) = {}
  BY <1>1, ViewSlot
<1> QED BY <1>1, <1>2 DEF FLists, Apart

\* The end of a call of doproc(); with -c the lists and the tree are gone.
LEMMA EndStep ==
  ASSUME LInv, EndOfLoop
  PROVE  LInv' /\ (~cleanup => CacheKept)
<1>1. /\ LInv /\ nameseq' = nameseq /\ dcache' = dcache /\ cwd' = cwd /\ linked' = linked
  BY DEF EndOfLoop
<1>2. CASE cleanup
  <2>1. flist' = [t \in FTypes |-> <<>>] /\ dirents' = {} /\ xattrs' = {}
    BY <1>2 DEF EndOfLoop
  <2>2. flist' \in FLists /\ Apart(flist') /\ View(flist') = {}
        /\ \A t \in FTypes : Len(flist'[t]) = 0
    BY <2>1, EmptyLists
  <2>3. nameseq \in Nat /\ nameseq <= MaxNames /\ dcache \in Caches /\ cwd = Top
    BY DEF LInv, Matched
  <2>4. Matched({}, {}, linked, {}, nameseq)
    BY <2>3, NoNames
  <2>5. Matched(View(flist'), dirents', linked', xattrs', nameseq')
    BY <1>1, <2>1, <2>2, <2>4
  <2>6. nameseq' <= MaxNames /\ (\A t \in FTypes : Len(flist'[t]) <= nameseq')
        /\ dcache' \in Caches /\ cwd' = Top
    BY <1>1, <2>2, <2>3
  <2>7. LInv'
    BY <2>2, <2>5, <2>6, InvStep
  <2> QED BY <1>2, <2>7
<1>3. CASE ~cleanup
  <2>1. UNCHANGED <<flist, dirents, xattrs>>
    BY <1>3 DEF EndOfLoop
  <2> QED BY <1>1, <2>1 DEF LInv, CacheKept
<1> QED BY <1>2, <1>3

\* The invariant holds at first.
LEMMA InitInv ==
  ASSUME Init
  PROVE  LInv /\ CurrentIn(flist, dcache)
<1>1. MaxNames \in Nat /\ NDCACHE \in Nat \ {0}
  BY FsstressAssumption
<1>2. flist = [t \in FTypes |-> <<>>] /\ nameseq = 0 /\ dirents = {} /\ xattrs = {} /\ cwd = Top
      /\ dcache = [h \in 0 .. NDCACHE - 1 |-> 0]
  BY DEF Init
<1>3. flist \in FLists /\ Apart(flist) /\ View(flist) = {} /\ \A t \in FTypes : Len(flist[t]) = 0
  BY <1>2, EmptyLists
<1>4. Matched({}, {}, linked, {}, 0)
  BY NoNames
<1>5. dcache \in Caches /\ \A h \in 0 .. NDCACHE - 1 : dcache[h] = 0
  BY <1>2 DEF Caches
<1>6. CurrentIn(flist, dcache)
  BY <1>5 DEF CurrentIn
<1>7. Matched(View(flist), dirents, linked, xattrs, nameseq)
  BY <1>2, <1>3, <1>4
<1>8. nameseq <= MaxNames /\ (\A t \in FTypes : Len(flist[t]) <= nameseq) /\ cwd = Top
  BY <1>1, <1>2, <1>3
<1> QED BY <1>3, <1>5, <1>6, <1>7, <1>8 DEF LInv

\* The four kinds of a new file.
LEMMA NewNameSteps ==
  ASSUME LInv, creat_f \/ mkdir_f \/ mknod_f \/ symlink_f
  PROVE  LInv' /\ CacheKept
<1>1. PICK t \in FTypes : NewName(t)
  <2>1. /\ "d" \in FTypes /\ "f" \in FTypes /\ "c" \in FTypes /\ "l" \in FTypes
        /\ FT_REGFILE \in SUBSET FTypes
    BY DEF FTypes, FT_REGFILE
  <2>2. CASE creat_f
    BY <2>1, <2>2 DEF creat_f
  <2>3. CASE mkdir_f
    BY <2>1, <2>3 DEF mkdir_f
  <2>4. CASE mknod_f
    BY <2>1, <2>4 DEF mknod_f
  <2>5. CASE symlink_f
    BY <2>1, <2>5 DEF symlink_f
  <2> QED BY <2>2, <2>3, <2>4, <2>5
<1> QED BY <1>1, NewNameStep

\* rmdir_f() and unlink_f().
LEMMA RemoveSteps ==
  ASSUME LInv, rmdir_f \/ unlink_f
  PROVE  LInv' /\ CacheKept
<1>1. {"d"} \in SUBSET FTypes /\ FT_NOTDIR \in SUBSET FTypes
  BY DEF FTypes, FT_NOTDIR
<1>2. CASE rmdir_f
  BY <1>1, <1>2, RemoveStep DEF rmdir_f
<1>3. CASE unlink_f
  BY <1>1, <1>3, RemoveStep DEF unlink_f
<1> QED BY <1>2, <1>3

\* Every operation keeps the invariant and a current cache.
LEMMA OperationStep ==
  ASSUME LInv, Next, ~EndOfLoop
  PROVE  LInv' /\ CacheKept
<1>1. CASE creat_f \/ mkdir_f \/ mknod_f \/ symlink_f
  BY <1>1, NewNameSteps
<1>2. CASE link_f
  BY <1>2, LinkStep
<1>3. CASE rename_f
  BY <1>3, RenameStep
<1>4. CASE rwhiteout_f
  BY <1>4, WhiteoutStep
<1>5. CASE rexchange_f
  BY <1>5, ExchangeStep
<1>6. CASE rmdir_f \/ unlink_f
  BY <1>6, RemoveSteps
<1>7. CASE setfattr_f
  BY <1>7, SetfattrStep
<1>8. CASE removefattr_f
  BY <1>8, RemovefattrStep
<1>9. CASE attr_set_f
  BY <1>9, AttrSetStep
<1>10. CASE DataOp \/ SyncOp \/ InodeOp \/ ReadlinkOp \/ GetdentsOp
  BY <1>10, VisitSteps
<1>11. CASE RangeOp
  BY <1>11, RangeStep
<1> QED
  BY <1>1, <1>2, <1>3, <1>4, <1>5, <1>6, <1>7, <1>8, <1>9, <1>10, <1>11 DEF Next

\* One step, for the lists and the tree.
LEMMA LInvStep ==
  ASSUME LInv, [Next]_vars
  PROVE  LInv'
<1>1. CASE EndOfLoop
  BY <1>1, EndStep
<1>2. CASE Next /\ ~EndOfLoop
  BY <1>2, OperationStep
<1>3. CASE UNCHANGED vars
  BY <1>3 DEF vars, LInv
<1> QED BY <1>1, <1>2, <1>3

\* The lists match the tree in every state, whatever the operations have done.
THEOREM ListsInvariant == Spec => []LInv
<1>1. Init => LInv
  BY InitInv
<1>2. LInv /\ [Next]_vars => LInv'
  BY LInvStep
<1> QED BY <1>1, <1>2, PTL DEF Spec

\* An entry that the properties look at.
LEMMA EntryKnown ==
  ASSUME LInv, NEW p \in Entries
  PROVE  /\ p[1] \in FTypes /\ p[2] \in 1 .. Len(flist[p[1]]) /\ p = <<p[1], p[2]>>
         /\ Ent(p) = flist[p[1]][p[2]]
         /\ PathKnown(dcache, p[1], p[2], Ent(p), fent_to_name(dcache, p[1], Ent(p)),
                      Rec(p[1], Ent(p)))
<1>1. p[1] \in FTypes /\ p[2] \in Slots(p[1]) /\ p = <<p[1], p[2]>>
  BY DEF Entries
<1>2. Ent(p) = flist[p[1]][p[2]] /\ p[2] \in 1 .. Len(flist[p[1]])
  BY <1>1 DEF Ent, Slots
<1> DEFINE t == p[1]
           s == p[2]
           e == Ent(p)
           f == fent_to_name(dcache, t, e)
           v == Rec(t, e)
<1>3. t \in FTypes /\ s \in Slots(t) /\ e = flist[t][s] /\ f = fent_to_name(dcache, t, e)
      /\ v = Rec(t, e) /\ dcache \in Caches
  BY <1>1, <1>2 DEF LInv
<1> HIDE DEF t, s, e, f, v
<1>4. PathKnown(dcache, t, s, e, f, v)
  BY <1>3, PathOfEntry
<1> QED BY <1>1, <1>2, <1>4 DEF t, s, e, f, v

\* A dirent and its entry.
LEMMA DirentEntry ==
  ASSUME LInv, NEW x \in dirents
  PROVE  \E p \in Entries : x.name = <<p[1], Ent(p).id>>
<1>1. Matched(View(flist), dirents, linked, xattrs, nameseq)
  BY DEF LInv
<1>2. PICK v \in View(flist) : x.name = NameOf(v)
  BY <1>1 DEF Matched, Named
<1>3. PICK t \in FTypes, s \in Nat : s \in 1 .. Len(flist[t]) /\ v = Rec(t, flist[t][s])
  <2>1. PICK t \in FTypes : \E s \in 1 .. Len(flist[t]) : v = Rec(t, flist[t][s])
    BY ViewSlot
  <2>2. \A s \in 1 .. Len(flist[t]) : s \in Nat
    OBVIOUS
  <2> QED BY <2>1, <2>2
<1>4. x.name = <<t, flist[t][s].id>>
  BY <1>2, <1>3 DEF NameOf, Rec
<1>5. s \in 1 .. MaxNames
  <2>1. /\ Len(flist[t]) \in Nat /\ nameseq \in Nat /\ Len(flist[t]) <= nameseq
        /\ nameseq <= MaxNames /\ MaxNames \in Nat
    BY <1>1, ListSlot, FsstressAssumption DEF LInv, Matched
  <2> QED BY <1>3, <2>1
<1> DEFINE p == <<t, s>>
<1>6. p \in Entries /\ Ent(p) = flist[t][s] /\ p[1] = t
  BY <1>3, <1>5 DEF Entries, Slots, Ent
<1> QED BY <1>4, <1>6

\* The invariant says what ListExact, XattrsCounted and CwdHome say.
LEMMA InvExact ==
  ASSUME LInv
  PROVE  ListExact
<1>1. Matched(View(flist), dirents, linked, xattrs, nameseq) /\ Apart(flist)
  BY DEF LInv
<1>2. ASSUME NEW p \in Entries, NEW q \in Entries, Ent(p).id = Ent(q).id PROVE p = q
  <2>1. p[1] = q[1] /\ p[2] = q[2]
    BY <1>1, <1>2, EntryKnown, ApartAt
  <2> QED BY <2>1, EntryKnown
<1> DEFINE E(p) == <<Resolve(Top, Front(PathOf(p))), <<p[1], Ent(p).id>> >>
           X(x) == <<x.dir, x.name>>
<1>3. ASSUME NEW p \in Entries PROVE \E x \in dirents : E(p) = X(x) /\ x.name = <<p[1], Ent(p).id>>
  <2>1. PathKnown(dcache, p[1], p[2], Ent(p), fent_to_name(dcache, p[1], Ent(p)), Rec(p[1], Ent(p)))
    BY EntryKnown
  <2>2. PICK x \in dirents :
          /\ x.name = NameOf(Rec(p[1], Ent(p)))
          /\ Resolve(Top, Front(fent_to_name(dcache, p[1], Ent(p)).path)) = x.dir
    BY <2>1 DEF PathKnown
  <2>3. x.name = <<p[1], Ent(p).id>>
    BY <2>2 DEF NameOf, Rec
  <2> QED BY <2>2, <2>3 DEF PathOf
<1>4. ASSUME NEW x \in dirents PROVE \E p \in Entries : E(p) = X(x)
  <2>1. PICK p \in Entries : x.name = <<p[1], Ent(p).id>>
    BY DirentEntry
  <2>2. PICK z \in dirents : E(p) = X(z) /\ z.name = <<p[1], Ent(p).id>>
    BY <1>3
  <2>3. z = x
    BY <1>1, <2>1, <2>2 DEF Matched, Named, NamesOnce
  <2> QED BY <2>2, <2>3
<1>5. \A x \in dirents : x.ino[1] = x.name[1]
  BY <1>1 DEF Matched, Inodes
<1> HIDE DEF E, X
<1>6. {E(p) : p \in Entries} = {X(x) : x \in dirents}
  BY <1>3, <1>4
<1> QED BY <1>2, <1>5, <1>6 DEF ListExact, E, X

\* The counters.
LEMMA InvCounted ==
  ASSUME LInv
  PROVE  XattrsCounted
<1> SUFFICES ASSUME NEW p \in Entries, Resolve(Top, PathOf(p)) \notin linked,
                    NEW a \in xattrs, a[1] = Resolve(Top, PathOf(p))
             PROVE  a[2] \in 1 .. Ent(p).xattr_counter
  BY DEF XattrsCounted
<1>1. PathKnown(dcache, p[1], p[2], Ent(p), fent_to_name(dcache, p[1], Ent(p)), Rec(p[1], Ent(p)))
  BY EntryKnown
<1> DEFINE v == Rec(p[1], Ent(p))
<1>2. /\ v \in View(flist) /\ v.count = Ent(p).xattr_counter
      /\ \E x \in dirents : x.name = NameOf(v) /\ Resolve(Top, PathOf(p)) = x.ino
  BY <1>1 DEF PathKnown, PathOf
<1> HIDE DEF v
<1>3. PICK x \in dirents : x.name = NameOf(v) /\ Resolve(Top, PathOf(p)) = x.ino
  BY <1>2
<1>4. Attrs(View(flist), dirents, xattrs, linked)
  BY DEF LInv, Matched
<1>5. a[2] \in 1 .. v.count
  BY <1>2, <1>3, <1>4 DEF Attrs
<1> QED BY <1>2, <1>5

\* After every operation the lists name exactly the files that exist, each once
\* and where it is: whatever the operations were, for every number of names.
THEOREM ListExactHolds == Spec => []ListExact
<1>1. LInv => ListExact
  BY InvExact
<1> QED BY <1>1, ListsInvariant, PTL

\* xattr_counter counts the attributes of every file that never had two names.
THEOREM XattrsCountedHolds == Spec => []XattrsCounted
<1>1. LInv => XattrsCounted
  BY InvCounted
<1> QED BY <1>1, ListsInvariant, PTL

\* The process is back in its own directory after every operation.
THEOREM CwdHomeHolds == Spec => []CwdHome
<1>1. LInv => CwdHome
  BY DEF LInv, CwdHome
<1> QED BY <1>1, ListsInvariant, PTL

\* With the loops: without -c, or with it in one loop, the cache is current.
CInv == LInv /\ loops \in 0 .. MaxLoops /\ (Running => CurrentIn(flist, dcache))

\* One step.
LEMMA CInvStep ==
  ASSUME cleanup => MaxLoops = 1, CInv, [Next]_vars
  PROVE  CInv'
<1>1. LInv /\ loops \in 0 .. MaxLoops /\ (Running => CurrentIn(flist, dcache))
  BY DEF CInv
<1>2. MaxLoops \in Nat
  BY FsstressAssumption
<1>3. LInv'
  BY <1>1, LInvStep
<1>4. CASE EndOfLoop
  <2>1. loops > 0 /\ loops' = loops - 1
    BY <1>4 DEF EndOfLoop, Running
  <2>2. ~cleanup => CacheKept
    BY <1>1, <1>4, EndStep
  <2>3. Running' => ~cleanup
    BY <1>1, <1>2, <2>1 DEF Running
  <2>4. CurrentIn(flist, dcache)
    BY <1>1, <2>1 DEF Running
  <2>5. Running' => CurrentIn(flist', dcache')
    BY <2>2, <2>3, <2>4 DEF CacheKept
  <2> QED BY <1>1, <1>2, <1>3, <2>1, <2>5 DEF CInv
<1>5. CASE Next /\ ~EndOfLoop
  <2>1. CacheKept
    BY <1>1, <1>5, OperationStep
  <2>2. Running /\ loops' = loops
    BY <1>5 DEF Next, creat_f, mkdir_f, mknod_f, symlink_f, NewName, link_f, rename_f,
                rwhiteout_f, rexchange_f, rmdir_f, unlink_f, RemoveName, setfattr_f,
                removefattr_f, attr_set_f, DataOp, SyncOp, InodeOp, ReadlinkOp, GetdentsOp,
                RangeOp, Choose
  <2>3. CurrentIn(flist', dcache')
    BY <1>1, <2>1, <2>2 DEF CacheKept
  <2> QED BY <1>1, <1>3, <2>2, <2>3 DEF CInv
<1>6. CASE UNCHANGED vars
  BY <1>1, <1>3, <1>6 DEF vars, CInv, Running, CurrentIn
<1> QED BY <1>4, <1>5, <1>6

\* dcache[] never refers to a slot beyond the list nor to an entry of another
\* hash value, unless -c throws the lists away and another loop follows.
THEOREM CacheCurrentHolds ==
  ASSUME cleanup => MaxLoops = 1
  PROVE  Spec => []CacheCurrent
<1>1. Init => CInv
  <2>1. Init => LInv /\ CurrentIn(flist, dcache)
    BY InitInv
  <2>2. Init => loops \in 0 .. MaxLoops
    BY FsstressAssumption DEF Init
  <2> QED BY <2>1, <2>2 DEF CInv
<1>2. CInv /\ [Next]_vars => CInv'
  BY CInvStep
<1>3. CInv => CacheCurrent
  <2>1. ASSUME CInv, Running, NEW h \in DOMAIN dcache, dcache[h] # 0
        PROVE  dcache[h] \in Slots("d") /\ Dirs[dcache[h]].id % NDCACHE = h
    <3>1. h \in 0 .. NDCACHE - 1 /\ CurrentIn(flist, dcache)
      BY <2>1 DEF CInv, LInv, Caches
    <3> QED BY <2>1, <3>1 DEF CurrentIn, Slots, Dirs
  <2> QED BY <2>1 DEF CacheCurrent
<1> QED BY <1>1, <1>2, <1>3, PTL DEF Spec
=============================================================================

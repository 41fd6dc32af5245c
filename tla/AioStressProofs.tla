--------------------------- MODULE AioStressProofs ---------------------------
(***************************************************************************)
(* Proofs about aio-stress.c for any number of threads, files and contexts *)
(* and any depth.                                                          *)
(*   - BookInv: the io units and the requests with the kernel are never    *)
(*     miscounted.                                                         *)
(*   - AheadInv and the barrier invariant: the threads implement AioStage, *)
(*     and a stonewall is raised by a thread that ended this very stage.   *)
(*   - TidyInv: an operation is on one list, starts no more than its       *)
(*     requests, and changes its stage with all of them back.              *)
(***************************************************************************)
EXTENDS AioStress, SequenceTheorems, FiniteSetTheorems, WellFoundedInduction, TLAPS

\* The operations of a thread.
Own(t) == {o \in Opers : ThreadOf(o) = t}

-----------------------------------------------------------------------------
(* The options and what main() makes of them.                              *)

\* There is a thread and an operation; a chunk is never larger than the depth.
LEMMA Options ==
  /\ NumFiles * NumContexts \in Nat \ {0}
  /\ num_threads \in Nat \ {0} /\ num_threads <= NumFiles * NumContexts
  /\ Depth \in Nat \ {0} /\ io_iter \in Nat \ {0} /\ io_iter <= Depth
  /\ QueueDepth \in Nat \ {0}
<1>1. /\ OptThreads \in Nat \ {0} /\ NumFiles \in Nat \ {0} /\ NumContexts \in Nat \ {0}
      /\ Depth \in Nat \ {0} /\ OptIoIter \in Nat \ {0} /\ QueueDepth \in Nat \ {0}
      /\ OptMaxSubmit \in Nat
  BY AioStressAssumption
<1>2. \A a, b \in Nat \ {0} : a * b \in Nat \ {0}
  OBVIOUS
<1>3. NumFiles * NumContexts \in Nat \ {0}
  BY <1>1, <1>2
<1>4. num_threads \in Nat \ {0} /\ num_threads <= NumFiles * NumContexts
  BY <1>1, <1>3 DEF num_threads, MinOf
<1>5. DepthIter \in Nat \ {0} /\ DepthIter <= Depth
  BY <1>1 DEF DepthIter, MinOf
<1>6. max_io_submit \in Nat \ {0}
  <2>1. NumFiles * DepthIter * NumContexts \in Nat \ {0}
    BY <1>1, <1>2, <1>5
  <2> QED BY <1>1, <2>1 DEF max_io_submit
<1>7. io_iter \in Nat \ {0} /\ io_iter <= Depth
  BY <1>1, <1>5, <1>6 DEF io_iter, MinOf
<1> QED BY <1>1, <1>3, <1>4, <1>7

\* The operations dealt out to a thread are its own, and there is one.
LEMMA Dealt ==
  ASSUME NEW t \in Threads
  PROVE  /\ OpersOf(t) \in Seq(Own(t)) /\ Len(OpersOf(t)) \in Nat \ {0}
<1> DEFINE n == NumFiles * NumContexts
           m == num_threads
           q == (n - 1 - t) \div m
<1>1. /\ n \in Nat \ {0} /\ m \in Nat \ {0} /\ m <= n /\ t \in Nat /\ t < m
  BY Options DEF Threads
<1> HIDE DEF n, m
<1>2. q \in Nat /\ m * q <= n - 1 - t
  <2> DEFINE x == n - 1 - t
  <2>1. x \in Nat
    BY <1>1
  <2> HIDE DEF x
  <2>2. x \div m \in Nat /\ m * (x \div m) <= x
    BY <1>1, <2>1
  <2> QED BY <2>2 DEF x
<1> HIDE DEF q
<1>3. ASSUME NEW k \in 1 .. q + 1
      PROVE  t + (k - 1) * m \in 0 .. n - 1 /\ (t + (k - 1) * m) % m = t
  <2> DEFINE j == k - 1
  <2>1. j \in Nat /\ j <= q
    BY <1>2
  <2> HIDE DEF j
  <2>2. j * m \in Nat /\ j * m <= m * q
    <3>1. \A a, b, c \in Nat : a <= b => a * c <= c * b /\ a * c \in Nat
      OBVIOUS
    <3> QED BY <1>1, <1>2, <2>1, <3>1
  <2>3. t + j * m \in 0 .. n - 1
    <3> DEFINE x == j * m
               y == m * q
    <3>1. x \in Nat /\ x <= y /\ y <= n - 1 - t /\ y \in Int
      BY <1>1, <1>2, <2>2
    <3> HIDE DEF x, y
    <3>2. t + x \in 0 .. n - 1
      BY <1>1, <3>1
    <3> QED BY <3>2 DEF x
  <2>4. (t + j * m) % m = t
    BY <1>1, <2>1
  <2> QED BY <2>3, <2>4 DEF j
<1>4. OpersOf(t) = [k \in 1 .. q + 1 |-> t + (k - 1) * m]
  BY DEF OpersOf, q, n, m
<1>5. \A k \in 1 .. q + 1 : t + (k - 1) * m \in Own(t)
  BY <1>3 DEF Own, Opers, ThreadOf, n, m
<1>6. q + 1 \in Nat \ {0}
  BY <1>2
<1> DEFINE s == [k \in 1 .. q + 1 |-> t + (k - 1) * m]
<1>7. s \in [1 .. q + 1 -> Own(t)]
  BY <1>5
<1> HIDE DEF s
<1>8. s \in Seq(Own(t)) /\ Len(s) = q + 1
  BY <1>6, <1>7
<1> QED BY <1>4, <1>6, <1>8 DEF s

\* The io units of a thread: depth of them for each of its operations.
LEMMA UnitsAre ==
  ASSUME NEW t \in Threads
  PROVE  /\ IsFiniteSet(UnitsOf(t)) /\ UnitsOf(t) \subseteq Units
         /\ Cardinality(UnitsOf(t)) = Len(OpersOf(t)) * Depth
         /\ \A u \in UnitsOf(t) : u[1] = t
<1> DEFINE n == Len(OpersOf(t)) * Depth
           U == 1 .. n
<1>1. n \in Nat \ {0}
  <2>1. \A a, b \in Nat \ {0} : a * b \in Nat \ {0}
    OBVIOUS
  <2> QED BY <2>1, Options, Dealt
<1> HIDE DEF n
<1>2. IsFiniteSet(U) /\ Cardinality(U) = n
  BY <1>1, FS_Interval
<1>3. IsFiniteSet({t}) /\ Cardinality({t}) = 1
  BY FS_Singleton
<1> HIDE DEF U
<1>4. IsFiniteSet({t} \X U) /\ Cardinality({t} \X U) = 1 * n
  BY <1>2, <1>3, FS_Product
<1>5. 1 * n = n
  BY <1>1
<1>6. UnitsOf(t) = {t} \X U
  BY DEF UnitsOf, U, n
<1>7. UnitsOf(t) \subseteq Units
  BY DEF Units
<1> QED BY <1>4, <1>5, <1>6, <1>7 DEF n

-----------------------------------------------------------------------------
(* Sequences without repetition, and finite sets.                          *)

Once(s) == \A i, j \in 1 .. Len(s) : s[i] = s[j] => i = j

\* A sequence without repetition is as long as it has members.
LEMMA OnceLength ==
  ASSUME NEW S, NEW s \in Seq(S), Once(s)
  PROVE  IsFiniteSet(Range(s)) /\ Cardinality(Range(s)) = Len(s)
<1>1. Len(s) \in Nat /\ s \in [1 .. Len(s) -> S] /\ Range(s) = {s[i] : i \in 1 .. Len(s)}
  BY LenProperties, RangeEquality
<1>2. IsFiniteSet(1 .. Len(s)) /\ Cardinality(1 .. Len(s)) = Len(s)
  BY <1>1, FS_Interval, SMTT(30)
<1>3. s \in Bijection(1 .. Len(s), Range(s))
  BY <1>1 DEF Once, Bijection, Injection, Surjection, IsInjective
<1>4. ExistsBijection(1 .. Len(s), Range(s))
  BY <1>3 DEF ExistsBijection
<1> QED BY <1>2, <1>4, FS_Bijection

\* One more at the end.
LEMMA OnceAppend ==
  ASSUME NEW S, NEW s \in Seq(S), Once(s), NEW u \in S, u \notin Range(s)
  PROVE  /\ Append(s, u) \in Seq(S) /\ Len(Append(s, u)) = Len(s) + 1
         /\ Once(Append(s, u)) /\ Range(Append(s, u)) = Range(s) \cup {u}
<1> DEFINE a == Append(s, u)
<1>1. /\ a \in Seq(S) /\ Len(a) = Len(s) + 1 /\ a[Len(s) + 1] = u
      /\ \A i \in 1 .. Len(s) : a[i] = s[i]
  BY AppendProperties
<1> HIDE DEF a
<1>2. Len(s) \in Nat /\ Range(s) = {s[i] : i \in 1 .. Len(s)}
  BY LenProperties, RangeEquality
<1>3. Range(a) = {a[i] : i \in 1 .. Len(a)}
  BY <1>1, RangeEquality
<1>4. \A i \in 1 .. Len(a) : i \in 1 .. Len(s) \/ i = Len(s) + 1
  BY <1>1, <1>2
<1>5. Once(a)
  BY <1>1, <1>2, <1>4 DEF Once
<1>6. 1 .. Len(s) \subseteq 1 .. Len(a) /\ Len(s) + 1 \in 1 .. Len(a)
  BY <1>1, <1>2
<1>7. Range(a) = Range(s) \cup {u}
  BY <1>1, <1>2, <1>3, <1>4, <1>6
<1> QED BY <1>1, <1>5, <1>7 DEF a

\* The first k and the others.
LEMMA OnceSplit ==
  ASSUME NEW S, NEW s \in Seq(S), Once(s), NEW k \in 0 .. Len(s)
  PROVE  LET a == SubSeq(s, 1, k)
             b == SubSeq(s, k + 1, Len(s)) IN
         /\ a \in Seq(S) /\ Len(a) = k /\ b \in Seq(S) /\ Len(b) = Len(s) - k
         /\ Once(a) /\ Once(b)
         /\ Range(a) \cup Range(b) = Range(s) /\ Range(a) \cap Range(b) = {}
<1> DEFINE n == Len(s)
           a == SubSeq(s, 1, k)
           b == SubSeq(s, k + 1, n)
<1>1. n \in Nat /\ \A i \in 1 .. n : s[i] \in S
  BY LenProperties, ElementOfSeq
<1>2. a \in Seq(S) /\ Len(a) = k /\ \A i \in 1 .. k : a[i] = s[i]
  <2>1. \A i \in 1 .. k : s[i] \in S
    BY <1>1
  <2> QED BY <1>1, <2>1, SubSeqProperties
<1>3. b \in Seq(S) /\ Len(b) = n - k /\ \A i \in 1 .. n - k : b[i] = s[k + i]
  <2>1. \A i \in k + 1 .. n : s[i] \in S
    BY <1>1
  <2>2. /\ b \in Seq(S) /\ Len(b) = (IF k + 1 <= n THEN n - (k + 1) + 1 ELSE 0)
        /\ \A i \in 1 .. n - (k + 1) + 1 : b[i] = s[k + 1 + i - 1]
    <3>1. k + 1 \in Int /\ n \in Int
      BY <1>1
    <3> HIDE DEF n
    <3> QED BY <2>1, <3>1, SubSeqProperties
  <2>3. Len(b) = n - k
    BY <1>1, <2>2
  <2>4. ASSUME NEW i \in 1 .. n - k PROVE b[i] = s[k + i]
    <3>1. i \in 1 .. n - (k + 1) + 1 /\ k + 1 + i - 1 = k + i
      BY <1>1
    <3> QED BY <2>2, <3>1
  <2> QED BY <2>2, <2>3, <2>4
<1> HIDE DEF a, b
<1>4. /\ Range(s) = {s[i] : i \in 1 .. n} /\ Range(a) = {a[i] : i \in 1 .. k}
      /\ Range(b) = {b[i] : i \in 1 .. n - k}
  BY <1>2, <1>3, RangeEquality
<1>5. Once(a)
  <2>1. 1 .. k \subseteq 1 .. n
    BY <1>1
  <2> QED BY <1>2, <2>1 DEF Once
<1>6. Once(b)
  <2> SUFFICES ASSUME NEW i \in 1 .. n - k, NEW j \in 1 .. n - k, b[i] = b[j] PROVE i = j
    BY <1>3 DEF Once
  <2>1. k + i \in 1 .. n /\ k + j \in 1 .. n
    BY <1>1
  <2>2. k + i = k + j
    BY <1>3, <2>1 DEF Once
  <2> QED BY <2>2
<1>7. Range(a) \cup Range(b) = Range(s)
  <2>1. ASSUME NEW i \in 1 .. k PROVE i \in 1 .. n /\ a[i] = s[i]
    BY <1>1, <1>2
  <2>2. ASSUME NEW i \in 1 .. n - k PROVE k + i \in 1 .. n /\ b[i] = s[k + i]
    BY <1>1, <1>3
  <2>3. ASSUME NEW i \in 1 .. n
        PROVE  (i \in 1 .. k /\ a[i] = s[i]) \/ (i - k \in 1 .. n - k /\ b[i - k] = s[i])
    <3>1. CASE i <= k
      BY <1>1, <1>2, <3>1
    <3>2. CASE i > k
      <4>1. i - k \in 1 .. n - k /\ k + (i - k) = i
        BY <1>1, <3>2
      <4> QED BY <1>3, <4>1
    <3> QED BY <1>1, <3>1, <3>2
  <2> HIDE DEF n
  <2> QED BY <1>4, <2>1, <2>2, <2>3
<1>8. Range(a) \cap Range(b) = {}
  <2> SUFFICES ASSUME NEW i \in 1 .. k, NEW j \in 1 .. n - k, a[i] = b[j] PROVE FALSE
    BY <1>4
  <2>1. i \in 1 .. n /\ k + j \in 1 .. n /\ i # k + j
    BY <1>1
  <2> QED BY <1>2, <1>3, <2>1 DEF Once
<1> QED BY <1>2, <1>3, <1>5, <1>6, <1>7, <1>8 DEF a, b

\* Taking one operation off a list.
LEMMA Removed ==
  ASSUME NEW S, NEW s \in Seq(S), NEW i \in 1 .. Len(s)
  PROVE  RemoveAt(s, i) \in Seq(S) /\ Len(RemoveAt(s, i)) = Len(s) - 1
<1> DEFINE a == SubSeq(s, 1, i - 1)
           b == SubSeq(s, i + 1, Len(s))
<1>1. Len(s) \in Nat /\ \A j \in 1 .. Len(s) : s[j] \in S
  BY LenProperties, ElementOfSeq
<1>2. a \in Seq(S) /\ Len(a) = i - 1
  <2>1. \A j \in 1 .. i - 1 : s[j] \in S
    BY <1>1
  <2>2. i - 1 \in Int /\ 1 \in Int
    BY <1>1
  <2>3. a \in Seq(S) /\ Len(a) = IF 1 <= i - 1 THEN (i - 1) - 1 + 1 ELSE 0
    BY <2>1, <2>2, SubSeqProperties
  <2> QED BY <1>1, <2>3
<1>3. b \in Seq(S) /\ Len(b) = Len(s) - i
  <2> DEFINE n == Len(s)
  <2>1. \A j \in i + 1 .. n : s[j] \in S
    BY <1>1
  <2>2. i + 1 \in Int /\ n \in Int
    BY <1>1
  <2>3. b \in Seq(S) /\ Len(b) = IF i + 1 <= n THEN n - (i + 1) + 1 ELSE 0
    <3> HIDE DEF n
    <3>1. /\ SubSeq(s, i + 1, n) \in Seq(S)
          /\ Len(SubSeq(s, i + 1, n)) = IF i + 1 <= n THEN n - (i + 1) + 1 ELSE 0
      BY <2>1, <2>2, SubSeqProperties
    <3>2. b = SubSeq(s, i + 1, n)
      BY DEF n
    <3> HIDE DEF b
    <3> QED BY <3>1, <3>2
  <2> HIDE DEF b
  <2> QED BY <1>1, <2>3
<1> HIDE DEF a, b
<1>4. a \o b \in Seq(S) /\ Len(a \o b) = Len(a) + Len(b)
  BY <1>2, <1>3, ConcatProperties
<1>5. RemoveAt(s, i) = a \o b
  BY DEF RemoveAt, a, b
<1> DEFINE c == a \o b
<1>6. c \in Seq(S) /\ Len(c) = (i - 1) + (Len(s) - i)
  BY <1>2, <1>3, <1>4
<1> HIDE DEF c
<1>7. Len(c) = Len(s) - 1
  BY <1>1, <1>6
<1> QED BY <1>5, <1>6, <1>7 DEF c

-----------------------------------------------------------------------------
(* Where the io units are.                                                 *)

\* Each of the units U is free, prepared, in flight or done, and only one of these.
Split(U, fr, s, in, dn) ==
  /\ s \in Seq(U) /\ Once(s)
  /\ fr \cup Range(s) \cup in \cup dn = U
  /\ fr \cap Range(s) = {} /\ fr \cap in = {} /\ fr \cap dn = {}
  /\ Range(s) \cap in = {} /\ Range(s) \cap dn = {} /\ in \cap dn = {}

\* find_iou() takes a free unit, and it is prepared.
LEMMA SplitBuild ==
  ASSUME NEW U, NEW fr, NEW s, NEW in, NEW dn, Split(U, fr, s, in, dn), NEW u \in fr
  PROVE  Split(U, fr \ {u}, Append(s, u), in, dn)
<1>1. s \in Seq(U) /\ Once(s) /\ u \in U /\ u \notin Range(s)
  BY DEF Split
<1>2. Append(s, u) \in Seq(U) /\ Once(Append(s, u)) /\ Range(Append(s, u)) = Range(s) \cup {u}
  BY <1>1, OnceAppend
<1> QED BY <1>2 DEF Split

\* finish_io() gives units that are done back.
LEMMA SplitReap ==
  ASSUME NEW U, NEW fr, NEW s, NEW in, NEW dn, Split(U, fr, s, in, dn), NEW S \in SUBSET dn
  PROVE  Split(U, fr \cup S, s, in, dn \ S)
  BY DEF Split

\* io_submit takes the first k of the prepared units.
LEMMA SplitSubmit ==
  ASSUME NEW U, NEW fr, NEW s, NEW in, NEW dn, Split(U, fr, s, in, dn), NEW k \in 0 .. Len(s)
  PROVE  /\ Split(U, fr, SubSeq(s, k + 1, Len(s)), in \cup Range(SubSeq(s, 1, k)), dn)
         /\ Len(SubSeq(s, k + 1, Len(s))) = Len(s) - k
         /\ Range(SubSeq(s, 1, k)) \subseteq Range(s)
<1> DEFINE a == SubSeq(s, 1, k)
           b == SubSeq(s, k + 1, Len(s))
<1>1. s \in Seq(U) /\ Once(s)
  BY DEF Split
<1>2. /\ b \in Seq(U) /\ Once(b) /\ Len(b) = Len(s) - k
      /\ Range(a) \cup Range(b) = Range(s) /\ Range(a) \cap Range(b) = {}
  BY <1>1, OnceSplit
<1> HIDE DEF a, b
<1>3. Split(U, fr, b, in \cup Range(a), dn)
  BY <1>2 DEF Split
<1> QED BY <1>2, <1>3 DEF a, b

\* A request completes.
LEMMA SplitComplete ==
  ASSUME NEW U, NEW fr, NEW s, NEW in, NEW dn, Split(U, fr, s, in, dn), NEW u \in in
  PROVE  Split(U, fr, s, in \ {u}, dn \cup {u})
  BY DEF Split

\* The units add up.
LEMMA SplitCounts ==
  ASSUME NEW U, IsFiniteSet(U), NEW fr, NEW s, NEW in, NEW dn, Split(U, fr, s, in, dn)
  PROVE  /\ Cardinality(fr) + Len(s) + Cardinality(in) + Cardinality(dn) = Cardinality(U)
         /\ Cardinality(fr) \in Nat /\ Len(s) \in Nat
         /\ Cardinality(in) \in Nat /\ Cardinality(dn) \in Nat
<1>1. s \in Seq(U) /\ Once(s)
  BY DEF Split
<1>2. Cardinality(Range(s)) = Len(s) /\ Len(s) \in Nat
  BY <1>1, OnceLength, LenProperties
<1> DEFINE R == Range(s)
<1>3. fr \in SUBSET U /\ R \in SUBSET U /\ in \in SUBSET U /\ dn \in SUBSET U
  BY DEF Split
<1>4. IsFiniteSet(fr) /\ IsFiniteSet(R) /\ IsFiniteSet(in) /\ IsFiniteSet(dn)
  BY <1>3, FS_Subset
<1>5. /\ Cardinality(fr) \in Nat /\ Cardinality(R) \in Nat
      /\ Cardinality(in) \in Nat /\ Cardinality(dn) \in Nat
  BY <1>4, FS_CardinalityType
<1>6. ASSUME NEW A, NEW B, IsFiniteSet(A), IsFiniteSet(B), A \cap B = {}
      PROVE  /\ IsFiniteSet(A \cup B)
             /\ Cardinality(A \cup B) = Cardinality(A) + Cardinality(B)
  <2>1. Cardinality(A) \in Nat /\ Cardinality(B) \in Nat /\ Cardinality(A \cap B) = 0
    BY <1>6, FS_CardinalityType, FS_EmptySet
  <2>2. /\ IsFiniteSet(A \cup B)
        /\ Cardinality(A \cup B) = Cardinality(A) + Cardinality(B) - Cardinality(A \cap B)
    BY <1>6, FS_Union
  <2> QED BY <2>1, <2>2
<1> HIDE DEF R
<1>7. /\ fr \cup R \cup in \cup dn = U
      /\ fr \cap R = {} /\ (fr \cup R) \cap in = {} /\ (fr \cup R \cup in) \cap dn = {}
  BY DEF Split, R
<1>8. IsFiniteSet(fr \cup R) /\ Cardinality(fr \cup R) = Cardinality(fr) + Cardinality(R)
  BY <1>4, <1>6, <1>7
<1>9. /\ IsFiniteSet(fr \cup R \cup in)
      /\ Cardinality(fr \cup R \cup in) = Cardinality(fr \cup R) + Cardinality(in)
  BY <1>4, <1>6, <1>7, <1>8
<1>10. Cardinality(U) = Cardinality(fr \cup R \cup in) + Cardinality(dn)
  BY <1>4, <1>6, <1>7, <1>9
<1> QED BY <1>2, <1>5, <1>8, <1>9, <1>10 DEF R

-----------------------------------------------------------------------------
(* Requests counted by operation.                                          *)

CountFor(jb, T, o) == Cardinality({u \in T : jb[u].oper = o})

\* The counts are numbers; only the jobs of the units in the set count.
LEMMA CountType ==
  ASSUME NEW jb, NEW T, IsFiniteSet(T), NEW o
  PROVE  /\ CountFor(jb, T, o) \in Nat /\ Cardinality(T) \in Nat
         /\ CountFor(jb, T, o) = 0 => \A u \in T : jb[u].oper # o
         /\ Cardinality(T) = 0 <=> T = {}
<1> DEFINE A == {u \in T : jb[u].oper = o}
<1>1. IsFiniteSet(A)
  BY FS_Subset
<1>2. Cardinality(A) \in Nat /\ Cardinality(T) \in Nat
  BY <1>1, FS_CardinalityType
<1>3. (Cardinality(A) = 0 <=> A = {}) /\ (Cardinality(T) = 0 <=> T = {})
  BY <1>1, FS_EmptySet
<1> QED BY <1>2, <1>3 DEF CountFor

\* Counting depends only on the jobs of the units counted.
LEMMA CountSame ==
  ASSUME NEW jb, NEW kb, NEW T, NEW o, \A u \in T : jb[u] = kb[u]
  PROVE  CountFor(jb, T, o) = CountFor(kb, T, o)
<1>1. {u \in T : jb[u].oper = o} = {u \in T : kb[u].oper = o}
  OBVIOUS
<1> QED BY <1>1 DEF CountFor

\* Units are taken out.
LEMMA CountMinus ==
  ASSUME NEW jb, NEW T, IsFiniteSet(T), NEW S \in SUBSET T, NEW o
  PROVE  /\ CountFor(jb, T \ S, o) = CountFor(jb, T, o) - CountFor(jb, S, o)
         /\ Cardinality(T \ S) = Cardinality(T) - Cardinality(S)
         /\ IsFiniteSet(S)
<1> DEFINE A == {u \in T : jb[u].oper = o}
           B == {u \in S : jb[u].oper = o}
           C == {u \in T \ S : jb[u].oper = o}
<1>1. C = A \ B /\ A \cap B = B /\ T \cap S = S
  OBVIOUS
<1>2. IsFiniteSet(A) /\ IsFiniteSet(S)
  BY FS_Subset
<1>3. Cardinality(T \ S) = Cardinality(T) - Cardinality(S)
  BY <1>1, FS_Difference, ZenonT(60)
<1> HIDE DEF A, B, C
<1>4. Cardinality(A \ B) = Cardinality(A) - Cardinality(A \cap B)
  BY <1>2, FS_Difference
<1>5. Cardinality(C) = Cardinality(A) - Cardinality(B)
  BY <1>1, <1>4
<1> QED BY <1>2, <1>3, <1>5 DEF CountFor, A, B, C

\* Units are added.
LEMMA CountPlus ==
  ASSUME NEW jb, NEW T, IsFiniteSet(T), NEW S, IsFiniteSet(S), S \cap T = {}, NEW o
  PROVE  /\ CountFor(jb, T \cup S, o) = CountFor(jb, T, o) + CountFor(jb, S, o)
         /\ Cardinality(T \cup S) = Cardinality(T) + Cardinality(S)
<1> DEFINE V == T \cup S
<1>1. IsFiniteSet(V) /\ S \in SUBSET V /\ V \ S = T
  BY FS_Union
<1>2. /\ CountFor(jb, V, o) \in Nat /\ CountFor(jb, S, o) \in Nat /\ CountFor(jb, T, o) \in Nat
      /\ Cardinality(V) \in Nat /\ Cardinality(S) \in Nat
  BY <1>1, CountType
<1> HIDE DEF V
<1>3. /\ CountFor(jb, V \ S, o) = CountFor(jb, V, o) - CountFor(jb, S, o)
      /\ Cardinality(V \ S) = Cardinality(V) - Cardinality(S)
  BY <1>1, CountMinus
<1>4. /\ CountFor(jb, T, o) = CountFor(jb, V, o) - CountFor(jb, S, o)
      /\ Cardinality(T) = Cardinality(V) - Cardinality(S)
  BY <1>1, <1>3
<1>5. /\ CountFor(jb, V, o) = CountFor(jb, T, o) + CountFor(jb, S, o)
      /\ Cardinality(V) = Cardinality(T) + Cardinality(S)
  BY <1>2, <1>4
<1> QED BY <1>5 DEF V

-----------------------------------------------------------------------------
(* The invariant.                                                          *)

OperRec == [rw : Stages, started : Int, pending : Int, err : BOOLEAN,
            stonewalled : BOOLEAN, offset : Int]
JobRec  == [oper : Opers, offset : Int]

Types ==
  /\ pc \in [Threads -> Labels]
  /\ oper \in [Opers -> OperRec] /\ job \in [Units -> JobRec]
  /\ active \in [Threads -> Seq(Opers)] /\ finished \in [Threads -> Seq(Opers)]
  /\ built \in [Threads -> Seq(Opers)] /\ iocbs \in [Threads -> Seq(Units)]
  /\ idx \in [Threads -> Nat] /\ want \in [Threads -> Int]
  /\ free \in [Threads -> SUBSET Units] /\ inflight \in [Threads -> SUBSET Units]
  /\ done \in [Threads -> SUBSET Units] /\ num_global_pending \in [Threads -> Int]
  /\ closed \in SUBSET Opers

\* Where t->iocbs holds prepared units.
Sending == {"scan", "build", "submit", "eagain"}

\* Lists of lengths x, y and z hold n operations at most.
Fit(x, y, z, n) == x + y + z <= n

\* The lists of a thread hold operations of its own, never more than it was dealt,
\* and the walk along them is on the list.
Lists(t) ==
  /\ active[t] \in Seq(Own(t)) /\ finished[t] \in Seq(Own(t)) /\ built[t] \in Seq(Own(t))
  /\ Fit(Len(active[t]), Len(finished[t]), Len(built[t]), Len(OpersOf(t)))
  /\ pc[t] \in {"scan", "build"} => idx[t] \in 1 .. Len(active[t])
  /\ pc[t] = "restart" => idx[t] \in 1 .. Len(finished[t])
  /\ pc[t] \notin Sending \cup {"requeue"} => built[t] = <<>>

\* A pass over the list prepares at most a chunk for each operation it has built.
Prepared(t) ==
  /\ pc[t] \notin Sending => iocbs[t] = <<>>
  /\ pc[t] = "scan" => Len(iocbs[t]) <= Len(built[t]) * Depth
  /\ pc[t] = "build" =>
       want[t] \in Nat /\ Len(iocbs[t]) + want[t] <= (Len(built[t]) + 1) * Depth

\* The units of a thread, and whose requests are in them.
Placed(t) ==
  /\ Split(UnitsOf(t), free[t], iocbs[t], inflight[t], done[t])
  /\ \A u \in UnitsOf(t) \ free[t] : job[u].oper \in Own(t)

Out(t) == inflight[t] \cup done[t]

\* The counters, and that a thread told to come again has something to wait for.
Counted(t) ==
  /\ num_global_pending[t] = Cardinality(Out(t)) /\ Cardinality(Out(t)) <= QueueDepth
  /\ \A o \in Own(t) : oper[o].pending = CountFor(job, Out(t), o)
  /\ pc[t] = "eagain" => Out(t) # {}

\* An operation that is freed has nothing pending, and its thread sends no more.
Freed(t) ==
  \A o \in Own(t) \cap closed : pc[t] \in {"free", "exit"} /\ oper[o].pending = 0

Book(t) == Lists(t) /\ Prepared(t) /\ Placed(t) /\ Counted(t) /\ Freed(t)

BookInv == Types /\ \A t \in Threads : Book(t)

-----------------------------------------------------------------------------
(* What a step of one thread is to the others.                             *)

Elsewhere(t) ==
  \A q \in Threads \ {t} :
    /\ pc'[q] = pc[q] /\ active'[q] = active[q] /\ finished'[q] = finished[q]
    /\ built'[q] = built[q] /\ idx'[q] = idx[q] /\ want'[q] = want[q]
    /\ iocbs'[q] = iocbs[q] /\ free'[q] = free[q] /\ inflight'[q] = inflight[q]
    /\ done'[q] = done[q] /\ num_global_pending'[q] = num_global_pending[q]

OnlyOwn(t) ==
  /\ \A o \in Opers \ Own(t) : oper'[o] = oper[o]
  /\ \A u \in Units : u[1] # t => job'[u] = job[u]
  /\ closed \subseteq closed' /\ closed' \subseteq closed \cup Own(t)

\* The other threads' books are not touched.
LEMMA BookOther ==
  ASSUME BookInv, NEW t \in Threads, Elsewhere(t), OnlyOwn(t), NEW q \in Threads \ {t}
  PROVE  Book(q)'
<1>1. /\ pc'[q] = pc[q] /\ active'[q] = active[q] /\ finished'[q] = finished[q]
      /\ built'[q] = built[q] /\ idx'[q] = idx[q] /\ want'[q] = want[q]
      /\ iocbs'[q] = iocbs[q] /\ free'[q] = free[q] /\ inflight'[q] = inflight[q]
      /\ done'[q] = done[q] /\ num_global_pending'[q] = num_global_pending[q]
  BY DEF Elsewhere
<1>2. Own(q) \subseteq Opers \ Own(t)
  BY DEF Own
<1>3. \A o \in Own(q) : oper'[o] = oper[o]
  BY <1>2 DEF OnlyOwn
<1>4. \A u \in UnitsOf(q) : job'[u] = job[u]
  BY UnitsAre DEF OnlyOwn
<1>5. Lists(q) /\ Prepared(q) /\ Placed(q) /\ Counted(q) /\ Freed(q)
  BY DEF BookInv, Book
<1>6. Lists(q)' /\ Prepared(q)'
  BY <1>1, <1>5 DEF Lists, Prepared
<1>7. Placed(q)'
  BY <1>1, <1>4, <1>5 DEF Placed
<1>8. Counted(q)'
  <2>1. Out(q)' = Out(q) /\ Out(q) \subseteq UnitsOf(q)
    BY <1>1, <1>5 DEF Out, Placed, Split
  <2>2. \A u \in Out(q) : job[u] = job'[u]
    BY <1>4, <2>1
  <2>3. \A o : CountFor(job, Out(q), o) = CountFor(job', Out(q), o)
    BY <2>2, CountSame
  <2> QED BY <1>1, <1>3, <1>5, <2>1, <2>3 DEF Counted
<1>9. Freed(q)'
  BY <1>1, <1>2, <1>3, <1>5 DEF Freed, OnlyOwn
<1> QED BY <1>6, <1>7, <1>8, <1>9 DEF Book

\* Most steps leave the units and the counters alone.
Quiet(t) ==
  /\ UNCHANGED <<job, iocbs, free, inflight, done, num_global_pending>>
  /\ \A o \in Opers : oper'[o].pending = oper[o].pending
  /\ pc'[t] = "eagain" => pc[t] = "eagain"

\* Such a step keeps where the units are and what is counted.
LEMMA QuietUnits ==
  ASSUME BookInv, NEW t \in Threads, Quiet(t)
  PROVE  Placed(t)' /\ Counted(t)'
<1>1. Placed(t) /\ Counted(t)
  BY DEF BookInv, Book
<1>2. Placed(t)'
  BY <1>1 DEF Placed, Quiet
<1>3. Out(t)' = Out(t) /\ Own(t) \subseteq Opers
  BY DEF Out, Quiet, Own
<1> QED BY <1>1, <1>2, <1>3 DEF Counted, Quiet

\* What has to be shown of a step of a thread.
Keeps(t) == Types' /\ Elsewhere(t) /\ OnlyOwn(t) /\ Book(t)'

\* It suffices: the other threads' books are kept by BookOther.
LEMMA KeepsBook ==
  ASSUME BookInv, NEW t \in Threads, Keeps(t)
  PROVE  BookInv'
<1>1. ASSUME NEW q \in Threads PROVE Book(q)'
  <2>1. CASE q = t
    BY <2>1 DEF Keeps
  <2>2. CASE q # t
    BY <2>2, BookOther DEF Keeps
  <2> QED BY <2>1, <2>2
<1> QED BY <1>1 DEF BookInv, Keeps

-----------------------------------------------------------------------------
(* Steps that only go on, at label l, with the walk at i and w requests to *)
(* prepare.                                                                *)

bookVars == <<oper, active, finished, built, job, iocbs, free, inflight, done,
              num_global_pending, closed>>

Goes(t, l, i, w) ==
  /\ pc' = [pc EXCEPT ![t] = l] /\ idx' = [idx EXCEPT ![t] = i]
  /\ want' = [want EXCEPT ![t] = w]
  /\ UNCHANGED bookVars

MayGo(t, l, i, w) ==
  /\ l \in Labels /\ i \in Nat /\ w \in Int
  /\ l = "eagain" => pc[t] = "eagain"
  /\ pc[t] \in {"free", "exit"} => l \in {"free", "exit"}
  /\ l \in {"scan", "build"} => i \in 1 .. Len(active[t])
  /\ l = "restart" => i \in 1 .. Len(finished[t])
  /\ l \notin Sending \cup {"requeue"} => built[t] = <<>>
  /\ l \notin Sending => iocbs[t] = <<>>
  /\ l = "scan" => Len(iocbs[t]) <= Len(built[t]) * Depth
  /\ l = "build" => w \in Nat /\ Len(iocbs[t]) + w <= (Len(built[t]) + 1) * Depth

\* A thread that may go there, and leaves units and counters alone, keeps its book.
LEMMA GoesOn ==
  ASSUME BookInv, NEW t \in Threads, NEW l, NEW i, NEW w, Goes(t, l, i, w), MayGo(t, l, i, w)
  PROVE  Keeps(t)
<1>1. Types /\ Lists(t) /\ Prepared(t) /\ Freed(t)
  BY DEF BookInv, Book
<1>2. UNCHANGED <<oper, active, finished, built, job, iocbs, free, inflight, done,
                  num_global_pending, closed>>
  BY DEF Goes, bookVars
<1>3. /\ pc' \in [Threads -> Labels] /\ idx' \in [Threads -> Nat] /\ want' \in [Threads -> Int]
      /\ pc'[t] = l /\ idx'[t] = i /\ want'[t] = w
      /\ \A q \in Threads \ {t} : pc'[q] = pc[q] /\ idx'[q] = idx[q] /\ want'[q] = want[q]
  BY <1>1 DEF Goes, MayGo, Types
<1>4. Types' /\ Elsewhere(t) /\ OnlyOwn(t)
  BY <1>1, <1>2, <1>3 DEF Types, Elsewhere, OnlyOwn
<1>5. Placed(t)' /\ Counted(t)'
  <2>1. Quiet(t)
    BY <1>2, <1>3 DEF Quiet, MayGo
  <2> QED BY <2>1, QuietUnits
<1>6. Lists(t)' /\ Prepared(t)' /\ Freed(t)'
  BY <1>1, <1>2, <1>3 DEF Lists, Prepared, Freed, MayGo
<1> QED BY <1>4, <1>5, <1>6 DEF Keeps, Book

\* A step that changes nothing of the book.
LEMMA Same ==
  ASSUME BookInv, NEW t \in Threads, UNCHANGED <<pc, idx, want, bookVars>>
  PROVE  Keeps(t)
<1>1. Types /\ Lists(t) /\ Prepared(t) /\ Placed(t) /\ Counted(t) /\ Freed(t)
  BY DEF BookInv, Book
<1>2. UNCHANGED <<pc, idx, want, oper, active, finished, built, job, iocbs, free, inflight,
                  done, num_global_pending, closed>>
  BY DEF bookVars
<1>3. Types' /\ Elsewhere(t) /\ OnlyOwn(t)
  BY <1>1, <1>2 DEF Types, Elsewhere, OnlyOwn
<1>4. Lists(t)' /\ Prepared(t)' /\ Placed(t)' /\ Freed(t)'
  BY <1>1, <1>2 DEF Lists, Prepared, Placed, Freed
<1>5. Counted(t)'
  BY <1>1, <1>2 DEF Counted, Out, CountFor
<1> QED BY <1>3, <1>4, <1>5 DEF Keeps, Book

\* Outside a pass over the active list nothing is prepared or built.
Calm == {"start", "startwait", "loop", "wait", "end", "endwait", "decide", "free", "exit"}

\* At the calm labels there is nothing to show about the walk or the prepared units.
LEMMA CalmGoes ==
  ASSUME BookInv, NEW t \in Threads, NEW l \in Calm, pc[t] \in Calm \cup {"restart"},
         pc[t] \in {"free", "exit"} => l \in {"free", "exit"},
         pc' = [pc EXCEPT ![t] = l], UNCHANGED <<idx, want, bookVars>>
  PROVE  Keeps(t)
<1>1. Types /\ Lists(t) /\ Prepared(t)
  BY DEF BookInv, Book
<1>2. idx[t] \in Nat /\ want[t] \in Int /\ l \in Labels
  BY <1>1 DEF Types, Calm, Labels
<1>3. idx' = [idx EXCEPT ![t] = idx[t]] /\ want' = [want EXCEPT ![t] = want[t]]
  BY <1>1 DEF Types
<1>4. built[t] = <<>> /\ iocbs[t] = <<>>
  BY <1>1 DEF Lists, Prepared, Calm, Sending
<1>5. Goes(t, l, idx[t], want[t])
  BY <1>3 DEF Goes
<1>6. MayGo(t, l, idx[t], want[t])
  BY <1>2, <1>4 DEF MayGo, Calm
<1> QED BY <1>5, <1>6, GoesOn

\* The barriers, the ends of the loops and the way back.
LEMMA CalmSteps ==
  ASSUME BookInv, NEW t \in Threads,
         \/ EnterStart(t) \/ WakeStart(t) \/ LoopEnds(t) \/ EnterEnd(t) \/ WakeEnd(t)
         \/ Decide(t) \/ SpuriousWakeup(t)
  PROVE  Keeps(t)
<1>1. Types
  BY DEF BookInv
<1>2. pc[t] \in Labels /\ pc = [pc EXCEPT ![t] = pc[t]]
  BY <1>1 DEF Types
<1>3. CASE EnterStart(t)
  <2>1. pc[t] = "start" /\ UNCHANGED <<idx, want, bookVars>>
    BY <1>3 DEF EnterStart, bookVars, listVars, unitVars, walkVars, BeginStage
  <2>2. pc' = [pc EXCEPT ![t] = "loop"] \/ pc' = [pc EXCEPT ![t] = "startwait"]
    BY <1>3 DEF EnterStart, BeginStage, Goto
  <2> QED BY <2>1, <2>2, CalmGoes DEF Calm
<1>4. CASE WakeStart(t)
  <2>1. pc[t] = "startwait" /\ UNCHANGED <<idx, want, bookVars>>
    BY <1>4 DEF WakeStart, bookVars, listVars, unitVars, walkVars, BeginStage
  <2>2. pc' = [pc EXCEPT ![t] = "loop"] \/ pc' = [pc EXCEPT ![t] = "startwait"]
    BY <1>2, <1>4 DEF WakeStart, BeginStage, Goto
  <2> QED BY <2>1, <2>2, CalmGoes DEF Calm
<1>5. CASE LoopEnds(t)
  <2>1. pc[t] = "loop" /\ UNCHANGED <<idx, want, bookVars>> /\ pc' = [pc EXCEPT ![t] = "wait"]
    BY <1>5 DEF LoopEnds, bookVars, listVars, unitVars, walkVars, endVars, Goto
  <2> QED BY <2>1, CalmGoes DEF Calm
<1>6. CASE EnterEnd(t)
  <2>1. pc[t] = "end" /\ UNCHANGED <<idx, want, bookVars>>
    BY <1>6 DEF EnterEnd, bookVars, listVars, unitVars, walkVars, endVars
  <2>2. pc' = [pc EXCEPT ![t] = "decide"] \/ pc' = [pc EXCEPT ![t] = "endwait"]
    BY <1>6 DEF EnterEnd, Goto
  <2> QED BY <2>1, <2>2, CalmGoes DEF Calm
<1>7. CASE WakeEnd(t)
  <2>1. pc[t] = "endwait" /\ UNCHANGED <<idx, want, bookVars>>
    BY <1>7 DEF WakeEnd, bookVars, listVars, unitVars, walkVars, endVars
  <2>2. pc' = [pc EXCEPT ![t] = "decide"] \/ pc' = [pc EXCEPT ![t] = "endwait"]
    BY <1>2, <1>7 DEF WakeEnd, Goto
  <2> QED BY <2>1, <2>2, CalmGoes DEF Calm
<1>8. CASE Decide(t)
  <2>1. pc[t] = "decide" /\ UNCHANGED <<idx, want, bookVars>>
    BY <1>8 DEF Decide, bookVars, listVars, unitVars, walkVars, endVars
  <2>2. pc' = [pc EXCEPT ![t] = "start"] \/ pc' = [pc EXCEPT ![t] = "free"]
    BY <1>8 DEF Decide, Goto
  <2> QED BY <2>1, <2>2, CalmGoes DEF Calm
<1>9. CASE SpuriousWakeup(t)
  <2>1. UNCHANGED <<pc, idx, want, bookVars>>
    BY <1>9 DEF SpuriousWakeup, bookVars, listVars, unitVars, walkVars, endVars
  <2> QED BY <2>1, Same
<1> QED BY <1>3, <1>4, <1>5, <1>6, <1>7, <1>8, <1>9

\* What create_oper() computes is a number.
LEMMA OperNumbers ==
  ASSUME NEW o \in Opers
  PROVE  /\ StartOf(o) \in Int /\ EndOf(o) \in Int /\ total_ios(o) \in Int
<1>1. o \in Int /\ NumContexts \in Nat \ {0} /\ CtxRecs \in Nat /\ FileRecs \in Nat
  BY AioStressAssumption DEF Opers
<1>2. o % NumContexts \in Int
  BY <1>1
<1>3. (o % NumContexts) * CtxRecs \in Int
  BY <1>1, <1>2
<1>4. StartOf(o) \in Int /\ EndOf(o) \in Int
  BY <1>1, <1>3 DEF StartOf, EndOf
<1> QED BY <1>4 DEF total_ios

\* The walks along the lists, and a failing io_submit.
LEMMA WalkSteps ==
  ASSUME BookInv, NEW t \in Threads,
         \/ RunActiveList(t) \/ SkipOper(t) \/ BuildOper(t) \/ WaitDone(t) \/ KeepOper(t)
         \/ SubmitFails(t)
  PROVE  Keeps(t)
<1>0. Types /\ Lists(t) /\ Prepared(t)
  BY DEF BookInv, Book
<1>1. /\ pc[t] \in Labels /\ idx[t] \in Nat /\ want[t] \in Int
      /\ pc = [pc EXCEPT ![t] = pc[t]] /\ idx = [idx EXCEPT ![t] = idx[t]]
      /\ want = [want EXCEPT ![t] = want[t]]
      /\ Len(active[t]) \in Nat /\ Len(finished[t]) \in Nat
      /\ Len(iocbs[t]) \in Nat /\ Len(built[t]) \in Nat
  BY <1>0, LenProperties DEF Types
<1>3. CASE RunActiveList(t)
  <2>1. /\ pc[t] = "loop" /\ active[t] # <<>> /\ UNCHANGED <<want, bookVars>>
        /\ pc' = [pc EXCEPT ![t] = "scan"] /\ idx' = [idx EXCEPT ![t] = 1]
    BY <1>3 DEF RunActiveList, bookVars, listVars, unitVars, endVars, Goto
  <2>2. built[t] = <<>> /\ iocbs[t] = <<>>
    BY <1>0, <2>1 DEF Lists, Prepared, Sending
  <2>3. 1 \in 1 .. Len(active[t])
    BY <1>0, <1>1, <2>1, EmptySeq DEF Lists
  <2>4. Len(iocbs[t]) <= Len(built[t]) * Depth
    <3>1. Len(iocbs[t]) = 0 /\ Len(built[t]) = 0
      BY <2>2
    <3> QED BY <3>1, Options
  <2>5. Goes(t, "scan", 1, want[t])
    BY <1>1, <2>1 DEF Goes
  <2>6. MayGo(t, "scan", 1, want[t])
    BY <1>1, <2>1, <2>3, <2>4 DEF MayGo, Labels, Sending
  <2> QED BY <2>5, <2>6, GoesOn
<1>4. CASE SkipOper(t)
  <2>1. pc[t] = "scan" /\ UNCHANGED <<want, bookVars>>
    BY <1>4 DEF SkipOper, bookVars, listVars, unitVars, endVars
  <2>2. idx[t] \in 1 .. Len(active[t]) /\ Len(iocbs[t]) <= Len(built[t]) * Depth
    BY <1>0, <2>1 DEF Lists, Prepared
  <2>3. CASE idx[t] = Len(active[t])
    <3>1. Goes(t, "submit", idx[t], want[t])
      BY <1>1, <1>4, <2>1, <2>3 DEF SkipOper, Goto, Goes
    <3>2. MayGo(t, "submit", idx[t], want[t])
      BY <1>1, <2>1 DEF MayGo, Labels, Sending
    <3> QED BY <3>1, <3>2, GoesOn
  <2>4. CASE idx[t] # Len(active[t])
    <3>1. Goes(t, "scan", idx[t] + 1, want[t])
      BY <1>1, <1>4, <2>1, <2>4 DEF SkipOper, Goes
    <3>2. idx[t] + 1 \in 1 .. Len(active[t]) /\ idx[t] + 1 \in Nat
      BY <1>1, <2>2, <2>4
    <3>3. MayGo(t, "scan", idx[t] + 1, want[t])
      BY <1>1, <2>1, <2>2, <3>2 DEF MayGo, Labels, Sending
    <3> QED BY <3>1, <3>3, GoesOn
  <2> QED BY <2>3, <2>4
<1>5. CASE BuildOper(t)
  <2>1. pc[t] = "scan" /\ UNCHANGED <<idx, bookVars>>
    BY <1>5 DEF BuildOper, bookVars, listVars, unitVars, endVars
  <2>2. idx[t] \in 1 .. Len(active[t]) /\ Len(iocbs[t]) <= Len(built[t]) * Depth
    BY <1>0, <2>1 DEF Lists, Prepared
  <2> DEFINE o == Cur(t)
             c == ChunkSize(o)
  <2>3. o \in Opers
    BY <1>0, <2>2, ElementOfSeq DEF Cur, Types
  <2>4. c \in Int /\ c <= Depth
    <3>1. oper[o].started \in Int
      BY <1>0, <2>3 DEF Types, OperRec
    <3>2. total_ios(o) - oper[o].started \in Int
      BY <2>3, <3>1, OperNumbers
    <3> HIDE DEF o
    <3> QED BY <3>2, Options DEF ChunkSize, MinOf
  <2> HIDE DEF c
  <2>5. CASE c < 0
    <3>1. Goes(t, "submit", idx[t], want[t])
      BY <1>1, <1>5, <2>1, <2>5 DEF BuildOper, Goto, Goes, c
    <3>2. MayGo(t, "submit", idx[t], want[t])
      BY <1>1, <2>1 DEF MayGo, Labels, Sending
    <3> QED BY <3>1, <3>2, GoesOn
  <2>6. CASE ~(c < 0)
    <3>1. Goes(t, "build", idx[t], c)
      BY <1>1, <1>5, <2>1, <2>6 DEF BuildOper, Goto, Goes, c
    <3>2. c \in Nat
      BY <2>4, <2>6
    <3>3. Len(iocbs[t]) + c <= (Len(built[t]) + 1) * Depth
      <4> DEFINE x == Len(built[t])
                 y == Len(iocbs[t])
      <4>1. x \in Nat /\ y \in Nat /\ y <= x * Depth
        BY <1>1, <2>2
      <4> HIDE DEF x, y
      <4>2. (x + 1) * Depth = x * Depth + Depth /\ x * Depth \in Int
        BY <4>1, Options
      <4>3. y + c <= (x + 1) * Depth
        BY <2>4, <3>2, <4>1, <4>2, Options
      <4> QED BY <4>3 DEF x, y
    <3>4. MayGo(t, "build", idx[t], c)
      BY <1>1, <2>1, <2>2, <3>2, <3>3 DEF MayGo, Labels, Sending
    <3> QED BY <3>1, <3>4, GoesOn
  <2> QED BY <2>5, <2>6
<1>6. CASE WaitDone(t)
  <2> DEFINE l == IF finished[t] = <<>> THEN "end" ELSE "restart"
  <2>1. /\ pc[t] = "wait" /\ UNCHANGED <<want, bookVars>>
        /\ pc' = [pc EXCEPT ![t] = l] /\ idx' = [idx EXCEPT ![t] = 1]
    BY <1>6 DEF WaitDone, bookVars, listVars, unitVars, endVars, Goto
  <2>2. built[t] = <<>> /\ iocbs[t] = <<>>
    BY <1>0, <2>1 DEF Lists, Prepared, Sending
  <2>3. l = "restart" => 1 \in 1 .. Len(finished[t])
    BY <1>0, <1>1, EmptySeq DEF Lists
  <2>4. l \in {"end", "restart"}
    OBVIOUS
  <2> HIDE DEF l
  <2>5. Goes(t, l, 1, want[t])
    BY <1>1, <2>1 DEF Goes
  <2>6. MayGo(t, l, 1, want[t])
    BY <1>1, <2>1, <2>2, <2>3, <2>4 DEF MayGo, Labels
  <2> QED BY <2>5, <2>6, GoesOn
<1>7. CASE KeepOper(t)
  <2>1. pc[t] = "restart" /\ UNCHANGED <<want, bookVars>>
    BY <1>7 DEF KeepOper, bookVars, listVars, unitVars, endVars
  <2>2. idx[t] \in 1 .. Len(finished[t]) /\ built[t] = <<>> /\ iocbs[t] = <<>>
    BY <1>0, <2>1 DEF Lists, Prepared, Sending
  <2>3. CASE idx[t] = Len(finished[t])
    <3>1. UNCHANGED idx /\ pc' = [pc EXCEPT ![t] = "end"]
      BY <1>7, <2>3 DEF KeepOper, Goto
    <3> QED BY <2>1, <3>1, CalmGoes DEF Calm
  <2>4. CASE idx[t] # Len(finished[t])
    <3>1. Goes(t, "restart", idx[t] + 1, want[t])
      BY <1>1, <1>7, <2>1, <2>4 DEF KeepOper, Goes
    <3>2. idx[t] + 1 \in 1 .. Len(finished[t]) /\ idx[t] + 1 \in Nat
      BY <1>1, <2>2, <2>4
    <3>3. MayGo(t, "restart", idx[t] + 1, want[t])
      BY <1>1, <2>1, <2>2, <3>2 DEF MayGo, Labels
    <3> QED BY <3>1, <3>3, GoesOn
  <2> QED BY <2>3, <2>4
<1>8. CASE SubmitFails(t)
  <2>1. UNCHANGED <<pc, idx, want, bookVars>>
    BY <1>8 DEF SubmitFails, bookVars, listVars, unitVars, walkVars, endVars
  <2> QED BY <2>1, Same
<1> QED BY <1>3, <1>4, <1>5, <1>6, <1>7, <1>8

-----------------------------------------------------------------------------
(* Steps that move an operation from one list to another: afterwards the   *)
(* lists of the thread are a, f and b, it is at label l and the walk at i. *)

Moves(t, a, f, b, l, i) ==
  /\ pc' = [pc EXCEPT ![t] = l] /\ idx' = [idx EXCEPT ![t] = i]
  /\ active' = [active EXCEPT ![t] = a] /\ finished' = [finished EXCEPT ![t] = f]
  /\ built' = [built EXCEPT ![t] = b]
  /\ UNCHANGED <<want, job, iocbs, free, inflight, done, num_global_pending>>

\* The operations keep their counts of pending requests.
OpersKeep(t) ==
  /\ oper' \in [Opers -> OperRec]
  /\ \A o \in Opers : oper'[o].pending = oper[o].pending
  /\ \A o \in Opers \ Own(t) : oper'[o] = oper[o]

MayMove(t, a, f, b, l, i) ==
  /\ a \in Seq(Own(t)) /\ f \in Seq(Own(t)) /\ b \in Seq(Own(t))
  /\ Fit(Len(a), Len(f), Len(b), Len(OpersOf(t)))
  /\ l \in Labels /\ i \in Nat
  /\ l # "eagain" /\ l # "build"
  /\ pc[t] \in {"free", "exit"} => l \in {"free", "exit"}
  /\ l = "scan" => i \in 1 .. Len(a)
  /\ l = "restart" => i \in 1 .. Len(f)
  /\ l \notin Sending \cup {"requeue"} => b = <<>>
  /\ l \notin Sending => iocbs[t] = <<>>
  /\ l = "scan" => Len(iocbs[t]) <= Len(b) * Depth

\* What the step frees is the thread's own, has nothing pending, and the thread is
\* past its last stage.
MayClose(t, l) ==
  /\ closed \subseteq closed' /\ closed' \subseteq closed \cup Own(t)
  /\ \A o \in closed' \ closed : l \in {"free", "exit"} /\ oper[o].pending = 0

\* Such a step keeps the book.
LEMMA MovesClose ==
  ASSUME BookInv, NEW t \in Threads, NEW a, NEW f, NEW b, NEW l, NEW i,
         Moves(t, a, f, b, l, i), OpersKeep(t), MayMove(t, a, f, b, l, i), MayClose(t, l)
  PROVE  Keeps(t)
<1>1. Types /\ Lists(t) /\ Prepared(t) /\ Freed(t)
  BY DEF BookInv, Book
<1>2. UNCHANGED <<want, job, iocbs, free, inflight, done, num_global_pending>>
  BY DEF Moves
<1>3. /\ a \in Seq(Opers) /\ f \in Seq(Opers) /\ b \in Seq(Opers)
  <2>1. Own(t) \subseteq Opers
    BY DEF Own
  <2>2. a \in Seq(Own(t)) /\ f \in Seq(Own(t)) /\ b \in Seq(Own(t))
    BY DEF MayMove
  <2> QED BY <2>1, <2>2, SeqMonotonic
<1>4. /\ pc' \in [Threads -> Labels] /\ pc'[t] = l /\ \A q \in Threads \ {t} : pc'[q] = pc[q]
  BY <1>1 DEF Moves, MayMove, Types
<1>5. /\ idx' \in [Threads -> Nat] /\ idx'[t] = i /\ \A q \in Threads \ {t} : idx'[q] = idx[q]
  BY <1>1 DEF Moves, MayMove, Types
<1>6. /\ active' \in [Threads -> Seq(Opers)] /\ active'[t] = a
      /\ \A q \in Threads \ {t} : active'[q] = active[q]
  BY <1>1, <1>3 DEF Moves, Types
<1>7. /\ finished' \in [Threads -> Seq(Opers)] /\ finished'[t] = f
      /\ \A q \in Threads \ {t} : finished'[q] = finished[q]
  BY <1>1, <1>3 DEF Moves, Types
<1>8. /\ built' \in [Threads -> Seq(Opers)] /\ built'[t] = b
      /\ \A q \in Threads \ {t} : built'[q] = built[q]
  BY <1>1, <1>3 DEF Moves, Types
<1>9. Types'
  <2>1. closed' \in SUBSET Opers
    BY <1>1 DEF Types, MayClose, Own
  <2> QED BY <1>1, <1>2, <1>4, <1>5, <1>6, <1>7, <1>8, <2>1 DEF Types, OpersKeep
<1>10. Elsewhere(t) /\ OnlyOwn(t)
  BY <1>2, <1>4, <1>5, <1>6, <1>7, <1>8 DEF Elsewhere, OnlyOwn, OpersKeep, MayClose
<1>11. Lists(t)'
  BY <1>4, <1>5, <1>6, <1>7, <1>8 DEF Lists, MayMove
<1>12. Prepared(t)'
  BY <1>2, <1>4, <1>8 DEF Prepared, MayMove
<1>13. Freed(t)'
  <2>1. Own(t) \subseteq Opers
    BY DEF Own
  <2> SUFFICES ASSUME NEW o \in Own(t), o \in closed'
               PROVE  pc'[t] \in {"free", "exit"} /\ oper'[o].pending = 0
    BY DEF Freed
  <2>2. oper'[o].pending = oper[o].pending
    BY <2>1 DEF OpersKeep
  <2>3. CASE o \in closed
    BY <1>1, <1>4, <2>2, <2>3 DEF Freed, MayMove
  <2>4. CASE o \notin closed
    BY <1>4, <2>2, <2>4 DEF MayClose
  <2> QED BY <2>3, <2>4
<1>14. Placed(t)' /\ Counted(t)'
  <2>1. Quiet(t)
    BY <1>2, <1>4 DEF Quiet, MayMove, OpersKeep
  <2> QED BY <2>1, QuietUnits
<1> QED BY <1>9, <1>10, <1>11, <1>12, <1>13, <1>14 DEF Keeps, Book

\* Only finish_oper() frees.
LEMMA MovesOn ==
  ASSUME BookInv, NEW t \in Threads, NEW a, NEW f, NEW b, NEW l, NEW i,
         Moves(t, a, f, b, l, i), OpersKeep(t), MayMove(t, a, f, b, l, i), UNCHANGED closed
  PROVE  Keeps(t)
<1>1. MayClose(t, l)
  BY DEF MayClose
<1> QED BY <1>1, MovesClose

\* The facts about the lists that the steps need.
LEMMA ListFacts ==
  ASSUME BookInv, NEW t \in Threads
  PROVE  /\ pc \in [Threads -> Labels] /\ pc[t] \in Labels /\ pc = [pc EXCEPT ![t] = pc[t]]
         /\ idx[t] \in Nat /\ idx = [idx EXCEPT ![t] = idx[t]]
         /\ active = [active EXCEPT ![t] = active[t]]
         /\ finished = [finished EXCEPT ![t] = finished[t]]
         /\ built = [built EXCEPT ![t] = built[t]]
         /\ active[t] \in Seq(Own(t)) /\ finished[t] \in Seq(Own(t))
         /\ built[t] \in Seq(Own(t)) /\ Own(t) \subseteq Opers
         /\ Len(active[t]) \in Nat /\ Len(finished[t]) \in Nat /\ Len(built[t]) \in Nat
         /\ Len(iocbs[t]) \in Nat /\ Len(OpersOf(t)) \in Nat
         /\ Fit(Len(active[t]), Len(finished[t]), Len(built[t]), Len(OpersOf(t)))
         /\ oper \in [Opers -> OperRec] /\ <<>> \in Seq(Own(t))
<1>1. Types /\ Lists(t)
  BY DEF BookInv, Book
<1>2. Len(iocbs[t]) \in Nat /\ Len(OpersOf(t)) \in Nat
  BY <1>1, LenProperties, Dealt DEF Types
<1>3. Own(t) \subseteq Opers
  BY DEF Own
<1>4. /\ pc[t] \in Labels /\ idx[t] \in Nat /\ pc = [pc EXCEPT ![t] = pc[t]]
      /\ idx = [idx EXCEPT ![t] = idx[t]] /\ active = [active EXCEPT ![t] = active[t]]
      /\ finished = [finished EXCEPT ![t] = finished[t]]
      /\ built = [built EXCEPT ![t] = built[t]]
  BY <1>1 DEF Types
<1>5. Len(active[t]) \in Nat /\ Len(finished[t]) \in Nat /\ Len(built[t]) \in Nat
  BY <1>1, LenProperties DEF Lists
<1>6. pc \in [Threads -> Labels] /\ oper \in [Opers -> OperRec] /\ <<>> \in Seq(Own(t))
  BY <1>1 DEF Types
<1> QED BY <1>1, <1>2, <1>3, <1>4, <1>5, <1>6 DEF Lists

\* The head of a list and the others.
LEMMA ListEnds ==
  ASSUME NEW S, NEW s \in Seq(S)
  PROVE  /\ s # <<>> => Head(s) \in S /\ Tail(s) \in Seq(S) /\ Len(Tail(s)) = Len(s) - 1
                        /\ Len(s) \in Nat \ {0}
  BY HeadTailProperties, EmptySeq, LenProperties

\* One more operation at the end of a list.
LEMMA ListAppend ==
  ASSUME NEW S, NEW s \in Seq(S), NEW x \in S
  PROVE  Append(s, x) \in Seq(S) /\ Len(Append(s, x)) = Len(s) + 1
  BY AppendProperties

\* What the moves from list to list do to the lengths.
LEMMA Fits ==
  ASSUME NEW x \in Nat, NEW y \in Nat, NEW z \in Nat, NEW n \in Nat, Fit(x, y, z, n)
  PROVE  /\ Fit(x - 1, y + 1, z, n) /\ Fit(x - 1, y, z + 1, n) /\ Fit(x, y, 0, n)
         /\ Fit(x + 1, y, z - 1, n) /\ Fit(x, y + 1, z - 1, n) /\ Fit(x + 1, y - 1, z, n)
         /\ Fit(x, y - 1, z, n)
  BY DEF Fit

\* A list shortened by one still has a head unless it had only one member.
LEMMA StillOne ==
  ASSUME NEW x \in Nat, NEW i \in 1 .. x, x # 1
  PROVE  1 \in 1 .. x - 1
  OBVIOUS

\* The lengths of the lists.
LEMMA ListLengths ==
  ASSUME BookInv, NEW t \in Threads
  PROVE  /\ Len(active[t]) \in Nat /\ Len(finished[t]) \in Nat /\ Len(built[t]) \in Nat
         /\ Len(iocbs[t]) \in Nat /\ Len(OpersOf(t)) \in Nat
         /\ Fit(Len(active[t]), Len(finished[t]), Len(built[t]), Len(OpersOf(t)))
  BY ListFacts

\* The first of a set of stages is one of them.
LEMMA FirstStage ==
  ASSUME NEW S \in SUBSET Stages, S # {}
  PROVE  Min(S) \in S /\ \A x \in S : Min(S) <= x
<1>1. S \subseteq 0 .. 3
  BY AioStressAssumption DEF WRITE, RREAD
<1>2. PICK z \in S : TRUE
  OBVIOUS
<1>3. \E x \in S : \A y \in S : x <= y
  <2>1. CASE 0 \in S
    BY <1>1, <2>1
  <2>2. CASE 0 \notin S /\ 1 \in S
    BY <1>1, <2>2
  <2>3. CASE 0 \notin S /\ 1 \notin S /\ 2 \in S
    BY <1>1, <2>3
  <2>4. CASE 0 \notin S /\ 1 \notin S /\ 2 \notin S
    <3>1. \A x \in S : x = 3
      BY <1>1, <2>4
    <3>2. 3 \in S /\ \A y \in S : 3 <= y
      BY <1>2, <3>1
    <3> QED BY <3>2
  <2> QED BY <2>1, <2>2, <2>3, <2>4
<1>4. Min(S) = CHOOSE x \in S : \A y \in S : x <= y
  BY DEF Min
<1> QED BY <1>3, <1>4

\* The stonewall moves the head of the active list to the finished list.
LEMMA StonewallKeeps ==
  ASSUME BookInv, NEW t \in Threads, StonewallHead(t)
  PROVE  Keeps(t)
<1> DEFINE o == Head(active[t])
           a == Tail(active[t])
           f == Append(finished[t], o)
<1>1. /\ pc[t] = "loop" /\ active[t] # <<>>
      /\ oper' = [oper EXCEPT ![o].stonewalled = TRUE]
      /\ finished' = [finished EXCEPT ![t] = f] /\ active' = [active EXCEPT ![t] = a]
      /\ UNCHANGED <<pc, idx, want, built, job, iocbs, free, inflight, done,
                     num_global_pending, closed>>
  BY DEF StonewallHead, unitVars, walkVars, endVars
<1>2. /\ built[t] = <<>> /\ iocbs[t] = <<>>
  BY <1>1 DEF BookInv, Book, Lists, Prepared, Sending
<1>3. /\ o \in Own(t) /\ a \in Seq(Own(t)) /\ Len(a) = Len(active[t]) - 1
  BY <1>1, ListFacts, ListEnds
<1>4. f \in Seq(Own(t)) /\ Len(f) = Len(finished[t]) + 1
  BY <1>3, ListFacts, ListAppend
<1> HIDE DEF o, a, f
<1>5. OpersKeep(t)
  <2>1. o \in Opers /\ oper[o] \in OperRec
    BY <1>3, ListFacts
  <2>2. [oper[o] EXCEPT !.stonewalled = TRUE] \in OperRec
    BY <2>1 DEF OperRec
  <2>3. oper' \in [Opers -> OperRec]
    BY <1>1, <2>2, ListFacts
  <2>4. \A p \in Opers : oper'[p].pending = oper[p].pending
    BY <1>1, <2>1, ListFacts DEF OperRec
  <2>5. \A p \in Opers \ Own(t) : oper'[p] = oper[p]
    BY <1>1, <1>3, ListFacts
  <2> QED BY <2>3, <2>4, <2>5 DEF OpersKeep
<1>6. Moves(t, a, f, built[t], "loop", idx[t])
  BY <1>1, ListFacts DEF Moves
<1>7. Fit(Len(a), Len(f), Len(built[t]), Len(OpersOf(t)))
  <2>1. /\ Len(active[t]) \in Nat /\ Len(finished[t]) \in Nat /\ Len(built[t]) \in Nat
        /\ Len(OpersOf(t)) \in Nat
        /\ Fit(Len(active[t]), Len(finished[t]), Len(built[t]), Len(OpersOf(t)))
    BY ListLengths
  <2>2. Len(a) = Len(active[t]) - 1 /\ Len(f) = Len(finished[t]) + 1
    BY <1>3, <1>4
  <2> QED BY <2>1, <2>2, Fits
<1>8. MayMove(t, a, f, built[t], "loop", idx[t])
  BY <1>1, <1>2, <1>3, <1>4, <1>7, ListFacts DEF MayMove, Labels, Sending
<1> QED BY <1>1, <1>5, <1>6, <1>8, MovesOn

\* build_oper() is through: the operation moves to the built list.
LEMMA OperBuiltKeeps ==
  ASSUME BookInv, NEW t \in Threads, OperBuilt(t)
  PROVE  Keeps(t)
<1> DEFINE o == Cur(t)
           l == IF Len(active[t]) = 1 \/ Len(iocbs[t]) + io_iter > max_io_submit
                THEN "submit" ELSE "scan"
           a == RemoveAt(active[t], idx[t])
           b == Append(built[t], o)
<1>1. /\ pc[t] = "build" /\ want[t] = 0
      /\ active' = [active EXCEPT ![t] = a] /\ built' = [built EXCEPT ![t] = b]
      /\ idx' = [idx EXCEPT ![t] = 1] /\ pc' = [pc EXCEPT ![t] = l]
      /\ UNCHANGED <<oper, finished, want, job, iocbs, free, inflight, done,
                     num_global_pending, closed>>
  BY DEF OperBuilt, unitVars, endVars, Goto
<1>2. /\ idx[t] \in 1 .. Len(active[t])
      /\ Len(iocbs[t]) + want[t] <= (Len(built[t]) + 1) * Depth
  BY <1>1 DEF BookInv, Book, Lists, Prepared
<1>3. o \in Own(t)
  BY <1>2, ListFacts, ElementOfSeq DEF Cur
<1>4. a \in Seq(Own(t)) /\ Len(a) = Len(active[t]) - 1
  BY <1>2, ListFacts, Removed
<1> HIDE DEF o
<1>5. b \in Seq(Own(t)) /\ Len(b) = Len(built[t]) + 1
  BY <1>3, ListFacts, ListAppend
<1>6. l \in {"submit", "scan"} /\ (l = "scan" => Len(active[t]) # 1)
  OBVIOUS
<1> HIDE DEF a, b, l
<1>7. OpersKeep(t)
  BY <1>1, ListFacts DEF OpersKeep
<1>8. Moves(t, a, finished[t], b, l, 1)
  BY <1>1, ListFacts DEF Moves
<1>9. Fit(Len(a), Len(finished[t]), Len(b), Len(OpersOf(t))) /\ (l = "scan" => 1 \in 1 .. Len(a))
  <2>1. /\ Len(active[t]) \in Nat /\ Len(finished[t]) \in Nat /\ Len(built[t]) \in Nat
        /\ Len(OpersOf(t)) \in Nat
        /\ Fit(Len(active[t]), Len(finished[t]), Len(built[t]), Len(OpersOf(t)))
    BY ListLengths
  <2>2. Len(a) = Len(active[t]) - 1 /\ Len(b) = Len(built[t]) + 1
    BY <1>4, <1>5
  <2>3. l = "scan" => 1 \in 1 .. Len(active[t]) - 1
    BY <1>2, <1>6, <2>1, StillOne
  <2> QED BY <2>1, <2>2, <2>3, Fits
<1>10. Len(iocbs[t]) <= Len(b) * Depth
  BY <1>1, <1>2, <1>5, ListFacts
<1>11. MayMove(t, a, finished[t], b, l, 1)
  BY <1>1, <1>4, <1>5, <1>6, <1>9, <1>10, ListFacts DEF MayMove, Labels, Sending
<1> QED BY <1>1, <1>7, <1>8, <1>11, MovesOn

\* run_active_list() returns without having sent anything.
LEMMA SubmitNothingKeeps ==
  ASSUME BookInv, NEW t \in Threads, SubmitNothing(t)
  PROVE  Keeps(t)
<1>1. /\ pc[t] = "submit" /\ iocbs[t] = <<>>
      /\ built' = [built EXCEPT ![t] = <<>>] /\ pc' = [pc EXCEPT ![t] = "loop"]
      /\ UNCHANGED <<oper, active, finished, idx, want, job, iocbs, free, inflight, done,
                     num_global_pending, closed>>
  BY DEF SubmitNothing, unitVars, walkVars, endVars, Goto
<1>2. OpersKeep(t)
  BY <1>1, ListFacts DEF OpersKeep
<1>3. Moves(t, active[t], finished[t], <<>>, "loop", idx[t])
  BY <1>1, ListFacts DEF Moves
<1>4. Fit(Len(active[t]), Len(finished[t]), Len(<<>>), Len(OpersOf(t)))
  <2>1. /\ Len(active[t]) \in Nat /\ Len(finished[t]) \in Nat /\ Len(built[t]) \in Nat
        /\ Len(OpersOf(t)) \in Nat
        /\ Fit(Len(active[t]), Len(finished[t]), Len(built[t]), Len(OpersOf(t)))
    BY ListLengths
  <2>2. Len(<<>>) = 0
    OBVIOUS
  <2> QED BY <2>1, <2>2, Fits
<1>5. MayMove(t, active[t], finished[t], <<>>, "loop", idx[t])
  BY <1>1, <1>4, ListFacts DEF MayMove, Labels, Sending
<1> QED BY <1>1, <1>2, <1>3, <1>5, MovesOn

\* run_active_list() puts the built operations back on the lists.
LEMMA RequeueKeeps ==
  ASSUME BookInv, NEW t \in Threads, Requeue(t)
  PROVE  Keeps(t)
<1> DEFINE o == Head(built[t])
           b == Tail(built[t])
           a == Append(active[t], o)
           f == Append(finished[t], o)
<1>1. /\ pc[t] = "requeue"
      /\ UNCHANGED <<oper, idx, want, job, iocbs, free, inflight, done,
                     num_global_pending, closed>>
  BY DEF Requeue, unitVars, walkVars, endVars
<1>2. iocbs[t] = <<>>
  BY <1>1 DEF BookInv, Book, Prepared, Sending
<1>3. OpersKeep(t)
  BY <1>1, ListFacts DEF OpersKeep
<1>4. CASE built[t] = <<>>
  <2>1. pc' = [pc EXCEPT ![t] = "loop"] /\ UNCHANGED <<active, finished, built>>
    BY <1>4 DEF Requeue, Goto, listVars
  <2>2. Moves(t, active[t], finished[t], built[t], "loop", idx[t])
    BY <1>1, <2>1, ListFacts DEF Moves
  <2>3. MayMove(t, active[t], finished[t], built[t], "loop", idx[t])
    BY <1>1, <1>2, <1>4, ListFacts DEF MayMove, Labels
  <2> QED BY <1>1, <1>3, <2>2, <2>3, MovesOn
<1>5. CASE built[t] # <<>>
  <2>1. pc' = pc /\ built' = [built EXCEPT ![t] = b]
    BY <1>5 DEF Requeue
  <2>2. \/ finished' = [finished EXCEPT ![t] = f] /\ active' = active
        \/ active' = [active EXCEPT ![t] = a] /\ finished' = finished
    BY <1>5 DEF Requeue
  <2>3. o \in Own(t) /\ b \in Seq(Own(t)) /\ Len(b) = Len(built[t]) - 1
    BY <1>5, ListFacts, ListEnds
  <2>4. /\ a \in Seq(Own(t)) /\ Len(a) = Len(active[t]) + 1
        /\ f \in Seq(Own(t)) /\ Len(f) = Len(finished[t]) + 1
    BY <2>3, ListFacts, ListAppend
  <2> HIDE DEF o, a, b, f
  <2>5. /\ Fit(Len(a), Len(finished[t]), Len(b), Len(OpersOf(t)))
        /\ Fit(Len(active[t]), Len(f), Len(b), Len(OpersOf(t)))
    <3>1. /\ Len(active[t]) \in Nat /\ Len(finished[t]) \in Nat /\ Len(built[t]) \in Nat
          /\ Len(OpersOf(t)) \in Nat
          /\ Fit(Len(active[t]), Len(finished[t]), Len(built[t]), Len(OpersOf(t)))
      BY ListLengths
    <3>2. Len(a) = Len(active[t]) + 1 /\ Len(b) = Len(built[t]) - 1
          /\ Len(f) = Len(finished[t]) + 1
      BY <2>3, <2>4
    <3> QED BY <3>1, <3>2, Fits
  <2>6. CASE active' = [active EXCEPT ![t] = a] /\ finished' = finished
    <3>1. Moves(t, a, finished[t], b, "requeue", idx[t])
      BY <1>1, <2>1, <2>6, ListFacts DEF Moves
    <3>2. MayMove(t, a, finished[t], b, "requeue", idx[t])
      BY <1>1, <1>2, <2>3, <2>4, <2>5, ListFacts DEF MayMove, Labels
    <3> QED BY <1>1, <1>3, <3>1, <3>2, MovesOn
  <2>7. CASE finished' = [finished EXCEPT ![t] = f] /\ active' = active
    <3>1. Moves(t, active[t], f, b, "requeue", idx[t])
      BY <1>1, <2>1, <2>7, ListFacts DEF Moves
    <3>2. MayMove(t, active[t], f, b, "requeue", idx[t])
      BY <1>1, <1>2, <2>3, <2>4, <2>5, ListFacts DEF MayMove, Labels
    <3> QED BY <1>1, <1>3, <3>1, <3>2, MovesOn
  <2> QED BY <2>2, <2>6, <2>7
<1> QED BY <1>4, <1>5

\* restart_oper(): back to the active list, in a later stage.
LEMMA RestartKeeps ==
  ASSUME BookInv, NEW t \in Threads, RestartOper(t)
  PROVE  Keeps(t)
<1> DEFINE o == finished[t][idx[t]]
           f == RemoveAt(finished[t], idx[t])
           a == Append(active[t], o)
           l == IF Len(finished[t]) = 1 THEN "end" ELSE "restart"
           r == [oper[o] EXCEPT !.started = 0, !.offset = StartOf(o), !.stonewalled = FALSE,
                                !.rw = Min(LaterStages(o))]
<1>1. /\ pc[t] = "restart" /\ LaterStages(o) # {}
      /\ oper' = [oper EXCEPT ![o] = r]
      /\ finished' = [finished EXCEPT ![t] = f] /\ active' = [active EXCEPT ![t] = a]
      /\ idx' = [idx EXCEPT ![t] = 1] /\ pc' = [pc EXCEPT ![t] = l]
      /\ UNCHANGED <<built, want, job, iocbs, free, inflight, done, num_global_pending, closed>>
  BY DEF RestartOper, Restartable, unitVars, Goto
<1>2. idx[t] \in 1 .. Len(finished[t]) /\ built[t] = <<>> /\ iocbs[t] = <<>>
  BY <1>1 DEF BookInv, Book, Lists, Prepared, Sending
<1>3. o \in Own(t)
  BY <1>2, ListFacts, ElementOfSeq
<1>4. f \in Seq(Own(t)) /\ Len(f) = Len(finished[t]) - 1
  BY <1>2, ListFacts, Removed, ZenonT(60)
<1>5. l \in {"end", "restart"} /\ (l = "restart" => Len(finished[t]) # 1)
  OBVIOUS
<1> HIDE DEF o
<1>6. a \in Seq(Own(t)) /\ Len(a) = Len(active[t]) + 1
  BY <1>3, ListFacts, ListAppend
<1>7. OpersKeep(t)
  <2>1. o \in Opers /\ oper[o] \in OperRec
    BY <1>3, ListFacts
  <2>2. LaterStages(o) \in SUBSET Stages
    BY DEF LaterStages
  <2>3. Min(LaterStages(o)) \in Stages
    BY <1>1, <2>2, FirstStage
  <2>4. StartOf(o) \in Int
    BY <2>1, OperNumbers
  <2>5. r \in OperRec
    <3>1. \A x \in OperRec, w \in Stages, z \in Int :
            [x EXCEPT !.started = 0, !.offset = z, !.stonewalled = FALSE, !.rw = w]
              \in OperRec
      <4>1. \A x \in OperRec : [x EXCEPT !.started = 0] \in OperRec
        BY DEF OperRec
      <4>2. \A x \in OperRec, z \in Int : [x EXCEPT !.offset = z] \in OperRec
        BY DEF OperRec
      <4>3. \A x \in OperRec : [x EXCEPT !.stonewalled = FALSE] \in OperRec
        BY DEF OperRec
      <4>4. \A x \in OperRec, w \in Stages : [x EXCEPT !.rw = w] \in OperRec
        BY DEF OperRec
      <4> QED BY <4>1, <4>2, <4>3, <4>4
    <3> QED BY <2>1, <2>3, <2>4, <3>1
  <2>6. r.pending = oper[o].pending
    BY <2>1 DEF OperRec
  <2> HIDE DEF r
  <2>7. oper' \in [Opers -> OperRec]
    BY <1>1, <2>5, ListFacts
  <2>8. \A p \in Opers : oper'[p].pending = oper[p].pending
    BY <1>1, <2>1, <2>6, ListFacts
  <2>9. \A p \in Opers \ Own(t) : oper'[p] = oper[p]
    BY <1>1, <1>3, ListFacts
  <2> QED BY <2>7, <2>8, <2>9 DEF OpersKeep
<1> HIDE DEF a, f, l, r
<1>8. Moves(t, a, f, built[t], l, 1)
  BY <1>1, ListFacts DEF Moves
<1>9. /\ Fit(Len(a), Len(f), Len(built[t]), Len(OpersOf(t)))
      /\ l = "restart" => 1 \in 1 .. Len(f)
  <2>1. /\ Len(active[t]) \in Nat /\ Len(finished[t]) \in Nat /\ Len(built[t]) \in Nat
        /\ Len(OpersOf(t)) \in Nat
        /\ Fit(Len(active[t]), Len(finished[t]), Len(built[t]), Len(OpersOf(t)))
    BY ListLengths
  <2>2. Len(a) = Len(active[t]) + 1 /\ Len(f) = Len(finished[t]) - 1
    BY <1>4, <1>6
  <2>3. l = "restart" => 1 \in 1 .. Len(finished[t]) - 1
    BY <1>2, <1>5, <2>1, StillOne
  <2> QED BY <2>1, <2>2, <2>3, Fits
<1>10. MayMove(t, a, f, built[t], l, 1)
  BY <1>1, <1>2, <1>4, <1>5, <1>6, <1>9, ListFacts DEF MayMove, Labels, Sending
<1> QED BY <1>1, <1>7, <1>8, <1>10, MovesOn

\* finish_oper(): the head of the finished list, which has nothing pending, is freed.
LEMMA FinishKeeps ==
  ASSUME BookInv, NEW t \in Threads, FinishOper(t)
  PROVE  Keeps(t)
<1> DEFINE o == Head(finished[t])
           f == Tail(finished[t])
<1>1. /\ pc[t] = "free" /\ Drained(t)
      /\ UNCHANGED <<oper, active, built, idx, want, job, iocbs, free, inflight, done,
                     num_global_pending>>
  BY DEF FinishOper, unitVars, walkVars
<1>2. built[t] = <<>> /\ iocbs[t] = <<>>
  BY <1>1 DEF BookInv, Book, Lists, Prepared, Sending
<1>3. CASE finished[t] = <<>>
  <2>1. pc' = [pc EXCEPT ![t] = "exit"] /\ UNCHANGED <<finished, closed>>
    BY <1>3 DEF FinishOper, Goto
  <2> QED BY <1>1, <2>1, CalmGoes DEF Calm, bookVars
<1>4. CASE finished[t] # <<>>
  <2>1. pc' = pc /\ finished' = [finished EXCEPT ![t] = f] /\ closed' = closed \cup {o}
    BY <1>4 DEF FinishOper
  <2>2. o \in Own(t) /\ f \in Seq(Own(t)) /\ Len(f) = Len(finished[t]) - 1
    BY <1>4, ListFacts, ListEnds
  <2>3. oper[o].pending = 0
    <3>1. 1 \in DOMAIN finished[t] /\ o = finished[t][1]
      BY <1>4, ListFacts, HeadTailProperties, EmptySeq, LenProperties
    <3> QED BY <1>1, <3>1 DEF Drained
  <2> HIDE DEF o, f
  <2>4. MayClose(t, "free")
    BY <2>1, <2>2, <2>3 DEF MayClose
  <2>5. OpersKeep(t)
    BY <1>1, ListFacts DEF OpersKeep
  <2>6. Fit(Len(active[t]), Len(f), Len(built[t]), Len(OpersOf(t)))
    BY <2>2, ListLengths, Fits
  <2>7. Moves(t, active[t], f, built[t], "free", idx[t])
    BY <1>1, <2>1, ListFacts DEF Moves
  <2>8. MayMove(t, active[t], f, built[t], "free", idx[t])
    BY <1>1, <1>2, <2>2, <2>6, ListFacts DEF MayMove, Labels, Sending
  <2> QED BY <2>4, <2>5, <2>7, <2>8, MovesClose
<1> QED BY <1>3, <1>4

-----------------------------------------------------------------------------
(* Steps that move units: afterwards the units of the thread are split     *)
(* into fr, s, in and dn, it is at label l, w requests are still to be     *)
(* prepared and g is its count of pending requests.                        *)

Shifts(t, l, w, fr, s, in, dn, g) ==
  /\ pc' = [pc EXCEPT ![t] = l] /\ want' = [want EXCEPT ![t] = w]
  /\ free' = [free EXCEPT ![t] = fr] /\ iocbs' = [iocbs EXCEPT ![t] = s]
  /\ inflight' = [inflight EXCEPT ![t] = in] /\ done' = [done EXCEPT ![t] = dn]
  /\ num_global_pending' = [num_global_pending EXCEPT ![t] = g]
  /\ UNCHANGED <<active, finished, built, idx, closed>>

MayShift(t, l, w, fr, s, in, dn, g) ==
  /\ Split(UnitsOf(t), fr, s, in, dn)
  /\ g = Cardinality(in \cup dn) /\ Cardinality(in \cup dn) <= QueueDepth
  /\ l = pc[t] \/ (pc[t] \in {"submit", "eagain"} /\ l \in {"submit", "eagain", "requeue"})
  /\ w \in Int
  /\ l \notin Sending => s = <<>>
  /\ l = "scan" => Len(s) <= Len(built[t]) * Depth
  /\ l = "build" => w \in Nat /\ Len(s) + w <= (Len(built[t]) + 1) * Depth
  /\ l = "eagain" => in \cup dn # {}

\* The requests T of the thread are with the kernel after the step, and counted.
OpersCount(t, l, fr, T) ==
  /\ oper' \in [Opers -> OperRec] /\ job' \in [Units -> JobRec]
  /\ \A o \in Opers \ Own(t) : oper'[o] = oper[o]
  /\ \A u \in Units : u[1] # t => job'[u] = job[u]
  /\ \A u \in UnitsOf(t) \ fr : job'[u].oper \in Own(t)
  /\ \A o \in Own(t) : oper'[o].pending = CountFor(job', T, o)
  /\ \A o \in Own(t) \cap closed : l \in {"free", "exit"} /\ oper'[o].pending = 0

\* Such a step keeps the book.
LEMMA ShiftsOn ==
  ASSUME BookInv, NEW t \in Threads, NEW l, NEW w, NEW fr, NEW s, NEW in, NEW dn, NEW g,
         Shifts(t, l, w, fr, s, in, dn, g), MayShift(t, l, w, fr, s, in, dn, g),
         OpersCount(t, l, fr, in \cup dn)
  PROVE  Keeps(t)
<1>1. Types /\ Lists(t)
  BY DEF BookInv, Book
<1>2. UNCHANGED <<active, finished, built, idx, closed>>
  BY DEF Shifts
<1>3. /\ fr \in SUBSET Units /\ in \in SUBSET Units /\ dn \in SUBSET Units /\ s \in Seq(Units)
      /\ g \in Int
  <2>1. UnitsOf(t) \subseteq Units /\ IsFiniteSet(UnitsOf(t))
    BY UnitsAre
  <2>2. /\ fr \subseteq UnitsOf(t) /\ in \subseteq UnitsOf(t) /\ dn \subseteq UnitsOf(t)
        /\ s \in Seq(UnitsOf(t))
    BY DEF MayShift, Split
  <2>3. s \in Seq(Units)
    BY <2>1, <2>2, SeqMonotonic
  <2>4. in \cup dn \in SUBSET UnitsOf(t)
    BY <2>2
  <2>5. IsFiniteSet(in \cup dn)
    BY <2>1, <2>4, FS_Subset
  <2>6. Cardinality(in \cup dn) \in Nat
    BY <2>5, FS_CardinalityType
  <2> QED BY <2>1, <2>2, <2>3, <2>6 DEF MayShift
<1>4. /\ pc' \in [Threads -> Labels] /\ pc'[t] = l /\ \A q \in Threads \ {t} : pc'[q] = pc[q]
  <2>1. l \in Labels
    BY <1>1 DEF MayShift, Types, Labels
  <2> QED BY <1>1, <2>1 DEF Shifts, Types
<1>5. /\ want' \in [Threads -> Int] /\ want'[t] = w
      /\ \A q \in Threads \ {t} : want'[q] = want[q]
  BY <1>1 DEF Shifts, MayShift, Types
<1>6. /\ free' \in [Threads -> SUBSET Units] /\ free'[t] = fr
      /\ \A q \in Threads \ {t} : free'[q] = free[q]
  BY <1>1, <1>3 DEF Shifts, Types
<1>7. /\ iocbs' \in [Threads -> Seq(Units)] /\ iocbs'[t] = s
      /\ \A q \in Threads \ {t} : iocbs'[q] = iocbs[q]
  BY <1>1, <1>3 DEF Shifts, Types
<1>8. /\ inflight' \in [Threads -> SUBSET Units] /\ inflight'[t] = in
      /\ \A q \in Threads \ {t} : inflight'[q] = inflight[q]
  BY <1>1, <1>3 DEF Shifts, Types
<1>9. /\ done' \in [Threads -> SUBSET Units] /\ done'[t] = dn
      /\ \A q \in Threads \ {t} : done'[q] = done[q]
  BY <1>1, <1>3 DEF Shifts, Types
<1>10. /\ num_global_pending' \in [Threads -> Int] /\ num_global_pending'[t] = g
       /\ \A q \in Threads \ {t} : num_global_pending'[q] = num_global_pending[q]
  BY <1>1, <1>3 DEF Shifts, Types
<1>11. Types'
  BY <1>1, <1>2, <1>4, <1>5, <1>6, <1>7, <1>8, <1>9, <1>10 DEF Types, OpersCount
<1>12. Elsewhere(t) /\ OnlyOwn(t)
  BY <1>2, <1>4, <1>5, <1>6, <1>7, <1>8, <1>9, <1>10 DEF Elsewhere, OnlyOwn, OpersCount
<1>13. Lists(t)'
  BY <1>1, <1>2, <1>4 DEF Lists, MayShift, Sending
<1>14. Prepared(t)'
  BY <1>2, <1>4, <1>5, <1>7 DEF Prepared, MayShift
<1>15. Placed(t)'
  BY <1>6, <1>7, <1>8, <1>9 DEF Placed, MayShift, OpersCount
<1>16. Counted(t)'
  <2>1. Out(t)' = in \cup dn
    BY <1>8, <1>9 DEF Out
  <2> QED BY <1>4, <1>10, <2>1 DEF Counted, MayShift, OpersCount
<1>17. Freed(t)'
  BY <1>2, <1>4 DEF Freed, OpersCount
<1> QED BY <1>11, <1>12, <1>13, <1>14, <1>15, <1>16, <1>17 DEF Keeps, Book

\* The facts about the units that the steps need.
LEMMA UnitFacts ==
  ASSUME BookInv, NEW t \in Threads
  PROVE  /\ pc[t] \in Labels /\ pc = [pc EXCEPT ![t] = pc[t]]
         /\ want[t] \in Int /\ want = [want EXCEPT ![t] = want[t]]
         /\ free = [free EXCEPT ![t] = free[t]] /\ iocbs = [iocbs EXCEPT ![t] = iocbs[t]]
         /\ inflight = [inflight EXCEPT ![t] = inflight[t]]
         /\ done = [done EXCEPT ![t] = done[t]]
         /\ num_global_pending = [num_global_pending EXCEPT ![t] = num_global_pending[t]]
         /\ Split(UnitsOf(t), free[t], iocbs[t], inflight[t], done[t])
         /\ Out(t) \subseteq UnitsOf(t) \ free[t] /\ IsFiniteSet(Out(t))
         /\ \A u \in UnitsOf(t) \ free[t] : job[u].oper \in Own(t)
         /\ oper \in [Opers -> OperRec] /\ job \in [Units -> JobRec] /\ Own(t) \subseteq Opers
<1>1. Types /\ Placed(t)
  BY DEF BookInv, Book
<1>2. /\ pc[t] \in Labels /\ pc = [pc EXCEPT ![t] = pc[t]]
      /\ want[t] \in Int /\ want = [want EXCEPT ![t] = want[t]]
      /\ free = [free EXCEPT ![t] = free[t]] /\ iocbs = [iocbs EXCEPT ![t] = iocbs[t]]
      /\ inflight = [inflight EXCEPT ![t] = inflight[t]]
      /\ done = [done EXCEPT ![t] = done[t]]
      /\ num_global_pending = [num_global_pending EXCEPT ![t] = num_global_pending[t]]
  BY <1>1 DEF Types
<1>3. /\ Split(UnitsOf(t), free[t], iocbs[t], inflight[t], done[t])
      /\ \A u \in UnitsOf(t) \ free[t] : job[u].oper \in Own(t)
  BY <1>1 DEF Placed
<1>4. Out(t) \subseteq UnitsOf(t) \ free[t]
  BY <1>3 DEF Split, Out
<1>5. IsFiniteSet(Out(t))
  <2>1. Out(t) \in SUBSET UnitsOf(t)
    BY <1>4
  <2> QED BY <2>1, UnitsAre, FS_Subset
<1>6. oper \in [Opers -> OperRec] /\ job \in [Units -> JobRec] /\ Own(t) \subseteq Opers
  BY <1>1 DEF Types, Own
<1> QED BY <1>2, <1>3, <1>4, <1>5, <1>6

\* A request completes or fails.
LEMMA KernelKeeps ==
  ASSUME BookInv, NEW t \in Threads, NEW u \in inflight[t], Complete(t, u) \/ Fail(t, u)
  PROVE  Keeps(t)
<1> DEFINE in == inflight[t] \ {u}
           dn == done[t] \cup {u}
<1>1. /\ inflight' = [inflight EXCEPT ![t] = in] /\ done' = [done EXCEPT ![t] = dn]
      /\ UNCHANGED <<pc, want, oper, active, finished, built, idx, closed, job, iocbs, free,
                     num_global_pending>>
  BY DEF Complete, Fail, listVars, walkVars, endVars
<1>2. Split(UnitsOf(t), free[t], iocbs[t], in, dn)
  BY UnitFacts, SplitComplete
<1>3. in \cup dn = Out(t)
  BY DEF Out
<1> HIDE DEF in, dn
<1>4. Prepared(t) /\ Counted(t) /\ Freed(t)
  BY DEF BookInv, Book
<1>5. Shifts(t, pc[t], want[t], free[t], iocbs[t], in, dn, num_global_pending[t])
  BY <1>1, UnitFacts DEF Shifts
<1>6. MayShift(t, pc[t], want[t], free[t], iocbs[t], in, dn, num_global_pending[t])
  BY <1>2, <1>3, <1>4, UnitFacts DEF MayShift, Prepared, Counted
<1>7. OpersCount(t, pc[t], free[t], in \cup dn)
  BY <1>1, <1>3, <1>4, UnitFacts DEF OpersCount, Counted, Freed
<1> QED BY <1>5, <1>6, <1>7, ShiftsOn

\* A set of numbers has a least one.
LEMMA LeastOne ==
  ASSUME NEW T \in SUBSET Nat, T # {}
  PROVE  \E x \in T : \A y \in T : x <= y
<1> DEFINE R == {ss \in Nat \X Nat : ss[1] < ss[2]}
<1>1. IsWellFoundedOn(R, Nat)
  BY NatLessThanWellFounded DEF OpToRel
<1> HIDE DEF R
<1>2. PICK x \in T : \A y \in T : ~(<<y, x>> \in R)
  BY <1>1, WFMin
<1>3. ASSUME NEW y \in T PROVE x <= y
  <2>1. x \in Nat /\ y \in Nat
    OBVIOUS
  <2>2. y < x => <<y, x>> \in R
    BY <2>1 DEF R
  <2> QED BY <1>2, <2>1, <2>2
<1> QED BY <1>2, <1>3

\* The free unit that find_iou() takes exists.
LEMMA FreeUnit ==
  ASSUME NEW t \in Threads, NEW fr \in SUBSET UnitsOf(t), fr # {}
  PROVE  (CHOOSE v \in fr : \A w \in fr : v[2] <= w[2]) \in fr
<1> DEFINE T == {v[2] : v \in fr}
<1>1. T \in SUBSET Nat /\ T # {}
  BY DEF UnitsOf
<1> HIDE DEF T
<1>2. PICK x \in T : \A y \in T : x <= y
  BY <1>1, LeastOne
<1>3. \E v \in fr : \A w \in fr : v[2] <= w[2]
  BY <1>2 DEF T
<1> QED BY <1>3

\* build_iocb() prepares a request of the operation in a free unit.
LEMMA BuildKeeps ==
  ASSUME BookInv, NEW t \in Threads, BuildIocb(t)
  PROVE  Keeps(t)
<1> DEFINE o == Cur(t)
           u == CHOOSE v \in free[t] : \A w \in free[t] : v[2] <= w[2]
           fr == free[t] \ {u}
           s == Append(iocbs[t], u)
<1>1. /\ pc[t] = "build" /\ want[t] > 0 /\ free[t] # {}
      /\ free' = [free EXCEPT ![t] = fr] /\ iocbs' = [iocbs EXCEPT ![t] = s]
      /\ want' = [want EXCEPT ![t] = want[t] - 1]
      /\ UNCHANGED <<pc, active, finished, built, idx, closed, inflight, done,
                     num_global_pending>>
  BY DEF BuildIocb, listVars, endVars
<1>2. PICK x \in IF IsSequential(oper[o].rw) THEN {oper[o].offset} ELSE StartOf(o) .. EndOf(o) :
        /\ job' = [job EXCEPT ![u] = [oper |-> o, offset |-> x]]
        /\ oper' = [oper EXCEPT ![o].offset = IF IsSequential(oper[o].rw) THEN x + 1 ELSE x]
  BY DEF BuildIocb
<1>3. Split(UnitsOf(t), free[t], iocbs[t], inflight[t], done[t])
  BY UnitFacts
<1>4. u \in free[t] /\ u \in UnitsOf(t) /\ u \in Units /\ u \notin Out(t) /\ u[1] = t
  <2>1. free[t] \in SUBSET UnitsOf(t)
    BY <1>3 DEF Split
  <2>2. u \in free[t]
    BY <1>1, <2>1, FreeUnit
  <2> HIDE DEF u
  <2> QED BY <1>3, <2>1, <2>2, UnitsAre DEF Split, Out
<1> HIDE DEF u
<1>5. Split(UnitsOf(t), fr, s, inflight[t], done[t])
  BY <1>3, <1>4, SplitBuild
<1>6. Len(s) = Len(iocbs[t]) + 1
  BY <1>3, <1>4, AppendProperties DEF Split
<1>7. idx[t] \in 1 .. Len(active[t])
  BY <1>1 DEF BookInv, Book, Lists
<1>8. o \in Own(t) /\ o \in Opers
  BY <1>7, ListFacts, ElementOfSeq DEF Cur
<1> HIDE DEF o
<1>9. oper[o] \in OperRec /\ oper[o].offset \in Int /\ x \in Int
  <2>1. oper[o] \in OperRec
    BY <1>8, UnitFacts
  <2>2. oper[o].offset \in Int
    BY <2>1 DEF OperRec
  <2> QED BY <1>2, <1>8, <2>1, <2>2, OperNumbers
<1> DEFINE z == IF IsSequential(oper[o].rw) THEN x + 1 ELSE x
           j == [oper |-> o, offset |-> x]
<1>10. z \in Int /\ j \in JobRec /\ j.oper = o
  BY <1>8, <1>9 DEF JobRec
<1>11. job' = [job EXCEPT ![u] = j] /\ oper' = [oper EXCEPT ![o].offset = z]
  BY <1>2
<1> HIDE DEF z, j, fr, s
<1>12. /\ job' \in [Units -> JobRec] /\ job'[u].oper = o
       /\ \A v \in Units : v # u => job'[v] = job[v]
  BY <1>4, <1>10, <1>11, UnitFacts
<1>13. /\ oper' \in [Opers -> OperRec] /\ \A p \in Opers \ {o} : oper'[p] = oper[p]
       /\ \A p \in Opers : oper'[p].pending = oper[p].pending
  <2>1. [oper[o] EXCEPT !.offset = z] \in OperRec
    BY <1>9, <1>10 DEF OperRec
  <2>2. [oper[o] EXCEPT !.offset = z].pending = oper[o].pending
    BY <1>9 DEF OperRec
  <2> DEFINE r == [oper[o] EXCEPT !.offset = z]
  <2>3. oper' = [oper EXCEPT ![o] = r]
    BY <1>11
  <2> HIDE DEF r
  <2> QED BY <1>8, <2>1, <2>2, <2>3, UnitFacts DEF r
<1>14. Prepared(t) /\ Counted(t) /\ Freed(t)
  BY DEF BookInv, Book
<1>15. Shifts(t, pc[t], want[t] - 1, fr, s, inflight[t], done[t], num_global_pending[t])
  BY <1>1, UnitFacts DEF Shifts
<1>16. MayShift(t, pc[t], want[t] - 1, fr, s, inflight[t], done[t], num_global_pending[t])
  <2>1. want[t] \in Nat /\ Len(iocbs[t]) + want[t] <= (Len(built[t]) + 1) * Depth
    BY <1>1, <1>14 DEF Prepared
  <2>2. want[t] - 1 \in Nat /\ want[t] - 1 \in Int
    BY <1>1, <2>1
  <2>3. Len(s) + (want[t] - 1) = Len(iocbs[t]) + want[t]
    <3>1. Len(iocbs[t]) \in Nat
      BY ListLengths
    <3> DEFINE a == Len(iocbs[t])
               b == Len(s)
               c == want[t]
    <3>2. a \in Nat /\ b = a + 1 /\ c \in Nat
      BY <1>6, <2>1, <3>1
    <3> HIDE DEF a, b, c
    <3>3. b + (c - 1) = a + c
      BY <3>2
    <3> QED BY <3>3 DEF a, b, c
  <2>4. /\ num_global_pending[t] = Cardinality(inflight[t] \cup done[t])
        /\ Cardinality(inflight[t] \cup done[t]) <= QueueDepth
    BY <1>14 DEF Counted, Out
  <2> QED BY <1>1, <1>5, <2>1, <2>2, <2>3, <2>4 DEF MayShift, Sending
<1>17. OpersCount(t, pc[t], fr, inflight[t] \cup done[t])
  <2>1. \A p \in Opers \ Own(t) : oper'[p] = oper[p]
    BY <1>8, <1>13
  <2>2. \A v \in Units : v[1] # t => job'[v] = job[v]
    BY <1>4, <1>12
  <2>3. \A v \in UnitsOf(t) \ fr : job'[v].oper \in Own(t)
    <3> SUFFICES ASSUME NEW v \in UnitsOf(t) \ fr PROVE job'[v].oper \in Own(t)
      OBVIOUS
    <3>1. CASE v = u
      BY <1>8, <1>12, <3>1
    <3>2. CASE v # u
      BY <1>12, <3>2, UnitFacts, UnitsAre DEF fr
    <3> QED BY <3>1, <3>2
  <2>4. ASSUME NEW p \in Own(t) PROVE oper'[p].pending = CountFor(job', Out(t), p)
    <3>1. \A v \in Out(t) : job[v] = job'[v]
      BY <1>4, <1>12, UnitFacts, UnitsAre
    <3>2. CountFor(job, Out(t), p) = CountFor(job', Out(t), p)
      BY <3>1, CountSame
    <3>3. oper'[p].pending = oper[p].pending
      BY <1>13, UnitFacts
    <3> QED BY <1>14, <3>2, <3>3 DEF Counted
  <2>5. \A p \in Own(t) \cap closed : FALSE
    BY <1>1, <1>14 DEF Freed
  <2> QED BY <1>12, <1>13, <2>1, <2>2, <2>3, <2>4, <2>5 DEF OpersCount, Out
<1> QED BY <1>15, <1>16, <1>17, ShiftsOn

\* finish_io() for the events S that are done: the units are free again and the
\* counters lowered.
LEMMA ReapKeeps ==
  ASSUME BookInv, NEW t \in Threads, NEW S \in SUBSET done[t], NEW l,
         FinishIo(t, S), pc' = [pc EXCEPT ![t] = l],
         l = pc[t] \/ (pc[t] = "eagain" /\ l = "submit"), l # "eagain",
         UNCHANGED <<want, iocbs, inflight, active, finished, built, idx, closed, job>>
  PROVE  Keeps(t)
<1> DEFINE fr == free[t] \cup S
           dn == done[t] \ S
           g == num_global_pending[t] - Cardinality(S)
           r(o) == [oper[o] EXCEPT
                      !.pending = oper[o].pending - CountFor(job, S, o),
                      !.err = oper[o].err \/ \E u \in S \cap bad : job[u].oper = o /\ Recorded(u)]
<1>1. /\ free' = [free EXCEPT ![t] = fr] /\ done' = [done EXCEPT ![t] = dn]
      /\ num_global_pending' = [num_global_pending EXCEPT ![t] = g]
  BY DEF FinishIo
<1>2. oper' = [o \in Opers |-> r(o)]
  BY DEF FinishIo, CountFor
<1>3. Split(UnitsOf(t), free[t], iocbs[t], inflight[t], done[t])
  BY UnitFacts
<1>4. Split(UnitsOf(t), fr, iocbs[t], inflight[t], dn)
  BY <1>3, SplitReap
<1>5. Prepared(t) /\ Counted(t) /\ Freed(t)
  BY DEF BookInv, Book
<1>6. inflight[t] \cup dn = Out(t) \ S /\ S \in SUBSET Out(t) /\ IsFiniteSet(Out(t))
  BY <1>3, UnitFacts DEF Split, Out
<1>7. /\ IsFiniteSet(S) /\ IsFiniteSet(Out(t) \ S)
      /\ Cardinality(Out(t) \ S) = Cardinality(Out(t)) - Cardinality(S)
  BY <1>6, CountMinus, FS_Difference
<1>8. \A o : /\ CountFor(job, Out(t) \ S, o) = CountFor(job, Out(t), o) - CountFor(job, S, o)
             /\ CountFor(job, S, o) \in Nat /\ CountFor(job, Out(t) \ S, o) \in Nat
             /\ CountFor(job, Out(t), o) \in Nat
  BY <1>6, <1>7, CountMinus, CountType
<1>9. Cardinality(S) \in Nat /\ Cardinality(Out(t)) \in Nat
  BY <1>6, <1>7, FS_CardinalityType
<1>10. ASSUME NEW o \in Opers
       PROVE  /\ r(o) \in OperRec /\ r(o).pending = oper[o].pending - CountFor(job, S, o)
  <2> DEFINE e == oper[o].err \/ \E u \in S \cap bad : job[u].oper = o /\ Recorded(u)
             p == oper[o].pending - CountFor(job, S, o)
  <2>1. oper[o] \in OperRec
    BY UnitFacts
  <2>2. p \in Int
    BY <1>8, <2>1 DEF OperRec
  <2>3. e \in BOOLEAN
    OBVIOUS
  <2>4. r(o) = [oper[o] EXCEPT !.pending = p, !.err = e]
    OBVIOUS
  <2> HIDE DEF r, e, p
  <2>5. [oper[o] EXCEPT !.pending = p, !.err = e] \in OperRec
    BY <2>1, <2>2, <2>3 DEF OperRec
  <2>6. [oper[o] EXCEPT !.pending = p, !.err = e].pending = p
    BY <2>1 DEF OperRec
  <2> QED BY <2>4, <2>5, <2>6 DEF p
<1>11. ASSUME NEW o \in Opers \ Own(t) PROVE r(o) = oper[o]
  <2>1. \A u \in S : job[u].oper # o
    BY <1>6, UnitFacts
  <2>2. CountFor(job, S, o) = 0
    <3>1. {u \in S : job[u].oper = o} = {}
      BY <2>1
    <3> QED BY <3>1, FS_EmptySet DEF CountFor
  <2> DEFINE e == oper[o].err \/ \E u \in S \cap bad : job[u].oper = o /\ Recorded(u)
  <2>3. oper[o] \in OperRec
    BY UnitFacts
  <2>4. oper[o].pending - CountFor(job, S, o) = oper[o].pending /\ oper[o].err \in BOOLEAN
    BY <2>2, <2>3 DEF OperRec
  <2>5. e = oper[o].err
    BY <2>1, <2>4
  <2>6. r(o) = [oper[o] EXCEPT !.pending = oper[o].pending, !.err = e]
    BY <2>4
  <2> HIDE DEF r, e
  <2>7. [oper[o] EXCEPT !.pending = oper[o].pending, !.err = oper[o].err] = oper[o]
    BY <2>3 DEF OperRec
  <2> QED BY <2>5, <2>6, <2>7
<1> HIDE DEF r, fr, dn, g
<1>12. Shifts(t, l, want[t], fr, iocbs[t], inflight[t], dn, g)
  BY <1>1, UnitFacts DEF Shifts
<1>13. MayShift(t, l, want[t], fr, iocbs[t], inflight[t], dn, g)
  <2>1. g = Cardinality(Out(t) \ S) /\ Cardinality(Out(t) \ S) <= QueueDepth
    <3>1. g = Cardinality(Out(t)) - Cardinality(S) /\ Cardinality(Out(t)) <= QueueDepth
      BY <1>5 DEF Counted, g
    <3> QED BY <1>7, <1>9, <3>1, Options
  <2>2. l \in Sending <=> pc[t] \in Sending
    BY DEF Sending
  <2> QED BY <1>4, <1>5, <1>6, <2>1, <2>2, UnitFacts DEF MayShift, Prepared
<1>14. OpersCount(t, l, fr, inflight[t] \cup dn)
  <2>1. oper' \in [Opers -> OperRec] /\ \A o \in Opers \ Own(t) : oper'[o] = oper[o]
    BY <1>2, <1>10, <1>11
  <2>2. ASSUME NEW o \in Own(t)
        PROVE  /\ oper'[o].pending = CountFor(job, Out(t) \ S, o)
               /\ o \in closed => pc[t] \in {"free", "exit"} /\ oper'[o].pending = 0
    <3>1. oper'[o].pending = oper[o].pending - CountFor(job, S, o)
      BY <1>2, <1>10, UnitFacts
    <3>2. oper[o].pending = CountFor(job, Out(t), o)
      BY <1>5 DEF Counted
    <3>3. oper'[o].pending = CountFor(job, Out(t) \ S, o)
      BY <1>8, <3>1, <3>2
    <3>4. o \in closed => pc[t] \in {"free", "exit"} /\ oper[o].pending = 0
      BY <1>5 DEF Freed
    <3>5. oper[o].pending = 0 => oper'[o].pending = 0
      BY <1>8, <3>1, <3>2, <3>3
    <3> QED BY <3>3, <3>4, <3>5
  <2>3. \A u \in UnitsOf(t) \ fr : job[u].oper \in Own(t)
    BY UnitFacts DEF fr
  <2> QED BY <1>6, <2>1, <2>2, <2>3, UnitFacts DEF OpersCount
<1> QED BY <1>12, <1>13, <1>14, ShiftsOn

\* The two places where events are read.
LEMMA ReadKeeps ==
  ASSUME BookInv, NEW t \in Threads, ReadSomeEvents(t) \/ IoOperWait(t)
  PROVE  Keeps(t)
<1>1. CASE ReadSomeEvents(t)
  <2>1. /\ FinishIo(t, done[t])
        /\ UNCHANGED <<want, iocbs, inflight, active, finished, built, idx, closed, job>>
    BY <1>1 DEF ReadSomeEvents, listVars, walkVars, endVars
  <2>2. \/ pc[t] = "build" /\ pc' = [pc EXCEPT ![t] = "build"]
        \/ pc[t] = "eagain" /\ pc' = [pc EXCEPT ![t] = "submit"]
    BY <1>1, UnitFacts DEF ReadSomeEvents, Goto
  <2>3. done[t] \in SUBSET done[t]
    OBVIOUS
  <2> QED BY <2>1, <2>2, <2>3, ReapKeeps
<1>2. CASE IoOperWait(t)
  <2>1. PICK u \in done[t] : FinishIo(t, {u})
    BY <1>2 DEF IoOperWait
  <2>2. /\ pc[t] \in {"wait", "free"} /\ pc' = [pc EXCEPT ![t] = pc[t]]
        /\ UNCHANGED <<want, iocbs, inflight, active, finished, built, idx, closed, job>>
    BY <1>2, UnitFacts DEF IoOperWait, listVars, walkVars, endVars
  <2>3. {u} \in SUBSET done[t] /\ pc[t] # "eagain"
    BY <2>2
  <2> QED BY <2>1, <2>2, <2>3, ReapKeeps
<1> QED BY <1>1, <1>2

\* io_submit takes what the queue has room for, and it is counted.
LEMMA SubmitKeeps ==
  ASSUME BookInv, NEW t \in Threads, Submit(t)
  PROVE  Keeps(t)
<1> DEFINE n == Len(iocbs[t])
           room == QueueDepth - Cardinality(inflight[t] \cup done[t])
           k == MinOf(n, room)
           took == SubSeq(iocbs[t], 1, k)
           S == Range(took)
           s == SubSeq(iocbs[t], k + 1, n)
           in == inflight[t] \cup S
           g == num_global_pending[t] + k
           l == IF k = n THEN "requeue" ELSE "eagain"
           r(o) == [oper[o] EXCEPT !.pending = oper[o].pending + CountFor(job, S, o),
                                   !.started = oper[o].started + CountFor(job, S, o)]
<1>1. /\ pc[t] = "submit"
      /\ inflight' = [inflight EXCEPT ![t] = in] /\ iocbs' = [iocbs EXCEPT ![t] = s]
      /\ num_global_pending' = [num_global_pending EXCEPT ![t] = g]
      /\ pc' = [pc EXCEPT ![t] = l]
      /\ UNCHANGED <<active, finished, built, idx, closed, want, free, done, job>>
  BY DEF Submit, listVars, endVars, Goto
<1>2. oper' = [o \in Opers |-> r(o)]
  BY DEF Submit, UnitsFor, CountFor
<1>3. Split(UnitsOf(t), free[t], iocbs[t], inflight[t], done[t])
  BY UnitFacts
<1>4. Prepared(t) /\ Counted(t) /\ Freed(t)
  BY DEF BookInv, Book
<1>5. Out(t) = inflight[t] \cup done[t] /\ IsFiniteSet(Out(t)) /\ Cardinality(Out(t)) \in Nat
  BY UnitFacts, FS_CardinalityType DEF Out
<1>6. n \in Nat
  BY ListLengths
<1>7. k \in 0 .. n /\ k <= room /\ (k # n => k = room) /\ room \in Nat
  <2>1. room = QueueDepth - Cardinality(Out(t)) /\ Cardinality(Out(t)) <= QueueDepth
    BY <1>4, <1>5 DEF Counted
  <2>2. room \in Nat
    BY <1>5, <2>1, Options
  <2> HIDE DEF n, room
  <2> QED BY <1>6, <2>2 DEF MinOf
<1>8. l \in {"requeue", "eagain"} /\ (l = "requeue" => k = n) /\ (l = "eagain" => k = room)
  BY <1>7
<1>9. iocbs[t] \in Seq(UnitsOf(t)) /\ Once(iocbs[t])
  BY <1>3 DEF Split
<1> HIDE DEF k, room
<1>10. /\ Split(UnitsOf(t), free[t], s, in, done[t]) /\ Len(s) = n - k
       /\ S \subseteq Range(iocbs[t])
  <2> DEFINE x == iocbs[t]
             U == UnitsOf(t)
             f == free[t]
             i == inflight[t]
             d == done[t]
  <2>1. Split(U, f, x, i, d) /\ k \in 0 .. Len(x)
    BY <1>3, <1>7
  <2> HIDE DEF x, U, f, i, d
  <2>2. /\ Split(U, f, SubSeq(x, k + 1, Len(x)), i \cup Range(SubSeq(x, 1, k)), d)
        /\ Len(SubSeq(x, k + 1, Len(x))) = Len(x) - k
        /\ Range(SubSeq(x, 1, k)) \subseteq Range(x)
    BY <2>1, SplitSubmit
  <2> QED BY <2>2 DEF x, U, f, i, d
<1>11. took \in Seq(UnitsOf(t)) /\ Len(took) = k /\ Once(took)
  BY <1>7, <1>9, OnceSplit
<1> HIDE DEF took, s
<1>12. IsFiniteSet(S) /\ Cardinality(S) = k
  BY <1>11, OnceLength
<1>13. S \subseteq UnitsOf(t) \ free[t] /\ S \cap Out(t) = {} /\ in \cup done[t] = Out(t) \cup S
  BY <1>3, <1>10 DEF Split, Out
<1> HIDE DEF S
<1>14. Cardinality(Out(t) \cup S) = Cardinality(Out(t)) + k
  BY <1>5, <1>12, <1>13, CountPlus
<1>15. \A o : /\ CountFor(job, Out(t) \cup S, o) = CountFor(job, Out(t), o) + CountFor(job, S, o)
              /\ CountFor(job, S, o) \in Nat
  BY <1>5, <1>12, <1>13, CountPlus, CountType
<1>16. ASSUME NEW o \in Opers
       PROVE  r(o) \in OperRec /\ r(o).pending = oper[o].pending + CountFor(job, S, o)
  <2> DEFINE p == oper[o].pending + CountFor(job, S, o)
             q == oper[o].started + CountFor(job, S, o)
  <2>1. oper[o] \in OperRec
    BY UnitFacts
  <2>2. p \in Int /\ q \in Int
    BY <1>15, <2>1 DEF OperRec
  <2>3. r(o) = [oper[o] EXCEPT !.pending = p, !.started = q]
    OBVIOUS
  <2> HIDE DEF r, p, q
  <2>4. [oper[o] EXCEPT !.pending = p, !.started = q] \in OperRec
    BY <2>1, <2>2 DEF OperRec
  <2>5. [oper[o] EXCEPT !.pending = p, !.started = q].pending = p
    BY <2>1 DEF OperRec
  <2> QED BY <2>3, <2>4, <2>5 DEF p
<1>17. ASSUME NEW o \in Opers \ Own(t) PROVE r(o) = oper[o]
  <2>1. \A u \in S : job[u].oper # o
    BY <1>13, UnitFacts
  <2>2. CountFor(job, S, o) = 0
    <3>1. {u \in S : job[u].oper = o} = {}
      BY <2>1
    <3> QED BY <3>1, FS_EmptySet DEF CountFor
  <2>3. oper[o] \in OperRec
    BY UnitFacts
  <2>4. /\ oper[o].pending + CountFor(job, S, o) = oper[o].pending
        /\ oper[o].started + CountFor(job, S, o) = oper[o].started
    BY <2>2, <2>3 DEF OperRec
  <2>5. r(o) = [oper[o] EXCEPT !.pending = oper[o].pending, !.started = oper[o].started]
    BY <2>4
  <2> HIDE DEF r
  <2>6. [oper[o] EXCEPT !.pending = oper[o].pending, !.started = oper[o].started] = oper[o]
    BY <2>3 DEF OperRec
  <2> QED BY <2>5, <2>6
<1> HIDE DEF r, in, g, l, n
<1>18. Shifts(t, l, want[t], free[t], s, in, done[t], g)
  BY <1>1, UnitFacts DEF Shifts
<1>19. MayShift(t, l, want[t], free[t], s, in, done[t], g)
  <2>1. num_global_pending[t] = Cardinality(Out(t)) /\ room = QueueDepth - Cardinality(Out(t))
    BY <1>4, <1>5 DEF Counted, room
  <2>2. /\ g = Cardinality(Out(t) \cup S) /\ Cardinality(Out(t) \cup S) <= QueueDepth
        /\ k = room => Cardinality(Out(t) \cup S) = QueueDepth
    BY <1>5, <1>6, <1>7, <1>14, <2>1, Options DEF g
  <2>3. l = "eagain" => Out(t) \cup S # {}
    <3>1. Cardinality({}) = 0
      BY FS_EmptySet
    <3> QED BY <1>8, <2>2, <3>1, Options
  <2>4. l \notin Sending => s = <<>>
    <3>1. s \in Seq(UnitsOf(t))
      BY <1>10 DEF Split
    <3>2. k = n => Len(s) = 0
      BY <1>6, <1>10
    <3>3. Len(s) = 0 => s = <<>>
      BY <3>1, EmptySeq
    <3> QED BY <1>8, <3>2, <3>3 DEF Sending
  <2> QED BY <1>1, <1>8, <1>10, <1>13, <2>2, <2>3, <2>4, UnitFacts DEF MayShift
<1>20. OpersCount(t, l, free[t], in \cup done[t])
  <2>1. oper' \in [Opers -> OperRec] /\ \A o \in Opers \ Own(t) : oper'[o] = oper[o]
    BY <1>2, <1>16, <1>17
  <2>2. ASSUME NEW o \in Own(t) PROVE oper'[o].pending = CountFor(job, Out(t) \cup S, o)
    <3>1. oper'[o].pending = oper[o].pending + CountFor(job, S, o)
      BY <1>2, <1>16, UnitFacts
    <3>2. oper[o].pending = CountFor(job, Out(t), o)
      BY <1>4 DEF Counted
    <3> QED BY <1>15, <3>1, <3>2
  <2>3. \A o \in Own(t) \cap closed : FALSE
    BY <1>1, <1>4 DEF Freed
  <2> QED BY <1>1, <1>13, <2>1, <2>2, <2>3, UnitFacts DEF OpersCount
<1> QED BY <1>18, <1>19, <1>20, ShiftsOn

-----------------------------------------------------------------------------
(* The invariant, and what follows from it.                                *)

\* It holds initially: every unit is free and nothing is pending.
LEMMA BookInit ==
  ASSUME Init
  PROVE  BookInv
<1>1. first_stage \in Stages
  <2>1. Stages \in SUBSET Stages /\ Stages # {}
    BY AioStressAssumption
  <2> QED BY <2>1, FirstStage DEF first_stage
<1>2. oper \in [Opers -> OperRec] /\ \A o \in Opers : oper[o].pending = 0
  <2> DEFINE r(o) == [rw |-> first_stage, started |-> 0, pending |-> 0, err |-> FALSE,
                      stonewalled |-> FALSE, offset |-> StartOf(o)]
  <2>1. oper = [o \in Opers |-> r(o)]
    BY DEF Init
  <2>2. \A o \in Opers : r(o) \in OperRec /\ r(o).pending = 0
    BY <1>1, OperNumbers DEF OperRec
  <2> HIDE DEF r
  <2> QED BY <2>1, <2>2
<1>3. job \in [Units -> JobRec]
  <2>1. 0 \in Opers
    BY Options DEF Opers
  <2>2. [oper |-> 0, offset |-> 0] \in JobRec
    BY <2>1 DEF JobRec
  <2> QED BY <2>2 DEF Init
<1>4. \A t \in Threads : /\ OpersOf(t) \in Seq(Opers) /\ OpersOf(t) \in Seq(Own(t))
                         /\ UnitsOf(t) \in SUBSET Units
  <2> SUFFICES ASSUME NEW t \in Threads
               PROVE  /\ OpersOf(t) \in Seq(Opers) /\ OpersOf(t) \in Seq(Own(t))
                      /\ UnitsOf(t) \in SUBSET Units
    OBVIOUS
  <2>1. OpersOf(t) \in Seq(Own(t)) /\ Own(t) \subseteq Opers
    BY Dealt DEF Own
  <2> QED BY <2>1, UnitsAre, SeqMonotonic
<1>5. Types
  <2>1. pc \in [Threads -> Labels] /\ idx \in [Threads -> Nat] /\ want \in [Threads -> Int]
    BY DEF Init, Labels
  <2>2. active \in [Threads -> Seq(Opers)] /\ finished \in [Threads -> Seq(Opers)]
    BY <1>4 DEF Init
  <2>3. built \in [Threads -> Seq(Opers)] /\ iocbs \in [Threads -> Seq(Units)]
    BY DEF Init
  <2>4. free \in [Threads -> SUBSET Units] /\ inflight \in [Threads -> SUBSET Units]
    BY <1>4 DEF Init
  <2>5. done \in [Threads -> SUBSET Units] /\ num_global_pending \in [Threads -> Int]
        /\ closed \in SUBSET Opers
    BY DEF Init
  <2> QED BY <1>2, <1>3, <2>1, <2>2, <2>3, <2>4, <2>5 DEF Types
<1>6. ASSUME NEW t \in Threads PROVE Book(t)
  <2>1. /\ pc[t] = "start" /\ active[t] = OpersOf(t) /\ finished[t] = <<>> /\ built[t] = <<>>
        /\ iocbs[t] = <<>> /\ free[t] = UnitsOf(t) /\ inflight[t] = {} /\ done[t] = {}
        /\ num_global_pending[t] = 0 /\ closed = {}
    BY DEF Init
  <2>2. Fit(Len(OpersOf(t)), 0, 0, Len(OpersOf(t)))
    BY Dealt DEF Fit
  <2>3. Lists(t)
    <3>1. Len(<<>>) = 0 /\ <<>> \in Seq(Own(t))
      OBVIOUS
    <3> QED BY <1>4, <2>1, <2>2, <3>1 DEF Lists
  <2>4. Prepared(t)
    BY <2>1 DEF Prepared
  <2>5. Placed(t)
    <3>1. <<>> \in Seq(UnitsOf(t)) /\ Len(<<>>) = 0
      OBVIOUS
    <3>2. Range(<<>>) = {}
      BY DEF Range
    <3>3. Once(<<>>)
      BY <3>1 DEF Once
    <3> QED BY <2>1, <3>1, <3>2, <3>3 DEF Placed, Split
  <2>6. Counted(t)
    <3>1. Out(t) = {} /\ Cardinality({}) = 0 /\ Own(t) \subseteq Opers
      BY <2>1, FS_EmptySet DEF Out, Own
    <3>2. \A o : CountFor(job, {}, o) = 0
      <4>1. \A o : {u \in {} : job[u].oper = o} = {}
        OBVIOUS
      <4> QED BY <3>1, <4>1 DEF CountFor
    <3> QED BY <1>2, <2>1, <3>1, <3>2, Options DEF Counted
  <2>7. Freed(t)
    BY <2>1 DEF Freed
  <2> QED BY <2>3, <2>4, <2>5, <2>6, <2>7 DEF Book
<1> QED BY <1>5, <1>6 DEF BookInv

\* A step of a thread touches only what is its own.
LEMMA OwnSteps ==
  ASSUME BookInv, NEW t \in Threads,
         ThreadStep(t) \/ Kernel(t) \/ SubmitFails(t) \/ SpuriousWakeup(t)
  PROVE  Keeps(t)
<1>1. CASE Kernel(t)
  BY <1>1, KernelKeeps DEF Kernel
<1>2. CASE ThreadStep(t)
  <2>1. CASE \/ EnterStart(t) \/ WakeStart(t) \/ LoopEnds(t) \/ EnterEnd(t) \/ WakeEnd(t)
             \/ Decide(t)
    BY <2>1, CalmSteps
  <2>2. CASE \/ RunActiveList(t) \/ SkipOper(t) \/ BuildOper(t) \/ WaitDone(t) \/ KeepOper(t)
    BY <2>2, WalkSteps
  <2>3. CASE StonewallHead(t) \/ OperBuilt(t) \/ SubmitNothing(t) \/ Requeue(t)
    BY <2>3, StonewallKeeps, OperBuiltKeeps, SubmitNothingKeeps, RequeueKeeps
  <2>4. CASE RestartOper(t) \/ FinishOper(t)
    BY <2>4, RestartKeeps, FinishKeeps
  <2>5. CASE BuildIocb(t) \/ Submit(t) \/ ReadSomeEvents(t) \/ IoOperWait(t)
    BY <2>5, BuildKeeps, SubmitKeeps, ReadKeeps
  <2> QED BY <1>2, <2>1, <2>2, <2>3, <2>4, <2>5 DEF ThreadStep, WorkerStep
<1>3. CASE SubmitFails(t) \/ SpuriousWakeup(t)
  BY <1>3, CalmSteps, WalkSteps
<1> QED BY <1>1, <1>2, <1>3

\* Every step keeps it.
LEMMA BookStep ==
  ASSUME BookInv, [Next]_vars
  PROVE  BookInv'
<1>1. CASE UNCHANGED vars
  <2>1. PICK t \in Threads : TRUE
    BY Options DEF Threads
  <2>2. UNCHANGED <<pc, idx, want, bookVars>>
    BY <1>1 DEF vars, bookVars, listVars, unitVars, walkVars, endVars
  <2> QED BY <2>2, Same, KeepsBook
<1>2. ASSUME NEW t \in Threads,
             ThreadStep(t) \/ Kernel(t) \/ SubmitFails(t) \/ SpuriousWakeup(t)
      PROVE  BookInv'
  BY <1>2, OwnSteps, KeepsBook
<1> QED BY <1>1, <1>2 DEF Next

\* The units of a thread are all accounted for.
LEMMA BookConserves ==
  ASSUME BookInv
  PROVE  UnitsConserved
<1> SUFFICES ASSUME NEW t \in Threads
             PROVE  /\ free[t] \cup Range(iocbs[t]) \cup inflight[t] \cup done[t] = UnitsOf(t)
                    /\ Cardinality(free[t]) + Len(iocbs[t]) + Cardinality(inflight[t])
                         + Cardinality(done[t]) = Cardinality(UnitsOf(t))
  BY DEF UnitsConserved
<1>1. Split(UnitsOf(t), free[t], iocbs[t], inflight[t], done[t])
  BY UnitFacts
<1>2. IsFiniteSet(UnitsOf(t))
  BY UnitsAre
<1> QED BY <1>1, <1>2, SplitCounts DEF Split

\* The counters are exact.
LEMMA BookCounts ==
  ASSUME BookInv
  PROVE  PendingExact
<1> SUFFICES ASSUME NEW t \in Threads
             PROVE  /\ num_global_pending[t] = Cardinality(inflight[t] \cup done[t])
                    /\ \A i \in DOMAIN OpersOf(t) :
                         oper[OpersOf(t)[i]].pending
                           = Cardinality({u \in inflight[t] \cup done[t] :
                                            job[u].oper = OpersOf(t)[i]})
  BY DEF PendingExact
<1>1. Counted(t)
  BY DEF BookInv, Book
<1>2. OpersOf(t) \in Seq(Own(t))
  BY Dealt
<1>3. \A i \in DOMAIN OpersOf(t) : OpersOf(t)[i] \in Own(t)
  BY <1>2, ElementOfSeq, LenProperties
<1> QED BY <1>1, <1>3 DEF Counted, CountFor, Out

\* A thread without a free unit, or told to come again, has requests pending.
LEMMA BookNourishes ==
  ASSUME BookInv
  PROVE  NeverStarved
<1> SUFFICES ASSUME NEW t \in Threads,
                    (pc[t] = "build" /\ want[t] > 0 /\ free[t] = {}) \/ pc[t] = "eagain"
             PROVE  num_global_pending[t] > 0
  BY DEF NeverStarved
<1>1. Lists(t) /\ Prepared(t) /\ Counted(t)
  BY DEF BookInv, Book
<1>2. /\ IsFiniteSet(Out(t)) /\ Cardinality(Out(t)) \in Nat
      /\ Cardinality(Out(t)) = 0 <=> Out(t) = {}
  BY UnitFacts, FS_CardinalityType, FS_EmptySet
<1>3. CASE pc[t] = "eagain"
  BY <1>1, <1>2, <1>3 DEF Counted
<1>4. CASE pc[t] = "build" /\ want[t] > 0 /\ free[t] = {}
  <2> SUFFICES ASSUME Out(t) = {} PROVE FALSE
    BY <1>1, <1>2 DEF Counted
  <2> DEFINE c == Len(iocbs[t])
             b == Len(built[t])
             a == Len(active[t])
             f == Len(finished[t])
             n == Len(OpersOf(t))
             w == want[t]
  <2>1. c = n * Depth
    <3>1. Split(UnitsOf(t), free[t], iocbs[t], inflight[t], done[t])
      BY UnitFacts
    <3>2. inflight[t] = {} /\ done[t] = {} /\ Cardinality({}) = 0
      BY FS_EmptySet DEF Out
    <3>3. IsFiniteSet(UnitsOf(t)) /\ Cardinality(UnitsOf(t)) = n * Depth
      BY UnitsAre
    <3>4. c \in Nat /\ 0 + c + 0 + 0 = Cardinality(UnitsOf(t))
      BY <1>4, <3>1, <3>2, <3>3, SplitCounts
    <3> HIDE DEF c, n
    <3> QED BY <3>3, <3>4
  <2>2. /\ a \in Nat /\ f \in Nat /\ b \in Nat /\ c \in Nat /\ n \in Nat
        /\ Fit(a, f, b, n)
    BY ListLengths
  <2>3. idx[t] \in 1 .. a /\ w \in Nat /\ w > 0 /\ c + w <= (b + 1) * Depth
    BY <1>1, <1>4 DEF Lists, Prepared
  <2> HIDE DEF a, b, c, f, n, w
  <2>4. b + 1 <= n
    BY <2>2, <2>3 DEF Fit
  <2>5. (b + 1) * Depth <= n * Depth /\ n * Depth \in Nat
    <3>1. \A x, y, z \in Nat : x <= y => x * z <= y * z /\ y * z \in Nat
      OBVIOUS
    <3>2. b + 1 \in Nat
      BY <2>2
    <3> QED BY <2>2, <2>4, <3>1, <3>2, Options
  <2> DEFINE p == (b + 1) * Depth
             q == n * Depth
  <2>6. p \in Int /\ q \in Nat /\ c = q /\ c + w <= p /\ p <= q
    BY <2>1, <2>2, <2>3, <2>5, Options
  <2> HIDE DEF p, q
  <2> QED BY <2>3, <2>6
<1> QED BY <1>3, <1>4

\* No request is with the kernel for an operation that is freed.
LEMMA BookNoUse ==
  ASSUME BookInv
  PROVE  NoUseAfterFree
<1> SUFFICES ASSUME NEW t \in Threads, NEW u \in Out(t), job[u].oper \in closed
             PROVE  FALSE
  BY DEF NoUseAfterFree, Out
<1> DEFINE o == job[u].oper
<1>1. Counted(t) /\ Freed(t)
  BY DEF BookInv, Book
<1>2. o \in Own(t) /\ IsFiniteSet(Out(t))
  BY UnitFacts
<1>3. CountFor(job, Out(t), o) = 0
  BY <1>1, <1>2 DEF Counted, Freed
<1> QED BY <1>2, <1>3, CountType

\* The book is kept.
THEOREM BookKept == Spec => []BookInv
<1>1. Init => BookInv
  BY BookInit
<1>2. BookInv /\ [Next]_vars => BookInv'
  BY BookStep
<1> QED BY <1>1, <1>2, PTL DEF Spec

\* However the threads, the partial submissions and the completions interleave, an
\* io unit is never lost and never in two places.
THEOREM Conserved == Spec => []UnitsConserved
  BY BookKept, BookConserves, PTL

\* num_pending of every operation and num_global_pending of every thread count what
\* the kernel holds.
THEOREM Exact == Spec => []PendingExact
  BY BookKept, BookCounts, PTL

\* find_iou() and run_built() never wait for an event when none is pending.
THEOREM Nourished == Spec => []NeverStarved
  BY BookKept, BookNourishes, PTL

\* No event arrives for an operation that finish_oper() has freed.
THEOREM NotUsedFreed == Spec => []NoUseAfterFree
  BY BookKept, BookNoUse, PTL

-----------------------------------------------------------------------------
(* What is on a list.                                                      *)

\* A list holds members of its set; its head and its tail make it up.
LEMMA OnList ==
  ASSUME NEW S, NEW s \in Seq(S)
  PROVE  /\ Range(s) \subseteq S /\ \A i \in 1 .. Len(s) : s[i] \in Range(s)
         /\ s # <<>> => /\ Head(s) \in Range(s) /\ Range(s) = Range(Tail(s)) \cup {Head(s)}
                        /\ Once(s) => /\ Once(Tail(s))
                                      /\ Range(Tail(s)) = Range(s) \ {Head(s)}
<1>1. /\ Len(s) \in Nat /\ Range(s) = {s[i] : i \in 1 .. Len(s)}
      /\ \A i \in 1 .. Len(s) : s[i] \in S
  BY LenProperties, RangeEquality, ElementOfSeq
<1>2. ASSUME s # <<>>
      PROVE  /\ Head(s) \in Range(s) /\ Range(s) = Range(Tail(s)) \cup {Head(s)}
             /\ Once(s) => /\ Once(Tail(s)) /\ Range(Tail(s)) = Range(s) \ {Head(s)}
  <2> DEFINE b == Tail(s)
             n == Len(s)
  <2>1. /\ n \in Nat \ {0} /\ Head(s) = s[1] /\ b \in Seq(S) /\ Len(b) = n - 1
        /\ \A i \in 1 .. n - 1 : b[i] = s[i + 1]
    BY <1>1, <1>2, HeadTailProperties, EmptySeq
  <2> HIDE DEF b
  <2>2. Range(b) = {b[i] : i \in 1 .. n - 1}
    BY <2>1, RangeEquality
  <2> HIDE DEF n
  <2>3. \A i \in 1 .. n : i = 1 \/ (i - 1 \in 1 .. n - 1 /\ b[i - 1] = s[i])
    <3> SUFFICES ASSUME NEW i \in 1 .. n, i # 1
                 PROVE  i - 1 \in 1 .. n - 1 /\ b[i - 1] = s[i]
      OBVIOUS
    <3>1. i - 1 \in 1 .. n - 1 /\ (i - 1) + 1 = i
      BY <2>1
    <3> QED BY <2>1, <3>1
  <2>4. \A i \in 1 .. n - 1 : i + 1 \in 1 .. n /\ i + 1 # 1 /\ b[i] = s[i + 1]
    BY <2>1
  <2>5. 1 \in 1 .. n
    BY <2>1
  <2>6. Range(s) = {s[i] : i \in 1 .. n}
    BY <1>1 DEF n
  <2>7. Range(s) = Range(b) \cup {s[1]}
    BY <2>2, <2>3, <2>4, <2>5, <2>6
  <2>8. ASSUME Once(s) PROVE Once(b) /\ Range(b) = Range(s) \ {s[1]}
    <3>1. \A i, j \in 1 .. n : s[i] = s[j] => i = j
      BY <2>8 DEF Once, n
    <3>2. s[1] \notin Range(b)
      BY <2>2, <2>4, <2>5, <3>1
    <3>3. \A i, j \in 1 .. n - 1 : b[i] = b[j] => i + 1 = j + 1
      BY <2>4, <3>1
    <3>4. \A i, j \in 1 .. n - 1 : i + 1 = j + 1 => i = j
      BY <2>1
    <3>5. Once(b)
      BY <2>1, <3>3, <3>4 DEF Once
    <3> QED BY <2>7, <3>2, <3>5
  <2> QED BY <2>1, <2>5, <2>6, <2>7, <2>8 DEF b
<1> QED BY <1>1, <1>2

\* One more.
LEMMA OnAppend ==
  ASSUME NEW S, NEW s \in Seq(S), NEW x \in S
  PROVE  Range(Append(s, x)) = Range(s) \cup {x}
<1> DEFINE a == Append(s, x)
<1>1. /\ a \in Seq(S) /\ Len(a) = Len(s) + 1 /\ a[Len(s) + 1] = x
      /\ \A i \in 1 .. Len(s) : a[i] = s[i]
  BY AppendProperties
<1> HIDE DEF a
<1>2. Len(s) \in Nat /\ Range(s) = {s[i] : i \in 1 .. Len(s)}
  BY LenProperties, RangeEquality
<1>3. Range(a) = {a[i] : i \in 1 .. Len(a)}
  BY <1>1, RangeEquality
<1>4. \A i \in 1 .. Len(a) : i \in 1 .. Len(s) \/ i = Len(s) + 1
  BY <1>1, <1>2
<1>5. 1 .. Len(s) \subseteq 1 .. Len(a) /\ Len(s) + 1 \in 1 .. Len(a)
  BY <1>1, <1>2
<1>6. Range(a) = Range(s) \cup {x}
  BY <1>1, <1>2, <1>3, <1>4, <1>5
<1> QED BY <1>6 DEF a

\* One less.
LEMMA OnRemove ==
  ASSUME NEW S, NEW s \in Seq(S), NEW i \in 1 .. Len(s)
  PROVE  /\ Range(RemoveAt(s, i)) \subseteq Range(s)
         /\ Once(s) => /\ Once(RemoveAt(s, i))
                       /\ Range(RemoveAt(s, i)) = Range(s) \ {s[i]}
<1> DEFINE n == Len(s)
           c == RemoveAt(s, i)
           a == SubSeq(s, 1, i - 1)
           b == SubSeq(s, i + 1, n)
           at(j) == IF j < i THEN j ELSE j + 1
<1>1. n \in Nat /\ Range(s) = {s[j] : j \in 1 .. n} /\ \A j \in 1 .. n : s[j] \in S
  BY LenProperties, RangeEquality, ElementOfSeq
<1>2. c \in Seq(S) /\ Len(c) = n - 1
  BY Removed
<1>3. Len(a) = i - 1 /\ a \in Seq(S) /\ \A j \in 1 .. i - 1 : a[j] = s[j]
  <2>1. \A j \in 1 .. i - 1 : s[j] \in S
    BY <1>1
  <2>2. i - 1 \in Int /\ 1 \in Int
    BY <1>1
  <2>3. /\ a \in Seq(S) /\ Len(a) = (IF 1 <= i - 1 THEN (i - 1) - 1 + 1 ELSE 0)
        /\ \A j \in 1 .. (i - 1) - 1 + 1 : a[j] = s[1 + j - 1]
    BY <2>1, <2>2, SubSeqProperties
  <2> HIDE DEF a
  <2>4. Len(a) = i - 1
    BY <1>1, <2>3
  <2>5. ASSUME NEW j \in 1 .. i - 1 PROVE a[j] = s[j]
    <3>1. j \in 1 .. (i - 1) - 1 + 1 /\ 1 + j - 1 = j
      BY <1>1
    <3> QED BY <2>3, <3>1
  <2> QED BY <2>3, <2>4, <2>5
<1>4. Len(b) = n - i /\ b \in Seq(S) /\ \A j \in 1 .. n - i : b[j] = s[i + j]
  <2>1. \A j \in i + 1 .. n : s[j] \in S
    BY <1>1
  <2>2. i + 1 \in Int /\ n \in Int
    BY <1>1
  <2> DEFINE m == n
  <2> HIDE DEF m
  <2>3. /\ SubSeq(s, i + 1, m) \in Seq(S)
        /\ Len(SubSeq(s, i + 1, m)) = (IF i + 1 <= m THEN m - (i + 1) + 1 ELSE 0)
        /\ \A j \in 1 .. m - (i + 1) + 1 : SubSeq(s, i + 1, m)[j] = s[i + 1 + j - 1]
    <3>1. (\A j \in i + 1 .. m : s[j] \in S) /\ m \in Int /\ i + 1 \in Int
      BY <2>1, <2>2 DEF m
    <3> QED BY <3>1, SubSeqProperties
  <2>4. b = SubSeq(s, i + 1, m)
    BY DEF m
  <2> HIDE DEF b
  <2>5. m \in Nat /\ i \in 1 .. m /\ m = n
    BY <1>1 DEF m
  <2>6. Len(b) = m - i
    BY <2>3, <2>4, <2>5
  <2>7. ASSUME NEW j \in 1 .. m - i PROVE b[j] = s[i + j]
    <3>1. j \in 1 .. m - (i + 1) + 1 /\ i + 1 + j - 1 = i + j
      BY <2>5
    <3> QED BY <2>3, <2>4, <3>1
  <2> QED BY <2>3, <2>4, <2>5, <2>6, <2>7
<1>5. c = a \o b
  BY DEF RemoveAt
<1> HIDE DEF n, c, a, b
<1>6. i \in 1 .. n
  BY DEF n
<1>7. \A j \in 1 .. n - 1 : c[j] = s[at(j)] /\ at(j) \in 1 .. n /\ at(j) # i
  <2> SUFFICES ASSUME NEW j \in 1 .. n - 1
               PROVE  c[j] = s[at(j)] /\ at(j) \in 1 .. n /\ at(j) # i
    OBVIOUS
  <2>1. CASE j < i
    <3>1. j \in 1 .. Len(a) /\ j \in 1 .. i - 1 /\ j \in 1 .. n /\ j # i
      BY <1>1, <1>3, <1>6, <2>1
    <3>2. c[j] = a[j]
      BY <1>3, <1>4, <1>5, <3>1, ConcatProperties
    <3> QED BY <1>3, <2>1, <3>1, <3>2
  <2>2. CASE ~(j < i)
    <3> DEFINE k == j - (i - 1)
    <3>1. /\ k \in 1 .. Len(b) /\ j = Len(a) + k /\ i + k = j + 1 /\ j + 1 \in 1 .. n
          /\ j + 1 # i /\ k \in 1 .. n - i /\ j \in Len(a) + 1 .. Len(a) + Len(b)
          /\ j - Len(a) = k
      BY <1>1, <1>3, <1>4, <1>6, <2>2
    <3> HIDE DEF k
    <3>2. (a \o b)[j] = b[j - Len(a)]
      <4>1. a \in Seq(S) /\ b \in Seq(S)
        BY <1>3, <1>4
      <4>2. j \in 1 .. Len(a) + Len(b) /\ ~(j <= Len(a))
        BY <1>1, <1>3, <1>4, <1>6, <2>2
      <4> QED BY <4>1, <4>2, ConcatProperties, Zenon
    <3>3. c[j] = s[j + 1]
      BY <1>4, <1>5, <3>1, <3>2
    <3> QED BY <2>2, <3>1, <3>3
  <2> QED BY <2>1, <2>2
<1>8. Range(c) = {c[j] : j \in 1 .. n - 1}
  BY <1>2, RangeEquality
<1>9. Range(c) \subseteq Range(s)
  BY <1>1, <1>7, <1>8
<1>10. ASSUME Once(s) PROVE Once(c) /\ Range(c) = Range(s) \ {s[i]}
  <2>1. \A j, k \in 1 .. n : s[j] = s[k] => j = k
    BY <1>10 DEF Once, n
  <2>2. s[i] \notin Range(c)
    BY <1>6, <1>7, <1>8, <2>1
  <2>3. ASSUME NEW j \in 1 .. n, j # i PROVE s[j] \in Range(c)
    <3>1. CASE j < i
      <4>1. j \in 1 .. n - 1 /\ at(j) = j
        BY <1>1, <1>6, <3>1
      <4> QED BY <1>7, <1>8, <4>1
    <3>2. CASE ~(j < i)
      <4>1. j - 1 \in 1 .. n - 1 /\ at(j - 1) = j
        BY <1>1, <1>6, <2>3, <3>2
      <4> QED BY <1>7, <1>8, <4>1
    <3> QED BY <3>1, <3>2
  <2>4. \A j, k \in 1 .. n - 1 : at(j) = at(k) => j = k
    BY <1>1, <1>6
  <2>5. Once(c)
    BY <1>2, <1>7, <2>1, <2>4 DEF Once
  <2> QED BY <1>1, <1>9, <2>2, <2>3, <2>5
<1> QED BY <1>9, <1>10 DEF c

-----------------------------------------------------------------------------
(* The stages of the operations.                                           *)

\* The stages are numbered 0 to 3.
LEMMA StageNumbers == \A x \in Stages : x \in Int /\ x >= 0 /\ x <= 3
<1>1. Stages \subseteq 0 .. 3
  BY AioStressAssumption DEF WRITE, RREAD
<1> QED BY <1>1

\* A step never takes an operation back to an earlier stage, and one that is through
\* stays so.
Grows ==
  \A o \in Opers : /\ oper'[o].rw \in Int /\ oper'[o].rw >= oper[o].rw
                   /\ ~Restartable(o) => oper'[o].rw = oper[o].rw /\ ~Restartable(o)'

\* Only restart_oper() changes the stage, and errors are not forgotten.
StagesKept ==
  \A o \in Opers : oper'[o].rw = oper[o].rw /\ (oper[o].err => oper'[o].err)

WallKept    == \A o \in Opers : oper'[o].stonewalled = oper[o].stonewalled
StartedKept == \A o \in Opers : oper'[o].started = oper[o].started

\* A stage that is kept is no step back.
LEMMA KeptGrows ==
  ASSUME BookInv, StagesKept
  PROVE  Grows
<1> SUFFICES ASSUME NEW o \in Opers
             PROVE  /\ oper'[o].rw \in Int /\ oper'[o].rw >= oper[o].rw
                    /\ ~Restartable(o) => oper'[o].rw = oper[o].rw /\ ~Restartable(o)'
  BY DEF Grows
<1>1. oper'[o].rw = oper[o].rw /\ (oper[o].err => oper'[o].err)
  BY DEF StagesKept
<1>2. oper[o].rw \in Int
  <2>1. oper[o] \in OperRec
    BY DEF BookInv, Types
  <2>2. oper[o].rw \in Stages
    BY <2>1 DEF OperRec
  <2> QED BY <2>2, StageNumbers
<1>3. LaterStages(o)' = LaterStages(o)
  BY <1>1 DEF LaterStages
<1> QED BY <1>1, <1>2, <1>3 DEF Restartable

\* The steps that change an operation without restarting it.
LEMMA StagesSame ==
  ASSUME BookInv, NEW t \in Threads,
         \/ StonewallHead(t) \/ BuildIocb(t) \/ Submit(t) \/ ReadSomeEvents(t)
         \/ IoOperWait(t)
  PROVE  StagesKept /\ (StonewallHead(t) \/ WallKept) /\ (Submit(t) \/ StartedKept)
<1>1. oper \in [Opers -> OperRec]
  BY DEF BookInv, Types
<1>2. CASE StonewallHead(t)
  <2>1. \A o \in Opers : /\ [oper[o] EXCEPT !.stonewalled = TRUE].rw = oper[o].rw
                         /\ [oper[o] EXCEPT !.stonewalled = TRUE].err = oper[o].err
                         /\ [oper[o] EXCEPT !.stonewalled = TRUE].started = oper[o].started
    BY <1>1 DEF OperRec
  <2> DEFINE p == Head(active[t])
             r == [oper[p] EXCEPT !.stonewalled = TRUE]
  <2>2. oper' = [oper EXCEPT ![p] = r]
    BY <1>2 DEF StonewallHead
  <2>3. \A o \in Opers : o = p => /\ r.rw = oper[o].rw /\ r.err = oper[o].err
                                  /\ r.started = oper[o].started
    BY <2>1
  <2> HIDE DEF r, p
  <2> QED BY <1>1, <1>2, <2>2, <2>3 DEF StagesKept, StartedKept
<1>3. CASE BuildIocb(t)
  <2> DEFINE p == Cur(t)
  <2>1. PICK z : oper' = [oper EXCEPT ![p] = [oper[p] EXCEPT !.offset = z]]
    BY <1>3 DEF BuildIocb
  <2> DEFINE r == [oper[p] EXCEPT !.offset = z]
  <2>2. \A o \in Opers : /\ [oper[o] EXCEPT !.offset = z].rw = oper[o].rw
                         /\ [oper[o] EXCEPT !.offset = z].err = oper[o].err
                         /\ [oper[o] EXCEPT !.offset = z].started = oper[o].started
                         /\ [oper[o] EXCEPT !.offset = z].stonewalled = oper[o].stonewalled
    BY <1>1 DEF OperRec
  <2>3. \A o \in Opers : o = p => /\ r.rw = oper[o].rw /\ r.err = oper[o].err
                                  /\ r.started = oper[o].started
                                  /\ r.stonewalled = oper[o].stonewalled
    BY <2>2
  <2>4. oper' = [oper EXCEPT ![p] = r]
    BY <2>1
  <2> HIDE DEF r, p
  <2> QED BY <1>1, <2>3, <2>4 DEF StagesKept, StartedKept, WallKept
<1>4. CASE Submit(t)
  <2> DEFINE took == SubSeq(iocbs[t], 1, MinOf(Len(iocbs[t]),
                              QueueDepth - Cardinality(inflight[t] \cup done[t])))
             r(o) == [oper[o] EXCEPT !.pending = @ + Cardinality(UnitsFor(took, o)),
                                     !.started = @ + Cardinality(UnitsFor(took, o))]
  <2>1. oper' = [o \in Opers |-> r(o)]
    BY <1>4 DEF Submit
  <2>2. \A o \in Opers : /\ r(o).rw = oper[o].rw /\ r(o).err = oper[o].err
                         /\ r(o).stonewalled = oper[o].stonewalled
    BY <1>1 DEF OperRec
  <2> HIDE DEF r
  <2> QED BY <1>4, <2>1, <2>2 DEF StagesKept, WallKept
<1>5. ASSUME NEW S, FinishIo(t, S) PROVE StagesKept /\ WallKept /\ StartedKept
  <2> DEFINE e(o) == oper[o].err \/ \E u \in S \cap bad : job[u].oper = o /\ Recorded(u)
             r(o) == [oper[o] EXCEPT
                        !.pending = oper[o].pending - Cardinality({u \in S : job[u].oper = o}),
                        !.err = e(o)]
  <2>1. oper' = [o \in Opers |-> r(o)]
    BY <1>5 DEF FinishIo
  <2>2. \A o \in Opers : oper[o].err => e(o)
    OBVIOUS
  <2> HIDE DEF e
  <2>3. \A o \in Opers : /\ r(o).rw = oper[o].rw /\ r(o).err = e(o)
                         /\ r(o).stonewalled = oper[o].stonewalled
                         /\ r(o).started = oper[o].started
    BY <1>1 DEF OperRec
  <2> HIDE DEF r
  <2> QED BY <2>1, <2>2, <2>3 DEF StagesKept, WallKept, StartedKept
<1>6. CASE ReadSomeEvents(t) \/ IoOperWait(t)
  BY <1>5, <1>6 DEF ReadSomeEvents, IoOperWait
<1> QED BY <1>2, <1>3, <1>4, <1>6

\* restart_oper() takes an operation to a later stage.
LEMMA RestartGrows ==
  ASSUME BookInv, NEW t \in Threads, RestartOper(t)
  PROVE  LET o == finished[t][idx[t]] IN
         Grows /\ o \in Own(t) /\ Restartable(o) /\ oper'[o].rw > oper[o].rw
         /\ \A p \in Opers \ {o} : oper'[p] = oper[p]
<1> DEFINE o == finished[t][idx[t]]
           r == [oper[o] EXCEPT !.started = 0, !.offset = StartOf(o), !.stonewalled = FALSE,
                                !.rw = Min(LaterStages(o))]
<1>1. pc[t] = "restart" /\ Restartable(o) /\ oper' = [oper EXCEPT ![o] = r]
  BY DEF RestartOper
<1>2. idx[t] \in 1 .. Len(finished[t])
  BY <1>1 DEF BookInv, Book, Lists
<1>3. o \in Own(t) /\ o \in Opers /\ oper \in [Opers -> OperRec]
  BY <1>2, ListFacts, ElementOfSeq
<1> HIDE DEF o
<1>4. LaterStages(o) \in SUBSET Stages /\ LaterStages(o) # {}
  BY <1>1 DEF LaterStages, Restartable
<1>5. Min(LaterStages(o)) \in LaterStages(o)
  BY <1>4, FirstStage
<1>6. Min(LaterStages(o)) > oper[o].rw
  BY <1>5 DEF LaterStages
<1>7. oper[o] \in OperRec
  BY <1>3
<1>8. r.rw = Min(LaterStages(o))
  BY <1>7 DEF OperRec
<1> HIDE DEF r
<1>9. oper'[o].rw > oper[o].rw /\ \A p \in Opers \ {o} : oper'[p] = oper[p]
  BY <1>1, <1>3, <1>6, <1>8
<1>10. \A p \in Opers : oper[p].rw \in Int
  <2>1. \A p \in Opers : oper[p].rw \in Stages
    BY <1>3 DEF OperRec
  <2> QED BY <2>1, StageNumbers
<1>11. Min(LaterStages(o)) \in Int
  <2>1. Min(LaterStages(o)) \in Stages
    BY <1>4, <1>5
  <2> QED BY <2>1, StageNumbers
<1>12. Grows
  <2> SUFFICES ASSUME NEW p \in Opers
               PROVE  /\ oper'[p].rw \in Int /\ oper'[p].rw >= oper[p].rw
                      /\ ~Restartable(p) => oper'[p].rw = oper[p].rw /\ ~Restartable(p)'
    BY DEF Grows
  <2>1. CASE p = o
    <3>1. oper'[o].rw = Min(LaterStages(o))
      BY <1>1, <1>3, <1>8
    <3> QED BY <1>1, <1>3, <1>6, <1>10, <1>11, <2>1, <3>1
  <2>2. CASE p # o
    <3>1. oper'[p] = oper[p]
      BY <1>9, <2>2
    <3> QED BY <1>10, <3>1 DEF Restartable, LaterStages
  <2> QED BY <2>1, <2>2
<1> QED BY <1>1, <1>3, <1>9, <1>12 DEF o

\* So do the others leave it.
LEMMA EveryStepGrows ==
  ASSUME BookInv, [Next]_vars
  PROVE  Grows
<1>1. ASSUME UNCHANGED oper PROVE Grows
  <2>1. StagesKept
    BY <1>1 DEF StagesKept
  <2> QED BY <2>1, KeptGrows
<1>2. CASE UNCHANGED vars
  BY <1>1, <1>2 DEF vars
<1>3. ASSUME NEW t \in Threads, ThreadStep(t) PROVE Grows
  <2>1. CASE \/ StonewallHead(t) \/ BuildIocb(t) \/ Submit(t) \/ ReadSomeEvents(t)
             \/ IoOperWait(t)
    BY <2>1, StagesSame, KeptGrows
  <2>2. CASE RestartOper(t)
    BY <2>2, RestartGrows
  <2>3. CASE \/ EnterStart(t) \/ WakeStart(t) \/ LoopEnds(t) \/ EnterEnd(t) \/ WakeEnd(t)
             \/ Decide(t)
    BY <1>1, <2>3 DEF EnterStart, WakeStart, LoopEnds, EnterEnd, WakeEnd, Decide
  <2>4. CASE \/ RunActiveList(t) \/ SkipOper(t) \/ BuildOper(t) \/ OperBuilt(t)
             \/ SubmitNothing(t)
    BY <1>1, <2>4 DEF RunActiveList, SkipOper, BuildOper, OperBuilt, SubmitNothing
  <2>5. CASE Requeue(t) \/ WaitDone(t) \/ KeepOper(t) \/ FinishOper(t)
    BY <1>1, <2>5 DEF Requeue, WaitDone, KeepOper, FinishOper
  <2> QED BY <1>3, <2>1, <2>2, <2>3, <2>4, <2>5 DEF ThreadStep, WorkerStep
<1>4. ASSUME NEW t \in Threads, Kernel(t) \/ SubmitFails(t) \/ SpuriousWakeup(t) PROVE Grows
  BY <1>1, <1>4 DEF Kernel, Complete, Fail, SubmitFails, SpuriousWakeup
<1> QED BY <1>2, <1>3, <1>4 DEF Next

\* From the wait for the requests of a stage to the way back.
Closing == {"wait", "restart", "end", "endwait", "decide"}

\* A thread has been round once for each stage of its operations at most: an active
\* operation is in the stage of this round or a later one, and one that goes into the
\* next round in a later one; what stays on the finished list is through.
Ahead(t) ==
  /\ iteration[t] \in 0 .. 3
  /\ pc[t] \in Closing /\ TurnsLeft(t) =>
       \A o \in Range(active[t]) : oper[o].rw > iteration[t]
  /\ pc[t] \notin Closing \cup {"free", "exit"} =>
       \A o \in Range(active[t]) : oper[o].rw >= iteration[t]
  /\ \A o \in Range(built[t]) : oper[o].rw >= iteration[t]
  /\ \A o \in Range(finished[t]) : oper[o].rw >= iteration[t] \/ ~Restartable(o)
  /\ pc[t] = "restart" => \A i \in 1 .. idx[t] - 1 : ~Restartable(finished[t][i])
  /\ pc[t] \in {"end", "endwait", "decide"} =>
       \A o \in Range(finished[t]) : ~Restartable(o)

AheadInv ==
  /\ iteration \in [Threads -> 0 .. 3] /\ cnt \in [Threads -> Int]
  /\ \A t \in Threads : Ahead(t)

\* What the clauses are about are numbers and operations of the thread.
LEMMA AheadFacts ==
  ASSUME BookInv, NEW t \in Threads, Ahead(t)
  PROVE  /\ Range(active[t]) \subseteq Own(t) /\ Range(finished[t]) \subseteq Own(t)
         /\ Range(built[t]) \subseteq Own(t) /\ Own(t) \subseteq Opers
         /\ iteration[t] \in Int
         /\ \A o \in Opers : oper[o].rw \in Int /\ oper[o].rw <= 3
<1>1. /\ Range(active[t]) \subseteq Own(t) /\ Range(finished[t]) \subseteq Own(t)
      /\ Range(built[t]) \subseteq Own(t) /\ Own(t) \subseteq Opers
  BY ListFacts, OnList
<1>2. iteration[t] \in Int
  BY DEF Ahead
<1>3. \A o \in Opers : oper[o].rw \in Stages
  BY DEF BookInv, Types, OperRec
<1> QED BY <1>1, <1>2, <1>3, StageNumbers

\* A step of another thread.
LEMMA AheadOther ==
  ASSUME BookInv, NEW q \in Threads, Ahead(q),
         pc'[q] = pc[q], active'[q] = active[q], finished'[q] = finished[q],
         built'[q] = built[q], idx'[q] = idx[q], iteration'[q] = iteration[q],
         cnt'[q] = cnt[q], UNCHANGED iterations,
         \A o \in Own(q) : oper'[o] = oper[o]
  PROVE  Ahead(q)'
<1>1. /\ Range(active[q]) \subseteq Own(q) /\ Range(finished[q]) \subseteq Own(q)
      /\ Range(built[q]) \subseteq Own(q)
  BY AheadFacts
<1>2. TurnsLeft(q)' <=> TurnsLeft(q)
  BY DEF TurnsLeft
<1>3. \A o \in Own(q) : Restartable(o)' <=> Restartable(o)
  BY DEF Restartable, LaterStages
<1>4. pc[q] = "restart" => \A i \in 1 .. idx[q] - 1 : finished[q][i] \in Own(q)
  <2> SUFFICES ASSUME pc[q] = "restart", NEW i \in 1 .. idx[q] - 1
               PROVE  finished[q][i] \in Own(q)
    OBVIOUS
  <2>1. idx[q] \in 1 .. Len(finished[q]) /\ Len(finished[q]) \in Nat
    BY ListLengths DEF BookInv, Book, Lists
  <2>2. i \in 1 .. Len(finished[q])
    BY <2>1
  <2> QED BY <2>2, ListFacts, ElementOfSeq
<1> QED BY <1>1, <1>2, <1>3, <1>4 DEF Ahead

\* A step that leaves the lists alone.
LEMMA AheadGo ==
  ASSUME BookInv, NEW t \in Threads, Ahead(t), Grows,
         active'[t] = active[t], finished'[t] = finished[t], built'[t] = built[t],
         iteration'[t] = iteration[t],
         pc'[t] \in Closing /\ TurnsLeft(t)' =>
           (pc[t] \in Closing /\ TurnsLeft(t)) \/ active[t] = <<>>,
         pc'[t] \notin Closing \cup {"free", "exit"} =>
           pc[t] \notin Closing \cup {"free", "exit"},
         pc'[t] = "restart" => \A i \in 1 .. idx'[t] - 1 : ~Restartable(finished[t][i])'
                               \/ (pc[t] = "restart" /\ i \in 1 .. idx[t] - 1),
         pc'[t] = "restart" => \A i \in 1 .. idx'[t] - 1 : finished[t][i] \in Opers,
         pc'[t] \in {"end", "endwait", "decide"} =>
           \A o \in Range(finished[t]) : ~Restartable(o)
  PROVE  Ahead(t)'
<1>1. /\ Range(active[t]) \subseteq Own(t) /\ Range(finished[t]) \subseteq Own(t)
      /\ Range(built[t]) \subseteq Own(t) /\ Own(t) \subseteq Opers
      /\ iteration[t] \in Int /\ \A o \in Opers : oper[o].rw \in Int
  BY AheadFacts
<1>2. \A o \in Opers : oper'[o].rw >= oper[o].rw /\ (~Restartable(o) => ~Restartable(o)')
  BY DEF Grows
<1>3. \A o \in Opers : /\ oper[o].rw >= iteration[t] => oper'[o].rw >= iteration[t]
                       /\ oper[o].rw > iteration[t] => oper'[o].rw > iteration[t]
  <2>1. \A o \in Opers : oper'[o].rw \in Int
    BY DEF Grows
  <2> QED BY <1>1, <1>2, <2>1
<1>4. active[t] = <<>> => Range(active[t]) = {}
  BY DEF Range
<1> QED BY <1>1, <1>2, <1>3, <1>4 DEF Ahead

\* The labels of a round before the wait.
Working == {"start", "startwait", "loop", "scan", "build", "submit", "eagain", "requeue"}

\* A step within the round that moves operations between the lists.
LEMMA AheadMove ==
  ASSUME BookInv, NEW t \in Threads, Ahead(t), Grows,
         pc[t] \in Working, pc'[t] \in Working, iteration'[t] = iteration[t],
         Range(active'[t]) \subseteq Range(active[t]) \cup Range(built[t]),
         Range(built'[t]) \subseteq Range(active[t]) \cup Range(built[t]),
         Range(finished'[t]) \subseteq Range(active[t]) \cup Range(built[t]) \cup Range(finished[t])
  PROVE  Ahead(t)'
<1>1. /\ Range(active[t]) \subseteq Own(t) /\ Range(finished[t]) \subseteq Own(t)
      /\ Range(built[t]) \subseteq Own(t) /\ Own(t) \subseteq Opers
      /\ iteration[t] \in Int /\ \A o \in Opers : oper[o].rw \in Int
  BY AheadFacts
<1>2. \A o \in Opers : /\ oper'[o].rw >= oper[o].rw /\ oper'[o].rw \in Int
                       /\ (~Restartable(o) => ~Restartable(o)')
  BY DEF Grows
<1>3. \A o \in Opers : oper[o].rw >= iteration[t] => oper'[o].rw >= iteration[t]
  BY <1>1, <1>2
<1>4. \A o \in Range(active[t]) \cup Range(built[t]) : oper[o].rw >= iteration[t]
  BY DEF Ahead, Working, Closing
<1>5. \A o \in Range(active'[t]) \cup Range(built'[t]) : oper'[o].rw >= iteration[t]
  BY <1>1, <1>3, <1>4
<1>6. \A o \in Range(finished'[t]) : oper'[o].rw >= iteration[t] \/ ~Restartable(o)'
  BY <1>1, <1>2, <1>3, <1>4 DEF Ahead
<1>7. iteration[t] \in 0 .. 3
  BY DEF Ahead
<1> QED BY <1>5, <1>6, <1>7 DEF Ahead, Working, Closing

\* The steps of a round.
LEMMA AheadWork ==
  ASSUME BookInv, NEW t \in Threads, Ahead(t), Grows,
         \/ EnterStart(t) \/ WakeStart(t) \/ RunActiveList(t) \/ SkipOper(t) \/ BuildOper(t)
         \/ BuildIocb(t) \/ ReadSomeEvents(t) \/ Submit(t)
  PROVE  Ahead(t)'
<1>1. UNCHANGED <<active, finished, built, iteration>>
  BY DEF EnterStart, WakeStart, RunActiveList, SkipOper, BuildOper, BuildIocb, ReadSomeEvents,
         Submit, listVars, barrierVars
<1>2. pc[t] \in Working
  BY DEF EnterStart, WakeStart, RunActiveList, SkipOper, BuildOper, BuildIocb, ReadSomeEvents,
         Submit, Working
<1>3. pc \in [Threads -> Labels]
  BY ListFacts
<1>4. CASE EnterStart(t) \/ WakeStart(t)
  <2>1. pc'[t] \in Working
    BY <1>2, <1>3, <1>4 DEF EnterStart, WakeStart, BeginStage, Goto, Working
  <2> QED BY <1>1, <1>2, <2>1, AheadMove
<1>5. CASE RunActiveList(t) \/ SkipOper(t) \/ BuildOper(t)
  <2>1. pc'[t] \in Working
    BY <1>2, <1>3, <1>5 DEF RunActiveList, SkipOper, BuildOper, Goto, Working
  <2> QED BY <1>1, <1>2, <2>1, AheadMove
<1>6. CASE BuildIocb(t) \/ ReadSomeEvents(t)
  <2>1. pc'[t] \in Working
    BY <1>2, <1>3, <1>6 DEF BuildIocb, ReadSomeEvents, Goto, Working
  <2> QED BY <1>1, <1>2, <2>1, AheadMove
<1>7. CASE Submit(t)
  <2>1. \E l \in {"requeue", "eagain"} : pc' = [pc EXCEPT ![t] = l]
    BY <1>7 DEF Submit, Goto
  <2>2. pc'[t] \in Working
    BY <1>3, <2>1 DEF Working
  <2> QED BY <1>1, <1>2, <2>2, AheadMove
<1> QED BY <1>4, <1>5, <1>6, <1>7

\* The steps that move an operation from one list to another in a round.
LEMMA AheadLists ==
  ASSUME BookInv, NEW t \in Threads, Ahead(t), Grows,
         StonewallHead(t) \/ OperBuilt(t) \/ SubmitNothing(t) \/ Requeue(t)
  PROVE  Ahead(t)'
<1>0. /\ pc \in [Threads -> Labels] /\ active[t] \in Seq(Own(t)) /\ finished[t] \in Seq(Own(t))
      /\ built[t] \in Seq(Own(t))
  BY ListFacts
<1>1. /\ active \in [Threads -> Seq(Opers)] /\ finished \in [Threads -> Seq(Opers)]
      /\ built \in [Threads -> Seq(Opers)]
  BY DEF BookInv, Types
<1>2. CASE StonewallHead(t)
  <2> DEFINE o == Head(active[t])
             a == Tail(active[t])
             f == Append(finished[t], o)
  <2>1. /\ pc[t] = "loop" /\ active[t] # <<>> /\ UNCHANGED <<pc, built, iteration>>
        /\ finished' = [finished EXCEPT ![t] = f] /\ active' = [active EXCEPT ![t] = a]
    BY <1>2 DEF StonewallHead, barrierVars
  <2>2. o \in Own(t) /\ o \in Range(active[t]) /\ Range(a) \subseteq Range(active[t])
    BY <1>0, <2>1, OnList
  <2>3. Range(f) = Range(finished[t]) \cup {o}
    BY <1>0, <2>2, OnAppend
  <2> HIDE DEF o, a, f
  <2>4. active'[t] = a /\ finished'[t] = f /\ built'[t] = built[t] /\ pc'[t] = "loop"
    BY <1>1, <2>1
  <2> QED BY <2>1, <2>2, <2>3, <2>4, AheadMove DEF Working
<1>3. CASE OperBuilt(t)
  <2> DEFINE o == Cur(t)
             a == RemoveAt(active[t], idx[t])
             b == Append(built[t], o)
  <2>1. /\ pc[t] = "build" /\ UNCHANGED <<finished, iteration>>
        /\ active' = [active EXCEPT ![t] = a] /\ built' = [built EXCEPT ![t] = b]
    BY <1>3 DEF OperBuilt, barrierVars
  <2>2. idx[t] \in 1 .. Len(active[t])
    BY <2>1 DEF BookInv, Book, Lists
  <2>3. Range(a) \subseteq Range(active[t])
    BY <1>0, <2>2, OnRemove
  <2>4. o \in Own(t) /\ o \in Range(active[t])
    BY <1>0, <2>2, OnList DEF Cur
  <2> HIDE DEF o
  <2>5. Range(b) = Range(built[t]) \cup {o}
    BY <1>0, <2>4, OnAppend
  <2> HIDE DEF a, b
  <2>6. active'[t] = a /\ built'[t] = b /\ finished'[t] = finished[t]
    BY <1>1, <2>1
  <2>7. \E l \in {"submit", "scan"} : pc' = [pc EXCEPT ![t] = l]
    BY <1>3 DEF OperBuilt, Goto
  <2>8. pc'[t] \in Working
    BY <1>0, <2>7 DEF Working
  <2> QED BY <2>1, <2>3, <2>4, <2>5, <2>6, <2>8, AheadMove DEF Working
<1>4. CASE SubmitNothing(t)
  <2>1. /\ pc[t] = "submit" /\ UNCHANGED <<active, finished, iteration>>
        /\ built' = [built EXCEPT ![t] = <<>>] /\ pc' = [pc EXCEPT ![t] = "loop"]
    BY <1>4 DEF SubmitNothing, barrierVars, Goto
  <2>2. built'[t] = <<>> /\ pc'[t] = "loop"
    BY <1>0, <1>1, <2>1
  <2>3. Range(<<>>) = {}
    BY DEF Range
  <2> QED BY <2>1, <2>2, <2>3, AheadMove DEF Working
<1>5. CASE Requeue(t)
  <2> DEFINE o == Head(built[t])
             b == Tail(built[t])
             a == Append(active[t], o)
             f == Append(finished[t], o)
  <2>1. pc[t] = "requeue" /\ UNCHANGED iteration
    BY <1>5 DEF Requeue, barrierVars
  <2>2. CASE built[t] = <<>>
    <3>1. pc' = [pc EXCEPT ![t] = "loop"] /\ UNCHANGED <<active, finished, built>>
      BY <1>5, <2>2 DEF Requeue, Goto, listVars
    <3>2. pc'[t] = "loop"
      BY <1>0, <3>1
    <3> QED BY <2>1, <3>1, <3>2, AheadMove DEF Working
  <2>3. CASE built[t] # <<>>
    <3>1. pc' = pc /\ built' = [built EXCEPT ![t] = b]
      BY <1>5, <2>3 DEF Requeue
    <3>2. \/ finished' = [finished EXCEPT ![t] = f] /\ active' = active
          \/ active' = [active EXCEPT ![t] = a] /\ finished' = finished
      BY <1>5, <2>3 DEF Requeue
    <3>3. o \in Own(t) /\ o \in Range(built[t]) /\ Range(b) \subseteq Range(built[t])
      BY <1>0, <2>3, OnList
    <3>4. Range(a) = Range(active[t]) \cup {o} /\ Range(f) = Range(finished[t]) \cup {o}
      BY <1>0, <3>3, OnAppend
    <3> HIDE DEF o, a, b, f
    <3>5. /\ pc'[t] = "requeue" /\ built'[t] = b /\ active'[t] \in {active[t], a}
          /\ finished'[t] \in {finished[t], f}
      BY <1>1, <2>1, <3>1, <3>2
    <3>6. /\ Range(active'[t]) \subseteq Range(active[t]) \cup {o}
          /\ Range(finished'[t]) \subseteq Range(finished[t]) \cup {o}
      BY <3>4, <3>5
    <3> QED BY <2>1, <3>3, <3>5, <3>6, AheadMove DEF Working
  <2> QED BY <2>2, <2>3
<1> QED BY <1>2, <1>3, <1>4, <1>5

\* The steps from the wait to the way out.
LEMMA AheadClose ==
  ASSUME BookInv, NEW t \in Threads, Ahead(t), Grows, UNCHANGED iterations,
         iteration \in [Threads -> 0 .. 3],
         \/ LoopEnds(t) \/ IoOperWait(t) \/ WaitDone(t) \/ KeepOper(t) \/ EnterEnd(t)
         \/ WakeEnd(t) \/ Decide(t)
  PROVE  Ahead(t)'
<1>0. /\ pc \in [Threads -> Labels] /\ idx \in [Threads -> Nat]
      /\ finished[t] \in Seq(Own(t)) /\ Own(t) \subseteq Opers
  BY ListFacts DEF BookInv, Types
<1>1. UNCHANGED <<active, finished, built, cnt>>
  BY DEF LoopEnds, IoOperWait, WaitDone, KeepOper, EnterEnd, WakeEnd, Decide, listVars
<1>2. TurnsLeft(t)' <=> TurnsLeft(t)
  BY <1>1 DEF TurnsLeft
<1>3. CASE LoopEnds(t)
  <2>1. pc' = [pc EXCEPT ![t] = "wait"] /\ (active[t] = <<>> \/ ~TurnsLeft(t))
        /\ UNCHANGED iteration
    BY <1>3 DEF LoopEnds, Goto, barrierVars
  <2>2. pc'[t] = "wait"
    BY <1>0, <2>1
  <2> QED BY <1>1, <1>2, <2>1, <2>2, AheadGo DEF Closing
<1>4. CASE IoOperWait(t)
  <2>1. pc[t] \in {"wait", "free"} /\ UNCHANGED <<pc, iteration>>
    BY <1>4 DEF IoOperWait, barrierVars
  <2> QED BY <1>1, <1>2, <2>1, AheadGo DEF Closing
<1>5. CASE WaitDone(t)
  <2>1. /\ pc[t] = "wait" /\ UNCHANGED iteration /\ idx' = [idx EXCEPT ![t] = 1]
        /\ pc' = [pc EXCEPT ![t] = IF finished[t] = <<>> THEN "end" ELSE "restart"]
    BY <1>5 DEF WaitDone, Goto, barrierVars
  <2>2. idx'[t] = 1 /\ pc'[t] \in {"end", "restart"} /\ (pc'[t] = "end" => finished[t] = <<>>)
    BY <1>0, <2>1
  <2>3. \A i \in 1 .. idx'[t] - 1 : FALSE
    BY <2>2
  <2>4. pc'[t] = "end" => Range(finished[t]) = {}
    BY <2>2 DEF Range
  <2> QED BY <1>1, <1>2, <2>1, <2>2, <2>3, <2>4, AheadGo DEF Closing
<1>6. CASE KeepOper(t)
  <2> DEFINE o == finished[t][idx[t]]
             n == Len(finished[t])
  <2>1. /\ pc[t] = "restart" /\ ~Restartable(o) /\ UNCHANGED iteration
        /\ IF idx[t] = n THEN pc' = [pc EXCEPT ![t] = "end"] /\ idx' = idx
                         ELSE idx' = [idx EXCEPT ![t] = idx[t] + 1] /\ pc' = pc
    BY <1>6 DEF KeepOper, Goto, barrierVars
  <2>2. idx[t] \in 1 .. n /\ n \in Nat
    BY <2>1, ListLengths DEF BookInv, Book, Lists
  <2>3. /\ \A i \in 1 .. n : finished[t][i] \in Opers
        /\ Range(finished[t]) = {finished[t][i] : i \in 1 .. n}
    BY <1>0, ElementOfSeq, RangeEquality
  <2>4. \A i \in 1 .. idx[t] - 1 : ~Restartable(finished[t][i])
    BY <2>1 DEF Ahead
  <2>5. \A i \in 1 .. idx[t] : ~Restartable(finished[t][i])
    <3>1. \A i \in 1 .. idx[t] : i \in 1 .. idx[t] - 1 \/ i = idx[t]
      BY <2>2
    <3> QED BY <2>1, <2>4, <3>1
  <2> HIDE DEF o, n
  <2>6. CASE idx[t] = n
    <3>1. pc'[t] = "end"
      BY <1>0, <2>1, <2>6
    <3>2. \A p \in Range(finished[t]) : ~Restartable(p)
      BY <2>3, <2>5, <2>6
    <3> QED BY <1>1, <1>2, <2>1, <3>1, <3>2, AheadGo DEF Closing
  <2>7. CASE idx[t] # n
    <3>1. idx'[t] = idx[t] + 1 /\ pc'[t] = "restart"
      BY <1>0, <2>1, <2>7
    <3>2. \A i \in 1 .. idx'[t] - 1 : i \in 1 .. idx[t] /\ i \in 1 .. n
      BY <2>2, <3>1
    <3>3. \A i \in 1 .. idx'[t] - 1 : ~Restartable(finished[t][i])' /\ finished[t][i] \in Opers
      <4> SUFFICES ASSUME NEW i \in 1 .. idx'[t] - 1
                   PROVE  ~Restartable(finished[t][i])' /\ finished[t][i] \in Opers
        OBVIOUS
      <4> DEFINE p == finished[t][i]
      <4>1. p \in Opers /\ ~Restartable(p)
        BY <2>3, <2>5, <3>2
      <4>2. UNCHANGED oper
        BY <1>6 DEF KeepOper
      <4>3. ~Restartable(p)'
        BY <1>1, <4>1, <4>2 DEF Restartable, LaterStages
      <4> QED BY <4>1, <4>3
    <3> QED BY <1>1, <1>2, <2>1, <3>1, <3>3, AheadGo DEF Closing
  <2> QED BY <2>6, <2>7
<1>7. CASE EnterEnd(t) \/ WakeEnd(t)
  <2>1. pc[t] \in {"end", "endwait"} /\ UNCHANGED iteration
    BY <1>7 DEF EnterEnd, WakeEnd, barrierVars
  <2>2. pc'[t] \in {"endwait", "decide"}
    BY <1>0, <1>7 DEF EnterEnd, WakeEnd, Goto
  <2>3. \A o \in Range(finished[t]) : ~Restartable(o)
    BY <2>1 DEF Ahead
  <2> QED BY <1>1, <1>2, <2>1, <2>2, <2>3, AheadGo DEF Closing
<1>8. CASE Decide(t)
  <2>1. pc[t] = "decide"
    BY <1>8 DEF Decide
  <2>2. CASE ~(active[t] # <<>> /\ TurnsLeft(t))
    <3>1. pc' = [pc EXCEPT ![t] = "free"] /\ UNCHANGED iteration
      BY <1>8, <2>2 DEF Decide, Goto
    <3>2. pc'[t] = "free"
      BY <1>0, <3>1
    <3> QED BY <1>1, <1>2, <2>1, <3>1, <3>2, AheadGo DEF Closing
  <2>3. CASE active[t] # <<>> /\ TurnsLeft(t)
    <3>1. /\ pc' = [pc EXCEPT ![t] = "start"] /\ UNCHANGED oper
          /\ iteration' = [iteration EXCEPT ![t] = iteration[t] + 1]
      BY <1>8, <2>3 DEF Decide, Goto
    <3>2. \A p \in Range(active[t]) : oper[p].rw > iteration[t]
      BY <2>1, <2>3 DEF Ahead, Closing
    <3>3. \A p \in Range(finished[t]) : ~Restartable(p)
      BY <2>1 DEF Ahead
    <3>4. built[t] = <<>>
      BY <2>1 DEF BookInv, Book, Lists, Sending
    <3>5. /\ Range(active[t]) \subseteq Opers /\ Range(finished[t]) \subseteq Opers
          /\ \A p \in Opers : oper[p].rw \in Int /\ oper[p].rw <= 3
          /\ iteration[t] \in 0 .. 3
      BY AheadFacts DEF Ahead
    <3>6. iteration[t] < 3
      <4>1. active[t] \in Seq(Own(t)) /\ Head(active[t]) \in Range(active[t])
        BY <2>3, ListFacts, OnList
      <4> DEFINE x == oper[Head(active[t])].rw
      <4>2. x \in Int /\ x <= 3 /\ x > iteration[t]
        BY <3>2, <3>5, <4>1
      <4> HIDE DEF x
      <4> QED BY <3>5, <4>2
    <3>7. iteration[t] + 1 \in 0 .. 3 /\ \A p \in Range(active[t]) : oper[p].rw >= iteration[t] + 1
      BY <3>2, <3>5, <3>6
    <3>8. iteration'[t] = iteration[t] + 1 /\ pc'[t] = "start"
      BY <1>0, <3>1
    <3>9. Range(<<>>) = {}
      BY DEF Range
    <3>10. \A p \in Opers : Restartable(p)' <=> Restartable(p)
      BY <3>1 DEF Restartable, LaterStages
    <3> QED BY <1>1, <3>1, <3>3, <3>4, <3>5, <3>7, <3>8, <3>9, <3>10 DEF Ahead, Closing
  <2> QED BY <2>2, <2>3
<1> QED BY <1>3, <1>4, <1>5, <1>6, <1>7, <1>8

\* restart_oper(): the operation goes back to the active list, in a later stage.
LEMMA AheadRestart ==
  ASSUME BookInv, NEW t \in Threads, Ahead(t), RestartOper(t), UNCHANGED iterations
  PROVE  Ahead(t)'
<1> DEFINE o == finished[t][idx[t]]
           f == RemoveAt(finished[t], idx[t])
           a == Append(active[t], o)
           n == Len(finished[t])
<1>1. /\ pc[t] = "restart" /\ UNCHANGED <<built, cnt, iteration>>
      /\ finished' = [finished EXCEPT ![t] = f] /\ active' = [active EXCEPT ![t] = a]
      /\ idx' = [idx EXCEPT ![t] = 1]
      /\ pc' = [pc EXCEPT ![t] = IF n = 1 THEN "end" ELSE "restart"]
  BY DEF RestartOper, barrierVars, Goto
<1>2. /\ pc \in [Threads -> Labels] /\ idx \in [Threads -> Nat]
      /\ active \in [Threads -> Seq(Opers)] /\ finished \in [Threads -> Seq(Opers)]
      /\ active[t] \in Seq(Own(t)) /\ finished[t] \in Seq(Own(t))
  BY ListFacts DEF BookInv, Types
<1>3. idx[t] \in 1 .. n /\ built[t] = <<>>
  BY <1>1 DEF BookInv, Book, Lists, Sending
<1>4. Range(f) \subseteq Range(finished[t]) /\ (n = 1 => Range(f) = {})
  <2>1. f \in Seq(Own(t)) /\ Len(f) = n - 1 /\ Range(f) \subseteq Range(finished[t])
    BY <1>2, <1>3, OnRemove, Removed
  <2>2. n = 1 => f = <<>>
    BY <2>1, EmptySeq
  <2>3. Range(<<>>) = {}
    BY DEF Range
  <2> QED BY <2>1, <2>2, <2>3
<1>5. o \in Own(t) /\ o \in Range(finished[t])
  BY <1>2, <1>3, OnList
<1>6. Grows /\ Restartable(o) /\ oper'[o].rw > oper[o].rw
  BY RestartGrows
<1> HIDE DEF o
<1>7. Range(a) = Range(active[t]) \cup {o}
  BY <1>2, <1>5, OnAppend
<1> HIDE DEF a, f, n
<1>8. /\ active'[t] = a /\ finished'[t] = f /\ built'[t] = <<>> /\ idx'[t] = 1
      /\ pc'[t] \in {"end", "restart"} /\ (pc'[t] = "end" => n = 1)
      /\ iteration'[t] = iteration[t]
  BY <1>1, <1>2, <1>3
<1>9. /\ Range(active[t]) \subseteq Opers /\ Range(finished[t]) \subseteq Opers
      /\ \A p \in Opers : oper[p].rw \in Int
      /\ iteration[t] \in 0 .. 3
  BY AheadFacts DEF Ahead
<1>10. \A p \in Opers : /\ oper'[p].rw \in Int /\ oper'[p].rw >= oper[p].rw
                        /\ ~Restartable(p) => ~Restartable(p)'
  BY <1>6 DEF Grows
<1>11. \A p \in Range(finished'[t]) : oper'[p].rw >= iteration[t] \/ ~Restartable(p)'
  <2>1. \A p \in Range(finished[t]) : oper[p].rw >= iteration[t] \/ ~Restartable(p)
    BY DEF Ahead
  <2> QED BY <1>4, <1>8, <1>9, <1>10, <2>1
<1>12. oper'[o].rw > iteration[t]
  <2>1. oper[o].rw >= iteration[t]
    BY <1>5, <1>6 DEF Ahead
  <2> QED BY <1>5, <1>6, <1>9, <1>10, <2>1
<1>13. TurnsLeft(t)' => \A p \in Range(active'[t]) : oper'[p].rw > iteration[t]
  <2> SUFFICES ASSUME TurnsLeft(t)', NEW p \in Range(active'[t])
               PROVE  oper'[p].rw > iteration[t]
    OBVIOUS
  <2>1. TurnsLeft(t)
    BY <1>1 DEF TurnsLeft
  <2>2. p \in Range(active[t]) => oper[p].rw > iteration[t]
    BY <1>1, <2>1 DEF Ahead, Closing
  <2> QED BY <1>7, <1>8, <1>9, <1>10, <1>12, <2>2
<1>14. \A i \in 1 .. idx'[t] - 1 : FALSE
  BY <1>8
<1>15. pc'[t] = "end" => Range(finished'[t]) = {}
  BY <1>4, <1>8
<1>16. Range(built'[t]) = {}
  BY <1>8 DEF Range
<1> QED BY <1>8, <1>9, <1>11, <1>13, <1>14, <1>15, <1>16 DEF Ahead, Closing

\* finish_oper().
LEMMA AheadFinish ==
  ASSUME BookInv, NEW t \in Threads, Ahead(t), FinishOper(t)
  PROVE  Ahead(t)'
<1>1. /\ pc[t] = "free" /\ UNCHANGED <<oper, active, built, iteration>>
  BY DEF FinishOper, barrierVars
<1>2. pc'[t] \in {"free", "exit"} /\ pc \in [Threads -> Labels]
  BY <1>1, ListFacts DEF FinishOper, Goto
<1>3. Range(finished'[t]) \subseteq Range(finished[t])
  <2>1. finished \in [Threads -> Seq(Opers)] /\ finished[t] \in Seq(Own(t))
    BY ListFacts DEF BookInv, Types
  <2>2. finished'[t] = finished[t] \/ (finished[t] # <<>> /\ finished'[t] = Tail(finished[t]))
    BY <2>1 DEF FinishOper
  <2>3. finished[t] # <<>> => Range(Tail(finished[t])) \subseteq Range(finished[t])
    BY <2>1, OnList
  <2> QED BY <2>2, <2>3
<1>4. \A o \in Opers : Restartable(o)' <=> Restartable(o)
  BY <1>1 DEF Restartable, LaterStages
<1>5. Range(finished[t]) \subseteq Opers
  BY AheadFacts
<1> QED BY <1>1, <1>2, <1>3, <1>4, <1>5 DEF Ahead, Closing

\* The kernel, the failing io_submit and the spurious wake-up.
LEMMA AheadRest ==
  ASSUME BookInv, NEW t \in Threads, Ahead(t), UNCHANGED iterations,
         (\E u \in inflight[t] : Complete(t, u) \/ Fail(t, u)) \/ SubmitFails(t)
           \/ SpuriousWakeup(t)
  PROVE  Ahead(t)'
<1>1. UNCHANGED <<pc, cnt, oper, iteration, active, finished, built, idx>>
  BY DEF Complete, Fail, SubmitFails, SpuriousWakeup, listVars, walkVars, barrierVars
<1> QED BY <1>1, AheadOther

\* A thread leaves the rounds of the others alone.
LEMMA OwnRound ==
  ASSUME BookInv, iteration \in [Threads -> 0 .. 3], NEW t \in Threads,
         cnt \in [Threads -> Int],
         ThreadStep(t) \/ Kernel(t) \/ SubmitFails(t) \/ SpuriousWakeup(t)
  PROVE  /\ cnt' \in [Threads -> Int]
         /\ \A q \in Threads \ {t} : iteration'[q] = iteration[q] /\ cnt'[q] = cnt[q]
         /\ UNCHANGED iteration \/ iteration' = [iteration EXCEPT ![t] = iteration[t] + 1]
<1>1. CASE Kernel(t) \/ SubmitFails(t) \/ SpuriousWakeup(t)
  BY <1>1 DEF Kernel, Complete, Fail, SubmitFails, SpuriousWakeup, barrierVars
<1>2. CASE ThreadStep(t)
  <2>1. CASE EnterStart(t) \/ WakeStart(t)
    BY <2>1 DEF EnterStart, WakeStart, BeginStage, barrierVars
  <2>2. CASE StonewallHead(t) \/ RunActiveList(t)
    BY <2>2 DEF StonewallHead, RunActiveList, NextTurn, barrierVars
  <2>3. CASE LoopEnds(t) \/ EnterEnd(t) \/ WakeEnd(t) \/ Decide(t)
    BY <2>3 DEF LoopEnds, EnterEnd, WakeEnd, Decide, barrierVars
  <2>4. CASE SkipOper(t) \/ BuildOper(t) \/ OperBuilt(t) \/ SubmitNothing(t) \/ Requeue(t)
    BY <2>4 DEF SkipOper, BuildOper, OperBuilt, SubmitNothing, Requeue, barrierVars
  <2>5. CASE WaitDone(t) \/ KeepOper(t) \/ RestartOper(t) \/ FinishOper(t)
    BY <2>5 DEF WaitDone, KeepOper, RestartOper, FinishOper, barrierVars
  <2>6. CASE BuildIocb(t) \/ ReadSomeEvents(t) \/ Submit(t) \/ IoOperWait(t)
    BY <2>6 DEF BuildIocb, ReadSomeEvents, Submit, IoOperWait, barrierVars
  <2> QED BY <1>2, <2>1, <2>2, <2>3, <2>4, <2>5, <2>6 DEF ThreadStep, WorkerStep
<1> QED BY <1>1, <1>2

\* Every step keeps the rounds in step with the stages.
LEMMA AheadStep ==
  ASSUME BookInv, AheadInv, [Next]_vars
  PROVE  AheadInv'
<1>1. CASE UNCHANGED vars
  <2>1. UNCHANGED <<pc, cnt, oper, iteration, active, finished, built, idx, iterations>>
    BY <1>1 DEF vars, optVars, barrierVars, listVars, walkVars
  <2> QED BY <2>1, AheadOther DEF AheadInv
<1>2. ASSUME NEW t \in Threads, UNCHANGED iterations,
             ThreadStep(t) \/ Kernel(t) \/ SubmitFails(t) \/ SpuriousWakeup(t)
      PROVE  AheadInv'
  <2>1. /\ iteration \in [Threads -> 0 .. 3] /\ cnt \in [Threads -> Int]
        /\ \A q \in Threads : Ahead(q)
    BY DEF AheadInv
  <2>2. /\ cnt' \in [Threads -> Int]
        /\ \A q \in Threads \ {t} : iteration'[q] = iteration[q] /\ cnt'[q] = cnt[q]
        /\ UNCHANGED iteration \/ iteration' = [iteration EXCEPT ![t] = iteration[t] + 1]
    BY <1>2, <2>1, OwnRound
  <2>3. Grows
    BY EveryStepGrows
  <2>4. Keeps(t)
    BY <1>2, OwnSteps
  <2>5. Ahead(t)'
    <3>1. CASE ThreadStep(t)
      <4>1. CASE \/ EnterStart(t) \/ WakeStart(t) \/ RunActiveList(t) \/ SkipOper(t) \/ BuildOper(t)
                 \/ BuildIocb(t) \/ ReadSomeEvents(t) \/ Submit(t)
        BY <2>1, <2>3, <4>1, AheadWork
      <4>2. CASE StonewallHead(t) \/ OperBuilt(t) \/ SubmitNothing(t) \/ Requeue(t)
        BY <2>1, <2>3, <4>2, AheadLists
      <4>3. CASE \/ LoopEnds(t) \/ IoOperWait(t) \/ WaitDone(t) \/ KeepOper(t) \/ EnterEnd(t)
                 \/ WakeEnd(t) \/ Decide(t)
        BY <1>2, <2>1, <2>3, <4>3, AheadClose
      <4>4. CASE RestartOper(t) \/ FinishOper(t)
        BY <1>2, <2>1, <4>4, AheadRestart, AheadFinish
      <4> QED BY <3>1, <4>1, <4>2, <4>3, <4>4 DEF ThreadStep, WorkerStep
    <3>2. CASE Kernel(t) \/ SubmitFails(t) \/ SpuriousWakeup(t)
      BY <1>2, <2>1, <3>2, AheadRest DEF Kernel
    <3> QED BY <1>2, <3>1, <3>2
  <2>6. ASSUME NEW q \in Threads \ {t} PROVE Ahead(q)'
    <3>1. /\ pc'[q] = pc[q] /\ active'[q] = active[q] /\ finished'[q] = finished[q]
          /\ built'[q] = built[q] /\ idx'[q] = idx[q]
      BY <2>4 DEF Keeps, Elsewhere
    <3>2. \A o \in Own(q) : oper'[o] = oper[o]
      BY <2>4 DEF Keeps, OnlyOwn, Own
    <3> QED BY <1>2, <2>1, <2>2, <3>1, <3>2, AheadOther
  <2>7. \A q \in Threads : Ahead(q)'
    BY <2>5, <2>6
  <2>8. iteration' \in [Threads -> 0 .. 3]
    <3>1. iteration' = [q \in Threads |-> iteration'[q]]
      BY <2>1, <2>2
    <3>2. \A q \in Threads : iteration'[q] \in 0 .. 3
      BY <2>7 DEF Ahead
    <3> QED BY <3>1, <3>2
  <2> QED BY <2>2, <2>7, <2>8 DEF AheadInv
<1> QED BY <1>1, <1>2 DEF Next, ThreadStep, Kernel, optVars

\* The rounds begin with the first of the stages.
LEMMA AheadInit ==
  ASSUME Init
  PROVE  AheadInv
<1>1. /\ iteration = [t \in Threads |-> 0] /\ cnt = [t \in Threads |-> 0]
      /\ pc = [t \in Threads |-> "start"] /\ finished = [t \in Threads |-> <<>>]
      /\ built = [t \in Threads |-> <<>>]
  BY DEF Init
<1>2. \A o \in Opers : oper[o].rw >= 0
  <2>1. \A o \in Opers : oper[o].rw \in Stages
    BY BookInit DEF BookInv, Types, OperRec
  <2> QED BY <2>1, StageNumbers
<1>3. ASSUME NEW t \in Threads PROVE Ahead(t)
  <2>1. Range(active[t]) \subseteq Opers
    BY BookInit, ListFacts, OnList
  <2>2. Range(<<>>) = {}
    BY DEF Range
  <2> QED BY <1>1, <1>2, <2>1, <2>2 DEF Ahead, Closing
<1> QED BY <1>1, <1>3 DEF AheadInv

\* A thread that goes round again takes all its active operations to a later stage than
\* the rounds it has made: worker() restarts a stage three times at most.
THEOREM RoundsBounded == Spec => []AheadInv
<1>1. Init => AheadInv
  BY AheadInit
<1>2. BookInv /\ AheadInv /\ [Next]_vars => AheadInv'
  BY AheadStep
<1> QED BY <1>1, <1>2, BookKept, PTL DEF Spec

-----------------------------------------------------------------------------
(* The threads implement the barrier of AioStage.                          *)

Phase == [t \in Threads |-> StagePhase(pc[t])]

\* AioStage counts the threads itself.
LEMMA StageThreads == Stage!num_threads = num_threads
<1>1. num_threads \in Nat \ {0} /\ num_threads - 1 \in Int
  BY Options
<1>2. Cardinality(0 .. num_threads - 1) = (num_threads - 1) - 0 + 1
  BY <1>1, FS_Interval
<1>3. Cardinality(Threads) = num_threads
  BY <1>1, <1>2 DEF Threads
<1>4. Stage!Cardinality(Threads) = Cardinality(Threads)
  BY DEF Stage!Cardinality, Cardinality, Stage!IsFiniteSet, IsFiniteSet
<1> QED BY <1>3, <1>4 DEF Stage!num_threads

\* A thread goes to a label.
LEMMA PhaseGoes ==
  ASSUME NEW t \in Threads, NEW l, pc \in [Threads -> Labels], pc' = [pc EXCEPT ![t] = l]
  PROVE  Phase' = [Phase EXCEPT ![t] = StagePhase(l)]
BY DEF Phase

\* The barriers.
LEMMA BarrierSteps ==
  ASSUME num_threads > 1, BookInv, NEW t \in Threads,
         EnterStart(t) \/ WakeStart(t) \/ EnterEnd(t) \/ WakeEnd(t)
  PROVE  Stage!Step(t)
<1>1. pc \in [Threads -> Labels] /\ Stage!num_threads = num_threads /\ num_threads # 1
  BY ListFacts, StageThreads, Options
<1>2. Phase[t] = StagePhase(pc[t])
  BY DEF Phase
<1>3. CASE EnterStart(t)
  <2>1. /\ pc[t] = "start" /\ threads_starting' = threads_starting + 1 /\ iteration' = iteration
        /\ IF threads_starting + 1 = num_threads
           THEN threads_ending' = 0 /\ sleeping' = {} /\ pc' = [pc EXCEPT ![t] = "loop"]
           ELSE /\ sleeping' = sleeping \cup {t} /\ pc' = [pc EXCEPT ![t] = "startwait"]
                /\ threads_ending' = threads_ending
    BY <1>1, <1>3 DEF EnterStart, BeginStage, Goto
  <2>2. /\ pc' = [pc EXCEPT ![t] = "loop"] => Phase' = [Phase EXCEPT ![t] = "body"]
        /\ pc' = [pc EXCEPT ![t] = "startwait"] => Phase' = [Phase EXCEPT ![t] = "startwait"]
    BY <1>1, PhaseGoes DEF StagePhase
  <2>3. Stage!EnterStart(t)
    BY <1>1, <1>2, <2>1, <2>2 DEF Stage!EnterStart, StagePhase, Phase
  <2> QED BY <2>3 DEF Stage!Step
<1>4. CASE WakeStart(t)
  <2>1. /\ pc[t] = "startwait" /\ t \notin sleeping
        /\ UNCHANGED <<threads_starting, threads_ending, iteration>>
        /\ IF threads_starting = num_threads
           THEN pc' = [pc EXCEPT ![t] = "loop"] /\ sleeping' = sleeping
           ELSE sleeping' = sleeping \cup {t} /\ pc' = pc
    BY <1>4 DEF WakeStart, BeginStage, Goto
  <2>2. /\ pc' = [pc EXCEPT ![t] = "loop"] => Phase' = [Phase EXCEPT ![t] = "body"]
        /\ pc' = pc => Phase' = Phase
    BY <1>1, PhaseGoes DEF StagePhase, Phase
  <2>3. Stage!WakeStart(t)
    BY <1>1, <1>2, <2>1, <2>2 DEF Stage!WakeStart, StagePhase, Phase
  <2> QED BY <2>3 DEF Stage!Step
<1>5. CASE EnterEnd(t)
  <2>1. /\ pc[t] = "end" /\ threads_ending' = threads_ending + 1 /\ iteration' = iteration
        /\ IF threads_ending + 1 = num_threads
           THEN threads_starting' = 0 /\ sleeping' = {} /\ pc' = [pc EXCEPT ![t] = "decide"]
           ELSE /\ sleeping' = sleeping \cup {t} /\ pc' = [pc EXCEPT ![t] = "endwait"]
                /\ threads_starting' = threads_starting
    BY <1>1, <1>5 DEF EnterEnd, Goto
  <2>2. /\ pc' = [pc EXCEPT ![t] = "decide"] => Phase' = [Phase EXCEPT ![t] = "decide"]
        /\ pc' = [pc EXCEPT ![t] = "endwait"] => Phase' = [Phase EXCEPT ![t] = "endwait"]
    BY <1>1, PhaseGoes DEF StagePhase
  <2>3. Stage!EnterEnd(t)
    BY <1>1, <1>2, <2>1, <2>2 DEF Stage!EnterEnd, StagePhase, Phase
  <2> QED BY <2>3 DEF Stage!Step
<1>6. CASE WakeEnd(t)
  <2>1. /\ pc[t] = "endwait" /\ t \notin sleeping
        /\ UNCHANGED <<threads_starting, threads_ending, iteration>>
        /\ IF threads_ending = num_threads
           THEN pc' = [pc EXCEPT ![t] = "decide"] /\ sleeping' = sleeping
           ELSE sleeping' = sleeping \cup {t} /\ pc' = pc
    BY <1>6 DEF WakeEnd, Goto
  <2>2. /\ pc' = [pc EXCEPT ![t] = "decide"] => Phase' = [Phase EXCEPT ![t] = "decide"]
        /\ pc' = pc => Phase' = Phase
    BY <1>1, PhaseGoes DEF StagePhase, Phase
  <2>3. Stage!WakeEnd(t)
    BY <1>1, <1>2, <2>1, <2>2 DEF Stage!WakeEnd, StagePhase, Phase
  <2> QED BY <2>3 DEF Stage!Step
<1> QED BY <1>3, <1>4, <1>5, <1>6

\* The labels of the stage body.
Bodies == {"loop", "scan", "build", "submit", "eagain", "requeue", "wait", "restart"}

\* What a step of the body, or of the way out, may do to the barrier: nothing, or end
\* the body.
LEMMA BodyGoes ==
  ASSUME BookInv, NEW t \in Threads, UNCHANGED barrierVars,
         \/ pc' = pc
         \/ \E l \in Bodies : pc[t] \in Bodies /\ pc' = [pc EXCEPT ![t] = l]
         \/ pc[t] \in Bodies /\ pc' = [pc EXCEPT ![t] = "end"]
         \/ pc[t] = "free" /\ pc' = [pc EXCEPT ![t] = "exit"]
  PROVE  Stage!Body(t) \/ UNCHANGED Stage!vars
<1>1. pc \in [Threads -> Labels] /\ Phase[t] = StagePhase(pc[t])
  BY ListFacts DEF Phase
<1>2. UNCHANGED <<threads_starting, threads_ending, sleeping, iteration>>
  BY DEF barrierVars
<1>3. ASSUME Phase' = Phase PROVE UNCHANGED Stage!vars
  BY <1>2, <1>3 DEF Stage!vars, Phase
<1>4. CASE pc' = pc
  BY <1>3, <1>4 DEF Phase
<1>5. ASSUME NEW l \in Bodies, pc[t] \in Bodies, pc' = [pc EXCEPT ![t] = l]
      PROVE  UNCHANGED Stage!vars
  <2>1. StagePhase(l) = "body" /\ StagePhase(pc[t]) = "body"
    BY <1>5 DEF StagePhase, Bodies
  <2>2. Phase' = [Phase EXCEPT ![t] = StagePhase(l)]
    BY <1>1, <1>5, PhaseGoes
  <2> QED BY <1>1, <1>3, <2>1, <2>2 DEF Phase
<1>6. CASE pc[t] = "free" /\ pc' = [pc EXCEPT ![t] = "exit"]
  <2>1. StagePhase("free") = "exit" /\ StagePhase("exit") = "exit"
    BY DEF StagePhase
  <2>2. Phase' = [Phase EXCEPT ![t] = StagePhase("exit")]
    BY <1>1, <1>6, PhaseGoes
  <2> QED BY <1>1, <1>3, <1>6, <2>1, <2>2 DEF Phase
<1>7. CASE pc[t] \in Bodies /\ pc' = [pc EXCEPT ![t] = "end"]
  <2>1. StagePhase("end") = "end" /\ StagePhase(pc[t]) = "body"
    BY <1>7 DEF StagePhase, Bodies
  <2>2. Phase' = [Phase EXCEPT ![t] = StagePhase("end")]
    BY <1>1, <1>7, PhaseGoes
  <2>3. Stage!Body(t)
    BY <1>1, <1>2, <2>1, <2>2 DEF Stage!Body, Phase
  <2> QED BY <2>3
<1> QED BY <1>4, <1>5, <1>6, <1>7

\* The steps of the body and of the way out.
LEMMA BodySteps ==
  ASSUME BookInv, NEW t \in Threads, WorkerStep(t),
         ~(EnterStart(t) \/ WakeStart(t) \/ EnterEnd(t) \/ WakeEnd(t) \/ Decide(t))
  PROVE  Stage!Body(t) \/ UNCHANGED Stage!vars
<1>1. CASE StonewallHead(t) \/ RunActiveList(t) \/ LoopEnds(t)
  <2>1. UNCHANGED barrierVars
    BY <1>1 DEF StonewallHead, RunActiveList, LoopEnds
  <2>2. pc' = pc \/ \E l \in Bodies : pc[t] \in Bodies /\ pc' = [pc EXCEPT ![t] = l]
    BY <1>1 DEF StonewallHead, RunActiveList, LoopEnds, Bodies, Goto
  <2> QED BY <2>1, <2>2, BodyGoes
<1>2. CASE SkipOper(t) \/ BuildOper(t) \/ BuildIocb(t) \/ OperBuilt(t)
  <2>1. UNCHANGED barrierVars
    BY <1>2 DEF SkipOper, BuildOper, BuildIocb, OperBuilt
  <2>2. pc' = pc \/ \E l \in Bodies : pc[t] \in Bodies /\ pc' = [pc EXCEPT ![t] = l]
    BY <1>2 DEF SkipOper, BuildOper, BuildIocb, OperBuilt, Bodies, Goto
  <2> QED BY <2>1, <2>2, BodyGoes
<1>3. CASE ReadSomeEvents(t) \/ Submit(t) \/ SubmitNothing(t) \/ Requeue(t)
  <2>1. UNCHANGED barrierVars
    BY <1>3 DEF ReadSomeEvents, Submit, SubmitNothing, Requeue
  <2>2. pc' = pc \/ \E l \in Bodies : pc[t] \in Bodies /\ pc' = [pc EXCEPT ![t] = l]
    BY <1>3 DEF ReadSomeEvents, Submit, SubmitNothing, Requeue, Bodies, Goto
  <2> QED BY <2>1, <2>2, BodyGoes
<1>4. CASE IoOperWait(t) \/ WaitDone(t) \/ RestartOper(t) \/ KeepOper(t)
  <2>1. UNCHANGED barrierVars
    BY <1>4 DEF IoOperWait, WaitDone, RestartOper, KeepOper
  <2>2. \/ pc' = pc
        \/ \E l \in Bodies : pc[t] \in Bodies /\ pc' = [pc EXCEPT ![t] = l]
        \/ pc[t] \in Bodies /\ pc' = [pc EXCEPT ![t] = "end"]
    BY <1>4 DEF IoOperWait, WaitDone, RestartOper, KeepOper, Bodies, Goto
  <2> QED BY <2>1, <2>2, BodyGoes
<1>5. CASE FinishOper(t)
  <2>1. UNCHANGED barrierVars
    BY <1>5 DEF FinishOper
  <2>2. pc' = pc \/ (pc[t] = "free" /\ pc' = [pc EXCEPT ![t] = "exit"])
    BY <1>5 DEF FinishOper, Goto
  <2> QED BY <2>1, <2>2, BodyGoes
<1> QED BY <1>1, <1>2, <1>3, <1>4, <1>5 DEF WorkerStep

\* Every step of the threads is a step of the barrier, or none.
LEMMA StageStep ==
  ASSUME num_threads > 1, BookInv, AheadInv, [Next]_vars, AheadInv'
  PROVE  [Stage!Next]_Stage!vars
<1>0. pc \in [Threads -> Labels] /\ iteration \in [Threads -> 0 .. 3]
  BY DEF BookInv, Types, AheadInv
<1>1. CASE UNCHANGED vars
  BY <1>1 DEF vars, barrierVars, Stage!vars
<1>2. ASSUME NEW t \in Threads, ThreadStep(t) PROVE [Stage!Next]_Stage!vars
  <2>1. CASE EnterStart(t) \/ WakeStart(t) \/ EnterEnd(t) \/ WakeEnd(t)
    <3>1. Stage!Step(t)
      BY <2>1, BarrierSteps
    <3> QED BY <3>1 DEF Stage!Next
  <2>2. CASE Decide(t)
    <3>1. /\ pc[t] = "decide" /\ UNCHANGED <<threads_starting, threads_ending, sleeping>>
          /\ \/ /\ iteration' = [iteration EXCEPT ![t] = iteration[t] + 1]
                /\ pc' = [pc EXCEPT ![t] = "start"]
             \/ pc' = [pc EXCEPT ![t] = "free"] /\ iteration' = iteration
      BY <2>2 DEF Decide, Goto
    <3>2. /\ pc' = [pc EXCEPT ![t] = "start"] => Phase' = [Phase EXCEPT ![t] = "start"]
          /\ pc' = [pc EXCEPT ![t] = "free"] => Phase' = [Phase EXCEPT ![t] = "exit"]
      BY <1>0, PhaseGoes DEF StagePhase
    <3>3. Phase[t] = "decide"
      BY <3>1 DEF Phase, StagePhase
    <3>4. CASE pc' = [pc EXCEPT ![t] = "start"]
               /\ iteration' = [iteration EXCEPT ![t] = iteration[t] + 1]
      <4>1. iteration'[t] = iteration[t] + 1 /\ iteration'[t] \in 0 .. 3
        BY <1>0, <3>4 DEF AheadInv
      <4>2. iteration[t] < 3
        BY <1>0, <4>1
      <4>3. Stage!Restart(t)
        BY <3>1, <3>2, <3>3, <3>4, <4>2 DEF Stage!Restart, Phase
      <4> QED BY <4>3 DEF Stage!Next, Stage!Step
    <3>5. CASE pc' = [pc EXCEPT ![t] = "free"] /\ iteration' = iteration
      <4>1. Stage!Leave(t)
        BY <3>1, <3>2, <3>3, <3>5 DEF Stage!Leave, Phase
      <4> QED BY <4>1 DEF Stage!Next, Stage!Step
    <3> QED BY <3>1, <3>4, <3>5
  <2>3. CASE ~(EnterStart(t) \/ WakeStart(t) \/ EnterEnd(t) \/ WakeEnd(t) \/ Decide(t))
    <3>1. Stage!Body(t) \/ UNCHANGED Stage!vars
      BY <1>2, <2>3, BodySteps DEF ThreadStep
    <3> QED BY <3>1 DEF Stage!Next, Stage!Step
  <2> QED BY <2>1, <2>2, <2>3
<1>3. ASSUME NEW t \in Threads, Kernel(t) \/ SubmitFails(t) PROVE [Stage!Next]_Stage!vars
  <2>1. pc' = pc /\ UNCHANGED barrierVars
    BY <1>3 DEF Kernel, Complete, Fail, SubmitFails
  <2> QED BY <2>1, BodyGoes DEF Stage!Next, Stage!Step
<1>4. ASSUME NEW t \in Threads, SpuriousWakeup(t) PROVE [Stage!Next]_Stage!vars
  <2>1. Stage!SpuriousWakeup(t)
    BY <1>4 DEF SpuriousWakeup, Stage!SpuriousWakeup
  <2> QED BY <2>1 DEF Stage!Next
<1> QED BY <1>1, <1>2, <1>3, <1>4 DEF Next

\* Several threads start at the barrier as AioStage has it.
LEMMA StageInit ==
  ASSUME Init
  PROVE  Stage!Init
<1>1. pc = [t \in Threads |-> "start"]
  BY DEF Init
<1>2. Phase = [t \in Threads |-> "start"]
  BY <1>1 DEF Phase, StagePhase
<1> QED BY <1>2 DEF Init, Stage!Init, Phase

\* aio-stress with several threads implements the stage barrier: every step of worker(),
\* of the lists, the units and the kernel is a step of AioStage or none, and a thread
\* goes back to the start barrier three times at most.
THEOREM BarrierImplemented ==
  ASSUME num_threads > 1
  PROVE  Spec => ImplementsStage
<1>1. Init => Stage!Init
  BY StageInit
<1>2. BookInv /\ AheadInv /\ [Next]_vars /\ AheadInv' => [Stage!Next]_Stage!vars
  BY StageStep
<1> QED BY <1>1, <1>2, BookKept, RoundsBounded, PTL DEF Spec, ImplementsStage, Stage!Spec

-----------------------------------------------------------------------------
(* With the refinement, what AioStageProofs shows of the barrier holds     *)
(* of the threads: they gather for a stage or they all run it.             *)

InPhase(p) == {t \in Threads : Phase[t] = p}
Before(t)  == Phase[t] \in {"start", "startwait"}
After(t)   == Phase[t] \in {"endwait", "decide", "exit"}

\* Those that wait are counted, nobody is in a stage, and those that have come round
\* are one round ahead of those that have not.
Gathering ==
  /\ threads_starting = Cardinality(InPhase("startwait"))
  /\ \A t \in Threads : Before(t) \/ After(t)
  /\ \A t, u \in Threads :
       /\ Before(t) /\ Before(u) => iteration[t] = iteration[u]
       /\ After(t) /\ After(u) => iteration[t] = iteration[u]
       /\ Before(t) /\ After(u) => iteration[t] = iteration[u] + 1

\* All threads are in the same stage, and those that have finished it are counted.
Running ==
  /\ threads_ending = Cardinality(InPhase("endwait"))
  /\ threads_ending < num_threads
  /\ \A t \in Threads : Phase[t] \in {"startwait", "body", "end", "endwait"}
  /\ \A t, u \in Threads : iteration[t] = iteration[u]

BarrierTypes ==
  /\ threads_starting \in 0 .. num_threads /\ threads_ending \in 0 .. num_threads
  /\ iteration \in [Threads -> 0 .. 3]

BarrierInv ==
  /\ BarrierTypes
  /\ threads_starting < num_threads => Gathering
  /\ threads_starting = num_threads => Running

\* A set of threads without t has at most num_threads - 1 members, and if it has that
\* many it holds all the others.
LEMMA Others ==
  ASSUME NEW t \in Threads, NEW S \in SUBSET Threads, t \notin S
  PROVE  /\ Cardinality(S) \in Nat /\ Cardinality(S) + 1 <= num_threads
         /\ Cardinality(S) + 1 = num_threads => S = Threads \ {t}
         /\ Cardinality(S \cup {t}) = Cardinality(S) + 1
<1>1. num_threads \in Nat \ {0} /\ IsFiniteSet(Threads) /\ Cardinality(Threads) = num_threads
  <2>1. num_threads \in Nat \ {0} /\ num_threads - 1 \in Int /\ 0 \in Int
    BY Options
  <2>2. /\ IsFiniteSet(0 .. num_threads - 1)
        /\ Cardinality(0 .. num_threads - 1)
             = IF 0 > num_threads - 1 THEN 0 ELSE (num_threads - 1) - 0 + 1
    BY <2>1, FS_Interval
  <2> QED BY <2>1, <2>2 DEF Threads
<1>2. /\ IsFiniteSet(Threads \ {t}) /\ Cardinality(Threads \ {t}) = num_threads - 1
  BY <1>1, FS_RemoveElement
<1>3. S \in SUBSET (Threads \ {t})
  OBVIOUS
<1>4. /\ IsFiniteSet(S)
      /\ Cardinality(S) <= Cardinality(Threads \ {t})
      /\ Cardinality(Threads \ {t}) = Cardinality(S) => Threads \ {t} = S
  BY <1>2, <1>3, FS_Subset
<1>5. Cardinality(S) \in Nat /\ Cardinality(S \cup {t}) = Cardinality(S) + 1
  BY <1>4, FS_CardinalityType, FS_AddElement
<1> QED BY <1>1, <1>2, <1>4, <1>5

\* The barrier as AioStage has it, one thread changing its phase.
PhaseTo(t, a, b) == Phase[t] = a /\ Phase' = [Phase EXCEPT ![t] = b]

\* Steps that leave both counters alone.
Passes(t) ==
  /\ UNCHANGED <<threads_starting, threads_ending>>
  /\ \/ UNCHANGED <<Phase, iteration>>
     \/ /\ \/ PhaseTo(t, "startwait", "body") /\ threads_starting = num_threads
           \/ PhaseTo(t, "body", "end")
           \/ PhaseTo(t, "endwait", "decide") /\ threads_ending = num_threads
           \/ PhaseTo(t, "decide", "exit")
        /\ UNCHANGED iteration
     \/ /\ PhaseTo(t, "decide", "start")
        /\ iteration' = [iteration EXCEPT ![t] = iteration[t] + 1]

\* The steps of AioStage that do not arrive at a barrier are of this kind.
LEMMA PassesIs ==
  ASSUME NEW t \in Threads,
         \/ Stage!WakeStart(t) \/ Stage!Body(t) \/ Stage!WakeEnd(t) \/ Stage!Restart(t)
         \/ Stage!Leave(t) \/ Stage!SpuriousWakeup(t)
  PROVE  Passes(t)
<1>1. CASE Stage!WakeStart(t) \/ Stage!WakeEnd(t)
  BY <1>1, StageThreads DEF Stage!WakeStart, Stage!WakeEnd, Passes, PhaseTo, Phase
<1>2. CASE Stage!Body(t) \/ Stage!Restart(t) \/ Stage!Leave(t) \/ Stage!SpuriousWakeup(t)
  BY <1>2 DEF Stage!Body, Stage!Restart, Stage!Leave, Stage!SpuriousWakeup, Passes, PhaseTo,
              Phase
<1> QED BY <1>1, <1>2

\* A thread arrives at the start barrier: one more waits, or the stage begins.
LEMMA GatherStep ==
  ASSUME BarrierInv, iteration' \in [Threads -> 0 .. 3], NEW t \in Threads, Stage!EnterStart(t)
  PROVE  BarrierInv'
<1> USE Options DEF BarrierInv
<1>0. DOMAIN Phase = Threads
  BY DEF Phase
<1>1. /\ Phase[t] = "start" /\ threads_starting' = threads_starting + 1 /\ iteration' = iteration
      /\ IF threads_starting + 1 = num_threads
         THEN threads_ending' = 0 /\ Phase' = [Phase EXCEPT ![t] = "body"]
         ELSE threads_ending' = threads_ending /\ Phase' = [Phase EXCEPT ![t] = "startwait"]
  BY StageThreads DEF Stage!EnterStart, Phase
<1>2. threads_starting < num_threads /\ Gathering
  BY <1>1 DEF BarrierTypes, Running
<1>7. BarrierTypes'
  BY <1>1, <1>2 DEF BarrierTypes
<1> DEFINE SW == InPhase("startwait")
<1>3. SW \in SUBSET Threads /\ t \notin SW
  BY <1>1 DEF InPhase
<1>4. /\ Cardinality(SW) \in Nat
      /\ Cardinality(SW) + 1 = num_threads => SW = Threads \ {t}
      /\ Cardinality(SW \cup {t}) = Cardinality(SW) + 1
  BY <1>3, Others
<1>5. CASE threads_starting + 1 = num_threads
  <2>1. SW = Threads \ {t}
    BY <1>2, <1>4, <1>5 DEF Gathering
  <2>2. \A u \in Threads \ {t} : Phase[u] = "startwait"
    BY <2>1 DEF InPhase
  <2>3. \A u \in Threads : Phase'[u] \in {"startwait", "body"}
    BY <1>0, <1>1, <1>5, <2>2
  <2>4. InPhase("endwait")' = {}
    BY <2>3 DEF InPhase
  <2>5. \A u \in Threads : Before(u)
    BY <1>1, <2>2 DEF Before
  <2>6. \A u, v \in Threads : iteration'[u] = iteration'[v]
    BY <1>1, <1>2, <2>5 DEF Gathering
  <2>7. Running'
    <3>1. threads_ending' = 0 /\ 0 < num_threads
      BY <1>1, <1>5
    <3>2. Cardinality(InPhase("endwait")') = 0
      BY <2>4, FS_EmptySet
    <3> QED BY <2>3, <2>6, <3>1, <3>2 DEF Running
  <2> QED BY <1>1, <1>5, <1>7, <2>7
<1>6. CASE threads_starting + 1 # num_threads
  <2>1. threads_starting' < num_threads
    BY <1>1, <1>2, <1>6 DEF BarrierTypes
  <2>2. Phase' = [Phase EXCEPT ![t] = "startwait"]
    BY <1>1, <1>6
  <2>3. InPhase("startwait")' = SW \cup {t}
    BY <1>0, <2>2 DEF InPhase
  <2>4. threads_starting' = Cardinality(InPhase("startwait")')
    BY <1>1, <1>2, <1>4, <2>3 DEF Gathering
  <2>5. \A u \in Threads : (Before(u)' <=> Before(u)) /\ (After(u)' <=> After(u))
    BY <1>0, <1>1, <2>2 DEF Before, After
  <2>6. Gathering'
    BY <1>1, <1>2, <2>4, <2>5 DEF Gathering
  <2> QED BY <1>7, <2>1, <2>6
<1> QED BY <1>5, <1>6

\* A thread arrives at the end barrier.
LEMMA EndStep ==
  ASSUME BarrierInv, iteration' \in [Threads -> 0 .. 3], NEW t \in Threads, Stage!EnterEnd(t)
  PROVE  BarrierInv'
<1> USE Options DEF BarrierInv
<1>0. DOMAIN Phase = Threads
  BY DEF Phase
<1>1. /\ Phase[t] = "end" /\ threads_ending' = threads_ending + 1 /\ iteration' = iteration
      /\ IF threads_ending + 1 = num_threads
         THEN threads_starting' = 0 /\ Phase' = [Phase EXCEPT ![t] = "decide"]
         ELSE threads_starting' = threads_starting /\ Phase' = [Phase EXCEPT ![t] = "endwait"]
  BY StageThreads DEF Stage!EnterEnd, Phase
<1>2. threads_starting = num_threads /\ Running
  BY <1>1 DEF BarrierTypes, Gathering, Before, After
<1>7. BarrierTypes'
  BY <1>1, <1>2 DEF BarrierTypes, Running
<1> DEFINE EW == InPhase("endwait")
<1>3. EW \in SUBSET Threads /\ t \notin EW
  BY <1>1 DEF InPhase
<1>4. /\ Cardinality(EW) \in Nat
      /\ Cardinality(EW) + 1 = num_threads => EW = Threads \ {t}
      /\ Cardinality(EW \cup {t}) = Cardinality(EW) + 1
  BY <1>3, Others
<1>5. CASE threads_ending + 1 = num_threads
  <2>1. EW = Threads \ {t}
    BY <1>2, <1>4, <1>5 DEF Running
  <2>2. \A u \in Threads \ {t} : Phase[u] = "endwait"
    BY <2>1 DEF InPhase
  <2>3. \A u \in Threads : Phase'[u] \in {"endwait", "decide"}
    BY <1>0, <1>1, <1>5, <2>2
  <2>4. InPhase("startwait")' = {}
    BY <2>3 DEF InPhase
  <2>5. \A u \in Threads : After(u)' /\ ~Before(u)'
    BY <2>3 DEF After, Before
  <2>6. \A u, v \in Threads : iteration'[u] = iteration'[v]
    BY <1>1, <1>2 DEF Running
  <2>7. Gathering'
    BY <1>1, <1>5, <2>4, <2>5, <2>6, FS_EmptySet DEF Gathering
  <2> QED BY <1>1, <1>5, <1>7, <2>7
<1>6. CASE threads_ending + 1 # num_threads
  <2>1. threads_ending' < num_threads /\ threads_starting' = num_threads
    BY <1>1, <1>2, <1>6 DEF BarrierTypes, Running
  <2>2. Phase' = [Phase EXCEPT ![t] = "endwait"]
    BY <1>1, <1>6
  <2>3. InPhase("endwait")' = EW \cup {t}
    BY <1>0, <2>2 DEF InPhase
  <2>4. threads_ending' = Cardinality(InPhase("endwait")')
    BY <1>1, <1>2, <1>4, <2>3 DEF Running
  <2>5. \A u \in Threads : Phase'[u] \in {"startwait", "body", "end", "endwait"}
    BY <1>0, <1>2, <2>2 DEF Running
  <2>6. Running'
    BY <1>1, <1>2, <2>1, <2>4, <2>5 DEF Running
  <2> QED BY <1>7, <2>1, <2>6
<1> QED BY <1>5, <1>6

\* The steps of one thread that leave both counters alone.
LEMMA PassStep ==
  ASSUME BarrierInv, iteration' \in [Threads -> 0 .. 3], NEW t \in Threads, Passes(t)
  PROVE  BarrierInv'
<1>0. DOMAIN Phase = Threads /\ num_threads \in Nat \ {0}
  BY Options DEF Phase
<1>1. UNCHANGED <<threads_starting, threads_ending>>
  BY DEF Passes
<1>2. BarrierTypes' /\ BarrierTypes
  BY <1>1 DEF BarrierTypes, BarrierInv
<1>3. CASE threads_starting < num_threads
  <2>1. Gathering
    BY <1>3 DEF BarrierInv
  <2>2. Phase[t] # "body" /\ threads_starting # num_threads
    BY <1>0, <1>2, <1>3, <2>1 DEF BarrierTypes, Gathering, Before, After
  <2>3. InPhase("startwait")' = InPhase("startwait")
    BY <1>0, <2>2 DEF Passes, PhaseTo, InPhase
  <2>4. CASE iteration' = iteration
    <3>1. \A u \in Threads : (Before(u)' <=> Before(u)) /\ (After(u)' <=> After(u))
      <4>1. CASE PhaseTo(t, "endwait", "decide") \/ PhaseTo(t, "decide", "exit") \/ Phase' = Phase
        BY <1>0, <4>1 DEF PhaseTo, Before, After
      <4>2. ASSUME PhaseTo(t, "decide", "start"),
                   iteration' = [iteration EXCEPT ![t] = iteration[t] + 1]
            PROVE  FALSE
        <5>1. iteration'[t] = iteration[t] + 1 /\ iteration[t] \in Int
          BY <1>2, <4>2 DEF BarrierTypes
        <5> QED BY <2>4, <5>1
      <4> QED BY <2>2, <4>1, <4>2 DEF Passes, PhaseTo
    <3>2. Gathering'
      BY <1>1, <2>1, <2>3, <2>4, <3>1 DEF Gathering
    <3> QED BY <1>1, <1>2, <1>3, <3>2 DEF BarrierInv, BarrierTypes
  <2>5. CASE PhaseTo(t, "decide", "start")
             /\ iteration' = [iteration EXCEPT ![t] = iteration[t] + 1]
    <3>1. After(t) /\ ~Before(t) /\ Before(t)' /\ ~After(t)'
      BY <1>0, <2>5 DEF PhaseTo, Before, After
    <3>2. \A u \in Threads \ {t} : /\ (Before(u)' <=> Before(u)) /\ (After(u)' <=> After(u))
                                   /\ iteration'[u] = iteration[u]
      BY <1>0, <1>2, <2>5 DEF PhaseTo, Before, After, BarrierTypes
    <3>3. iteration'[t] = iteration[t] + 1 /\ \A u \in Threads : iteration[u] \in Nat
      BY <1>2, <2>5 DEF BarrierTypes
    <3>4. Gathering'
      BY <1>1, <2>1, <2>3, <3>1, <3>2, <3>3 DEF Gathering
    <3> QED BY <1>0, <1>1, <1>2, <1>3, <3>4 DEF BarrierInv, BarrierTypes
  <2> QED BY <2>4, <2>5 DEF Passes
<1>4. CASE threads_starting = num_threads
  <2>1. Running
    BY <1>4 DEF BarrierInv
  <2>2. Phase[t] # "decide" /\ threads_ending # num_threads
    BY <1>0, <1>2, <2>1 DEF Running, BarrierTypes
  <2>3. /\ iteration' = iteration
        /\ \/ Phase' = Phase
           \/ PhaseTo(t, "startwait", "body") \/ PhaseTo(t, "body", "end")
    BY <2>2 DEF Passes, PhaseTo
  <2>4. InPhase("endwait")' = InPhase("endwait")
    BY <1>0, <2>3 DEF InPhase, PhaseTo
  <2>5. \A u \in Threads : Phase'[u] \in {"startwait", "body", "end", "endwait"}
    BY <1>0, <2>1, <2>3 DEF PhaseTo, Running
  <2>6. Running'
    BY <1>1, <2>1, <2>3, <2>4, <2>5 DEF Running
  <2> QED BY <1>0, <1>1, <1>2, <1>4, <2>6 DEF BarrierInv
<1> QED BY <1>0, <1>2, <1>3, <1>4 DEF BarrierTypes

\* At the start all threads gather for the first stage.
LEMMA BarrierInit ==
  ASSUME Init
  PROVE  BarrierInv
<1>1. /\ threads_starting = 0 /\ threads_ending = 0 /\ iteration = [t \in Threads |-> 0]
      /\ Phase = [t \in Threads |-> "start"]
  BY DEF Init, Phase, StagePhase
<1>2. num_threads \in Nat \ {0}
  BY Options
<1>3. InPhase("startwait") = {}
  BY <1>1 DEF InPhase
<1>4. Gathering
  <2>1. Cardinality(InPhase("startwait")) = 0
    BY <1>3, FS_EmptySet
  <2>2. \A t \in Threads : Before(t) /\ ~After(t)
    BY <1>1 DEF Before, After
  <2> QED BY <1>1, <2>1, <2>2 DEF Gathering
<1> QED BY <1>1, <1>2, <1>4 DEF BarrierInv, BarrierTypes

\* Every step of several threads keeps them together.
LEMMA BarrierStep ==
  ASSUME num_threads > 1, BookInv, AheadInv, AheadInv', [Next]_vars, BarrierInv
  PROVE  BarrierInv'
<1>1. [Stage!Next]_Stage!vars /\ iteration' \in [Threads -> 0 .. 3]
  BY StageStep DEF AheadInv
<1>2. CASE UNCHANGED Stage!vars
  <2>1. PICK t \in Threads : TRUE
    BY Options DEF Threads
  <2>2. UNCHANGED <<Phase, threads_starting, threads_ending, iteration>>
    BY <1>2 DEF Stage!vars, Phase
  <2>3. Passes(t)
    BY <2>2 DEF Passes
  <2> QED BY <1>1, <2>3, PassStep
<1>3. ASSUME NEW t \in Threads, Stage!Step(t) \/ Stage!SpuriousWakeup(t) PROVE BarrierInv'
  <2>1. CASE Stage!EnterStart(t)
    BY <1>1, <2>1, GatherStep
  <2>2. CASE Stage!EnterEnd(t)
    BY <1>1, <2>2, EndStep
  <2>3. CASE \/ Stage!WakeStart(t) \/ Stage!Body(t) \/ Stage!WakeEnd(t) \/ Stage!Restart(t)
             \/ Stage!Leave(t) \/ Stage!SpuriousWakeup(t)
    BY <1>1, <2>3, PassesIs, PassStep
  <2> QED BY <1>3, <2>1, <2>2, <2>3 DEF Stage!Step
<1> QED BY <1>1, <1>2, <1>3 DEF Stage!Next

-----------------------------------------------------------------------------
(* The stonewall.                                                          *)

\* One thread runs no barrier, several keep together.
TogetherInv ==
  /\ num_threads > 1 => BarrierInv
  /\ num_threads = 1 => threads_ending = 0

\* A thread alone never counts at a barrier.
LEMMA AloneStep ==
  ASSUME num_threads = 1, [Next]_vars, threads_ending = 0
  PROVE  threads_ending' = 0
<1>1. CASE UNCHANGED vars
  BY <1>1 DEF vars, barrierVars
<1>2. ASSUME NEW t \in Threads, ThreadStep(t) PROVE threads_ending' = 0
  <2>1. CASE EnterStart(t) \/ EnterEnd(t) \/ WakeStart(t) \/ WakeEnd(t) \/ Decide(t)
    BY <2>1 DEF EnterStart, EnterEnd, WakeStart, WakeEnd, Decide, barrierVars
  <2>2. CASE \/ StonewallHead(t) \/ RunActiveList(t) \/ LoopEnds(t) \/ SkipOper(t)
             \/ BuildOper(t) \/ BuildIocb(t) \/ OperBuilt(t) \/ ReadSomeEvents(t)
    BY <2>2 DEF StonewallHead, RunActiveList, LoopEnds, SkipOper, BuildOper, BuildIocb,
                OperBuilt, ReadSomeEvents, barrierVars
  <2>3. CASE \/ Submit(t) \/ SubmitNothing(t) \/ Requeue(t) \/ IoOperWait(t) \/ WaitDone(t)
             \/ RestartOper(t) \/ KeepOper(t) \/ FinishOper(t)
    BY <2>3 DEF Submit, SubmitNothing, Requeue, IoOperWait, WaitDone, RestartOper, KeepOper,
                FinishOper, barrierVars
  <2> QED BY <1>2, <2>1, <2>2, <2>3 DEF ThreadStep, WorkerStep
<1>3. ASSUME NEW t \in Threads, Kernel(t) \/ SubmitFails(t) \/ SpuriousWakeup(t)
      PROVE  threads_ending' = 0
  BY <1>3 DEF Kernel, Complete, Fail, SubmitFails, SpuriousWakeup, barrierVars
<1> QED BY <1>1, <1>2, <1>3 DEF Next

\* The threads of every behaviour are together in one stage or between two.
THEOREM Together == Spec => []TogetherInv
<1>1. Init => TogetherInv
  BY BarrierInit DEF TogetherInv, Init
<1>2. BookInv /\ AheadInv /\ AheadInv' /\ TogetherInv /\ [Next]_vars => TogetherInv'
  BY BarrierStep, AloneStep DEF TogetherInv
<1> QED BY <1>1, <1>2, BookKept, RoundsBounded, PTL DEF Spec

\* Only the loop of a stage cuts an operation off, at the head of its list.
LEMMA OnlyStonewall ==
  ASSUME BookInv, [Next]_vars, NEW o \in Opers, ~oper[o].stonewalled, oper'[o].stonewalled
  PROVE  \E t \in Threads : StonewallHead(t) /\ o \in Own(t)
<1>1. oper' # oper /\ ~WallKept
  BY DEF WallKept
<1>2. PICK t \in Threads : ThreadStep(t)
  <2>1. ASSUME NEW t \in Threads, Kernel(t) \/ SubmitFails(t) \/ SpuriousWakeup(t)
        PROVE  UNCHANGED oper
    BY <2>1 DEF Kernel, Complete, Fail, SubmitFails, SpuriousWakeup
  <2>2. UNCHANGED vars => UNCHANGED oper
    BY DEF vars
  <2> QED BY <1>1, <2>1, <2>2 DEF Next
<1>3. ASSUME \/ EnterStart(t) \/ WakeStart(t) \/ LoopEnds(t) \/ EnterEnd(t) \/ WakeEnd(t)
             \/ Decide(t) \/ RunActiveList(t) \/ SkipOper(t) \/ BuildOper(t)
      PROVE  UNCHANGED oper
  BY <1>3 DEF EnterStart, WakeStart, LoopEnds, EnterEnd, WakeEnd, Decide, RunActiveList,
              SkipOper, BuildOper
<1>4. ASSUME \/ OperBuilt(t) \/ SubmitNothing(t) \/ Requeue(t) \/ WaitDone(t) \/ KeepOper(t)
             \/ FinishOper(t)
      PROVE  UNCHANGED oper
  BY <1>4 DEF OperBuilt, SubmitNothing, Requeue, WaitDone, KeepOper, FinishOper
<1>5. ~RestartOper(t)
  <2> SUFFICES ASSUME RestartOper(t) PROVE FALSE
    OBVIOUS
  <2> DEFINE p == finished[t][idx[t]]
             r == [oper[p] EXCEPT !.started = 0, !.offset = StartOf(p), !.stonewalled = FALSE,
                                  !.rw = Min(LaterStages(p))]
  <2>1. oper' = [oper EXCEPT ![p] = r] /\ p \in Opers
    BY RestartGrows, ListFacts, ZenonT(60) DEF RestartOper
  <2>2. oper \in [Opers -> OperRec] /\ oper[p] \in OperRec
    BY <2>1, ListFacts
  <2>3. r.stonewalled = FALSE
    BY <2>2 DEF OperRec
  <2> HIDE DEF p, r
  <2> QED BY <2>1, <2>2, <2>3
<1>6. StonewallHead(t)
  BY <1>1, <1>2, <1>3, <1>4, <1>5, StagesSame DEF ThreadStep, WorkerStep
<1>7. o \in Own(t)
  <2>1. active[t] # <<>> /\ active[t] \in Seq(Own(t)) /\ Own(t) \subseteq Opers
        /\ oper \in [Opers -> OperRec]
    BY <1>6, ListFacts DEF StonewallHead
  <2> DEFINE p == Head(active[t])
  <2>2. p \in Own(t)
    BY <2>1, ListEnds
  <2>3. oper' = [oper EXCEPT ![p] = [oper[p] EXCEPT !.stonewalled = TRUE]]
    BY <1>6 DEF StonewallHead
  <2> HIDE DEF p
  <2>4. o # p => oper'[o] = oper[o]
    BY <2>1, <2>3
  <2> QED BY <1>1, <2>2, <2>4
<1> QED BY <1>6, <1>7

\* A thread that finds threads_ending set has a partner that has ended this stage.
LEMMA EndedHere ==
  ASSUME TogetherInv, BookInv, NEW t \in Threads, StonewallHead(t)
  PROVE  \E u \in Threads : pc[u] = "endwait" /\ iteration[u] = iteration[t]
<1>1. pc[t] = "loop" /\ threads_ending # 0
  BY DEF StonewallHead
<1>2. num_threads \in Nat /\ num_threads > 1
  BY <1>1, Options DEF TogetherInv
<1>3. BarrierInv /\ Phase[t] = "body"
  BY <1>1, <1>2 DEF TogetherInv, Phase, StagePhase
<1>4. Running
  BY <1>2, <1>3 DEF BarrierInv, BarrierTypes, Gathering, Before, After
<1>5. InPhase("endwait") # {}
  BY <1>1, <1>4, FS_EmptySet DEF Running
<1>6. PICK u \in Threads : Phase[u] = "endwait"
  BY <1>5 DEF InPhase
<1>7. pc[u] = "endwait"
  BY <1>6 DEF Phase, StagePhase
<1> QED BY <1>4, <1>7 DEF Running

\* For any number of threads and operations, the unlocked read of threads_ending cuts an
\* operation off only when another thread has ended the same stage.
THEOREM WallIsFair == Spec => StonewallFair
<1> DEFINE A == \A t \in Threads : \A i \in DOMAIN OpersOf(t) :
                  LET o == OpersOf(t)[i] IN
                  ~oper[o].stonewalled /\ oper'[o].stonewalled =>
                    \E u \in Threads : /\ pc[u] = "endwait"
                                       /\ iteration[u] = iteration[t]
<1>1. BookInv /\ TogetherInv /\ [Next]_vars => A
  <2> SUFFICES ASSUME BookInv, TogetherInv, [Next]_vars, NEW t \in Threads,
                      NEW i \in DOMAIN OpersOf(t), ~oper[OpersOf(t)[i]].stonewalled,
                      oper'[OpersOf(t)[i]].stonewalled
               PROVE  \E u \in Threads : pc[u] = "endwait" /\ iteration[u] = iteration[t]
    OBVIOUS
  <2>1. OpersOf(t)[i] \in Own(t) /\ Own(t) \subseteq Opers
    BY Dealt, ListFacts
  <2>2. PICK q \in Threads : StonewallHead(q) /\ OpersOf(t)[i] \in Own(q)
    BY <2>1, OnlyStonewall
  <2>3. q = t
    BY <2>1, <2>2 DEF Own
  <2> QED BY <2>2, <2>3, EndedHere
<1> QED BY <1>1, BookKept, Together, PTL DEF Spec, StonewallFair

-----------------------------------------------------------------------------
(* The stages of an operation.                                             *)

\* Lists without repetition and without a common member.
Apart(a, f, b) ==
  /\ Once(a) /\ Once(f) /\ Once(b)
  /\ Range(a) \cap Range(f) = {} /\ Range(a) \cap Range(b) = {} /\ Range(f) \cap Range(b) = {}

\* The requests of an operation in this stage: started, prepared or about to be.
Begun(t, o) ==
  oper[o].started + CountFor(job, Range(iocbs[t]), o)
    + (IF pc[t] = "build" /\ o = Cur(t) THEN want[t] ELSE 0)

\* A finished operation is through with its stage or was cut off.
Ended(o) == AllStarted(o) \/ oper[o].stonewalled

\* An operation is on one list, and once; the prepared requests belong to the operations
\* built in this pass; no operation begins more requests than it has; the finished ones
\* have ended their stage, and at the restart they have drained.
Tidy(t) ==
  /\ Apart(active[t], finished[t], built[t])
  /\ \A u \in Range(iocbs[t]) :
       job[u].oper \in Range(built[t]) \/ (pc[t] = "build" /\ job[u].oper = Cur(t))
  /\ \A o \in Own(t) : /\ oper[o].started >= 0
                       /\ Begun(t, o) <= total_ios(o) \/ Begun(t, o) = 0
  /\ \A o \in Range(finished[t]) : Ended(o)
  /\ pc[t] = "restart" => \A o \in Range(finished[t]) : oper[o].pending = 0

TidyInv == \A t \in Threads : Tidy(t)

\* What the clauses are about.
LEMMA TidyFacts ==
  ASSUME BookInv, NEW t \in Threads
  PROVE  /\ Range(active[t]) \subseteq Own(t) /\ Range(finished[t]) \subseteq Own(t)
         /\ Range(built[t]) \subseteq Own(t) /\ Own(t) \subseteq Opers
         /\ Range(iocbs[t]) \subseteq UnitsOf(t) /\ IsFiniteSet(Range(iocbs[t]))
         /\ UnitsOf(t) \subseteq Units
         /\ \A o \in Opers : oper[o].started \in Int /\ total_ios(o) \in Int
         /\ \A o : CountFor(job, Range(iocbs[t]), o) \in Nat
         /\ want[t] \in Int /\ Range(<<>>) = {}
<1>1. /\ Range(active[t]) \subseteq Own(t) /\ Range(finished[t]) \subseteq Own(t)
      /\ Range(built[t]) \subseteq Own(t) /\ Own(t) \subseteq Opers
  BY ListFacts, OnList
<1>2. Split(UnitsOf(t), free[t], iocbs[t], inflight[t], done[t])
  BY UnitFacts
<1>3. Range(iocbs[t]) \subseteq UnitsOf(t) /\ IsFiniteSet(Range(iocbs[t]))
  BY <1>2, OnceLength DEF Split
<1>4. \A o : CountFor(job, Range(iocbs[t]), o) \in Nat
  BY <1>3, CountType
<1>5. \A o \in Opers : oper[o].started \in Int
  BY DEF BookInv, Types, OperRec
<1>6. Range(<<>>) = {} /\ want[t] \in Int
  BY UnitFacts DEF Range
<1> QED BY <1>1, <1>3, <1>4, <1>5, <1>6, UnitsAre, OperNumbers

\* A step of another thread.
LEMMA TidyOther ==
  ASSUME BookInv, NEW q \in Threads, Tidy(q),
         pc'[q] = pc[q], active'[q] = active[q], finished'[q] = finished[q],
         built'[q] = built[q], idx'[q] = idx[q], want'[q] = want[q], iocbs'[q] = iocbs[q],
         \A u \in UnitsOf(q) : job'[u] = job[u], \A o \in Own(q) : oper'[o] = oper[o]
  PROVE  Tidy(q)'
<1>1. /\ Range(finished[q]) \subseteq Own(q) /\ Range(iocbs[q]) \subseteq UnitsOf(q)
  BY TidyFacts
<1>2. Cur(q)' = Cur(q)
  BY DEF Cur
<1>3. \A o : CountFor(job', Range(iocbs[q]), o) = CountFor(job, Range(iocbs[q]), o)
  <2>1. \A u \in Range(iocbs[q]) : job'[u] = job[u]
    BY <1>1
  <2> QED BY <2>1, CountSame
<1>4. \A o \in Own(q) : Begun(q, o)' = Begun(q, o)
  BY <1>2, <1>3 DEF Begun
<1>5. \A o \in Range(finished[q]) : Ended(o)' <=> Ended(o)
  BY <1>1 DEF Ended, AllStarted
<1> QED BY <1>1, <1>2, <1>4, <1>5 DEF Tidy

\* A step that moves operations between the lists and prepares and sends nothing.
LEMMA TidyMove ==
  ASSUME BookInv, NEW t \in Threads, Tidy(t),
         Apart(active'[t], finished'[t], built'[t]),
         iocbs'[t] = iocbs[t], UNCHANGED job, pc'[t] # "build",
         pc[t] = "build" => want[t] = 0,
         \A u \in Range(iocbs[t]) : job[u].oper \in Range(built'[t]),
         \A o \in Own(t) : \/ oper'[o].started = oper[o].started
                           \/ oper'[o].started = 0 /\ iocbs[t] = <<>>,
         \A o \in Range(finished'[t]) : Ended(o)',
         pc'[t] = "restart" => \A o \in Range(finished'[t]) : oper'[o].pending = 0
  PROVE  Tidy(t)'
<1> SUFFICES ASSUME NEW o \in Own(t)
             PROVE  /\ oper'[o].started >= 0
                    /\ Begun(t, o)' <= total_ios(o) \/ Begun(t, o)' = 0
  BY DEF Tidy
<1> DEFINE c == CountFor(job, Range(iocbs[t]), o)
           s == oper[o].started
           T == total_ios(o)
<1>1. o \in Opers /\ c \in Nat /\ s \in Int /\ T \in Int
  BY TidyFacts
<1>2. s >= 0 /\ (s + c + 0 <= T \/ s + c + 0 = 0)
  <2>1. (pc[t] = "build" /\ o = Cur(t)) => want[t] = 0
    OBVIOUS
  <2>2. Begun(t, o) = s + c + 0
    BY <2>1 DEF Begun
  <2> QED BY <2>2 DEF Tidy
<1>3. Begun(t, o)' = oper'[o].started + c + 0
  BY DEF Begun
<1>4. iocbs[t] = <<>> => c = 0
  <2>1. iocbs[t] = <<>> => {u \in Range(iocbs[t]) : job[u].oper = o} = {}
    BY TidyFacts
  <2> QED BY <2>1, FS_EmptySet DEF CountFor
<1> HIDE DEF c, T
<1>5. CASE oper'[o].started = s
  BY <1>2, <1>3, <1>5 DEF T
<1>6. CASE oper'[o].started = 0 /\ iocbs[t] = <<>>
  BY <1>1, <1>3, <1>4, <1>6
<1> QED BY <1>5, <1>6 DEF s

\* A step that leaves the lists and the prepared requests alone.
LEMMA TidyGo ==
  ASSUME BookInv, NEW t \in Threads, Tidy(t), StartedKept, WallKept,
         active'[t] = active[t], finished'[t] = finished[t], built'[t] = built[t],
         iocbs'[t] = iocbs[t], UNCHANGED job,
         \/ pc'[t] # "build" /\ pc[t] # "build"
         \/ pc'[t] = "build" /\ pc[t] = "build" /\ idx'[t] = idx[t] /\ want'[t] = want[t],
         pc'[t] = "restart" => \A o \in Range(finished[t]) : oper'[o].pending = 0
  PROVE  Tidy(t)'
<1>1. Range(finished[t]) \subseteq Opers /\ Own(t) \subseteq Opers
  BY TidyFacts
<1>2. \A o \in Range(finished[t]) : Ended(o)'
  BY <1>1 DEF Tidy, Ended, AllStarted, StartedKept, WallKept
<1>3. \A o \in Own(t) : oper'[o].started = oper[o].started
  BY <1>1 DEF StartedKept
<1>4. CASE pc'[t] # "build" /\ pc[t] # "build"
  BY <1>2, <1>3, <1>4, TidyMove DEF Tidy
<1>5. CASE pc'[t] = "build" /\ pc[t] = "build" /\ idx'[t] = idx[t] /\ want'[t] = want[t]
  <2>1. Cur(t)' = Cur(t)
    BY <1>5 DEF Cur
  <2>2. \A o \in Own(t) : Begun(t, o)' = Begun(t, o)
    BY <1>3, <1>5, <2>1 DEF Begun
  <2> QED BY <1>2, <1>3, <1>5, <2>1, <2>2 DEF Tidy
<1> QED BY <1>4, <1>5

\* An operation that is as it was has what it had.
LEMMA OperSame ==
  ASSUME UNCHANGED oper
  PROVE  StartedKept /\ WallKept
BY DEF StartedKept, WallKept

\* The steps of the barriers, of the walks and of the kernel.
LEMMA TidyCalm ==
  ASSUME BookInv, NEW t \in Threads, Tidy(t),
         \/ EnterStart(t) \/ WakeStart(t) \/ RunActiveList(t) \/ LoopEnds(t) \/ SkipOper(t)
         \/ EnterEnd(t) \/ WakeEnd(t) \/ Decide(t) \/ WaitDone(t) \/ KeepOper(t)
         \/ SubmitFails(t) \/ SpuriousWakeup(t)
         \/ \E u \in inflight[t] : Complete(t, u) \/ Fail(t, u)
  PROVE  Tidy(t)'
<1>0. pc \in [Threads -> Labels]
  BY ListFacts
<1>1. CASE EnterStart(t) \/ WakeStart(t) \/ LoopEnds(t) \/ EnterEnd(t) \/ WakeEnd(t) \/ Decide(t)
  <2>1. UNCHANGED <<oper, active, finished, built, iocbs, job>>
    BY <1>1 DEF EnterStart, WakeStart, LoopEnds, EnterEnd, WakeEnd, Decide, listVars, walkVars,
                unitVars
  <2>2. pc'[t] \notin {"build", "restart"} /\ pc[t] # "build"
    BY <1>0, <1>1 DEF EnterStart, WakeStart, LoopEnds, EnterEnd, WakeEnd, Decide, BeginStage, Goto
  <2> QED BY <2>1, <2>2, TidyGo, OperSame
<1>2. CASE RunActiveList(t) \/ SkipOper(t)
  <2>1. UNCHANGED <<oper, active, finished, built, iocbs, job>>
    BY <1>2 DEF RunActiveList, SkipOper, listVars, unitVars
  <2>2. pc'[t] \notin {"build", "restart"} /\ pc[t] # "build"
    BY <1>0, <1>2 DEF RunActiveList, SkipOper, Goto
  <2> QED BY <2>1, <2>2, TidyGo, OperSame
<1>3. CASE WaitDone(t) \/ KeepOper(t)
  <2>1. UNCHANGED <<oper, active, finished, built, iocbs, job>>
    BY <1>3 DEF WaitDone, KeepOper, listVars, unitVars
  <2>2. pc'[t] # "build" /\ pc[t] # "build"
    BY <1>0, <1>3 DEF WaitDone, KeepOper, Goto
  <2>3. \A o \in Range(finished[t]) : oper[o].pending = 0
    <3>1. CASE WaitDone(t)
      BY <3>1 DEF WaitDone, Drained, Range
    <3>2. CASE KeepOper(t)
      BY <3>2 DEF KeepOper, Tidy
    <3> QED BY <1>3, <3>1, <3>2
  <2> QED BY <2>1, <2>2, <2>3, TidyGo, OperSame
<1>4. CASE \/ SubmitFails(t) \/ SpuriousWakeup(t)
           \/ \E u \in inflight[t] : Complete(t, u) \/ Fail(t, u)
  <2>1. UNCHANGED <<oper, active, finished, built, iocbs, job, pc, idx, want>>
    BY <1>4 DEF SubmitFails, SpuriousWakeup, Complete, Fail, listVars, walkVars, unitVars
  <2>2. pc[t] = "restart" => \A o \in Range(finished[t]) : oper[o].pending = 0
    BY DEF Tidy
  <2> QED BY <2>1, <2>2, TidyGo, OperSame
<1> QED BY <1>1, <1>2, <1>3, <1>4

\* Reaping changes the pending counts only, and not at the restart.
LEMMA TidyReap ==
  ASSUME BookInv, NEW t \in Threads, Tidy(t), ReadSomeEvents(t) \/ IoOperWait(t)
  PROVE  Tidy(t)'
<1>0. pc \in [Threads -> Labels]
  BY ListFacts
<1>1. StartedKept /\ WallKept
  <2>1. ~StonewallHead(t) /\ ~Submit(t)
    BY <1>0 DEF ReadSomeEvents, IoOperWait, StonewallHead, Submit
  <2> QED BY <2>1, StagesSame
<1>2. UNCHANGED <<active, finished, built, iocbs, job, idx, want>>
  BY DEF ReadSomeEvents, IoOperWait, listVars, walkVars
<1>3. /\ pc'[t] # "restart"
      /\ \/ pc'[t] # "build" /\ pc[t] # "build"
         \/ pc'[t] = "build" /\ pc[t] = "build"
  BY <1>0 DEF ReadSomeEvents, IoOperWait, Goto
<1> QED BY <1>1, <1>2, <1>3, TidyGo

\* The stonewall cuts off the head of the active list.
LEMMA TidyStonewall ==
  ASSUME BookInv, NEW t \in Threads, Tidy(t), StonewallHead(t)
  PROVE  Tidy(t)'
<1> DEFINE o == Head(active[t])
           a == Tail(active[t])
           f == Append(finished[t], o)
<1>1. /\ pc[t] = "loop" /\ active[t] # <<>> /\ UNCHANGED <<pc, built, iocbs, job>>
      /\ finished' = [finished EXCEPT ![t] = f] /\ active' = [active EXCEPT ![t] = a]
      /\ oper' = [oper EXCEPT ![o].stonewalled = TRUE]
  BY DEF StonewallHead, walkVars, unitVars
<1>2. /\ active[t] \in Seq(Own(t)) /\ finished[t] \in Seq(Own(t))
      /\ active \in [Threads -> Seq(Opers)] /\ finished \in [Threads -> Seq(Opers)]
      /\ oper \in [Opers -> OperRec] /\ Own(t) \subseteq Opers
  BY ListFacts DEF BookInv, Types
<1>3. Apart(active[t], finished[t], built[t])
  BY DEF Tidy
<1>4. /\ o \in Own(t) /\ o \in Range(active[t]) /\ Once(a)
      /\ Range(a) = Range(active[t]) \ {o}
  BY <1>1, <1>2, <1>3, OnList, ListEnds DEF Apart
<1>5. o \notin Range(finished[t])
  BY <1>3, <1>4 DEF Apart
<1> HIDE DEF o
<1>6. Once(f) /\ Range(f) = Range(finished[t]) \cup {o}
  BY <1>2, <1>3, <1>4, <1>5, OnceAppend DEF Apart
<1> HIDE DEF a, f
<1>7. active'[t] = a /\ finished'[t] = f /\ built'[t] = built[t] /\ iocbs'[t] = iocbs[t]
  BY <1>1, <1>2
<1>8. Apart(a, f, built[t])
  BY <1>3, <1>4, <1>6 DEF Apart
<1>9. StartedKept
  <2>1. ~Submit(t)
    BY <1>1 DEF Submit
  <2> QED BY <2>1, StagesSame
<1>10. oper'[o].stonewalled /\ \A p \in Opers \ {o} : oper'[p] = oper[p]
  <2> DEFINE r == [oper[o] EXCEPT !.stonewalled = TRUE]
  <2>1. r.stonewalled
    BY <1>2, <1>4 DEF OperRec
  <2>2. oper' = [oper EXCEPT ![o] = r]
    BY <1>1
  <2> HIDE DEF r
  <2> QED BY <1>2, <1>4, <2>1, <2>2
<1>11. \A p \in Range(f) : Ended(p)'
  <2>1. Range(finished[t]) \subseteq Opers
    BY TidyFacts
  <2>2. \A p \in Range(finished[t]) : Ended(p) /\ oper'[p] = oper[p]
    BY <1>5, <1>10, <2>1 DEF Tidy
  <2> QED BY <1>6, <1>10, <2>2 DEF Ended, AllStarted
<1>12. \A u \in Range(iocbs[t]) : job[u].oper \in Range(built[t])
  BY <1>1 DEF Tidy
<1>13. \A p \in Own(t) : oper'[p].started = oper[p].started
  BY <1>2, <1>9 DEF StartedKept
<1> QED BY <1>1, <1>7, <1>8, <1>11, <1>12, <1>13, TidyMove

\* An operation goes over to the built list with its requests.
LEMMA TidyBuilt ==
  ASSUME BookInv, NEW t \in Threads, Tidy(t), OperBuilt(t)
  PROVE  Tidy(t)'
<1> DEFINE o == Cur(t)
           a == RemoveAt(active[t], idx[t])
           b == Append(built[t], o)
<1>1. /\ pc[t] = "build" /\ want[t] = 0 /\ UNCHANGED <<oper, finished, iocbs, job>>
      /\ active' = [active EXCEPT ![t] = a] /\ built' = [built EXCEPT ![t] = b]
  BY DEF OperBuilt, unitVars
<1>2. /\ active[t] \in Seq(Own(t)) /\ built[t] \in Seq(Own(t)) /\ pc \in [Threads -> Labels]
      /\ active \in [Threads -> Seq(Opers)] /\ built \in [Threads -> Seq(Opers)]
  BY ListFacts DEF BookInv, Types
<1>3. Apart(active[t], finished[t], built[t]) /\ idx[t] \in 1 .. Len(active[t])
  BY <1>1 DEF Tidy, BookInv, Book, Lists
<1>4. o \in Own(t) /\ o \in Range(active[t]) /\ Once(a) /\ Range(a) = Range(active[t]) \ {o}
  <2>1. Once(a) /\ Range(a) = Range(active[t]) \ {active[t][idx[t]]}
    BY <1>2, <1>3, OnRemove DEF Apart
  <2>2. active[t][idx[t]] \in Own(t) /\ active[t][idx[t]] \in Range(active[t])
    BY <1>2, <1>3, OnList
  <2> QED BY <2>1, <2>2 DEF Cur
<1> HIDE DEF o
<1>5. Once(b) /\ Range(b) = Range(built[t]) \cup {o}
  BY <1>2, <1>3, <1>4, OnceAppend DEF Apart
<1> HIDE DEF a, b
<1>6. active'[t] = a /\ built'[t] = b /\ finished'[t] = finished[t] /\ iocbs'[t] = iocbs[t]
  BY <1>1, <1>2
<1>7. Apart(a, finished[t], b)
  BY <1>3, <1>4, <1>5 DEF Apart
<1>8. pc'[t] \in {"submit", "scan"}
  <2>1. \E l \in {"submit", "scan"} : pc' = [pc EXCEPT ![t] = l]
    BY DEF OperBuilt, Goto
  <2> QED BY <1>2, <2>1
<1>9. \A u \in Range(iocbs[t]) : job[u].oper \in Range(b)
  BY <1>5 DEF Tidy, o
<1>10. \A p \in Range(finished[t]) : Ended(p)'
  BY <1>1 DEF Tidy, Ended, AllStarted
<1> QED BY <1>1, <1>6, <1>7, <1>8, <1>9, <1>10, TidyMove

\* run_active_list() returns with nothing prepared.
LEMMA TidyNothing ==
  ASSUME BookInv, NEW t \in Threads, Tidy(t), SubmitNothing(t)
  PROVE  Tidy(t)'
<1>1. /\ pc[t] = "submit" /\ iocbs[t] = <<>> /\ UNCHANGED <<oper, active, finished, iocbs, job>>
      /\ built' = [built EXCEPT ![t] = <<>>] /\ pc' = [pc EXCEPT ![t] = "loop"]
  BY DEF SubmitNothing, unitVars, walkVars, Goto
<1>2. built \in [Threads -> Seq(Opers)] /\ pc \in [Threads -> Labels]
  BY DEF BookInv, Types
<1>3. built'[t] = <<>> /\ pc'[t] = "loop" /\ Range(<<>>) = {}
  BY <1>1, <1>2, TidyFacts
<1>4. Once(<<>>)
  BY DEF Once
<1>5. Apart(active[t], finished[t], <<>>)
  BY <1>3, <1>4 DEF Tidy, Apart
<1>6. \A p \in Range(finished[t]) : Ended(p)'
  BY <1>1 DEF Tidy, Ended, AllStarted
<1> QED BY <1>1, <1>3, <1>5, <1>6, TidyMove

\* An operation of the built list has ended its stage or is active again.
LEMMA TidyRequeue ==
  ASSUME BookInv, NEW t \in Threads, Tidy(t), Requeue(t)
  PROVE  Tidy(t)'
<1> DEFINE o == Head(built[t])
           b == Tail(built[t])
           a == Append(active[t], o)
           f == Append(finished[t], o)
<1>1. pc[t] = "requeue" /\ UNCHANGED <<oper, iocbs, job>>
  BY DEF Requeue, unitVars, walkVars
<1>2. /\ active[t] \in Seq(Own(t)) /\ built[t] \in Seq(Own(t)) /\ finished[t] \in Seq(Own(t))
      /\ active \in [Threads -> Seq(Opers)] /\ built \in [Threads -> Seq(Opers)]
      /\ finished \in [Threads -> Seq(Opers)] /\ pc \in [Threads -> Labels]
  BY ListFacts DEF BookInv, Types
<1>3. Apart(active[t], finished[t], built[t]) /\ iocbs[t] = <<>> /\ Range(<<>>) = {}
  BY <1>1, TidyFacts DEF Tidy, BookInv, Book, Prepared, Sending
<1>4. CASE built[t] = <<>>
  <2>1. pc' = [pc EXCEPT ![t] = "loop"] /\ UNCHANGED <<active, finished, built>>
    BY <1>4 DEF Requeue, Goto, listVars
  <2>2. pc'[t] = "loop"
    BY <1>2, <2>1
  <2> QED BY <1>1, <2>1, <2>2, TidyGo, OperSame
<1>5. CASE built[t] # <<>>
  <2>1. pc' = pc /\ built' = [built EXCEPT ![t] = b]
    BY <1>5 DEF Requeue
  <2>2. \/ finished' = [finished EXCEPT ![t] = f] /\ active' = active /\ AllStarted(o)
        \/ active' = [active EXCEPT ![t] = a] /\ finished' = finished
    BY <1>5 DEF Requeue
  <2>3. /\ o \in Own(t) /\ o \in Range(built[t]) /\ Once(b)
        /\ Range(b) = Range(built[t]) \ {o}
    BY <1>2, <1>3, <1>5, OnList, ListEnds DEF Apart
  <2>4. o \notin Range(active[t]) /\ o \notin Range(finished[t])
    BY <1>3, <2>3 DEF Apart
  <2> HIDE DEF o
  <2>5. /\ Once(a) /\ Range(a) = Range(active[t]) \cup {o}
        /\ Once(f) /\ Range(f) = Range(finished[t]) \cup {o}
    BY <1>2, <1>3, <2>3, <2>4, OnceAppend DEF Apart
  <2> HIDE DEF a, b, f
  <2>6. Apart(active[t], f, b) /\ Apart(a, finished[t], b)
    BY <1>3, <2>3, <2>5 DEF Apart
  <2>7. /\ pc'[t] = "requeue" /\ built'[t] = b
        /\ \/ finished'[t] = f /\ active'[t] = active[t] /\ AllStarted(o)
           \/ active'[t] = a /\ finished'[t] = finished[t]
    BY <1>1, <1>2, <2>1, <2>2
  <2>8. \A p \in Range(finished'[t]) : Ended(p)'
    <3>1. \A p : Ended(p)' <=> Ended(p)
      BY <1>1 DEF Ended, AllStarted
    <3>2. \A p \in Range(finished[t]) : Ended(p)
      BY DEF Tidy
    <3>3. AllStarted(o) => Ended(o)
      BY DEF Ended
    <3> QED BY <2>5, <2>7, <3>1, <3>2, <3>3
  <2>9. Apart(active'[t], finished'[t], built'[t])
    BY <2>6, <2>7
  <2>10. iocbs'[t] = iocbs[t] /\ \A u \in Range(iocbs[t]) : FALSE
    BY <1>1, <1>3
  <2> QED BY <1>1, <2>7, <2>8, <2>9, <2>10, TidyMove
<1> QED BY <1>4, <1>5

\* restart_oper() begins a new stage of the operation.
LEMMA TidyRestart ==
  ASSUME BookInv, NEW t \in Threads, Tidy(t), RestartOper(t)
  PROVE  Tidy(t)'
<1> DEFINE o == finished[t][idx[t]]
           f == RemoveAt(finished[t], idx[t])
           a == Append(active[t], o)
           r == [oper[o] EXCEPT !.started = 0, !.offset = StartOf(o), !.stonewalled = FALSE,
                                !.rw = Min(LaterStages(o))]
<1>1. /\ pc[t] = "restart" /\ UNCHANGED <<built, iocbs, job>>
      /\ finished' = [finished EXCEPT ![t] = f] /\ active' = [active EXCEPT ![t] = a]
      /\ oper' = [oper EXCEPT ![o] = r]
  BY DEF RestartOper, unitVars
<1>2. /\ active[t] \in Seq(Own(t)) /\ finished[t] \in Seq(Own(t)) /\ pc \in [Threads -> Labels]
      /\ active \in [Threads -> Seq(Opers)] /\ finished \in [Threads -> Seq(Opers)]
      /\ oper \in [Opers -> OperRec] /\ Own(t) \subseteq Opers
  BY ListFacts DEF BookInv, Types
<1>3. /\ Apart(active[t], finished[t], built[t]) /\ idx[t] \in 1 .. Len(finished[t])
      /\ iocbs[t] = <<>> /\ Range(<<>>) = {}
  BY <1>1, TidyFacts DEF Tidy, BookInv, Book, Lists, Prepared, Sending
<1>4. /\ o \in Own(t) /\ o \in Range(finished[t]) /\ Once(f)
      /\ Range(f) = Range(finished[t]) \ {o}
  BY <1>2, <1>3, OnRemove, OnList DEF Apart
<1>5. pc'[t] \in {"end", "restart"}
  <2>1. \E l \in {"end", "restart"} : pc' = [pc EXCEPT ![t] = l]
    BY DEF RestartOper, Goto
  <2> QED BY <1>2, <2>1
<1> HIDE DEF o
<1>6. o \notin Range(active[t]) /\ o \notin Range(built[t])
  BY <1>3, <1>4 DEF Apart
<1>7. Once(a) /\ Range(a) = Range(active[t]) \cup {o}
  BY <1>2, <1>3, <1>4, <1>6, OnceAppend DEF Apart
<1>8. r.started = 0
  BY <1>2, <1>4 DEF OperRec
<1> HIDE DEF a, f, r
<1>9. active'[t] = a /\ finished'[t] = f /\ built'[t] = built[t] /\ iocbs'[t] = iocbs[t]
  BY <1>1, <1>2
<1>10. Apart(a, f, built[t])
  BY <1>3, <1>4, <1>6, <1>7 DEF Apart
<1>11. oper'[o].started = 0 /\ \A p \in Opers \ {o} : oper'[p] = oper[p]
  BY <1>1, <1>2, <1>4, <1>8
<1>12. \A p \in Range(f) : Ended(p)' /\ oper'[p].pending = 0
  <2>1. \A p \in Range(f) : Ended(p) /\ oper[p].pending = 0 /\ oper'[p] = oper[p]
    BY <1>1, <1>4, <1>11, TidyFacts DEF Tidy
  <2> QED BY <2>1 DEF Ended, AllStarted
<1>13. \A p \in Own(t) : \/ oper'[p].started = oper[p].started
                         \/ oper'[p].started = 0 /\ iocbs[t] = <<>>
  BY <1>2, <1>3, <1>11
<1>14. \A u \in Range(iocbs[t]) : FALSE
  BY <1>3
<1> QED BY <1>1, <1>5, <1>9, <1>10, <1>12, <1>13, <1>14, TidyMove

\* finish_oper() takes an operation off the finished list.
LEMMA TidyFinish ==
  ASSUME BookInv, NEW t \in Threads, Tidy(t), FinishOper(t)
  PROVE  Tidy(t)'
<1>1. /\ pc[t] = "free" /\ UNCHANGED <<oper, active, built, iocbs, job>>
  BY DEF FinishOper, unitVars, walkVars
<1>2. /\ finished \in [Threads -> Seq(Opers)] /\ finished[t] \in Seq(Own(t))
      /\ pc \in [Threads -> Labels]
  BY ListFacts DEF BookInv, Types
<1>3. pc'[t] \in {"free", "exit"}
  BY <1>1, <1>2 DEF FinishOper, Goto
<1>4. finished'[t] = finished[t] \/ (finished[t] # <<>> /\ finished'[t] = Tail(finished[t]))
  BY <1>2 DEF FinishOper
<1>5. Apart(active[t], finished[t], built[t])
  BY DEF Tidy
<1>6. Once(finished'[t]) /\ Range(finished'[t]) \subseteq Range(finished[t])
  <2>1. finished[t] # <<>> => /\ Once(Tail(finished[t]))
                              /\ Range(Tail(finished[t])) \subseteq Range(finished[t])
    BY <1>2, <1>5, OnList DEF Apart
  <2> QED BY <1>4, <1>5, <2>1 DEF Apart
<1>7. Apart(active'[t], finished'[t], built'[t])
  BY <1>1, <1>5, <1>6 DEF Apart
<1>8. \A p \in Range(finished'[t]) : Ended(p)'
  BY <1>1, <1>6 DEF Tidy, Ended, AllStarted
<1>9. \A u \in Range(iocbs[t]) : job[u].oper \in Range(built'[t])
  BY <1>1 DEF Tidy
<1> QED BY <1>1, <1>3, <1>7, <1>8, <1>9, TidyMove

\* build_oper() takes no more than the operation has left.
LEMMA TidyChunk ==
  ASSUME BookInv, NEW t \in Threads, Tidy(t), BuildOper(t)
  PROVE  Tidy(t)'
<1> DEFINE o == Cur(t)
           w == ChunkSize(o)
<1>1. /\ pc[t] = "scan" /\ UNCHANGED <<oper, active, finished, built, iocbs, job, idx>>
      /\ IF w < 0 THEN pc' = [pc EXCEPT ![t] = "submit"]
                  ELSE pc' = [pc EXCEPT ![t] = "build"] /\ want' = [want EXCEPT ![t] = w]
  BY DEF BuildOper, Goto, listVars, unitVars
<1>2. pc \in [Threads -> Labels] /\ want \in [Threads -> Int] /\ active[t] \in Seq(Own(t))
  BY ListFacts DEF BookInv, Types
<1>3. CASE w < 0
  <2>1. pc'[t] = "submit"
    BY <1>1, <1>2, <1>3
  <2> QED BY <1>1, <2>1, TidyGo, OperSame
<1>4. CASE ~(w < 0)
  <2>1. pc'[t] = "build" /\ want'[t] = w /\ Cur(t)' = o
    BY <1>1, <1>2, <1>4 DEF Cur
  <2>2. idx[t] \in 1 .. Len(active[t])
    BY <1>1 DEF BookInv, Book, Lists
  <2>3. o \in Own(t) /\ o \in Range(active[t]) /\ o \in Opers
    <3>1. active[t][idx[t]] \in Own(t) /\ active[t][idx[t]] \in Range(active[t])
      BY <1>2, <2>2, OnList
    <3> QED BY <3>1, TidyFacts DEF Cur
  <2>4. \A u \in Range(iocbs[t]) : job[u].oper \in Range(built[t])
    BY <1>1 DEF Tidy
  <2>5. CountFor(job, Range(iocbs[t]), o) = 0
    <3>1. Range(active[t]) \cap Range(built[t]) = {}
      BY DEF Tidy, Apart
    <3>2. {u \in Range(iocbs[t]) : job[u].oper = o} = {}
      BY <2>3, <2>4, <3>1
    <3> QED BY <3>2, FS_EmptySet DEF CountFor
  <2>6. w \in Int /\ w <= total_ios(o) - oper[o].started
    <3>1. oper[o].started \in Int /\ total_ios(o) \in Int /\ io_iter \in Int
      BY <2>3, TidyFacts, Options
    <3> QED BY <3>1 DEF ChunkSize, MinOf
  <2> HIDE DEF o, w
  <2>7. ASSUME NEW p \in Own(t), p = o PROVE Begun(t, p)' <= total_ios(p)
    <3>1. Begun(t, p)' = oper[p].started + 0 + w
      BY <1>1, <2>1, <2>5, <2>7 DEF Begun
    <3>2. oper[p].started \in Int /\ total_ios(p) \in Int
      BY TidyFacts
    <3> QED BY <2>6, <2>7, <3>1, <3>2
  <2>8. \A p \in Own(t) : p # o => Begun(t, p)' = Begun(t, p)
    BY <1>1, <2>1 DEF Begun
  <2>9. \A p \in Own(t) : /\ oper'[p].started >= 0
                          /\ Begun(t, p)' <= total_ios(p) \/ Begun(t, p)' = 0
    BY <1>1, <2>7, <2>8 DEF Tidy
  <2>10. \A p \in Range(finished[t]) : Ended(p)'
    BY <1>1 DEF Tidy, Ended, AllStarted
  <2> QED BY <1>1, <2>1, <2>4, <2>9, <2>10 DEF Tidy
<1> QED BY <1>3, <1>4

\* build_iocb() prepares one of them.
LEMMA TidyIocb ==
  ASSUME BookInv, NEW t \in Threads, Tidy(t), BuildIocb(t)
  PROVE  Tidy(t)'
<1> DEFINE o == Cur(t)
           u == CHOOSE v \in free[t] : \A w \in free[t] : v[2] <= w[2]
           s == Append(iocbs[t], u)
<1>1. /\ pc[t] = "build" /\ free[t] # {} /\ UNCHANGED <<pc, active, finished, built, idx>>
      /\ iocbs' = [iocbs EXCEPT ![t] = s] /\ want' = [want EXCEPT ![t] = want[t] - 1]
  BY DEF BuildIocb, listVars
<1>2. PICK x : job' = [job EXCEPT ![u] = [oper |-> o, offset |-> x]]
  BY DEF BuildIocb
<1>3. /\ Split(UnitsOf(t), free[t], iocbs[t], inflight[t], done[t])
      /\ want \in [Threads -> Int] /\ iocbs \in [Threads -> Seq(Units)]
      /\ job \in [Units -> JobRec]
  BY UnitFacts DEF BookInv, Types
<1>4. u \in free[t] /\ u \in UnitsOf(t) /\ u \in Units /\ u \notin Range(iocbs[t])
  <2>1. free[t] \in SUBSET UnitsOf(t)
    BY <1>3 DEF Split
  <2>2. u \in free[t]
    BY <1>1, <2>1, FreeUnit
  <2> HIDE DEF u
  <2> QED BY <1>3, <2>1, <2>2, UnitsAre DEF Split
<1> HIDE DEF u
<1>5. Range(s) = Range(iocbs[t]) \cup {u}
  BY <1>3, <1>4, OnceAppend DEF Split
<1>6. StartedKept /\ WallKept
  <2>1. ~StonewallHead(t) /\ ~Submit(t)
    BY <1>1 DEF StonewallHead, Submit
  <2> QED BY <2>1, StagesSame
<1>7. Cur(t)' = o
  BY <1>1 DEF Cur
<1> HIDE DEF o, s
<1>8. iocbs'[t] = s /\ want'[t] = want[t] - 1 /\ want[t] \in Int
  BY <1>1, <1>3
<1>9. /\ job'[u].oper = o /\ \A v \in Range(iocbs[t]) : job'[v] = job[v]
  <2>1. Range(iocbs[t]) \subseteq Units
    BY TidyFacts
  <2> QED BY <1>2, <1>3, <1>4, <2>1
<1>10. \A v \in Range(s) : job'[v].oper \in Range(built[t]) \/ job'[v].oper = o
  BY <1>5, <1>9 DEF Tidy, o
<1>11. ASSUME NEW p \in Own(t)
       PROVE  Begun(t, p)' = Begun(t, p)
  <2> DEFINE R == Range(iocbs[t])
             c == CountFor(job, R, p)
             n == IF p = o THEN 1 ELSE 0
             b == oper[p].started
  <2>1. IsFiniteSet(R) /\ c \in Nat /\ b \in Int /\ p \in Opers
    BY TidyFacts
  <2>2. CountFor(job', R, p) = c
    BY <1>9, CountSame
  <2>3. CountFor(job', {u}, p) = n
    <3>1. CASE p = o
      <4>1. {v \in {u} : job'[v].oper = p} = {u}
        BY <1>9, <3>1
      <4> QED BY <3>1, <4>1, FS_Singleton DEF CountFor
    <3>2. CASE p # o
      <4>1. {v \in {u} : job'[v].oper = p} = {}
        BY <1>9, <3>2
      <4> QED BY <3>2, <4>1, FS_EmptySet DEF CountFor
    <3> QED BY <3>1, <3>2
  <2>4. CountFor(job', R \cup {u}, p) = c + n
    <3>1. IsFiniteSet({u}) /\ {u} \cap R = {}
      BY <1>4, FS_Singleton
    <3> HIDE DEF R
    <3>2. CountFor(job', R \cup {u}, p) = CountFor(job', R, p) + CountFor(job', {u}, p)
      BY <2>1, <3>1, CountPlus
    <3> QED BY <2>2, <2>3, <3>2
  <2>5. Begun(t, p)' = b + (c + n) + (IF p = o THEN want[t] - 1 ELSE 0)
    <3>1. oper'[p].started = b
      BY <1>6, <2>1 DEF StartedKept
    <3>2. CountFor(job', Range(iocbs'[t]), p) = c + n
      BY <1>5, <1>8, <2>4
    <3> HIDE DEF c, n, b
    <3> QED BY <1>1, <1>7, <1>8, <3>1, <3>2 DEF Begun
  <2>6. Begun(t, p) = b + c + (IF p = o THEN want[t] ELSE 0)
    BY <1>1 DEF Begun, o
  <2> HIDE DEF c, b
  <2> QED BY <1>8, <2>1, <2>5, <2>6
<1>12. \A p \in Own(t) : oper'[p].started = oper[p].started
  BY <1>6, TidyFacts DEF StartedKept
<1>13. \A p \in Range(finished[t]) : Ended(p)'
  BY <1>6, TidyFacts DEF Tidy, Ended, AllStarted, StartedKept, WallKept
<1> QED BY <1>1, <1>7, <1>8, <1>10, <1>11, <1>12, <1>13 DEF Tidy

\* io_submit counts as started what was prepared.
LEMMA TidySubmit ==
  ASSUME BookInv, NEW t \in Threads, Tidy(t), Submit(t)
  PROVE  Tidy(t)'
<1> DEFINE n == Len(iocbs[t])
           k == MinOf(n, QueueDepth - Cardinality(inflight[t] \cup done[t]))
           took == SubSeq(iocbs[t], 1, k)
           S == Range(took)
           s == SubSeq(iocbs[t], k + 1, n)
           r(o) == [oper[o] EXCEPT !.pending = oper[o].pending + CountFor(job, S, o),
                                   !.started = oper[o].started + CountFor(job, S, o)]
<1>1. /\ pc[t] = "submit" /\ UNCHANGED <<active, finished, built, job>>
      /\ iocbs' = [iocbs EXCEPT ![t] = s] /\ oper' = [o \in Opers |-> r(o)]
  BY DEF Submit, listVars, UnitsFor, CountFor
<1>2. /\ Split(UnitsOf(t), free[t], iocbs[t], inflight[t], done[t]) /\ n \in Nat
      /\ iocbs \in [Threads -> Seq(Units)] /\ oper \in [Opers -> OperRec]
      /\ pc \in [Threads -> Labels]
  BY UnitFacts, ListLengths DEF BookInv, Types
<1>3. pc'[t] \in {"requeue", "eagain"}
  <2>1. \E l \in {"requeue", "eagain"} : pc' = [pc EXCEPT ![t] = l]
    BY DEF Submit, Goto
  <2> QED BY <1>2, <2>1
<1>4. k \in 0 .. n
  <2>1. Cardinality(Out(t)) \in Nat /\ Cardinality(Out(t)) <= QueueDepth /\ QueueDepth \in Nat
    BY UnitFacts, FS_CardinalityType, Options DEF BookInv, Book, Counted
  <2>2. QueueDepth - Cardinality(inflight[t] \cup done[t]) \in Nat
    BY <2>1 DEF Out
  <2> HIDE DEF n
  <2> QED BY <1>2, <2>2 DEF MinOf
<1> HIDE DEF k
<1>5. /\ S \cup Range(s) = Range(iocbs[t]) /\ S \cap Range(s) = {}
  <2> DEFINE x == iocbs[t]
             U == UnitsOf(t)
  <2>1. x \in Seq(U) /\ Once(x) /\ k \in 0 .. Len(x)
    BY <1>2, <1>4 DEF Split
  <2> HIDE DEF x, U
  <2>2. /\ Range(SubSeq(x, 1, k)) \cup Range(SubSeq(x, k + 1, Len(x))) = Range(x)
        /\ Range(SubSeq(x, 1, k)) \cap Range(SubSeq(x, k + 1, Len(x))) = {}
    BY <2>1, OnceSplit
  <2> QED BY <2>2 DEF x
<1> HIDE DEF s, S, n
<1>6. iocbs'[t] = s
  BY <1>1, <1>2
<1>7. IsFiniteSet(S) /\ IsFiniteSet(Range(s)) /\ Range(iocbs[t]) \subseteq UnitsOf(t)
  BY <1>5, TidyFacts, FS_Subset
<1>8. ASSUME NEW o \in Opers
      PROVE  /\ CountFor(job, S, o) \in Nat /\ CountFor(job, Range(s), o) \in Nat
             /\ CountFor(job, Range(iocbs[t]), o)
                  = CountFor(job, Range(s), o) + CountFor(job, S, o)
             /\ oper[o].started \in Int
             /\ oper'[o].started = oper[o].started + CountFor(job, S, o)
             /\ oper'[o].stonewalled = oper[o].stonewalled
  <2> DEFINE p == oper[o].pending + CountFor(job, S, o)
             q == oper[o].started + CountFor(job, S, o)
  <2>1. CountFor(job, S, o) \in Nat /\ CountFor(job, Range(s), o) \in Nat
    BY <1>7, CountType
  <2>2. CountFor(job, Range(s) \cup S, o) = CountFor(job, Range(s), o) + CountFor(job, S, o)
    BY <1>5, <1>7, CountPlus
  <2>3. Range(s) \cup S = Range(iocbs[t])
    BY <1>5
  <2>4. oper[o] \in OperRec /\ r(o) = [oper[o] EXCEPT !.pending = p, !.started = q]
    BY <1>2
  <2>5. oper'[o] = r(o)
    BY <1>1
  <2> HIDE DEF r, p, q
  <2>6. r(o).started = q /\ r(o).stonewalled = oper[o].stonewalled /\ oper[o].started \in Int
    BY <2>4 DEF OperRec
  <2> QED BY <2>1, <2>2, <2>3, <2>5, <2>6 DEF q
<1> HIDE DEF r
<1>9. \A u \in Range(iocbs[t]) : job[u].oper \in Range(built[t])
  BY <1>1 DEF Tidy
<1>10. ASSUME NEW o \in Own(t)
       PROVE  /\ oper'[o].started >= 0
              /\ Begun(t, o)' <= total_ios(o) \/ Begun(t, o)' = 0
  <2> DEFINE a == oper[o].started
             b == CountFor(job, Range(s), o)
             c == CountFor(job, S, o)
             z == oper'[o].started
             T == total_ios(o)
  <2>1. o \in Opers
    BY TidyFacts
  <2>2. /\ c \in Nat /\ b \in Nat /\ a \in Int /\ z = a + c
        /\ CountFor(job, Range(iocbs[t]), o) = b + c
    BY <1>8, <2>1
  <2>3. a >= 0 /\ (Begun(t, o) <= T \/ Begun(t, o) = 0)
    BY DEF Tidy
  <2>4. Begun(t, o) = a + (b + c) + 0
    BY <1>1, <2>2 DEF Begun
  <2>5. Begun(t, o)' = z + b + 0
    BY <1>1, <1>3, <1>6 DEF Begun
  <2> HIDE DEF a, b, c, z, T
  <2>6. z >= 0 /\ z + b + 0 = a + (b + c) + 0
    BY <2>2, <2>3
  <2>7. Begun(t, o)' = Begun(t, o)
    BY <2>4, <2>5, <2>6
  <2> QED BY <2>3, <2>6, <2>7 DEF T, z
<1>11. \A o \in Range(finished[t]) : Ended(o)'
  <2> SUFFICES ASSUME NEW o \in Range(finished[t]) PROVE Ended(o)'
    OBVIOUS
  <2>1. o \in Opers /\ Ended(o)
    BY TidyFacts DEF Tidy
  <2>2. o \notin Range(built[t])
    BY DEF Tidy, Apart
  <2>3. {u \in S : job[u].oper = o} = {}
    BY <1>5, <1>9, <2>2
  <2>4. CountFor(job, S, o) = 0
    BY <2>3, FS_EmptySet DEF CountFor
  <2>5. oper'[o].started = oper[o].started /\ oper'[o].stonewalled = oper[o].stonewalled
    BY <1>8, <2>1, <2>4
  <2> QED BY <2>1, <2>5 DEF Ended, AllStarted
<1>12. \A u \in Range(s) : job'[u].oper \in Range(built[t])
  BY <1>1, <1>5, <1>9
<1> QED BY <1>1, <1>3, <1>6, <1>10, <1>11, <1>12 DEF Tidy

\* Initially all operations are active, each once.
LEMMA TidyInit ==
  ASSUME Init
  PROVE  TidyInv
<1>1. BookInv /\ AheadInv
  BY BookInit, AheadInit
<1> SUFFICES ASSUME NEW t \in Threads PROVE Tidy(t)
  BY DEF TidyInv
<1>2. /\ active[t] = OpersOf(t) /\ finished[t] = <<>> /\ built[t] = <<>> /\ iocbs[t] = <<>>
      /\ pc[t] = "start" /\ Range(<<>>) = {}
  BY <1>1, TidyFacts DEF Init
<1>3. \A o \in Opers : oper[o].started = 0
  BY DEF Init
<1>4. Once(OpersOf(t))
  <2> DEFINE n == num_threads
             m == (NumFiles * NumContexts - 1 - t) \div n + 1
  <2>1. n \in Nat \ {0} /\ t \in Int
    BY Options DEF Threads
  <2>2. OpersOf(t) \in Seq(Own(t)) /\ DOMAIN OpersOf(t) = 1 .. m
    BY Dealt DEF OpersOf
  <2>3. Len(OpersOf(t)) \in Nat /\ DOMAIN OpersOf(t) = 1 .. Len(OpersOf(t))
    BY <2>2, LenProperties
  <2>4. \A k \in DOMAIN OpersOf(t) : OpersOf(t)[k] = t + (k - 1) * n
    BY DEF OpersOf
  <2> HIDE DEF n
  <2> SUFFICES ASSUME NEW i \in 1 .. Len(OpersOf(t)), NEW j \in 1 .. Len(OpersOf(t)),
                      OpersOf(t)[i] = OpersOf(t)[j]
               PROVE  i = j
    BY DEF Once
  <2>5. i \in Int /\ j \in Int /\ t + (i - 1) * n = t + (j - 1) * n
    BY <2>3, <2>4
  <2>6. (i - 1) * n = (j - 1) * n
    <3> DEFINE x == (i - 1) * n
               y == (j - 1) * n
    <3>1. x \in Int /\ y \in Int
      BY <2>1, <2>5
    <3> HIDE DEF x, y
    <3>2. t + x = t + y => x = y
      BY <2>1, <3>1
    <3> QED BY <2>5, <3>2 DEF x, y
  <2> QED BY <2>1, <2>5, <2>6
<1>5. Apart(active[t], finished[t], built[t])
  <2>1. Once(<<>>)
    BY DEF Once
  <2> QED BY <1>2, <1>4, <2>1 DEF Apart
<1>6. \A o \in Own(t) : Begun(t, o) = 0
  <2> SUFFICES ASSUME NEW o \in Own(t) PROVE Begun(t, o) = 0
    OBVIOUS
  <2>1. {u \in Range(iocbs[t]) : job[u].oper = o} = {}
    BY <1>2
  <2>2. CountFor(job, Range(iocbs[t]), o) = 0
    BY <2>1, FS_EmptySet DEF CountFor
  <2>3. oper[o].started = 0
    BY <1>1, <1>3, TidyFacts
  <2> QED BY <1>2, <2>2, <2>3 DEF Begun
<1>7. \A o \in Own(t) : oper[o].started >= 0
  BY <1>1, <1>3, TidyFacts
<1> QED BY <1>2, <1>5, <1>6, <1>7 DEF Tidy

\* Every step keeps the stages apart.
LEMMA TidyStep ==
  ASSUME BookInv, TidyInv, [Next]_vars
  PROVE  TidyInv'
<1>1. CASE UNCHANGED vars
  <2>1. UNCHANGED <<pc, oper, active, finished, built, idx, want, iocbs, job>>
    BY <1>1 DEF vars, listVars, walkVars, unitVars
  <2> QED BY <2>1, TidyOther DEF TidyInv
<1>2. ASSUME NEW t \in Threads,
             ThreadStep(t) \/ Kernel(t) \/ SubmitFails(t) \/ SpuriousWakeup(t)
      PROVE  TidyInv'
  <2>1. Keeps(t) /\ \A q \in Threads : Tidy(q)
    BY <1>2, OwnSteps DEF TidyInv
  <2>2. Tidy(t)'
    <3>1. CASE ThreadStep(t)
      <4>1. CASE \/ EnterStart(t) \/ WakeStart(t) \/ RunActiveList(t) \/ LoopEnds(t)
                 \/ SkipOper(t) \/ EnterEnd(t) \/ WakeEnd(t) \/ Decide(t) \/ WaitDone(t)
                 \/ KeepOper(t)
        BY <2>1, <4>1, TidyCalm
      <4>2. CASE StonewallHead(t) \/ OperBuilt(t) \/ SubmitNothing(t) \/ Requeue(t)
        BY <2>1, <4>2, TidyStonewall, TidyBuilt, TidyNothing, TidyRequeue
      <4>3. CASE RestartOper(t) \/ FinishOper(t) \/ ReadSomeEvents(t) \/ IoOperWait(t)
        BY <2>1, <4>3, TidyRestart, TidyFinish, TidyReap
      <4>4. CASE BuildOper(t) \/ BuildIocb(t) \/ Submit(t)
        BY <2>1, <4>4, TidyChunk, TidyIocb, TidySubmit
      <4> QED BY <3>1, <4>1, <4>2, <4>3, <4>4 DEF ThreadStep, WorkerStep
    <3>2. CASE Kernel(t) \/ SubmitFails(t) \/ SpuriousWakeup(t)
      BY <2>1, <3>2, TidyCalm DEF Kernel
    <3> QED BY <1>2, <3>1, <3>2
  <2>3. ASSUME NEW q \in Threads \ {t} PROVE Tidy(q)'
    <3>1. /\ pc'[q] = pc[q] /\ active'[q] = active[q] /\ finished'[q] = finished[q]
          /\ built'[q] = built[q] /\ idx'[q] = idx[q] /\ want'[q] = want[q]
          /\ iocbs'[q] = iocbs[q]
      BY <2>1 DEF Keeps, Elsewhere
    <3>2. \A o \in Own(q) : oper'[o] = oper[o]
      BY <2>1 DEF Keeps, OnlyOwn, Own
    <3>3. \A u \in UnitsOf(q) : job'[u] = job[u]
      BY <2>1, UnitsAre DEF Keeps, OnlyOwn
    <3> QED BY <2>1, <3>1, <3>2, <3>3, TidyOther
  <2> QED BY <2>2, <2>3 DEF TidyInv
<1> QED BY <1>1, <1>2 DEF Next

\* The lists, the prepared requests and the started ones agree in every behaviour.
THEOREM StaysTidy == Spec => []TidyInv
<1>1. Init => TidyInv
  BY TidyInit
<1>2. BookInv /\ TidyInv /\ [Next]_vars => TidyInv'
  BY TidyStep
<1> QED BY <1>1, <1>2, BookKept, PTL DEF Spec

\* Only restart_oper() changes the stage, and only io_submit starts requests.
LEMMA WhoStages ==
  ASSUME BookInv, [Next]_vars, NEW o \in Opers
  PROVE  /\ oper'[o].rw # oper[o].rw =>
              \E t \in Threads : RestartOper(t) /\ o = finished[t][idx[t]]
         /\ oper'[o].started > oper[o].started =>
              \E t \in Threads : Submit(t) \/ RestartOper(t)
<1>1. ASSUME UNCHANGED oper
      PROVE  oper'[o].rw = oper[o].rw /\ ~(oper'[o].started > oper[o].started)
  <2>1. oper[o].started \in Int
    BY DEF BookInv, Types, OperRec
  <2> QED BY <1>1, <2>1
<1>2. CASE UNCHANGED vars
  BY <1>1, <1>2 DEF vars
<1>3. ASSUME NEW t \in Threads, Kernel(t) \/ SubmitFails(t) \/ SpuriousWakeup(t)
      PROVE  UNCHANGED oper
  BY <1>3 DEF Kernel, Complete, Fail, SubmitFails, SpuriousWakeup
<1>4. ASSUME NEW t \in Threads, ThreadStep(t)
      PROVE  /\ oper'[o].rw # oper[o].rw => RestartOper(t) /\ o = finished[t][idx[t]]
             /\ oper'[o].started > oper[o].started => Submit(t) \/ RestartOper(t)
  <2>1. CASE \/ EnterStart(t) \/ WakeStart(t) \/ LoopEnds(t) \/ EnterEnd(t) \/ WakeEnd(t)
             \/ Decide(t) \/ RunActiveList(t) \/ SkipOper(t) \/ BuildOper(t)
    BY <1>1, <2>1 DEF EnterStart, WakeStart, LoopEnds, EnterEnd, WakeEnd, Decide,
                      RunActiveList, SkipOper, BuildOper
  <2>2. CASE \/ OperBuilt(t) \/ SubmitNothing(t) \/ Requeue(t) \/ WaitDone(t) \/ KeepOper(t)
             \/ FinishOper(t)
    BY <1>1, <2>2 DEF OperBuilt, SubmitNothing, Requeue, WaitDone, KeepOper, FinishOper
  <2>3. CASE \/ StonewallHead(t) \/ BuildIocb(t) \/ Submit(t) \/ ReadSomeEvents(t)
             \/ IoOperWait(t)
    <3>1. StagesKept /\ (Submit(t) \/ StartedKept)
      BY <2>3, StagesSame
    <3>2. oper[o].started \in Int
      BY DEF BookInv, Types, OperRec
    <3> QED BY <3>1, <3>2 DEF StagesKept, StartedKept
  <2>4. CASE RestartOper(t)
    BY <2>4, RestartGrows
  <2> QED BY <1>4, <2>1, <2>2, <2>3, <2>4 DEF ThreadStep, WorkerStep
<1> QED BY <1>1, <1>2, <1>3, <1>4 DEF Next

\* io_submit never starts more requests of an operation than the stage has left.
LEMMA SubmitStarts ==
  ASSUME BookInv, TidyInv, [Next]_vars, NEW t \in Threads, Submit(t), NEW o \in Opers,
         oper'[o].started > oper[o].started
  PROVE  oper'[o].started <= total_ios(o)
<1>1. Keeps(t) /\ BookInv' /\ Tidy(t)' /\ Tidy(t)
  <2>1. Keeps(t)
    BY SubmitKeeps
  <2>2. BookInv' /\ TidyInv'
    BY BookStep, TidyStep
  <2> QED BY <2>1, <2>2 DEF TidyInv
<1>2. oper[o].started \in Int /\ oper'[o].started \in Int /\ total_ios(o) \in Int
  BY <1>1, OperNumbers DEF BookInv, Types, OperRec
<1>3. o \in Own(t)
  BY <1>1, <1>2 DEF Keeps, OnlyOwn
<1>4. oper[o].started >= 0 /\ (Begun(t, o)' <= total_ios(o) \/ Begun(t, o)' = 0)
  BY <1>1, <1>3 DEF Tidy
<1>5. pc'[t] # "build"
  <2>1. \E l \in {"requeue", "eagain"} : pc' = [pc EXCEPT ![t] = l]
    BY DEF Submit, Goto
  <2>2. pc \in [Threads -> Labels]
    BY DEF BookInv, Types
  <2> QED BY <2>1, <2>2
<1> DEFINE c == CountFor(job', Range(iocbs'[t]), o)
           z == oper'[o].started
           T == total_ios(o)
<1>6. c \in Nat
  <2>1. iocbs'[t] \in Seq(UnitsOf(t)) /\ Once(iocbs'[t])
    BY <1>1 DEF BookInv, Book, Placed, Split
  <2>2. IsFiniteSet(Range(iocbs'[t]))
    BY <2>1, OnceLength
  <2> QED BY <2>2, CountType
<1>7. Begun(t, o)' = z + c + 0
  BY <1>5 DEF Begun
<1>8. z > 0
  BY <1>2, <1>4
<1>9. z + c + 0 <= T \/ z + c + 0 = 0
  BY <1>4, <1>7
<1> HIDE DEF c, z, T
<1>10. z <= T
  BY <1>2, <1>6, <1>8, <1>9 DEF z, T
<1> QED BY <1>10 DEF z, T

\* restart_oper() clears the count of the operation it restarts.
LEMMA RestartEmpties ==
  ASSUME BookInv, TidyInv, NEW t \in Threads, RestartOper(t), NEW p \in Opers
  PROVE  ~(oper'[p].started > oper[p].started)
<1> DEFINE o == finished[t][idx[t]]
           r == [oper[o] EXCEPT !.started = 0, !.offset = StartOf(o), !.stonewalled = FALSE,
                                !.rw = Min(LaterStages(o))]
<1>1. oper' = [oper EXCEPT ![o] = r]
  BY DEF RestartOper
<1>2. oper \in [Opers -> OperRec] /\ oper[p].started \in Int
  BY DEF BookInv, Types, OperRec
<1>3. o \in Own(t) /\ \A q \in Opers \ {o} : oper'[q] = oper[q]
  BY RestartGrows
<1>4. o \in Opers /\ oper[o].started >= 0
  BY <1>3 DEF Own, TidyInv, Tidy
<1> HIDE DEF o
<1>5. r.started = 0
  BY <1>2, <1>4 DEF OperRec
<1> HIDE DEF r
<1>6. oper'[o].started = 0
  BY <1>1, <1>2, <1>4, <1>5
<1> QED BY <1>2, <1>3, <1>4, <1>6

\* An operation goes to its next stage, and its counters start again, with no request of
\* the old stage pending and, unless it was stonewalled, all of them started; within a
\* stage io_submit never starts more than total_ios requests.
THEOREM StagesClean == Spec => StageIsClean
<1> DEFINE A == \A o \in Opers :
                  /\ oper'[o].rw # oper[o].rw =>
                       /\ oper[o].pending = 0
                       /\ oper[o].started = total_ios(o) \/ oper[o].stonewalled
                  /\ oper'[o].started > oper[o].started => oper'[o].started <= total_ios(o)
<1>1. BookInv /\ TidyInv /\ [Next]_vars => A
  <2> SUFFICES ASSUME BookInv, TidyInv, [Next]_vars, NEW o \in Opers
               PROVE  /\ oper'[o].rw # oper[o].rw =>
                           /\ oper[o].pending = 0
                           /\ oper[o].started = total_ios(o) \/ oper[o].stonewalled
                      /\ oper'[o].started > oper[o].started =>
                           oper'[o].started <= total_ios(o)
    OBVIOUS
  <2>1. ASSUME oper'[o].rw # oper[o].rw
        PROVE  oper[o].pending = 0 /\ (oper[o].started = total_ios(o) \/ oper[o].stonewalled)
    <3>1. PICK t \in Threads : RestartOper(t) /\ o = finished[t][idx[t]]
      BY <2>1, WhoStages
    <3>2. pc[t] = "restart"
      BY <3>1 DEF RestartOper
    <3>3. idx[t] \in 1 .. Len(finished[t]) /\ finished[t] \in Seq(Own(t))
      BY <3>2 DEF BookInv, Book, Lists
    <3>4. o \in Range(finished[t])
      BY <3>1, <3>3, OnList
    <3>5. Ended(o) /\ oper[o].pending = 0
      BY <3>2, <3>4 DEF TidyInv, Tidy
    <3> QED BY <3>5 DEF Ended, AllStarted
  <2>2. ASSUME oper'[o].started > oper[o].started
        PROVE  oper'[o].started <= total_ios(o)
    <3>1. PICK t \in Threads : Submit(t) \/ RestartOper(t)
      BY <2>2, WhoStages
    <3>2. Submit(t)
      BY <2>2, <3>1, RestartEmpties
    <3> QED BY <2>2, <3>2, SubmitStarts
  <2> QED BY <2>1, <2>2
<1> QED BY <1>1, BookKept, StaysTidy, PTL DEF Spec, StageIsClean
=============================================================================

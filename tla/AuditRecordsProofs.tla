-------------------------- MODULE AuditRecordsProofs --------------------------
(***************************************************************************)
(* Facts about the tables of AuditRecords that the proofs about AuditAppend *)
(* and AuditVerification share: the order of the rows, the latest of them  *)
(* and the links between them.                                             *)
(***************************************************************************)
EXTENDS AuditRecords, FiniteSetTheorems, WellFoundedInduction, TLAPS

-----------------------------------------------------------------------------
(* Induction over the natural numbers, stated for sets: a set of numbers   *)
(* has a least one, and one that has zero and with every number the next   *)
(* has them all.                                                           *)

LEMMA LeastNumber ==
  ASSUME NEW S, S \subseteq Nat, S # {}
  PROVE  \E n \in S : \A m \in S : n <= m
<1>1. PICK R : R = {ss \in Nat \X Nat : ss[1] < ss[2]} /\ IsWellFoundedOn(R, Nat)
  BY NatLessThanWellFounded DEF OpToRel
<1>2. PICK n \in S : \A m \in S : ~(<<m, n>> \in R)
  BY <1>1, WFMin
<1>3. ASSUME NEW m \in S PROVE n <= m
  <2>1. n \in Nat /\ m \in Nat
    OBVIOUS
  <2>2. ~(m < n)
    BY <1>1, <1>2, <2>1
  <2> QED BY <2>1, <2>2
<1> QED BY <1>3

LEMMA EveryNumber ==
  ASSUME NEW S, 0 \in S, \A n \in Nat : n \in S => n + 1 \in S
  PROVE  Nat \subseteq S
<1> SUFFICES ASSUME Nat \ S # {} PROVE FALSE
  OBVIOUS
<1>1. PICK n \in Nat \ S : \A m \in Nat \ S : n <= m
  <2>1. Nat \ S \subseteq Nat
    OBVIOUS
  <2> QED BY <2>1, LeastNumber
<1>2. n # 0 /\ n - 1 \in Nat /\ n = (n - 1) + 1 /\ ~(n <= n - 1)
  OBVIOUS
<1>3. n - 1 \in S
  BY <1>1, <1>2
<1> QED BY <1>2, <1>3

-----------------------------------------------------------------------------
(* Finite sets in a strict total order: below[x] is what comes before x.   *)

Ordered(S, below) ==
  /\ IsFiniteSet(S)
  /\ \A x \in S : below[x] \subseteq S /\ x \notin below[x]
  /\ \A x, y \in S : x # y => x \in below[y] \/ y \in below[x]
  /\ \A x, y \in S : x \in below[y] => below[x] \subseteq below[y]

LEMMA OrderBounds ==
  ASSUME NEW S, NEW below, Ordered(S, below), NEW x \in S
  PROVE  Cardinality(below[x]) \in 0..(Cardinality(S) - 1)
<1>1. IsFiniteSet(S \ {x}) /\ Cardinality(S \ {x}) = Cardinality(S) - 1
  BY FS_RemoveElement DEF Ordered
<1>2. below[x] \in SUBSET (S \ {x})
  BY DEF Ordered
<1>3. IsFiniteSet(below[x]) /\ Cardinality(below[x]) <= Cardinality(S) - 1
  BY <1>1, <1>2, FS_Subset
<1>4. Cardinality(S) \in Nat /\ Cardinality(below[x]) \in Nat
  BY <1>3, FS_CardinalityType DEF Ordered
<1> QED BY <1>3, <1>4

LEMMA OrderIsMonotone ==
  ASSUME NEW S, NEW below, Ordered(S, below), NEW x \in S, NEW y \in S, x \in below[y]
  PROVE  Cardinality(below[x]) < Cardinality(below[y])
<1>1. below[x] \in SUBSET below[y] /\ x \notin below[x]
  BY DEF Ordered
<1>2. IsFiniteSet(below[x]) /\ IsFiniteSet(below[y])
  BY FS_Subset DEF Ordered
<1>3. /\ Cardinality(below[x]) <= Cardinality(below[y])
      /\ Cardinality(below[x]) # Cardinality(below[y])
  BY <1>1, <1>2, FS_Subset
<1>4. Cardinality(below[x]) \in Nat /\ Cardinality(below[y]) \in Nat
  BY <1>2, FS_CardinalityType
<1> QED BY <1>3, <1>4

LEMMA OrderIsUnique ==
  ASSUME NEW S, NEW below, Ordered(S, below), NEW x \in S, NEW y \in S,
         Cardinality(below[x]) = Cardinality(below[y])
  PROVE  x = y
<1>1. Cardinality(below[x]) \in Nat /\ Cardinality(below[y]) \in Nat
  BY OrderBounds
<1>2. x \notin below[y] /\ y \notin below[x]
  BY <1>1, OrderIsMonotone
<1> QED BY <1>2 DEF Ordered

\* Every place is taken: the places map S one to one into as many numbers as S has members.
LEMMA OrderIsTaken ==
  ASSUME NEW S, NEW below, Ordered(S, below), NEW i \in 1..Cardinality(S)
  PROVE  \E x \in S : Cardinality(below[x]) = i - 1
<1> DEFINE n == Cardinality(S)
           f == [x \in S |-> Cardinality(below[x]) + 1]
<1>1. n \in Nat
  BY FS_CardinalityType DEF Ordered
<1>2. f \in Injection(S, 1..n)
  <2>1. \A x \in S : Cardinality(below[x]) \in 0..(n - 1)
    BY OrderBounds
  <2> HIDE DEF n
  <2>2. f \in [S -> 1..n]
    BY <1>1, <2>1
  <2>3. ASSUME NEW x \in S, NEW y \in S, f[x] = f[y] PROVE x = y
    BY <2>1, <2>3, <1>1, OrderIsUnique
  <2> HIDE DEF f
  <2>4. \A x, y \in DOMAIN f : f[x] = f[y] => x = y
    BY <2>2, <2>3
  <2> QED BY <2>2, <2>4 DEF Injection, IsInjective
<1>3. IsFiniteSet(1..n) /\ Cardinality(1..n) = n
  BY <1>1, FS_Interval
<1>4. f \in Surjection(S, 1..n)
  <2> HIDE DEF f
  <2> QED BY <1>2, <1>3, FS_Injection DEF Ordered
<1>5. PICK x \in S : f[x] = i
  <2> HIDE DEF f
  <2> QED BY <1>4 DEF Surjection
<1>6. Cardinality(below[x]) \in Int
  BY OrderBounds
<1> QED BY <1>5, <1>6
-----------------------------------------------------------------------------
(* Rows in pk order.                                                       *)

\* A set of rows that pk puts in order.
Keyed(T) ==
  /\ IsFiniteSet(T) /\ \A r \in T : r.pk \in Int
  /\ \A r, s \in T : r.pk = s.pk => r = s

\* How many rows of T come before row r.
Rank(T, r) == Cardinality(Below(T, r.pk))

LEMMA KeyedIsOrdered ==
  ASSUME NEW T, Keyed(T)
  PROVE  Ordered(T, [r \in T |-> Below(T, r.pk)])
BY DEF Ordered, Keyed, Below

LEMMA RankBounds ==
  ASSUME NEW T, Keyed(T), NEW r \in T
  PROVE  Rank(T, r) \in 0..(Cardinality(T) - 1)
<1> DEFINE below == [x \in T |-> Below(T, x.pk)]
<1>1. Cardinality(below[r]) \in 0..(Cardinality(T) - 1)
  <2>1. Ordered(T, below)
    BY KeyedIsOrdered
  <2> HIDE DEF below
  <2> QED BY <2>1, OrderBounds
<1> QED BY <1>1 DEF Rank

LEMMA RankIsMonotone ==
  ASSUME NEW T, Keyed(T), NEW r \in T, NEW s \in T, r.pk < s.pk
  PROVE  Rank(T, r) < Rank(T, s)
<1> DEFINE below == [x \in T |-> Below(T, x.pk)]
<1>1. Cardinality(below[r]) < Cardinality(below[s])
  <2>1. Ordered(T, below) /\ r \in below[s]
    BY KeyedIsOrdered DEF Below
  <2> HIDE DEF below
  <2> QED BY <2>1, OrderIsMonotone
<1> QED BY <1>1 DEF Rank

LEMMA RankIsUnique ==
  ASSUME NEW T, Keyed(T), NEW r \in T, NEW s \in T, Rank(T, r) = Rank(T, s)
  PROVE  r = s
<1> DEFINE below == [x \in T |-> Below(T, x.pk)]
<1>1. Ordered(T, below) /\ Cardinality(below[r]) = Cardinality(below[s])
  BY KeyedIsOrdered DEF Rank
<1> HIDE DEF below
<1> QED BY <1>1, OrderIsUnique

LEMMA RankIsTaken ==
  ASSUME NEW T, Keyed(T), NEW i \in 1..Cardinality(T)
  PROVE  \E r \in T : Rank(T, r) = i - 1
<1> DEFINE below == [x \in T |-> Below(T, x.pk)]
<1>1. \E r \in T : Cardinality(below[r]) = i - 1
  <2>1. Ordered(T, below)
    BY KeyedIsOrdered
  <2> HIDE DEF below
  <2> QED BY <2>1, OrderIsTaken
<1> QED BY <1>1 DEF Rank

LEMMA InPkOrderRank ==
  ASSUME NEW T, Keyed(T), NEW i \in 1..Cardinality(T)
  PROVE  InPkOrder(T)[i] \in T /\ Rank(T, InPkOrder(T)[i]) = i - 1
BY RankIsTaken DEF InPkOrder, Rank

LEMMA InPkOrderIs ==
  ASSUME NEW T, Keyed(T), NEW i \in 1..Cardinality(T), NEW r \in T, Rank(T, r) = i - 1
  PROVE  InPkOrder(T)[i] = r
BY InPkOrderRank, RankIsUnique

\* Rows added above all others come after them.
LEMMA InPkOrderGrows ==
  ASSUME NEW S, NEW T, Keyed(T), S \subseteq T,
         \A r \in T \ S : \A s \in S : s.pk < r.pk
  PROVE  /\ Keyed(S) /\ Cardinality(S) <= Cardinality(T)
         /\ \A i \in 1..Cardinality(S) : InPkOrder(T)[i] = InPkOrder(S)[i]
         /\ \A i \in (Cardinality(S) + 1)..Cardinality(T) : InPkOrder(T)[i] \in T \ S
<1>1. Keyed(S) /\ Cardinality(S) <= Cardinality(T)
  <2>1. S \in SUBSET T
    OBVIOUS
  <2> QED BY <2>1, FS_Subset DEF Keyed
<1>2. Cardinality(S) \in Nat /\ Cardinality(T) \in Nat
  BY <1>1, FS_CardinalityType DEF Keyed
<1>3. ASSUME NEW s \in S PROVE Rank(T, s) = Rank(S, s)
  <2>1. Below(T, s.pk) = Below(S, s.pk)
    BY DEF Below, Keyed
  <2> QED BY <2>1 DEF Rank
<1>4. ASSUME NEW i \in 1..Cardinality(S) PROVE InPkOrder(T)[i] = InPkOrder(S)[i]
  <2>1. InPkOrder(S)[i] \in S /\ Rank(S, InPkOrder(S)[i]) = i - 1
    BY <1>1, InPkOrderRank
  <2>2. i \in 1..Cardinality(T)
    BY <1>1, <1>2
  <2> QED BY <1>3, <2>1, <2>2, InPkOrderIs
<1>5. ASSUME NEW i \in (Cardinality(S) + 1)..Cardinality(T) PROVE InPkOrder(T)[i] \in T \ S
  <2>1. i \in 1..Cardinality(T)
    BY <1>2
  <2>2. InPkOrder(T)[i] \in T /\ Rank(T, InPkOrder(T)[i]) = i - 1
    BY <2>1, InPkOrderRank
  <2>3. SUFFICES ASSUME InPkOrder(T)[i] \in S PROVE FALSE
    BY <2>2
  <2>4. i - 1 \in 0..(Cardinality(S) - 1)
    BY <1>1, <1>3, <2>2, <2>3, RankBounds
  <2> QED BY <1>2, <2>4
<1> QED BY <1>1, <1>4, <1>5

\* In pk order pks increase.
LEMMA InPkOrderIncreases ==
  ASSUME NEW T, Keyed(T), NEW i \in 1..Cardinality(T), NEW j \in 1..Cardinality(T), i < j
  PROVE  InPkOrder(T)[i].pk < InPkOrder(T)[j].pk
<1> DEFINE r == InPkOrder(T)[i]
           s == InPkOrder(T)[j]
<1>1. r \in T /\ s \in T /\ Rank(T, r) = i - 1 /\ Rank(T, s) = j - 1
  BY InPkOrderRank
<1> HIDE DEF r, s
<1>2. r.pk \in Int /\ s.pk \in Int /\ (r.pk = s.pk => r = s)
  BY <1>1 DEF Keyed
<1>3. Cardinality(T) \in Nat
  BY FS_CardinalityType DEF Keyed
<1>4. ~(s.pk < r.pk)
  BY <1>1, <1>3, RankIsMonotone
<1>5. r # s
  BY <1>1, <1>3
<1>6. r.pk < s.pk
  BY <1>2, <1>4, <1>5
<1> QED BY <1>6 DEF r, s

\* The latest row is the one at the end.
LEMMA LatestIs ==
  ASSUME NEW T, Keyed(T), T # {}
  PROVE  Latest(T) \in T /\ \A s \in T : s.pk <= Latest(T).pk
<1> DEFINE n == Cardinality(T)
<1>1. n \in Nat /\ n # 0
  BY FS_CardinalityType, FS_EmptySet DEF Keyed
<1>2. n \in 1..n
  BY <1>1
<1>3. PICK r \in T : Rank(T, r) = n - 1
  BY <1>2, RankIsTaken
<1>4. ASSUME NEW s \in T PROVE s.pk <= r.pk
  <2>1. Rank(T, s) \in 0..(n - 1) /\ r.pk \in Int /\ s.pk \in Int
    BY RankBounds DEF Keyed
  <2>2. ~(r.pk < s.pk)
    BY <1>1, <1>3, <2>1, RankIsMonotone
  <2> QED BY <2>1, <2>2
<1> QED BY <1>4 DEF Latest

LEMMA LatestIsOnly ==
  ASSUME NEW T, Keyed(T), NEW r \in T, \A s \in T : s.pk <= r.pk
  PROVE  Latest(T) = r
<1>1. Latest(T) \in T /\ r.pk <= Latest(T).pk /\ Latest(T).pk <= r.pk
  BY LatestIs
<1> QED BY <1>1 DEF Keyed

\* The last of the rows before the i-th is the one before it.
LEMMA HashBefore ==
  ASSUME NEW T, Keyed(T), NEW i \in 1..Cardinality(T)
  PROVE  LastEntryHash(Below(T, InPkOrder(T)[i].pk)) =
           IF i = 1 THEN Genesis ELSE InPkOrder(T)[i - 1].entry_hash
<1> DEFINE r == InPkOrder(T)[i]
           B == Below(T, r.pk)
<1>1. r \in T /\ Cardinality(B) = i - 1 /\ r.pk \in Int /\ Cardinality(T) \in Nat
  BY InPkOrderRank, FS_CardinalityType DEF Rank, Keyed
<1>2. Keyed(B)
  <2>1. B \in SUBSET T
    BY DEF Below
  <2> QED BY <2>1, FS_Subset DEF Keyed
<1>3. CASE i = 1
  <2>1. B = {}
    BY <1>1, <1>2, <1>3, FS_EmptySet DEF Keyed
  <2> QED BY <1>3, <2>1 DEF LastEntryHash
<1>4. CASE i # 1
  <2> DEFINE q == InPkOrder(T)[i - 1]
  <2>1. i - 1 \in 1..Cardinality(T) /\ i - 1 < i
    BY <1>1, <1>4
  <2>2. q \in T /\ Rank(T, q) = i - 2 /\ q.pk < r.pk /\ q.pk \in Int
    BY <2>1, InPkOrderRank, InPkOrderIncreases DEF Keyed
  <2>3. q \in B
    BY <2>2 DEF Below
  <2>4. ASSUME NEW s \in B PROVE s.pk <= q.pk
    <3>1. s \in T /\ s.pk < r.pk /\ s.pk \in Int
      BY DEF Below, Keyed
    <3>2. Rank(T, s) < Rank(T, r) /\ Rank(T, r) = i - 1 /\ Rank(T, s) \in Int
      BY <1>1, <3>1, RankIsMonotone, RankBounds, InPkOrderRank
    <3>3. ~(q.pk < s.pk)
      BY <2>2, <3>1, <3>2, RankIsMonotone
    <3> QED BY <2>2, <3>1, <3>3
  <2> HIDE DEF q, B
  <2>5. Latest(B) = q
    BY <1>2, <2>3, <2>4, LatestIsOnly
  <2> QED BY <1>4, <2>3, <2>5 DEF LastEntryHash, q, B
<1> QED BY <1>3, <1>4

LEMMA HashAtEnd ==
  ASSUME NEW T, Keyed(T)
  PROVE  /\ Cardinality(T) \in Nat /\ (Cardinality(T) = 0 <=> T = {})
         /\ LastEntryHash(T) = IF Cardinality(T) = 0 THEN Genesis
                               ELSE InPkOrder(T)[Cardinality(T)].entry_hash
<1> DEFINE n == Cardinality(T)
<1>1. n \in Nat /\ (n = 0 <=> T = {})
  BY FS_CardinalityType, FS_EmptySet DEF Keyed
<1>2. ASSUME n # 0 PROVE Latest(T) = InPkOrder(T)[n]
  <2>1. n \in 1..n
    BY <1>1, <1>2
  <2>2. InPkOrder(T)[n] \in T /\ Rank(T, InPkOrder(T)[n]) = n - 1
    BY <2>1, InPkOrderRank
  <2>3. ASSUME NEW s \in T PROVE s.pk <= InPkOrder(T)[n].pk
    <3>1. Rank(T, s) \in 0..(n - 1) /\ s.pk \in Int /\ InPkOrder(T)[n].pk \in Int
      BY <2>2, RankBounds DEF Keyed
    <3>2. ~(InPkOrder(T)[n].pk < s.pk)
      BY <1>1, <2>2, <3>1, RankIsMonotone
    <3> QED BY <3>1, <3>2
  <2> QED BY <2>2, <2>3, LatestIsOnly
<1> QED BY <1>1, <1>2 DEF LastEntryHash

\* Another key in the set, by a row above the others.
LEMMA NewestKeyed ==
  ASSUME NEW T, Keyed(T), NEW r, r.pk \in Int, \A s \in T : s.pk < r.pk
  PROVE  Keyed(T \cup {r})
<1>1. IsFiniteSet(T \cup {r})
  BY FS_AddElement DEF Keyed
<1> QED BY <1>1 DEF Keyed

-----------------------------------------------------------------------------
(* Rows at the end keep the links.                                         *)

\* A row above all others that carries the hash of the last of them keeps the chain.
LEMMA NewestRowLinks ==
  ASSUME NEW T, NEW n, Linked(T), n.previous_hash = LastEntryHash(T),
         n.pk \in Int, \A r \in T : r.pk \in Int /\ r.pk < n.pk
  PROVE  Linked(T \cup {n})
<1>1. Below(T \cup {n}, n.pk) = T
  BY DEF Below
<1>2. ASSUME NEW r \in T PROVE Below(T \cup {n}, r.pk) = Below(T, r.pk)
  BY DEF Below
<1> QED BY <1>1, <1>2 DEF Linked

\* The same of checkpoints.
LEMMA NewestCheckpointLinks ==
  ASSUME NEW C, NEW n, LinkedCheckpoints(C),
         n.previous_checkpoint_hash = LastCheckpointHash(C),
         n.pk \in Int, \A c \in C : c.pk \in Int /\ c.pk < n.pk
  PROVE  LinkedCheckpoints(C \cup {n})
<1>1. Below(C \cup {n}, n.pk) = C
  BY DEF Below
<1>2. ASSUME NEW c \in C PROVE Below(C \cup {n}, c.pk) = Below(C, c.pk)
  BY DEF Below
<1> QED BY <1>1, <1>2 DEF LinkedCheckpoints

=============================================================================

--------------------------- MODULE SequenceFacts ----------------------------
(***************************************************************************)
(* Facts about sequences that the proofs of the components share.          *)
(***************************************************************************)
EXTENDS Integers, Sequences, FiniteSets, Functions, TLAPS, SequenceTheorems, FiniteSetTheorems

\* A function on an initial segment of the naturals is a sequence.
LEMMA SegmentIsSeq ==
  ASSUME NEW S, NEW n \in Nat, NEW f \in [1..n -> S]
  PROVE  f \in Seq(S) /\ Len(f) = n
<1>1. f \in Seq(S)
  BY SeqDef
<1>2. Len(f) = n
  BY <1>1, LenProperties
<1> QED
  BY <1>1, <1>2

\* A part of a sequence between two of its positions.
LEMMA PartOfSeq ==
  ASSUME NEW S, NEW s \in Seq(S), NEW m \in 1..(Len(s) + 1), NEW n \in 0..Len(s)
  PROVE  /\ SubSeq(s, m, n) \in Seq(S)
         /\ Len(SubSeq(s, m, n)) = IF m <= n THEN n - m + 1 ELSE 0
         /\ \A i \in 1..(n - m + 1) : SubSeq(s, m, n)[i] = s[m + i - 1]
<1>1. Len(s) \in Nat /\ s \in [1..Len(s) -> S]
  BY LenProperties
<1>2. \A i \in m..n : s[i] \in S
  BY <1>1
<1> QED
  BY <1>1, <1>2, SubSeqProperties

\* Two sequences one after the other.
LEMMA JoinedSeq ==
  ASSUME NEW S, NEW s \in Seq(S), NEW t \in Seq(S)
  PROVE  /\ s \o t \in Seq(S)
         /\ Len(s \o t) = Len(s) + Len(t)
         /\ \A i \in 1..Len(s) : (s \o t)[i] = s[i]
         /\ \A i \in 1..Len(t) : (s \o t)[Len(s) + i] = t[i]
<1>1. Len(s) \in Nat /\ Len(t) \in Nat
  BY LenProperties
<1> QED
  BY <1>1, ConcatProperties
-----------------------------------------------------------------------------
(* Sorting: a finite set of numbers can be listed in one way only.         *)

\* The list f of the n elements of S, each once and the smaller ones first.
Sorts(f, S, n) ==
  /\ f \in [1..n -> S]
  /\ \A x \in S : \E i \in 1..n : f[i] = x
  /\ \A i, j \in 1..n : i < j => f[i] < f[j]

\* The place of x in such a list.
Rank(S, x) == Cardinality({y \in S : y <= x})

\* Places are numbers up to the size of the set, and smaller elements have
\* smaller places.
LEMMA RankOrders ==
  ASSUME NEW S \in SUBSET Int, IsFiniteSet(S)
  PROVE  /\ \A x \in S : Rank(S, x) \in 1..Cardinality(S)
         /\ \A x, y \in S : x < y <=> Rank(S, x) < Rank(S, y)
<1> DEFINE T(x) == {y \in S : y <= x}
<1>1. ASSUME NEW x \in S
      PROVE  /\ IsFiniteSet(T(x)) /\ Cardinality(T(x)) \in Nat /\ Cardinality(S) \in Nat
             /\ Cardinality(T(x)) <= Cardinality(S) /\ Cardinality(T(x)) # 0
  <2>1. T(x) \in SUBSET S /\ x \in T(x)
    OBVIOUS
  <2>2. IsFiniteSet(T(x)) /\ Cardinality(T(x)) <= Cardinality(S)
    BY <2>1, FS_Subset
  <2>3. Cardinality(T(x)) \in Nat /\ Cardinality(S) \in Nat
    BY <2>2, FS_CardinalityType
  <2>4. Cardinality(T(x)) # 0
    BY <2>1, <2>2, FS_EmptySet
  <2> QED
    BY <2>2, <2>3, <2>4
<1>2. ASSUME NEW x \in S, NEW y \in S, x < y
      PROVE  Cardinality(T(x)) < Cardinality(T(y))
  <2>1. T(x) \in SUBSET T(y) /\ y \in T(y) /\ y \notin T(x)
    <3>1. x \in Int /\ y \in Int /\ \A z \in S : z \in Int /\ (z <= x => z <= y)
      <4> SUFFICES ASSUME NEW z \in S PROVE z \in Int /\ (z <= x => z <= y)
        OBVIOUS
      <4>1. x \in Int /\ y \in Int /\ z \in Int
        OBVIOUS
      <4> QED
        BY <1>2, <4>1
    <3>2. x \in T(y) /\ y \in T(y) /\ y \notin T(x)
      BY <1>2, <3>1
    <3>3. ASSUME NEW z \in T(x) PROVE z \in T(y)
      BY <3>1, <3>3
    <3> QED
      BY <3>2, <3>3
  <2>2. Cardinality(T(x)) <= Cardinality(T(y)) /\ Cardinality(T(x)) # Cardinality(T(y))
    BY <1>1, <2>1, FS_Subset
  <2> QED
    BY <1>1, <2>2
<1>3. ASSUME NEW x \in S, NEW y \in S PROVE x < y <=> Cardinality(T(x)) < Cardinality(T(y))
  <2>1. x < y \/ x = y \/ y < x
    OBVIOUS
  <2> QED
    BY <1>1, <1>2, <2>1
<1> QED
  BY <1>1, <1>3 DEF Rank

\* And elements of one place are one element.
LEMMA RankTells ==
  ASSUME NEW S \in SUBSET Int, IsFiniteSet(S)
  PROVE  \A x, y \in S : Rank(S, x) = Rank(S, y) => x = y
<1> SUFFICES ASSUME NEW x \in S, NEW y \in S, Rank(S, x) = Rank(S, y) PROVE x = y
  OBVIOUS
<1>1. x \in Int /\ y \in Int /\ Rank(S, x) \in Int /\ Rank(S, y) \in Int
  BY RankOrders
<1>2. (x < y => Rank(S, x) < Rank(S, y)) /\ (y < x => Rank(S, y) < Rank(S, x))
  BY RankOrders
<1> HIDE DEF Rank
<1> QED
  BY <1>1, <1>2

\* Each number up to the size of the set is the place of an element.
LEMMA RankCovers ==
  ASSUME NEW S \in SUBSET Int, IsFiniteSet(S)
  PROVE  \A i \in 1..Cardinality(S) : \E x \in S : Rank(S, x) = i
<1> DEFINE n == Cardinality(S)
           rank == [x \in S |-> Rank(S, x)]
<1>1. n \in Nat
  BY FS_CardinalityType
<1>2. IsFiniteSet(1..n) /\ Cardinality(1..n) = n
  BY <1>1, FS_Interval
<1>3. \A x \in S : Rank(S, x) \in 1..n
  BY RankOrders
<1>4. \A x, y \in S : Rank(S, x) = Rank(S, y) => x = y
  BY RankTells
<1>5. rank \in Injection(S, 1..n)
  BY <1>3, <1>4 DEF Injection, IsInjective
<1>6. rank \in Surjection(S, 1..n)
  BY <1>2, <1>5, FS_Injection
<1> QED
  BY <1>6 DEF Surjection

\* So there is a sorted list of any finite set of numbers.
LEMMA SortExists ==
  ASSUME NEW S \in SUBSET Int, IsFiniteSet(S)
  PROVE  \E f : Sorts(f, S, Cardinality(S))
<1> DEFINE n == Cardinality(S)
           f == [i \in 1..n |-> CHOOSE x \in S : Rank(S, x) = i]
<1>1. \A i \in 1..n : f[i] \in S /\ Rank(S, f[i]) = i
  BY RankCovers
<1>2. ASSUME NEW x \in S PROVE \E i \in 1..n : f[i] = x
  <2>1. Rank(S, x) \in 1..n
    BY RankOrders
  <2>2. f[Rank(S, x)] \in S /\ Rank(S, f[Rank(S, x)]) = Rank(S, x)
    BY <1>1, <2>1
  <2>3. \A y, z \in S : Rank(S, y) = Rank(S, z) => y = z
    BY RankTells
  <2> HIDE DEF f
  <2>4. f[Rank(S, x)] = x
    BY <2>2, <2>3
  <2> QED
    BY <2>1, <2>4
<1>3. ASSUME NEW i \in 1..n, NEW j \in 1..n, i < j PROVE f[i] < f[j]
  <2>1. f[i] \in S /\ f[j] \in S /\ Rank(S, f[i]) < Rank(S, f[j])
    BY <1>1, <1>3
  <2> QED
    BY <2>1, RankOrders
<1>4. f \in [1..n -> S]
  BY <1>1
<1> QED
  BY <1>2, <1>3, <1>4 DEF Sorts

\* In a sorted list each element is at its place.
LEMMA SortedRank ==
  ASSUME NEW S \in SUBSET Int, IsFiniteSet(S),
         NEW f, Sorts(f, S, Cardinality(S)), NEW i \in 1..Cardinality(S)
  PROVE  Rank(S, f[i]) = i
<1> DEFINE n == Cardinality(S)
           T == {y \in S : y <= f[i]}
           g == [j \in 1..i |-> f[j]]
<1>1. n \in Nat /\ i \in Nat /\ i <= n
  BY FS_CardinalityType
<1>2. \A j \in 1..n : f[j] \in S /\ f[j] \in Int
  BY DEF Sorts
<1>3. ASSUME NEW j \in 1..n PROVE f[j] <= f[i] <=> j <= i
  BY <1>1, <1>2 DEF Sorts
<1>4. g \in [1..i -> T]
  BY <1>1, <1>2, <1>3
<1>5. \A j, k \in 1..i : g[j] = g[k] => j = k
  BY <1>1, <1>2 DEF Sorts
<1>6. \A y \in T : \E j \in 1..i : g[j] = y
  BY <1>1, <1>3 DEF Sorts
<1>7. ExistsBijection(1..i, T)
  BY <1>4, <1>5, <1>6 DEF ExistsBijection, Bijection, Injection, Surjection, IsInjective
<1>8. IsFiniteSet(1..i) /\ Cardinality(1..i) = i
  BY <1>1, FS_Interval
<1> QED
  BY <1>7, <1>8, FS_Bijection DEF Rank

\* And so there is only one.
LEMMA SortUnique ==
  ASSUME NEW S \in SUBSET Int, IsFiniteSet(S),
         NEW f, Sorts(f, S, Cardinality(S)), NEW g, Sorts(g, S, Cardinality(S))
  PROVE  f = g
<1> DEFINE D == 1..Cardinality(S)
<1>1. f \in [D -> S] /\ g \in [D -> S]
  BY DEF Sorts
<1>2. \A i \in D : Rank(S, f[i]) = i /\ Rank(S, g[i]) = i
  BY SortedRank
<1>3. \A x, y \in S : Rank(S, x) = Rank(S, y) => x = y
  BY RankTells
<1> HIDE DEF D
<1>4. \A i \in D : f[i] = g[i]
  <2> SUFFICES ASSUME NEW i \in D PROVE f[i] = g[i]
    OBVIOUS
  <2>1. f[i] \in S /\ g[i] \in S /\ Rank(S, f[i]) = Rank(S, g[i])
    BY <1>1, <1>2
  <2> QED
    BY <1>3, <2>1
<1> QED
  BY <1>1, <1>4
=============================================================================

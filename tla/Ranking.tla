------------------------------- MODULE Ranking -------------------------------
(***************************************************************************)
(* The n-th element of a finite set in an order is the one that has n - 1  *)
(* others before it.  The modules that put a set in order define it so:    *)
(* the versions of a stream, the entries sorted by id and the projections  *)
(* that match.  The least of some numbers is the one with none before it;  *)
(* a least counterexample stands for an induction in the proofs that need  *)
(* one.                                                                    *)
(***************************************************************************)
EXTENDS Integers, FiniteSets, FiniteSetTheorems, TLAPS

Before(S, R, i) == {j \in S : <<j, i>> \in R}

\* R puts the elements of S in a line.
IsStrictOrder(S, R) ==
  /\ \A i \in S : <<i, i>> \notin R
  /\ \A i, j \in S : i = j \/ <<i, j>> \in R \/ <<j, i>> \in R
  /\ \A i, j, k \in S : <<i, j>> \in R /\ <<j, k>> \in R => <<i, k>> \in R

\* Who comes later has more before it.
LEMMA LaterHasMoreBefore ==
  ASSUME NEW S, IsFiniteSet(S), NEW R, IsStrictOrder(S, R),
         NEW i \in S, NEW j \in S, <<i, j>> \in R
  PROVE  Cardinality(Before(S, R, i)) < Cardinality(Before(S, R, j))
<1> DEFINE A == Before(S, R, i)
           B == Before(S, R, j)
<1>1. A \cup {i} \subseteq B /\ i \notin A
  BY DEF Before, IsStrictOrder
<1>2. IsFiniteSet(A) /\ IsFiniteSet(B)
  BY FS_Subset DEF Before
<1>3. Cardinality(A) \in Nat /\ Cardinality(B) \in Nat
  BY <1>2, FS_CardinalityType
<1>4. Cardinality(A \cup {i}) = Cardinality(A) + 1
  BY <1>1, <1>2, FS_AddElement
<1>5. Cardinality(A \cup {i}) <= Cardinality(B)
  BY <1>1, <1>2, FS_Subset
<1> QED
  BY <1>3, <1>4, <1>5

\* Every rank below the number of elements is somebody's, and only one's.
LEMMA EveryRankIsTaken ==
  ASSUME NEW S, IsFiniteSet(S), NEW R, IsStrictOrder(S, R), NEW n \in 1 .. Cardinality(S)
  PROVE  /\ \E i \in S : Cardinality(Before(S, R, i)) = n - 1
         /\ \A i, j \in S : Cardinality(Before(S, R, i)) = Cardinality(Before(S, R, j)) => i = j
<1> DEFINE size == Cardinality(S)
           Ranks == 0 .. size - 1
           rank == [i \in S |-> Cardinality(Before(S, R, i))]
<1>1. size \in Nat
  BY FS_CardinalityType
<1>2. \A i \in S : Cardinality(Before(S, R, i)) \in Ranks
  <2> TAKE i \in S
  <2>1. Before(S, R, i) \subseteq S \ {i}
    BY DEF Before, IsStrictOrder
  <2>2. IsFiniteSet(S \ {i}) /\ Cardinality(S \ {i}) = size - 1
    BY FS_RemoveElement
  <2>3. IsFiniteSet(Before(S, R, i)) /\ Cardinality(Before(S, R, i)) <= size - 1
    BY <2>1, <2>2, FS_Subset
  <2> QED
    BY <1>1, <2>3, FS_CardinalityType
<1>3. \A i, j \in S : Cardinality(Before(S, R, i)) = Cardinality(Before(S, R, j)) => i = j
  <2> SUFFICES ASSUME NEW i \in S, NEW j \in S, i # j
               PROVE  Cardinality(Before(S, R, i)) # Cardinality(Before(S, R, j))
    OBVIOUS
  <2>1. /\ Cardinality(Before(S, R, i)) \in Int
        /\ Cardinality(Before(S, R, j)) \in Int
    BY <1>2
  <2>2. CASE <<i, j>> \in R
    BY <2>1, <2>2, LaterHasMoreBefore
  <2>3. CASE <<j, i>> \in R
    BY <2>1, <2>3, LaterHasMoreBefore
  <2> QED
    BY <2>2, <2>3 DEF IsStrictOrder
<1>4. rank \in Injection(S, Ranks)
  BY <1>2, <1>3 DEF Injection, IsInjective
<1>5. IsFiniteSet(Ranks) /\ Cardinality(Ranks) = size
  <2>1. size - 1 \in Int /\ 0 \in Int
    BY <1>1
  <2>2. IsFiniteSet(Ranks) /\ Cardinality(Ranks) = IF 0 > size - 1 THEN 0 ELSE size - 1 - 0 + 1
    BY ONLY <2>1, FS_Interval
  <2> QED
    BY <1>1, <2>2
<1>6. rank \in Surjection(S, Ranks)
  <2> HIDE DEF rank, Ranks
  <2> QED
    BY <1>4, <1>5, FS_Injection
<1>7. n - 1 \in Ranks
  BY <1>1
<1>8. PICK i \in S : rank[i] = n - 1
  BY <1>6, <1>7 DEF Surjection
<1> QED
  BY <1>3, <1>8

\* The n-th number of a finite set of numbers.
LEMMA NthNumber ==
  ASSUME NEW S \in SUBSET Int, IsFiniteSet(S), NEW n \in 1 .. Cardinality(S)
  PROVE  /\ \E i \in S : Cardinality({j \in S : j < i}) = n - 1
         /\ \A i, j \in S :
              Cardinality({k \in S : k < i}) = Cardinality({k \in S : k < j}) => i = j
<1> DEFINE R == {pair \in S \X S : pair[1] < pair[2]}
<1>1. IsStrictOrder(S, R)
  BY DEF IsStrictOrder
<1>2. \A i \in S : Before(S, R, i) = {j \in S : j < i}
  BY DEF Before
<1> HIDE DEF R
<1>3. /\ \E i \in S : Cardinality(Before(S, R, i)) = n - 1
      /\ \A i, j \in S : Cardinality(Before(S, R, i)) = Cardinality(Before(S, R, j)) => i = j
  BY <1>1, EveryRankIsTaken
<1> QED
  BY <1>2, <1>3

\* Where there is a number, there is a least one.
LEMMA LeastNumber ==
  ASSUME NEW n \in Nat, NEW S \in SUBSET (0 .. n), S # {}
  PROVE  \E i \in S : \A j \in S : i <= j
<1>1. IsFiniteSet(0 .. n)
  BY ONLY n \in Nat, 0 \in Int, n \in Int, FS_Interval
<1>2. IsFiniteSet(S) /\ S \in SUBSET Int
  <2>1. IsFiniteSet(S)
    BY <1>1, FS_Subset
  <2> QED
    BY <2>1
<1>3. Cardinality(S) \in Nat /\ Cardinality(S) # 0
  BY <1>2, FS_CardinalityType, FS_EmptySet
<1>4. PICK i \in S : Cardinality({j \in S : j < i}) = 1 - 1
  BY <1>2, <1>3, NthNumber
<1>5. IsFiniteSet({j \in S : j < i})
  BY <1>2, FS_Subset
<1>6. {j \in S : j < i} = {}
  BY <1>4, <1>5, FS_EmptySet
<1> QED
  BY <1>2, <1>6

\* And some numbers that are bounded have a largest one.
Largest(S) == CHOOSE x \in S : \A y \in S : x >= y

LEMMA LargestIs ==
  ASSUME NEW n \in Nat, NEW S \in SUBSET (1 .. n), S # {}
  PROVE  Largest(S) \in S /\ \A y \in S : Largest(S) >= y
<1> DEFINE T == {n - i : i \in S}
<1>1. T \in SUBSET (0 .. n) /\ T # {}
  <2>1. \A i \in S : i \in 1 .. n
    OBVIOUS
  <2>2. \A i \in S : n - i \in 0 .. n
    BY <2>1
  <2> QED
    BY <2>2
<1>2. PICK t \in T : \A j \in T : t <= j
  BY <1>1, LeastNumber
<1>3. PICK x \in S : t = n - x
  BY <1>2
<1>4. \A y \in S : x >= y
  <2> TAKE y \in S
  <2>1. n - y \in T
    OBVIOUS
  <2>2. n - x <= n - y
    BY <1>2, <1>3, <2>1
  <2> QED
    BY <2>2
<1> QED
  BY <1>4 DEF Largest
=============================================================================

---------------------------- MODULE OrderingProofs ----------------------------
(***************************************************************************)
(* A finite set has an order by rank: what InOrder makes of a comparison   *)
(* is a sequence of all the members, each once, sorted.                    *)
(***************************************************************************)
EXTENDS Ordering, FiniteSetTheorems, WellFoundedInduction, TLAPS

\* A set of numbers that is not empty has a least: induction, as a witness.
LEMMA LeastThereIs ==
    ASSUME NEW S, S \subseteq Nat, S # {}
    PROVE  \E n \in S : \A m \in S : n <= m
<1>1. PICK n \in S : \A m \in S : <<m, n>> \notin OpToRel(<, Nat)
  BY NatLessThanWellFounded, WFMin
<1>2. ASSUME NEW m \in S PROVE n <= m
  <2>1. m \in Nat /\ n \in Nat
    BY <1>1
  <2>2. ~(m < n)
    BY <1>1, <2>1 DEF OpToRel
  <2> QED BY ONLY <2>1, <2>2
<1> QED BY <1>2

IsTotal(S, before) ==
    /\ \A x \in S : <<x, x>> \notin before
    /\ \A x, y \in S : x # y => <<x, y>> \in before \/ <<y, x>> \in before
    /\ \A x, y, z \in S : <<x, y>> \in before /\ <<y, z>> \in before => <<x, z>> \in before

\* Ranks are numbers of places, and grow along the order.
LEMMA Ranks ==
    ASSUME NEW S, IsFiniteSet(S), NEW before, IsTotal(S, before)
    PROVE  LET rank(x) == Cardinality(Preceding(x, S, before)) IN
           /\ \A x \in S : rank(x) \in Nat /\ rank(x) < Cardinality(S)
           /\ \A x, y \in S : <<x, y>> \in before => rank(x) < rank(y)
<1> DEFINE rank(x) == Cardinality(Preceding(x, S, before))
<1>1. ASSUME NEW x \in S
      PROVE  IsFiniteSet(Preceding(x, S, before)) /\ rank(x) \in Nat
  <2>1. Preceding(x, S, before) \in SUBSET S
    BY DEF Preceding
  <2> QED BY <2>1, FS_Subset, FS_CardinalityType
\* A set with x in it and all that is ahead of x has a member more.
<1>2. ASSUME NEW x \in S, NEW T, IsFiniteSet(T), x \in T, Preceding(x, S, before) \subseteq T
      PROVE  rank(x) < Cardinality(T)
  <2>1. x \notin Preceding(x, S, before)
    BY DEF Preceding, IsTotal
  <2>2. Preceding(x, S, before) \in SUBSET (T \ {x})
    BY <1>2, <2>1
  <2>3. /\ IsFiniteSet(T \ {x}) /\ Cardinality(T \ {x}) = Cardinality(T) - 1
        /\ Cardinality(T) \in Nat
    BY <1>2, FS_RemoveElement, FS_CardinalityType
  <2>4. rank(x) <= Cardinality(T \ {x})
    BY <2>2, <2>3, FS_Subset
  <2> QED BY <1>1, <2>3, <2>4
<1>3. ASSUME NEW x \in S PROVE rank(x) < Cardinality(S)
  BY <1>2 DEF Preceding
<1>4. ASSUME NEW x \in S, NEW y \in S, <<x, y>> \in before PROVE rank(x) < rank(y)
  <2>1. x \in Preceding(y, S, before) /\ Preceding(x, S, before) \subseteq Preceding(y, S, before)
    BY <1>4 DEF Preceding, IsTotal
  <2> QED BY <1>1, <1>2, <2>1
<1> QED BY <1>1, <1>3, <1>4

\* Every place is some member's, or two would share one.
LEMMA EveryPlaceIsTaken ==
    ASSUME NEW S, IsFiniteSet(S), NEW before, IsTotal(S, before),
           NEW n \in 1..Cardinality(S)
    PROVE  \E x \in S : Cardinality(Preceding(x, S, before)) = n - 1
<1> DEFINE rank(x) == Cardinality(Preceding(x, S, before))
           N == Cardinality(S)
           Rest == (1..N) \ {n}
<1> SUFFICES ASSUME \A x \in S : rank(x) # n - 1 PROVE FALSE
  OBVIOUS
<1>1. N \in Nat
  BY FS_CardinalityType
<1>2. \A x \in S : rank(x) \in Nat /\ rank(x) < N
  BY Ranks
<1>3. IsFiniteSet(Rest) /\ Cardinality(Rest) < N
  <2>1. IsFiniteSet(1..N) /\ Cardinality(1..N) = N
    BY <1>1, FS_Interval
  <2>2. n \in 1..N /\ Rest = (1..N) \ {n}
    OBVIOUS
  <2>3. IsFiniteSet(Rest) /\ Cardinality(Rest) = N - 1
    <3> HIDE DEF N
    <3> QED BY <2>1, <2>2, FS_RemoveElement
  <2> QED BY <1>1, <2>3
<1> DEFINE f == [x \in S |-> rank(x) + 1]
<1>4. f \in [S -> Rest]
  <2>1. \A x \in S : rank(x) + 1 \in Rest
    BY <1>1, <1>2
  <2> HIDE DEF rank, Rest
  <2> QED BY <2>1
<1>5. \E x, y \in S : x # y /\ f[x] = f[y]
  <2>1. Cardinality(Rest) < Cardinality(S)
    BY <1>3
  <2> HIDE DEF f, Rest, rank, N
  <2> QED BY <1>3, <1>4, <2>1, FS_PigeonHole
<1>6. PICK x \in S, y \in S : x # y /\ rank(x) = rank(y)
  BY <1>2, <1>5
<1>7. rank(x) < rank(y) \/ rank(y) < rank(x)
  BY <1>6, Ranks DEF IsTotal
<1> QED BY <1>2, <1>6, <1>7

\* InOrder lists every member of the set, and lists them sorted.
THEOREM InOrderSorts ==
    ASSUME NEW S, IsFiniteSet(S), NEW before, IsTotal(S, before)
    PROVE  LET s == InOrder(S, before) IN
           /\ Cardinality(S) \in Nat
           /\ s \in [1..Cardinality(S) -> S]
           /\ \A x \in S : \E n \in 1..Cardinality(S) : s[n] = x
           /\ \A m, n \in 1..Cardinality(S) : m < n => <<s[m], s[n]>> \in before
<1> DEFINE rank(x) == Cardinality(Preceding(x, S, before))
           N == Cardinality(S)
           s == InOrder(S, before)
<1>1. N \in Nat
  BY FS_CardinalityType
<1>2. /\ \A x \in S : rank(x) \in Nat /\ rank(x) < N
      /\ \A x, y \in S : <<x, y>> \in before => rank(x) < rank(y)
  BY Ranks
<1>3. ASSUME NEW n \in 1..N PROVE s[n] \in S /\ rank(s[n]) = n - 1
  <2>1. \E x \in S : rank(x) = n - 1
    BY EveryPlaceIsTaken
  <2>2. s[n] = CHOOSE x \in S : rank(x) = n - 1
    BY DEF InOrder
  <2> HIDE DEF rank, s
  <2> QED BY <2>1, <2>2
<1>4. s \in [1..N -> S]
  <2>1. s = [n \in 1..N |-> s[n]]
    BY DEF InOrder
  <2> HIDE DEF s
  <2> QED BY <1>3, <2>1
<1>5. ASSUME NEW x \in S, NEW y \in S, rank(x) = rank(y) PROVE x = y
  <2>1. x # y => rank(x) < rank(y) \/ rank(y) < rank(x)
    BY <1>2 DEF IsTotal
  <2> QED BY <1>2, <1>5, <2>1
<1>6. ASSUME NEW x \in S PROVE \E n \in 1..N : s[n] = x
  <2>1. rank(x) + 1 \in 1..N /\ (rank(x) + 1) - 1 = rank(x)
    BY <1>1, <1>2
  <2> HIDE DEF rank, s
  <2>2. s[rank(x) + 1] = x
    BY <1>3, <1>5, <2>1
  <2> QED BY <2>1, <2>2
<1>7. ASSUME NEW m \in 1..N, NEW n \in 1..N, m < n PROVE <<s[m], s[n]>> \in before
  <2> HIDE DEF rank, s
  <2>1. /\ s[m] \in S /\ s[n] \in S /\ rank(s[m]) = m - 1 /\ rank(s[n]) = n - 1
    BY <1>3
  <2>2. s[m] # s[n] /\ ~(rank(s[n]) < rank(s[m]))
    BY <1>7, <2>1
  <2> QED BY <1>2, <2>1, <2>2 DEF IsTotal
<1> QED BY <1>1, <1>4, <1>6, <1>7
=============================================================================

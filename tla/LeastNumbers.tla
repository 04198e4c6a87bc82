---------------------------- MODULE LeastNumbers ----------------------------
(***************************************************************************)
(* Induction over the natural numbers, stated with sets: a set of numbers   *)
(* has a least one, and a bounded set a greatest one.  (NaturalsInduction   *)
(* states it with operators, which the provers at hand cannot instantiate.) *)
(***************************************************************************)
EXTENDS Naturals, FiniteSetTheorems, TLAPS

\* An interval is among the finite subsets of the natural numbers.
LEMMA IntervalIsFinite ==
  ASSUME NEW k \in Nat
  PROVE  0..k \in FiniteSubsetsOf(Nat)
<1>1. IsFiniteSet(0..k)
  BY FS_Interval
<1>2. QED
  BY <1>1 DEF FiniteSubsetsOf

\* Intervals from zero are ordered by inclusion as their ends are, and there is
\* no endless descent of finite sets.
LEMMA LeastNumber ==
  ASSUME NEW T \in SUBSET Nat, T # {}
  PROVE  \E m \in T : \A k \in T : m <= k
<1> DEFINE R == StrictSubsetOrdering(Nat)
           F == FiniteSubsetsOf(Nat)
           U == {0..k : k \in T}
<1>1. IsWellFoundedOn(R, F)
  BY FS_StrictSubsetOrderingWellFounded
<1>2. U \subseteq F /\ U # {}
  BY IntervalIsFinite
<1> HIDE DEF R, F, U
<1>3. PICK x \in U : \A y \in U : ~ (<<y, x>> \in R)
  BY <1>1, <1>2, WFMin
<1>4. PICK m \in T : x = 0..m
  BY DEF U
<1>5. ASSUME NEW k \in T, k < m PROVE FALSE
  <2>1. 0..k \subseteq 0..m /\ 0..k # 0..m
    BY <1>5
  <2>2. <<0..k, 0..m>> \in R
    BY <2>1 DEF R, StrictSubsetOrdering
  <2>3. QED
    BY <1>3, <1>4, <2>2 DEF U
<1>6. QED
  BY <1>5

\* The same from above: the distances from the bound have a least one.
LEMMA GreatestNumber ==
  ASSUME NEW n \in Nat, NEW T \in SUBSET (0..n), T # {}
  PROVE  \E m \in T : \A k \in T : k <= m
<1> DEFINE U == {u \in Nat : \E k \in T : u = n - k}
<1>1. \A k \in T : k \in Nat /\ n - k \in Nat /\ n - k \in U
  OBVIOUS
<1>2. U \in SUBSET Nat /\ U # {}
  BY <1>1
<1>3. PICK u \in U : \A w \in U : u <= w
  <2> HIDE DEF U
  <2> QED
    BY <1>2, LeastNumber
<1>4. PICK m \in T : u = n - m
  BY <1>3
<1>5. ASSUME NEW k \in T PROVE k <= m
  <2>1. n - m <= n - k
    BY <1>1, <1>3, <1>4
  <2>2. k \in Nat /\ m \in Nat
    BY <1>1, <1>4
  <2>3. QED
    BY <2>1, <2>2
<1>6. QED
  BY <1>4, <1>5

\* What holds of the first and is handed on holds of all.
LEMMA InductionUpTo ==
  ASSUME NEW n \in Nat, NEW T \in SUBSET (0..n), 0 \in T,
         \A k \in 0..n : k \in T /\ k + 1 <= n => k + 1 \in T
  PROVE  T = 0..n
<1> DEFINE U == (0..n) \ T
<1>1. SUFFICES ASSUME U # {} PROVE FALSE
  OBVIOUS
<1>2. U \in SUBSET Nat
  OBVIOUS
<1>3. PICK m \in U : \A k \in U : m <= k
  <2> HIDE DEF U
  <2> QED
    BY <1>1, <1>2, LeastNumber
<1>4. m \in 0..n /\ m # 0 /\ m \notin T
  BY <1>3
<1>5. m - 1 \in 0..n /\ ~ (m <= m - 1)
  BY <1>4
<1>6. m - 1 \in T
  BY <1>3, <1>5
<1>7. (m - 1) + 1 = m /\ m <= n
  BY <1>4
<1>8. QED
  BY <1>4, <1>5, <1>6, <1>7

\* Counting the members of a set of numbers up to one of them: every member adds
\* one, so each is preceded by fewer, and the last one by one fewer.
LEMMA CountUpTo ==
  ASSUME NEW n \in Nat, NEW P \in SUBSET (1..n), NEW i \in 0..n
  PROVE  /\ Cardinality(P \cap (1..i)) \in Nat /\ Cardinality(P \cap (1..i)) <= i
         /\ \A j \in P \cap (1..i) : Cardinality(P \cap (1..(j - 1))) < Cardinality(P \cap (1..i))
         /\ Cardinality(P \cap (1..i)) = 0
              \/ \E j \in P \cap (1..i) :
                   Cardinality(P \cap (1..(j - 1))) = Cardinality(P \cap (1..i)) - 1
<1>1. ASSUME NEW k \in 0..n
      PROVE  /\ IsFiniteSet(P \cap (1..k)) /\ Cardinality(P \cap (1..k)) \in Nat
             /\ Cardinality(P \cap (1..k)) <= k
  <2>1. IsFiniteSet(1..k) /\ Cardinality(1..k) = k
    BY FS_Interval
  <2>2. P \cap (1..k) \in SUBSET (1..k)
    OBVIOUS
  <2>3. IsFiniteSet(P \cap (1..k)) /\ Cardinality(P \cap (1..k)) <= Cardinality(1..k)
    BY <2>1, <2>2, FS_Subset
  <2>4. QED
    BY <2>1, <2>3, FS_CardinalityType
\* A member j adds one.
<1>2. ASSUME NEW j \in P \cap (1..i)
      PROVE  /\ j - 1 \in 0..n /\ j \in 0..n
             /\ Cardinality(P \cap (1..j)) = Cardinality(P \cap (1..(j - 1))) + 1
             /\ Cardinality(P \cap (1..j)) <= Cardinality(P \cap (1..i))
  <2>1. j - 1 \in 0..n /\ j \in 0..n /\ j <= i
    OBVIOUS
  <2>2. P \cap (1..j) = (P \cap (1..(j - 1))) \cup {j} /\ j \notin P \cap (1..(j - 1))
    BY <2>1
  <2>3. Cardinality(P \cap (1..j)) = Cardinality(P \cap (1..(j - 1))) + 1
    BY <1>1, <2>1, <2>2, FS_AddElement
  <2>4. P \cap (1..j) \in SUBSET (P \cap (1..i))
    BY <2>1
  <2>5. QED
    BY <1>1, <2>1, <2>3, <2>4, FS_Subset
<1>3. ASSUME NEW j \in P \cap (1..i)
      PROVE  Cardinality(P \cap (1..(j - 1))) < Cardinality(P \cap (1..i))
  <2> DEFINE a == Cardinality(P \cap (1..(j - 1)))  b == Cardinality(P \cap (1..j))
             c == Cardinality(P \cap (1..i))
  <2>1. a \in Nat /\ b = a + 1 /\ b <= c /\ c \in Nat
    BY <1>1, <1>2
  <2> HIDE DEF a, b, c
  <2>2. a < c
    BY <2>1
  <2>3. QED
    BY <2>2 DEF a, c
<1>4. CASE P \cap (1..i) = {}
  BY <1>1, <1>3, <1>4, FS_EmptySet
<1>5. CASE P \cap (1..i) # {}
  <2>1. P \cap (1..i) \in SUBSET (0..i)
    OBVIOUS
  <2>2. PICK j \in P \cap (1..i) : \A k \in P \cap (1..i) : k <= j
    <3> DEFINE A == P \cap (1..i)
    <3>1. A # {} /\ A \in SUBSET (0..i) /\ i \in Nat
      BY <1>5, <2>1
    <3> HIDE DEF A
    <3>2. \E j \in A : \A k \in A : k <= j
      BY <3>1, GreatestNumber
    <3>3. QED
      BY <3>2 DEF A
  <2>3. P \cap (1..i) = P \cap (1..j)
    BY <2>2
  <2>4. Cardinality(P \cap (1..(j - 1))) = Cardinality(P \cap (1..i)) - 1
    BY <1>1, <1>2, <2>3
  <2>5. QED
    BY <1>1, <1>3, <2>4
<1>6. QED
  BY <1>4, <1>5
=============================================================================

------------------------------ MODULE NatLemmas ------------------------------
(***************************************************************************)
(* Facts about natural numbers that the proofs of several modules need:    *)
(* least and greatest elements, ranks, and the whole sectors in a size.     *)
(***************************************************************************)
EXTENDS Integers, FiniteSetsExt, FiniteSetTheorems, WellFoundedInduction, TLAPS

(* A set of natural numbers that is not empty has a least element. *)
LEMMA LeastNat ==
  ASSUME NEW T \in SUBSET Nat, T # {}
  PROVE  \E x \in T : \A y \in T : x <= y
<1>1. IsWellFoundedOn(OpToRel(<, Nat), Nat)
  BY NatLessThanWellFounded, Zenon
<1>2. \E x \in T : \A y \in T : ~(<<y, x>> \in OpToRel(<, Nat))
  BY <1>1, WFMin, Zenon
<1>3. PICK x \in T : \A y \in T : ~(<<y, x>> \in OpToRel(<, Nat))
  BY <1>2, Zenon
<1>4. \A y \in T : y < x => <<y, x>> \in OpToRel(<, Nat)
  BY Zenon DEF OpToRel
<1>5. \A y \in T : ~(y < x)
  BY <1>3, <1>4, Zenon
<1> QED BY <1>5

LEMMA MinOfNats ==
  ASSUME NEW T \in SUBSET Nat, T # {}
  PROVE  Min(T) \in T /\ \A y \in T : Min(T) <= y
BY LeastNat DEF Min

(* A set with an upper bound has a greatest element. *)
LEMMA MaxOfNats ==
  ASSUME NEW T \in SUBSET Nat, T # {}, NEW n \in Nat, \A y \in T : y <= n
  PROVE  Max(T) \in T /\ \A y \in T : y <= Max(T)
<1> DEFINE U == {u \in Nat : \A y \in T : y <= u}
<1>1. PICK x \in U : \A u \in U : x <= u
  BY LeastNat
<1>2. x \in T
  <2>1. SUFFICES ASSUME x \notin T PROVE FALSE
    OBVIOUS
  <2>2. \A y \in T : y <= x /\ y # x
    BY <1>1, <2>1
  <2>3. PICK y \in T : TRUE
    OBVIOUS
  <2>4. x - 1 \in U
    BY <2>2, <2>3
  <2> QED BY <1>1, <2>4
<1> QED BY <1>1, <1>2 DEF Max

(* Of a set of n numbers there is a first, a second and so on to the n-th. *)
LEMMA EveryRank ==
  ASSUME NEW n \in Nat, NEW S \in SUBSET (1 .. n), NEW k \in 1 .. Cardinality(S)
  PROVE  \E i \in S : Cardinality({j \in S : j <= i}) = k
<1> DEFINE UpTo(i) == {j \in S : j <= i}
<1> DEFINE T == {r \in 1 .. Cardinality(S) : \A i \in S : Cardinality(UpTo(i)) # r}
<1> SUFFICES ASSUME T # {} PROVE FALSE
  OBVIOUS
<1>0. \A j \in S : j \in Nat
  OBVIOUS
<1>1. IsFiniteSet(S) /\ Cardinality(S) \in Nat
  <2>1. IsFiniteSet(1 .. n)
    BY FS_Interval
  <2> QED BY <2>1, FS_Subset, FS_CardinalityType
<1>2. PICK r \in T : \A q \in T : r <= q
  <2>1. T \in SUBSET Nat
    OBVIOUS
  <2> HIDE DEF T
  <2> QED BY <2>1, LeastNat
<1>3. r \in 1 .. Cardinality(S) /\ \A i \in S : Cardinality(UpTo(i)) # r
  OBVIOUS
<1>4. \A i \in S : IsFiniteSet(UpTo(i))
  BY <1>1, FS_Subset
<1>5. CASE r = 1
  <2>1. S # {} /\ S \in SUBSET Nat
    BY <1>1, <1>3, FS_EmptySet
  <2>2. PICK m \in S : \A j \in S : m <= j
    BY <2>1, LeastNat
  <2>3. UpTo(m) = {m}
    <3>1. ASSUME NEW j \in S, j <= m PROVE j = m
      BY <1>0, <2>2, <3>1
    <3>2. m \in UpTo(m)
      BY <1>0, <2>2
    <3> QED BY <3>1, <3>2
  <2>4. Cardinality(UpTo(m)) = 1
    BY <2>3, FS_Singleton
  <2> QED BY <1>3, <1>5, <2>2, <2>4
<1>6. CASE r > 1
  <2>1. r - 1 \in 1 .. Cardinality(S) /\ r - 1 \notin T
    BY <1>1, <1>2, <1>3, <1>6
  <2>2. PICK i \in S : Cardinality(UpTo(i)) = r - 1
    BY <2>1
  <2> DEFINE Above == {j \in S : j > i}
  <2>3. Above # {}
    <3>1. SUFFICES ASSUME Above = {} PROVE FALSE
      OBVIOUS
    <3>2. UpTo(i) = S
      <4>1. \A j \in S : j <= i
        BY <1>0, <3>1
      <4> QED BY <4>1
    <3> QED BY <1>1, <1>3, <2>2, <3>2
  <2>4. Above \in SUBSET Nat
    BY <1>0
  <2>5. PICK m \in Above : \A j \in Above : m <= j
    BY <2>3, <2>4, LeastNat
  <2>6. UpTo(m) = UpTo(i) \union {m} /\ m \notin UpTo(i) /\ m \in S
    <3>1. m \in S /\ m > i /\ m \in Nat /\ i \in Nat
      BY <1>0, <2>5
    <3>2. ASSUME NEW j \in S PROVE j <= m <=> (j <= i \/ j = m)
      <4>1. j > i => m <= j
        BY <2>5
      <4> QED BY <1>0, <3>1, <4>1
    <3>3. \A j : j \in UpTo(m) <=> j \in UpTo(i) \union {m}
      BY <1>0, <3>1, <3>2
    <3>4. m \notin UpTo(i)
      BY <3>1
    <3> QED BY <3>1, <3>3, <3>4, Zenon
  <2>7. Cardinality(UpTo(m)) = r
    <3>1. PICK U : U = UpTo(i) /\ IsFiniteSet(U)
      BY <1>4
    <3>2. Cardinality(U \union {m}) = Cardinality(U) + 1
      BY <2>6, <3>1, FS_AddElement
    <3> QED BY <1>3, <2>2, <2>6, <3>1, <3>2
  <2> QED BY <1>3, <2>6, <2>7
<1> QED BY <1>1, <1>3, <1>5, <1>6

(* Division by a positive number keeps the order, and n + s - 1 bytes hold *)
(* one more whole sector of s bytes than n - 1 do.                         *)
LEMMA DivMonotonic ==
  ASSUME NEW a \in Nat, NEW b \in Nat, a <= b, NEW s \in Nat \ {0}
  PROVE  a \div s \in Nat /\ a \div s <= b \div s
<1>1. /\ a \div s \in Nat /\ b \div s \in Nat
      /\ (a \div s) * s <= a /\ b < (b \div s) * s + s
  OBVIOUS
<1>2. SUFFICES ASSUME b \div s + 1 <= a \div s PROVE FALSE
  BY <1>1
<1> DEFINE p == a \div s
<1> DEFINE q == b \div s
<1> HIDE DEF p, q
<1>3. (q + 1) * s <= p * s
  <2>1. p - (q + 1) \in Nat /\ p \in Nat /\ q \in Nat
    BY <1>1, <1>2 DEF p, q
  <2>2. (p - (q + 1)) * s >= 0
    BY <2>1
  <2> QED BY <2>1, <2>2
<1>4. q \in Nat /\ p \in Nat /\ p * s <= a /\ b < q * s + s
  BY <1>1 DEF p, q
<1> QED BY <1>3, <1>4

LEMMA DivPlusOne ==
  ASSUME NEW a \in Nat, NEW s \in Nat \ {0}
  PROVE  (a + s) \div s = a \div s + 1
OBVIOUS
=============================================================================

----------------------------- MODULE NumberProofs -----------------------------
(***************************************************************************)
(* What the proofs need to know of numbers: the least element of a set and *)
(* induction, both by way of finite sets, and products and remainders.     *)
(***************************************************************************)
EXTENDS Integers, FiniteSetTheorems, WellFoundedInduction, TLAPS

(***************************************************************************)
(* Every set of natural numbers has a least one: the intervals that end in *)
(* the set are finite sets, which are well-founded by inclusion.           *)
(***************************************************************************)
LEMMA LeastElement ==
    ASSUME NEW T \in SUBSET Nat, T # {}
    PROVE  \E n \in T : \A m \in T : n <= m
<1> DEFINE U == {0 .. n : n \in T}
<1>1. PICK k \in T : TRUE
  OBVIOUS
<1>2. U \subseteq FiniteSubsetsOf(Nat)
  <2> SUFFICES ASSUME NEW n \in T PROVE 0 .. n \in FiniteSubsetsOf(Nat)
    OBVIOUS
  <2>1. IsFiniteSet(0 .. n)
    BY FS_Interval
  <2>2. 0 .. n \subseteq Nat
    OBVIOUS
  <2> QED
    BY <2>1, <2>2 DEF FiniteSubsetsOf
<1>3. PICK x \in U : \A y \in U : ~(<<y, x>> \in StrictSubsetOrdering(Nat))
  <2>1. IsWellFoundedOn(StrictSubsetOrdering(Nat), FiniteSubsetsOf(Nat))
    BY FS_StrictSubsetOrderingWellFounded
  <2> HIDE DEF U
  <2>2. U # {}
    BY <1>1 DEF U
  <2> QED
    BY <2>1, <2>2, <1>2, WFMin
<1>4. PICK n \in T : x = 0 .. n
  BY <1>3
<1>5. ASSUME NEW m \in T PROVE n <= m
  <2> SUFFICES ASSUME m < n PROVE FALSE
    OBVIOUS
  <2>1. 0 .. m \subseteq 0 .. n /\ 0 .. m # 0 .. n
    <3>1. n \in 0 .. n /\ n \notin 0 .. m
      OBVIOUS
    <3> QED
      BY <3>1
  <2>2. <<0 .. m, 0 .. n>> \in StrictSubsetOrdering(Nat)
    BY <2>1 DEF StrictSubsetOrdering
  <2> QED
    BY <2>2, <1>3, <1>4
<1> QED
  BY <1>5

(***************************************************************************)
(* Induction, for a set instead of a predicate.                            *)
(***************************************************************************)
LEMMA InductionOnSet ==
    ASSUME NEW T \in SUBSET Nat, 0 \in T, \A n \in T : n + 1 \in T
    PROVE  \A n \in Nat : n \in T
<1> DEFINE U == Nat \ T
<1> SUFFICES ASSUME U # {} PROVE FALSE
  OBVIOUS
<1>1. PICK n \in U : \A m \in U : n <= m
  BY LeastElement
<1>2. n # 0
  OBVIOUS
<1>3. n - 1 \in Nat /\ ~(n <= n - 1)
  BY <1>2
<1>4. n - 1 \in T
  BY <1>1, <1>3
<1>5. (n - 1) + 1 = n
  OBVIOUS
<1> QED
  BY <1>4, <1>5

-----------------------------------------------------------------------------
\* A number is its quotient and its remainder.
LEMMA Division ==
    ASSUME NEW a \in Int, NEW m \in Nat, m > 0
    PROVE  /\ (a \div m) \in Int /\ (a % m) \in Nat /\ (a % m) < m
           /\ a = m * (a \div m) + (a % m)
OBVIOUS

\* Products of natural numbers are natural numbers.
LEMMA Product == ASSUME NEW a \in Nat, NEW b \in Nat PROVE a * b \in Nat
OBVIOUS

\* A product grows with its factors.
LEMMA TimesMonotone ==
    ASSUME NEW n \in Nat, NEW a \in Nat, NEW b \in Nat, a <= b
    PROVE  n * a <= n * b
<1>1. PICK d \in Nat : b = a + d
  <2>1. b - a \in Nat /\ b = a + (b - a)
    OBVIOUS
  <2> QED
    BY <2>1
<1>2. n * b = n * a + n * d
  BY <1>1
<1>3. n * d \in Nat /\ n * a \in Nat
  OBVIOUS
<1> QED
  BY <1>2, <1>3

\* Between two multiples there is nothing but the multiples between.
LEMMA MultipleWithin ==
    ASSUME NEW m \in Nat, m > 0, NEW k \in Int, m * k < m, -m < m * k
    PROVE  k = 0
<1>1. ASSUME k >= 1 PROVE FALSE
  <2>1. k - 1 \in Nat /\ m * (k - 1) \in Nat
    BY <1>1, Product
  <2>2. m * k = m * (k - 1) + m
    OBVIOUS
  <2> QED
    BY <2>1, <2>2
<1>2. ASSUME k <= -1 PROVE FALSE
  <2>1. (-k) - 1 \in Nat /\ m * ((-k) - 1) \in Nat
    BY <1>2, Product
  <2>2. m * k = -(m * ((-k) - 1)) - m
    OBVIOUS
  <2> QED
    BY <2>1, <2>2
<1> QED
  BY <1>1, <1>2

\* A multiple leaves no remainder.
LEMMA RemainderOfMultiple ==
    ASSUME NEW m \in Nat, m > 0, NEW k \in Int
    PROVE  ((m * k) % m) = 0
<1>1. m * k \in Int
  OBVIOUS
<1>2. PICK q \in Int, r \in Nat : m * k = m * q + r /\ r < m /\ r = ((m * k) % m)
  BY <1>1, Division
<1>3. m * (k - q) = r
  <2>1. m * (k - q) = m * k - m * q
    OBVIOUS
  <2> QED
    BY <1>2, <2>1
<1>4. k - q = 0
  <2>1. k - q \in Int /\ m * (k - q) < m /\ -m < m * (k - q)
    BY <1>2, <1>3
  <2> QED
    BY <2>1, MultipleWithin
<1> QED
  BY <1>2, <1>3, <1>4

\* Two numbers with the same remainder, less than one period apart, are the same.
LEMMA ResidueIsUnique ==
    ASSUME NEW a \in Int, NEW v \in Int, NEW w \in Int, NEW m \in Nat, m > 0,
           ((a - v) % m) = 0, ((a - w) % m) = 0, v - w < m, w - v < m
    PROVE  v = w
<1>1. PICK p \in Int : a - v = m * p
  <2>1. a - v \in Int
    OBVIOUS
  <2> QED
    BY <2>1, Division
<1>2. PICK q \in Int : a - w = m * q
  <2>1. a - w \in Int
    OBVIOUS
  <2> QED
    BY <2>1, Division
<1>3. m * (q - p) = v - w
  <2>1. m * (q - p) = m * q - m * p
    OBVIOUS
  <2> QED
    BY <1>1, <1>2, <2>1
<1>4. q - p = 0
  <2>1. q - p \in Int /\ m * (q - p) < m /\ -m < m * (q - p)
    BY <1>3
  <2> QED
    BY <2>1, MultipleWithin
<1> QED
  BY <1>1, <1>2, <1>4
=============================================================================

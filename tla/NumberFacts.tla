---------------------------- MODULE NumberFacts ----------------------------
(***************************************************************************)
(* Facts about natural numbers that the proofs share: least and greatest   *)
(* elements of sets of numbers, and induction, stated for sets.            *)
(***************************************************************************)
EXTENDS Integers, FiniteSetsExt, FiniteSetTheorems, WellFoundedInduction, TLAPS

\* A non-empty set of natural numbers has a least element.
LEMMA LeastElement ==
  ASSUME NEW S \in SUBSET Nat, S # {}
  PROVE  \E x \in S : \A y \in S : x <= y
<1> DEFINE T == {0 .. n - 1 : n \in S}
<1>1. T \subseteq FiniteSubsetsOf(Nat) /\ T # {}
  <2>1. PICK n \in S : TRUE
    OBVIOUS
  <2>2. 0 .. n - 1 \in T
    OBVIOUS
  <2>3. ASSUME NEW m \in S  PROVE 0 .. m - 1 \in FiniteSubsetsOf(Nat)
    <3>1. 0 \in Int /\ m - 1 \in Int
      OBVIOUS
    <3>2. IsFiniteSet(0 .. m - 1)
      BY <3>1, FS_Interval
    <3>3. QED
      BY <3>2 DEF FiniteSubsetsOf
  <2>4. QED
    BY <2>2, <2>3
<1>2. PICK t \in T : \A u \in T : ~ (<<u, t>> \in StrictSubsetOrdering(Nat))
  BY <1>1, FS_StrictSubsetOrderingWellFounded, WFMin
<1>3. PICK x \in S : t = 0 .. x - 1
  BY <1>2
<1>4. ASSUME NEW y \in S, y < x  PROVE FALSE
  <2>1. 0 .. y - 1 \in T
    OBVIOUS
  <2>2. (0 .. y - 1) \subseteq t /\ y \in t /\ y \notin 0 .. y - 1
    BY <1>3, <1>4
  <2>3. 0 .. y - 1 \in SUBSET Nat /\ t \in SUBSET Nat
    BY <1>3
  <2>4. <<0 .. y - 1, t>> \in StrictSubsetOrdering(Nat)
    BY <2>2, <2>3 DEF StrictSubsetOrdering
  <2>5. QED
    BY <1>2, <2>1, <2>4
<1>5. QED
  BY <1>4

\* A bounded non-empty set of natural numbers has a maximum.
LEMMA MaxElement ==
  ASSUME NEW S \in SUBSET Nat, S # {}, NEW b \in Nat, \A x \in S : x <= b
  PROVE  Max(S) \in S /\ \A x \in S : x <= Max(S)
<1> DEFINE T == {b - x : x \in S}
<1>1. T \in SUBSET Nat /\ T # {}
  <2>1. PICK n \in S : TRUE
    OBVIOUS
  <2>2. b - n \in T
    OBVIOUS
  <2>3. QED
    BY <2>2
<1>2. PICK m \in T : \A y \in T : m <= y
  BY <1>1, LeastElement
<1>3. PICK x \in S : m = b - x
  BY <1>2
<1>4. \A y \in S : x >= y
  BY <1>2, <1>3
<1>5. QED
  BY <1>4 DEF Max

\* The greatest element of a bounded set and 0, as the read path computes it.
LEMMA MaxWithZero ==
  ASSUME NEW S \in SUBSET Nat, NEW b \in Nat, \A x \in S : x <= b
  PROVE  /\ Max(S \cup {0}) \in S \cup {0}
         /\ \A x \in S : x <= Max(S \cup {0})
<1>1. S \cup {0} \in SUBSET Nat /\ S \cup {0} # {} /\ \A x \in S \cup {0} : x <= b
  OBVIOUS
<1>2. QED
  BY <1>1, MaxElement

\* Induction: a set of natural numbers with 0 and with every successor of an element
\* is Nat.
LEMMA NatInductionSet ==
  ASSUME NEW S \in SUBSET Nat, 0 \in S, \A n \in S : n + 1 \in S
  PROVE  S = Nat
<1>1. SUFFICES ASSUME S # Nat  PROVE FALSE
  OBVIOUS
<1>2. Nat \ S \in SUBSET Nat /\ Nat \ S # {}
  BY <1>1
<1>3. PICK m \in Nat \ S : \A y \in Nat \ S : m <= y
  BY <1>2, LeastElement
<1>4. m - 1 \in Nat /\ m - 1 \notin Nat \ S
  BY <1>3
<1>5. m - 1 + 1 \in S
  BY <1>4
<1>6. QED
  BY <1>3, <1>5

\* The same with -1 for the set without elements, as the constructor of the engine
\* computes the largest id.
LEMMA MaxWithMinusOne ==
  ASSUME NEW S \in SUBSET Nat, NEW b \in Nat, \A x \in S : x <= b
  PROVE  /\ Max(S \cup {-1}) + 1 \in Nat
         /\ \A x \in S : x < Max(S \cup {-1}) + 1
<1>1. PICK m \in S \cup {-1} : \A x \in S \cup {-1} : m >= x
  <2>1. CASE S = {}
    BY <2>1
  <2>2. CASE S # {}
    <3>1. PICK n \in S : \A x \in S : x <= n
      BY <2>2, MaxElement
    <3>2. n \in Nat /\ n >= -1
      OBVIOUS
    <3>3. QED
      BY <3>1, <3>2
  <2>3. QED
    BY <2>1, <2>2
<1>2. Max(S \cup {-1}) \in S \cup {-1} /\ \A x \in S \cup {-1} : Max(S \cup {-1}) >= x
  BY <1>1 DEF Max
<1> DEFINE n == Max(S \cup {-1})
<1> HIDE DEF n
<1>3. n \in S \cup {-1} /\ \A x \in S : n >= x
  BY <1>2 DEF n
<1>4. n + 1 \in Nat /\ \A x \in S : x < n + 1
  BY <1>3
<1>5. QED
  BY <1>4 DEF n

\* A finite non-empty set of natural numbers has a maximum.
LEMMA FiniteMax ==
  ASSUME NEW S \in SUBSET Nat, S # {}, IsFiniteSet(S)
  PROVE  Max(S) \in S /\ \A x \in S : x <= Max(S)
<1> DEFINE above(n) == {x \in S : x >= n}
           T == {above(n) : n \in S}
<1>1. T \subseteq FiniteSubsetsOf(Nat) /\ T # {}
  <2>1. PICK n \in S : TRUE
    OBVIOUS
  <2>2. above(n) \in T
    OBVIOUS
  <2>3. ASSUME NEW m \in S  PROVE above(m) \in FiniteSubsetsOf(Nat)
    <3>1. above(m) \in SUBSET S
      OBVIOUS
    <3>2. IsFiniteSet(above(m))
      BY <3>1, FS_Subset
    <3>3. QED
      BY <3>2 DEF FiniteSubsetsOf
  <2>4. QED
    BY <2>2, <2>3
<1>2. PICK t \in T : \A u \in T : ~ (<<u, t>> \in StrictSubsetOrdering(Nat))
  BY <1>1, FS_StrictSubsetOrderingWellFounded, WFMin
<1>3. PICK m \in S : t = above(m)
  BY <1>2
<1>4. ASSUME NEW y \in S, y > m  PROVE FALSE
  <2>1. above(y) \in T /\ y \in Nat /\ m \in Nat
    OBVIOUS
  <2>2. above(y) \subseteq above(m) /\ m \in above(m) /\ m \notin above(y)
    <3>1. \A x \in S : x \in Nat /\ (x >= y => x >= m)
      BY <1>4, <2>1
    <3>2. m >= m /\ ~ (m >= y)
      BY <1>4, <2>1
    <3>3. QED
      BY <3>1, <3>2
  <2>3. above(y) \in SUBSET Nat /\ t \in SUBSET Nat
    BY <1>3
  <2>4. <<above(y), t>> \in StrictSubsetOrdering(Nat)
    BY <1>3, <2>2, <2>3 DEF StrictSubsetOrdering
  <2>5. QED
    BY <1>2, <2>1, <2>4
<1>5. \A y \in S : m >= y
  BY <1>4
<1>6. QED
  BY <1>5 DEF Max

\* A non-empty set of natural numbers has a minimum.
LEMMA MinElement ==
  ASSUME NEW S \in SUBSET Nat, S # {}
  PROVE  Min(S) \in S /\ \A x \in S : Min(S) <= x
<1>1. PICK m \in S : \A y \in S : m <= y
  BY LeastElement
<1>2. QED
  BY <1>1 DEF Min
=============================================================================

------------------------------- MODULE NatFacts -------------------------------
(***************************************************************************)
(* What the proofs need to know of the naturals: least and greatest        *)
(* members of sets, products, quotients, and sizes rounded up.             *)
(***************************************************************************)
EXTENDS Integers, FiniteSetTheorems, WellFoundedInduction, TLAPS

(* A non-empty set of naturals has a least member: no interval 0..s with s *)
(* in the set strictly includes another for ever.                          *)
LEMMA LeastMember ==
  ASSUME NEW n \in Nat, NEW S, S \subseteq 0 .. n, S # {}
  PROVE  \E s \in S : \A t \in S : s <= t
<1> DEFINE U == 0 .. n
           Below == {0 .. s : s \in S}
<1>1. IsFiniteSet(U)
  BY FS_Interval
<1>2. Below \subseteq SUBSET U /\ Below # {}
  <2>1. \A s \in U : 0 .. s \subseteq U
    OBVIOUS
  <2>2. \A s \in S : 0 .. s \in Below /\ s \in U
    OBVIOUS
  <2> QED
    BY <2>1, <2>2
<1>3. IsWellFoundedOn(StrictSubsetOrdering(U), SUBSET U)
  BY <1>1, FS_StrictSubsetOrderingWellFounded, FS_FiniteSubsetsOfFinite, Zenon
<1> HIDE DEF Below
<1>4. PICK B \in Below : \A C \in Below : <<C, B>> \notin StrictSubsetOrdering(U)
  BY <1>2, <1>3, WFMin
<1>5. PICK s \in S : B = 0 .. s
  BY DEF Below
<1>6. \A t \in S : s <= t
  <2> SUFFICES ASSUME NEW t \in S, t < s PROVE FALSE
    OBVIOUS
  <2>1. 0 .. t \in Below
    BY DEF Below
  <2>2. 0 .. t \in SUBSET U /\ B \in SUBSET U
    BY <1>2, <2>1
  <2>3. 0 .. t \subseteq B /\ 0 .. t # B
    BY <1>5
  <2> QED
    BY <2>1, <2>2, <2>3, <1>4 DEF StrictSubsetOrdering
<1> QED
  BY <1>6

LEMMA GreatestMember ==
  ASSUME NEW n \in Nat, NEW S, S \subseteq 0 .. n, S # {}
  PROVE  \E s \in S : \A t \in S : t <= s
<1> DEFINE T == {n - s : s \in S}
<1>1. T \subseteq 0 .. n /\ T # {}
  <2>1. \A s \in S : n - s \in T /\ n - s \in 0 .. n
    OBVIOUS
  <2> QED
    BY <2>1
<1>2. PICK t \in T : \A u \in T : t <= u
  <2> HIDE DEF T
  <2> QED
    BY <1>1, LeastMember
<1>3. PICK s \in S : t = n - s
  OBVIOUS
<1>4. \A u \in S : n - u \in T
  OBVIOUS
<1>5. \A u \in S : u <= s
  <2> SUFFICES ASSUME NEW u \in S PROVE u <= s
    OBVIOUS
  <2>1. n - s <= n - u
    BY <1>2, <1>3, <1>4
  <2> QED
    BY <2>1
<1> QED
  BY <1>5

-----------------------------------------------------------------------------
(* Products keep an order.                                                 *)
LEMMA ProductMono ==
  ASSUME NEW a \in Nat, NEW b \in Nat, NEW c \in Nat, a <= b
  PROVE  /\ a * c <= b * c /\ c * a <= c * b
         /\ a * c \in Nat /\ b * c \in Nat /\ c * a \in Nat /\ c * b \in Nat
OBVIOUS

(* A quotient is the only number whose multiple is that close.             *)
LEMMA QuotientFacts ==
  ASSUME NEW a \in Nat, NEW b \in Nat \ {0}
  PROVE  a \div b \in Nat /\ b * (a \div b) <= a /\ a < b * (a \div b) + b
OBVIOUS
LEMMA QuotientUnique ==
  ASSUME NEW a \in Nat, NEW b \in Nat \ {0}, NEW q \in Nat, q * b <= a, a < q * b + b
  PROVE  a \div b = q
OBVIOUS

(* What is rounded up to a multiple is no smaller, and less than one more. *)
LEMMA RoundUpFacts ==
  ASSUME NEW x \in Nat, NEW a \in Nat \ {0}
  PROVE  /\ ((x + a - 1) \div a) * a \in Nat
         /\ x <= ((x + a - 1) \div a) * a /\ ((x + a - 1) \div a) * a < x + a
<1>1. x + a - 1 \in Nat
  OBVIOUS
<1> QED
  BY <1>1, QuotientFacts
=============================================================================

---------------------------- MODULE NumberLemmas ----------------------------
(***************************************************************************)
(* Sets of numbers have a least element, and a greatest one when they are  *)
(* bounded: what the CHOOSE of a first or a last sequence rests on.        *)
(***************************************************************************)
EXTENDS Integers, FiniteSetTheorems, WellFoundedInduction, TLAPS

\* The sets of the numbers up to each element have a minimal one
LEMMA LeastExists ==
  ASSUME NEW S, S \subseteq Nat, S # {}
  PROVE  \E s \in S : \A t \in S : s <= t
<1> DEFINE Upto(s) == S \cap (0..s)
<1> DEFINE T == {Upto(s) : s \in S}
<1>1. T \subseteq FiniteSubsetsOf(Nat) /\ T # {}
  <2>1. ASSUME NEW s \in S PROVE IsFiniteSet(Upto(s)) /\ Upto(s) \subseteq Nat
    <3>1. IsFiniteSet(0..s)
      BY FS_Interval
    <3>2. Upto(s) \in SUBSET (0..s)
      OBVIOUS
    <3> QED BY <3>1, <3>2, FS_Subset
  <2> QED BY <2>1 DEF FiniteSubsetsOf
<1>2. PICK x \in T : \A y \in T : ~(<<y, x>> \in StrictSubsetOrdering(Nat))
  BY <1>1, FS_StrictSubsetOrderingWellFounded, WFMin
<1>3. PICK s \in S : x = Upto(s)
  BY <1>2
<1>4. ASSUME NEW t \in S, t < s PROVE FALSE
  <2>1. Upto(t) \subseteq Upto(s) /\ s \in Upto(s) /\ s \notin Upto(t)
    BY <1>4
  <2>2. <<Upto(t), Upto(s)>> \in StrictSubsetOrdering(Nat)
    BY <2>1 DEF StrictSubsetOrdering
  <2> QED BY <1>2, <1>3, <2>2
<1> QED BY <1>4

LEMMA GreatestExists ==
  ASSUME NEW S, S \subseteq Nat, S # {}, NEW bound \in Nat, \A s \in S : s <= bound
  PROVE  \E s \in S : \A t \in S : t <= s
<1> DEFINE U == {u \in Nat : \A s \in S : s <= u}
<1>1. bound \in U
  OBVIOUS
<1>2. PICK u \in U : \A v \in U : u <= v
  BY <1>1, LeastExists
<1>3. u \in S
  <2> SUFFICES ASSUME u \notin S PROVE FALSE
    OBVIOUS
  <2>1. ASSUME NEW s \in S PROVE s \in Nat /\ s < u
    <3>1. s <= u /\ s # u
      BY <1>2
    <3> QED BY <3>1
  <2>2. PICK s \in S : TRUE
    OBVIOUS
  <2>3. u - 1 \in Nat
    BY <2>1, <2>2
  <2>4. u - 1 \in U
    BY <2>1, <2>3
  <2> QED BY <1>2, <2>4
<1> QED BY <1>2, <1>3
=============================================================================

------------------------------ MODULE SetLemmas ------------------------------
(***************************************************************************)
(* Facts about sets of naturals that the proofs share: the least element, and  *)
(* induction stated for a set, which is how the proofs about chains of clusters  *)
(* and about the tree of directories use it.                                 *)
(***************************************************************************)
EXTENDS Integers, FiniteSetsExt, WellFoundedInduction, TLAPS

(***************************************************************************)
(* A non-empty set of naturals has a least element, which Min returns: the   *)
(* first-fit searches of the code return an element of what they scan.       *)
(***************************************************************************)
LEMMA MinElement ==
    ASSUME NEW S \in SUBSET Nat, S # {}
    PROVE  Min(S) \in S /\ \A y \in S : Min(S) <= y
<1> DEFINE R == {ss \in Nat \X Nat : ss[1] < ss[2]}
<1>1. IsWellFoundedOn(R, Nat)
  BY NatLessThanWellFounded, Zenon DEF OpToRel
<1>r. \A a, b \in Nat : a < b => <<a, b>> \in R
  OBVIOUS
<1> HIDE DEF R
<1>2. \E x \in S : \A y \in S : ~ (<<y, x>> \in R)
  BY <1>1, WFMin
<1>3. PICK x \in S : \A y \in S : ~ (<<y, x>> \in R)
  BY <1>2
<1>4. \A y \in S : x <= y
  <2> TAKE y \in S
  <2>1. ~ (y < x)
    BY <1>3, <1>r, Zenon
  <2> QED
    BY <2>1
<1> QED
  BY <1>4 DEF Min

\* A set of naturals that holds 0 and with each number the next one holds every natural.
LEMMA SetInduction ==
    ASSUME NEW S, 0 \in S, \A n \in Nat : n \in S => n + 1 \in S
    PROVE  \A n \in Nat : n \in S
<1> DEFINE Missing == {n \in Nat : n \notin S}
<1> SUFFICES ASSUME Missing # {} PROVE FALSE
  OBVIOUS
<1>1. Missing \in SUBSET Nat
  OBVIOUS
<1> DEFINE least == Min(Missing)
<1>2. least \in Missing /\ \A y \in Missing : least <= y
  BY <1>1, MinElement
<1> HIDE DEF least
<1>3. least \in Nat /\ least \notin S /\ least # 0
  BY <1>2
<1>4. least - 1 \in Nat /\ least - 1 \in S
  BY <1>2, <1>3
<1>5. (least - 1) + 1 \in S
  BY <1>4
<1> QED
  BY <1>3, <1>5
=============================================================================

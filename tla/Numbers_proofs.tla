----------------------------- MODULE Numbers_proofs -----------------------------
(***************************************************************************)
(* Least and greatest members of sets of numbers, for the proofs of the    *)
(* components that choose by Min and Max, or the least with a property.    *)
(***************************************************************************)
EXTENDS Integers, FiniteSets, FiniteSetsExt, FiniteSetTheorems, TLAPS

(* Some number of a set is the least. The library's principle of the least *)
(* number is about an operator; the strict subsets of finite sets serve as *)
(* well here, with 1..n in place of n.                                     *)
LEMMA LeastMember ==
  ASSUME NEW S \in SUBSET Nat, S # {}
  PROVE  \E x \in S : \A y \in S : x <= y
<1> DEFINE Upto(n) == 1..n
           U == {Upto(n) : n \in S}
<1>1. U \subseteq FiniteSubsetsOf(Nat) /\ U # {}
  <2>1. \A n \in S : IsFiniteSet(Upto(n)) /\ Upto(n) \in SUBSET Nat
    BY FS_Interval
  <2>2. QED
    BY <2>1 DEF FiniteSubsetsOf
<1>2. PICK u \in U : \A v \in U : ~ (<<v, u>> \in StrictSubsetOrdering(Nat))
  BY <1>1, FS_StrictSubsetOrderingWellFounded, WFMin
<1>3. PICK x \in S : u = Upto(x)
  OBVIOUS
<1>4. ASSUME NEW y \in S, y < x
      PROVE  FALSE
  <2>1. /\ Upto(y) \subseteq Upto(x) /\ x \in Upto(x) /\ x \notin Upto(y)
        /\ Upto(y) \in SUBSET Nat /\ Upto(x) \in SUBSET Nat
    BY <1>4
  <2>2. <<Upto(y), u>> \in StrictSubsetOrdering(Nat)
    BY <2>1, <1>3 DEF StrictSubsetOrdering
  <2>3. QED
    BY <2>2, <1>2
<1>5. QED
  BY <1>4

(* Min and Max of the community module are members.                        *)
LEMMA MinMember ==
  ASSUME NEW S \in SUBSET Nat, S # {}
  PROVE  Min(S) \in S
BY LeastMember DEF Min

LEMMA MaxMember ==
  ASSUME NEW S \in SUBSET Nat, S # {}, NEW b \in Nat, \A x \in S : x <= b
  PROVE  Max(S) \in S
<1> DEFINE T == {u \in Nat : \A x \in S : x <= u}
<1>1. T \in SUBSET Nat /\ T # {}
  OBVIOUS
<1>2. PICK u \in T : \A y \in T : u <= y
  BY <1>1, LeastMember
<1>3. ASSUME u \notin S
      PROVE  FALSE
  <2>1. \A x \in S : x <= u - 1
    BY <1>3
  <2>2. u - 1 \in Nat
    <3>1. PICK y \in S : TRUE
      OBVIOUS
    <3>2. QED
      BY <2>1, <3>1
  <2>3. QED
    BY <1>2, <2>1, <2>2
<1>4. QED
  BY <1>3 DEF Max
==============================================================================

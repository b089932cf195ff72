--------------------------- MODULE LeastElements ----------------------------
(***************************************************************************)
(* The least-number principle: what stands in for induction over the       *)
(* positions of a sequence.                                                *)
(***************************************************************************)
EXTENDS Naturals, WellFoundedInduction, TLAPS

\* A non-empty set of natural numbers has a least element.
LEMMA LeastExists ==
  ASSUME NEW T, T \subseteq Nat, T # {}
  PROVE  \E x \in T : \A y \in T : x <= y
<1> DEFINE R == {p \in Nat \X Nat : p[1] < p[2]}
<1>1. IsWellFoundedOn(R, Nat)
  BY NatLessThanWellFounded DEF OpToRel
<1> HIDE DEF R
<1>2. PICK x \in T : \A y \in T : << y, x >> \notin R
  BY <1>1, WFMin
<1>3. \A y \in T : ~(y < x)
  BY <1>2 DEF R
<1> QED BY <1>3

\* A non-empty set of natural numbers with a bound has a greatest element.
LEMMA GreatestExists ==
  ASSUME NEW T, T \subseteq Nat, T # {}, NEW n \in Nat, \A x \in T : x <= n
  PROVE  \E x \in T : \A y \in T : y <= x
<1> DEFINE U == {m \in 0 .. n : n - m \in T}
<1>1. PICK t \in T : TRUE
  OBVIOUS
<1>2. n - t \in U
  BY <1>1
<1>3. U \subseteq Nat
  OBVIOUS
<1> HIDE DEF U
<1>4. PICK u \in U : \A v \in U : u <= v
  BY <1>2, <1>3, LeastExists
<1>5. ASSUME NEW y \in T PROVE y <= n - u
  <2>1. y \in Nat /\ y <= n
    OBVIOUS
  <2>2. n - y \in U
    BY <2>1 DEF U
  <2>3. u <= n - y
    BY <1>4, <2>2
  <2> QED BY <1>4, <2>1, <2>3 DEF U
<1> QED BY <1>4, <1>5 DEF U
=============================================================================

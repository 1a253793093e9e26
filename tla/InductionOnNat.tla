--------------------------- MODULE InductionOnNat ---------------------------
(***************************************************************************)
(* Induction over the natural numbers for a set of numbers: the form in    *)
(* which the proofs about folds and recursive functions cite it.           *)
(***************************************************************************)
EXTENDS Integers, TLAPS, WellFoundedInduction

Less == OpToRel(<, Nat)

LEMMA LessIs == Less = {p \in Nat \X Nat : p[1] < p[2]}
BY DEF Less, OpToRel

LEMMA LessWellFounded == IsWellFoundedOn(Less, Nat)
BY NatLessThanWellFounded DEF Less

\* A set of natural numbers that is not empty has a least element.
LEMMA LeastNumber ==
  ASSUME NEW T, T \subseteq Nat, T # {}
  PROVE  \E m \in T : \A k \in T : m <= k
<1>1. PICK m \in T : \A k \in T : <<k, m>> \notin Less
  BY LessWellFounded, WFMin
<1>2. \A k \in T : ~(k < m)
  BY <1>1, LessIs
<1>3. \A k \in T : k \in Nat /\ m \in Nat
  OBVIOUS
<1> QED
  BY <1>2, <1>3

\* A set with 0 and, up to m, the successor of each of its numbers has all up to m.
LEMMA InductionUpTo ==
  ASSUME NEW m \in Nat, NEW S, 0 \in S, \A n \in 0 .. m - 1 : n \in S => n + 1 \in S
  PROVE  \A n \in 0 .. m : n \in S
<1> DEFINE T == {n \in 0 .. m : n \notin S}
<1> SUFFICES ASSUME T # {} PROVE FALSE
  OBVIOUS
<1>1. T \subseteq Nat
  OBVIOUS
<1>2. PICK k \in T : \A l \in T : k <= l
  <2> HIDE DEF T
  <2> QED
    BY <1>1, LeastNumber
<1>3. k # 0 /\ k - 1 \in 0 .. m - 1 /\ k - 1 \in 0 .. m /\ (k - 1) + 1 = k
  BY <1>2
<1>4. k - 1 \in S
  <2>1. ~(k <= k - 1)
    BY <1>3
  <2> QED
    BY <1>2, <1>3, <2>1
<1> QED
  BY <1>2, <1>3, <1>4

\* A set of numbers below m that is not empty has a greatest element.
LEMMA GreatestNumber ==
  ASSUME NEW m \in Nat, NEW T, T \subseteq 0 .. m, T # {}
  PROVE  \E k \in T : \A l \in T : l <= k
<1> DEFINE U == {n \in Nat : \A l \in T : l <= n}
<1>1. U \subseteq Nat /\ m \in U
  OBVIOUS
<1>2. PICK u \in U : \A n \in U : u <= n
  <2> HIDE DEF U
  <2> QED
    BY <1>1, LeastNumber
<1>3. CASE u \in T
  BY <1>2, <1>3
<1>4. CASE u \notin T
  <2>1. \A l \in T : l \in Nat /\ l <= u /\ l # u
    BY <1>2, <1>4
  <2>2. u - 1 \in Nat
    <3>1. PICK l \in T : TRUE
      OBVIOUS
    <3>2. l \in Nat /\ l <= u /\ l # u /\ u \in Nat
      BY <2>1, <1>2
    <3> QED
      BY <3>2
  <2>3. \A l \in T : l <= u - 1
    BY <2>1, <1>2
  <2>4. u - 1 \in U /\ ~(u <= u - 1)
    BY <2>2, <2>3, <1>2
  <2> QED
    BY <2>4, <1>2
<1> QED
  BY <1>3, <1>4
=============================================================================

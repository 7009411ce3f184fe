----------------------------- MODULE LoopLemmas -----------------------------
(***************************************************************************)
(* Numbers: a least one, induction over a range, and what a loop computes. *)
(* The induction theorems of the library take an operator; these take a    *)
(* set, the counterexamples of which have a least one.                     *)
(***************************************************************************)
EXTENDS Naturals, WellFoundedInduction, TLAPS

LEMMA LeastOf ==
    ASSUME NEW S \in SUBSET Nat, S # {}
    PROVE  \E k \in S : \A j \in S : k <= j
<1> DEFINE R == OpToRel(<, Nat)
<1>1. IsWellFoundedOn(R, Nat)
  BY NatLessThanWellFounded
<1> HIDE DEF R
<1>2. PICK k \in S : \A j \in S : ~(<<j, k>> \in R)
  BY <1>1, WFMin
<1>3. \A j \in S : ~(j < k)
  BY <1>2 DEF R, OpToRel
<1> QED
  BY <1>3

LEMMA GreatestOf ==
    ASSUME NEW n \in Nat, NEW S \in SUBSET (0..n), S # {}
    PROVE  \E k \in S : \A j \in S : j <= k
<1> DEFINE T == {n - x : x \in S}
<1>1. T \in SUBSET Nat /\ T # {}
  <2>1. \A x \in S : n - x \in Nat /\ n - x \in T
    OBVIOUS
  <2>2. T \in SUBSET Nat
    BY <2>1
  <2>3. PICK x \in S : TRUE
    OBVIOUS
  <2>4. n - x \in T
    BY <2>1
  <2> HIDE DEF T
  <2> QED
    BY <2>2, <2>4
<1>2. PICK t \in T : \A u \in T : t <= u
  BY <1>1, LeastOf
<1>3. PICK k \in S : t = n - k
  BY <1>2
<1>4. ASSUME NEW j \in S PROVE j <= k
  <2>1. n - j \in T /\ j \in 0..n /\ k \in 0..n
    OBVIOUS
  <2>2. n - k <= n - j
    BY <1>2, <1>3, <2>1
  <2> QED
    BY <2>1, <2>2
<1> QED
  BY <1>4

LEMMA Climbs ==
    ASSUME NEW n \in Nat, NEW S, 0 \in S, \A i \in 0..n : i \in S /\ i < n => i + 1 \in S
    PROVE  0..n \subseteq S
<1> SUFFICES ASSUME NEW j \in 0..n, j \notin S PROVE FALSE
  OBVIOUS
<1> DEFINE M == {i \in 0..n : i \notin S}
<1>1. M \in SUBSET Nat /\ M # {}
  OBVIOUS
<1>2. PICK i \in M : \A k \in M : i <= k
  BY <1>1, LeastOf
<1>3. i \in 1..n
  BY <1>2
<1>4. i - 1 \in 0..n /\ i - 1 < n /\ i - 1 \in S
  BY <1>2, <1>3
<1>5. i - 1 + 1 \in S
  BY <1>4
<1> QED
  BY <1>2, <1>3, <1>5

\* A loop over 1..n with a state of D: the states it goes through exist.
LEMMA LoopRuns ==
    ASSUME NEW D, NEW base \in D, NEW n \in Nat, NEW G \in [1..n -> [D -> D]]
    PROVE  \E f \in [0..n -> D] : f[0] = base /\ \A i \in 1..n : f[i] = G[i][f[i - 1]]
<1> DEFINE Run(m, f) == f \in [0..m -> D] /\ f[0] = base /\ \A i \in 1..m : f[i] = G[i][f[i - 1]]
           S == {m \in 0..n : \E f \in [0..m -> D] : Run(m, f)}
<1>1. 0 \in S
  <2> DEFINE f == [i \in 0..0 |-> base]
  <2>1. f \in [0..0 -> D] /\ f[0] = base
    OBVIOUS
  <2> HIDE DEF f
  <2>2. Run(0, f)
    BY <2>1
  <2> QED
    BY <2>1, <2>2
<1>2. ASSUME NEW m \in 0..n, m \in S, m < n PROVE m + 1 \in S
  <2>1. PICK f \in [0..m -> D] : Run(m, f)
    BY <1>2
  <2> DEFINE g == [i \in 0..(m + 1) |-> IF i <= m THEN f[i] ELSE G[m + 1][f[m]]]
  <2>2. m + 1 \in 1..n /\ m \in 0..m /\ f[m] \in D
    BY <1>2, <2>1
  <2>3. G[m + 1] \in [D -> D]
    BY <2>2
  <2>4. G[m + 1][f[m]] \in D
    BY <2>2, <2>3
  <2>5. g \in [0..(m + 1) -> D]
    <3>1. \A i \in 0..(m + 1) : i <= m => i \in 0..m /\ f[i] \in D
      BY <1>2, <2>1
    <3> QED
      BY <2>4, <3>1
  <2>6. \A i \in 0..m : g[i] = f[i]
    BY <1>2
  <2>7. g[m + 1] = G[m + 1][f[m]]
    BY <1>2
  <2>8. g[0] = base
    BY <1>2, <2>1, <2>6
  <2>9. ASSUME NEW i \in 1..(m + 1) PROVE g[i] = G[i][g[i - 1]]
    <3>1. CASE i <= m
      <4>1. i \in 0..m /\ i \in 1..m /\ i - 1 \in 0..m
        BY <1>2, <3>1
      <4> QED
        BY <2>1, <2>6, <4>1
    <3>2. CASE i = m + 1
      <4>1. i - 1 = m /\ m \in 0..m
        BY <1>2, <3>2
      <4> QED
        BY <2>6, <2>7, <3>2, <4>1
    <3> QED
      BY <3>1, <3>2, <1>2
  <2> HIDE DEF g
  <2>10. Run(m + 1, g)
    BY <2>5, <2>8, <2>9
  <2>11. m + 1 \in 0..n
    BY <1>2
  <2> QED
    BY <2>5, <2>10, <2>11
<1>3. n \in S
  <2> HIDE DEF S
  <2>1. 0..n \subseteq S
    BY <1>1, <1>2, Climbs
  <2> QED
    BY <2>1
<1> QED
  BY <1>3
=============================================================================

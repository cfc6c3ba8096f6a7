----------------------------- MODULE LoopLemmas -----------------------------
(***************************************************************************)
(* Induction along a loop.  The library's induction theorems have an       *)
(* operator as a parameter; a set in its place serves as well, and that    *)
(* every set of numbers has a least one follows from the well-foundedness  *)
(* of the numbers.                                                         *)
(***************************************************************************)
EXTENDS Loops, WellFoundedInduction, TLAPS

(* A set of numbers that is not empty has a least one. *)
LEMMA Least ==
  ASSUME NEW S \in SUBSET Nat, S # {}
  PROVE  \E m \in S : \A k \in S : m <= k
<1>1. PICK m \in S : \A k \in S : <<k, m>> \notin OpToRel(<, Nat)
  BY NatLessThanWellFounded, WFMin
<1>2. \A k \in S : ~(k < m)
  BY <1>1 DEF OpToRel
<1> QED
  BY <1>2

(* Induction along a loop: what holds at its start and is kept by each pass
   holds after all passes. *)
LEMMA Passes ==
  ASSUME NEW n \in Nat, NEW P, 0 \in P, \A i \in 1..n : i - 1 \in P => i \in P
  PROVE  \A i \in 0..n : i \in P
<1> DEFINE Bad == {i \in 0..n : i \notin P}
<1>1. SUFFICES ASSUME Bad # {} PROVE FALSE
  OBVIOUS
<1>2. PICK m \in Bad : \A k \in Bad : m <= k
  <2>1. Bad \in SUBSET Nat
    OBVIOUS
  <2> HIDE DEF Bad
  <2> QED
    BY <1>1, <2>1, Least
<1>3. m \in 0..n /\ m \notin P /\ \A k \in 0..n : k < m => k \in P
  BY <1>2
<1>4. m # 0 /\ m - 1 \in 0..n /\ m \in 1..n
  BY <1>3
<1> QED
  BY <1>3, <1>4

(* What the recursive function of a loop is: its start and its passes. *)
Run(r, n, V, s, F) == /\ r \in [0..n -> V]
                      /\ r[0] = s
                      /\ \A i \in 1..n : r[i] = F[i][r[i - 1]]

(* Passes that stay within V have a run from every start in V. *)
LEMMA Recursion ==
  ASSUME NEW n \in Nat, NEW V, NEW s \in V, NEW F \in [1..n -> [V -> V]]
  PROVE  \E r : Run(r, n, V, s, F)
<1> DEFINE P == {m \in 0..n : \E r : Run(r, m, V, s, F)}
<1>1. 0 \in P
  <2> DEFINE q == [i \in 0..0 |-> s]
  <2>1. q \in [0..0 -> V] /\ q[0] = s /\ 1..0 = {}
    OBVIOUS
  <2>2. Run(q, 0, V, s, F)
    BY <2>1 DEF Run
  <2> QED
    BY <2>2
<1>2. ASSUME NEW m \in 1..n, m - 1 \in P PROVE m \in P
  <2>1. PICK r : Run(r, m - 1, V, s, F)
    BY <1>2
  <2> DEFINE q == [i \in 0..m |-> IF i = m THEN F[m][r[m - 1]] ELSE r[i]]
  <2>2. F[m] \in [V -> V] /\ r[m - 1] \in V /\ r \in [0..(m - 1) -> V] /\ r[0] = s
    BY <2>1 DEF Run
  <2>3. q \in [0..m -> V]
    BY <2>2
  <2>4. q[0] = s /\ q[m] = F[m][q[m - 1]]
    BY <2>2
  <2>5. ASSUME NEW i \in 1..m PROVE q[i] = F[i][q[i - 1]]
    BY <2>1, <2>4 DEF Run
  <2>6. Run(q, m, V, s, F)
    <3> HIDE DEF q
    <3> QED
      BY <2>3, <2>4, <2>5 DEF Run
  <2> QED
    BY <2>6
<1>3. n \in P
  <2>1. \A m \in 1..n : m - 1 \in P => m \in P
    BY <1>2
  <2> HIDE DEF P
  <2>2. \A i \in 0..n : i \in P
    BY <1>1, <2>1, Passes
  <2> QED
    BY <2>2
<1> QED
  BY <1>3

(* A function that starts like the loop and takes its passes is its run. *)
LEMMA IsRun ==
  ASSUME NEW n \in Nat, NEW V, NEW s \in V, NEW F \in [1..n -> [V -> V]], NEW g,
         g = [i \in 0..n |-> g[i]], g[0] = s,
         \A i \in 1..n : g[i - 1] \in V => g[i] = F[i][g[i - 1]]
  PROVE  Run(g, n, V, s, F)
<1> DEFINE P == {i \in 0..n : g[i] \in V}
<1>1. \A i \in 0..n : i \in P
  <2>1. 0 \in P
    OBVIOUS
  <2>2. ASSUME NEW i \in 1..n, i - 1 \in P PROVE i \in P
    <3>1. i \in 0..n /\ g[i - 1] \in V /\ F[i] \in [V -> V]
      BY <2>2
    <3>2. g[i] = F[i][g[i - 1]]
      BY <3>1
    <3> QED
      BY <3>1, <3>2
  <2>3. \A i \in 1..n : i - 1 \in P => i \in P
    BY <2>2
  <2> HIDE DEF P
  <2> QED
    BY <2>1, <2>3, Passes
<1>2. \A i \in 0..n : g[i] \in V
  BY <1>1
<1>3. g \in [0..n -> V]
  BY <1>2
<1>4. ASSUME NEW i \in 1..n PROVE g[i] = F[i][g[i - 1]]
  <2>1. i - 1 \in 0..n
    OBVIOUS
  <2> QED
    BY <1>2, <2>1
<1> QED
  BY <1>3, <1>4 DEF Run

(* x is what a run ends with. *)
Ran(x, n, V, s, F) == \E r : Run(r, n, V, s, F) /\ x = r[n]

(* What each pass hands to the next one holds at the end. *)
LEMMA Along ==
  ASSUME NEW n \in Nat, NEW V, NEW s, NEW F, NEW x, Ran(x, n, V, s, F),
         NEW P, s \in P[0], \A i \in 1..n : \A t \in V : t \in P[i - 1] => F[i][t] \in P[i]
  PROVE  x \in V /\ x \in P[n]
<1>1. PICK r : Run(r, n, V, s, F) /\ x = r[n]
  BY DEF Ran
<1> DEFINE Q == {i \in 0..n : r[i] \in P[i]}
<1>2. 0 \in Q
  BY <1>1 DEF Run
<1>3. ASSUME NEW i \in 1..n, i - 1 \in Q PROVE i \in Q
  <2>1. i \in 0..n /\ i - 1 \in 0..n
    OBVIOUS
  <2>2. r[i] = F[i][r[i - 1]] /\ r[i - 1] \in V /\ r[i - 1] \in P[i - 1]
    BY <1>1, <1>3, <2>1 DEF Run
  <2> QED
    BY <2>1, <2>2
<1>4. \A i \in 1..n : i - 1 \in Q => i \in Q
  BY <1>3
<1>5. \A i \in 0..n : i \in Q
  <2> HIDE DEF Q
  <2> QED
    BY <1>2, <1>4, Passes
<1>6. n \in Q
  <2> HIDE DEF Q
  <2> QED
    BY <1>5
<1> QED
  BY <1>1, <1>6 DEF Run
=============================================================================

-------------------------- MODULE InductionLemmas ---------------------------
(***************************************************************************)
(* Induction over an interval of naturals and the existence of a function  *)
(* defined by recursion over one, in a first-order form: a property is     *)
(* given as the set of the numbers that have it.  Both follow from the     *)
(* well-foundedness of the order of the naturals.                          *)
(***************************************************************************)
EXTENDS Integers, WellFoundedInduction, TLAPS

\* A set of naturals that is not empty has a least element.
LEMMA LeastNatural ==
    ASSUME NEW T, T \subseteq Nat, T # {}
    PROVE  \E m \in T : \A k \in T : m <= k
  <1>1. PICK m \in T : \A k \in T : <<k, m>> \notin OpToRel(<, Nat)
    BY NatLessThanWellFounded, WFMin
  <1>2. \A k \in T : ~(k < m)
    BY <1>1 DEF OpToRel
  <1> QED
    BY <1>2

\* What holds of 0 and is handed on from each number to the next one holds of
\* every number of the interval.
LEMMA SetInduction ==
    ASSUME NEW N \in Nat, NEW Good, 0 \in Good,
           \A n \in 1..N : n - 1 \in Good => n \in Good
    PROVE  \A n \in 0..N : n \in Good
  <1> DEFINE Bad == (0..N) \ Good
  <1>1. SUFFICES ASSUME Bad # {} PROVE FALSE
    OBVIOUS
  <1> Bad \subseteq Nat
    OBVIOUS
  <1> HIDE DEF Bad
  <1>2. PICK m \in Bad : \A k \in Bad : m <= k
    BY <1>1, LeastNatural
  <1> USE DEF Bad
  <1>3. m # 0
    BY <1>2
  <1>4. m - 1 \in Good
    BY <1>2, <1>3
  <1> QED
    BY <1>3, <1>4

\* One function on S for each step of a recursion.
Steps(N, S) == [1..N -> [S -> S]]

\* g starts with a and applies step[n] at each n.
Follows(g, N, S, a, step) ==
    /\ g \in [0..N -> S] /\ g[0] = a
    /\ \A n \in 1..N : g[n] = step[n][g[n - 1]]

\* A recursion over an interval defines a function.
LEMMA Recursion ==
    ASSUME NEW N \in Nat, NEW S, NEW a \in S, NEW step \in Steps(N, S)
    PROVE  \E g : Follows(g, N, S, a, step)
  <1>0. step \in [1..N -> [S -> S]]
    BY DEF Steps
  <1> DEFINE Upto(g, m) == /\ g \in [0..m -> S] /\ g[0] = a
                           /\ \A n \in 1..m : g[n] = step[n][g[n - 1]]
             Good == {m \in 0..N : \E g : Upto(g, m)}
  <1>1. 0 \in Good
    <2> DEFINE g0 == [n \in 0..0 |-> a]
    <2>1. Upto(g0, 0)
      OBVIOUS
    <2> HIDE DEF g0
    <2>2. \E g : Upto(g, 0)
      BY <2>1
    <2> QED
      BY <2>2
  <1>2. ASSUME NEW m \in 1..N, m - 1 \in Good
        PROVE  m \in Good
    <2>1. PICK g : Upto(g, m - 1)
      BY <1>2
    <2> DEFINE h == [n \in 0..m |-> IF n = m THEN step[m][g[m - 1]] ELSE g[n]]
    <2>2. g[m - 1] \in S
      BY <2>1
    <2>3. step[m][g[m - 1]] \in S
      BY <1>0, <2>2
    <2>4. h \in [0..m -> S]
      BY <2>1, <2>3
    <2>5. h[0] = a
      BY <2>1
    <2>6. ASSUME NEW n \in 1..m
          PROVE  h[n] = step[n][h[n - 1]]
      <3>1. CASE n = m
        BY <3>1
      <3>2. CASE n # m
        <4>1. n \in 1..(m - 1) /\ n - 1 \in 0..m /\ n - 1 # m /\ n \in 0..m
          BY <3>2
        <4> QED
          BY <2>1, <3>2, <4>1
      <3> QED
        BY <3>1, <3>2
    <2> HIDE DEF h
    <2>7. Upto(h, m)
      BY <2>4, <2>5, <2>6
    <2> QED
      BY <2>7
  <1>3. \A m \in 1..N : m - 1 \in Good => m \in Good
    BY <1>2
  <1> HIDE DEF Good
  <1>4. N \in Good
    <2>1. \A m \in 0..N : m \in Good
      BY <1>1, <1>3, SetInduction
    <2> QED
      BY <2>1
  <1>5. PICK g : Upto(g, N)
    BY <1>4 DEF Good
  <1> QED
    BY <1>5 DEF Follows

=============================================================================

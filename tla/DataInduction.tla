--------------------------- MODULE DataInduction ---------------------------
(***************************************************************************)
(* Induction over the naturals, with the property as a set, and what it    *)
(* gives for functions that are defined by recursion on their argument.    *)
(***************************************************************************)
EXTENDS Integers, WellFoundedInduction, TLAPS

\* A set with zero and with the successor of each of its elements below N holds
\* all numbers up to N.
LEMMA InductionUpTo ==
    ASSUME NEW N \in Nat, NEW S, 0 \in S,
           \A n \in 0..(N - 1) : n \in S => n + 1 \in S
    PROVE  0..N \subseteq S
<1>. DEFINE T == {n \in 0..N : n \notin S}
            R == OpToRel(<, Nat)
<1>. SUFFICES ASSUME T # {} PROVE FALSE
  OBVIOUS
<1>1. T \subseteq Nat
  OBVIOUS
<1>2. IsWellFoundedOn(R, Nat)
  BY NatLessThanWellFounded
<1>3. \A x, y \in Nat : x < y => <<x, y>> \in R
  BY DEF OpToRel
<1>4. PICK t \in T : \A y \in T : ~(<<y, t>> \in R)
  <2>. HIDE DEF T, R
  <2>. QED BY <1>1, <1>2, WFMin
<1>. HIDE DEF R
<1>5. t \in Nat /\ t # 0 /\ t - 1 \in Nat /\ t - 1 < t
  BY <1>1
<1>6. t - 1 \notin T
  BY <1>1, <1>3, <1>4, <1>5
<1>. QED BY <1>5, <1>6

\* The equation of a function defined by recursion on 0..N: it starts with a,
\* and E gives the next value.
Recurs(g, N, a, E) ==
    g = [i \in 0..N |-> IF i = 0 THEN a ELSE E[i][g[i - 1]]]

\* Such a function exists and its values stay in V.
LEMMA RecursionUpTo ==
    ASSUME NEW N \in Nat, NEW V, NEW a \in V, NEW E \in [1..N -> [V -> V]]
    PROVE  \E g \in [0..N -> V] : Recurs(g, N, a, E)
<1>. DEFINE S == {n \in 0..N : \E g \in [0..n -> V] : Recurs(g, n, a, E)}
<1>1. 0 \in S
  <2>. DEFINE g == [i \in 0..0 |-> a]
  <2>1. g \in [0..0 -> V] /\ Recurs(g, 0, a, E)
    BY DEF Recurs
  <2>. QED BY <2>1
<1>2. ASSUME NEW n \in 0..(N - 1), n \in S PROVE n + 1 \in S
  <2>1. PICK g \in [0..n -> V] : Recurs(g, n, a, E)
    BY <1>2
  <2>. DEFINE h == [i \in 0..(n + 1) |-> IF i = n + 1 THEN E[n + 1][g[n]] ELSE g[i]]
  <2>2. /\ n \in Nat /\ n + 1 \in 1..N /\ n + 1 \in 0..N /\ n \in 0..n
        /\ g[n] \in V /\ E[n + 1][g[n]] \in V
    OBVIOUS
  <2>3. h \in [0..(n + 1) -> V]
    BY <2>2
  <2>4. ASSUME NEW i \in 0..(n + 1)
        PROVE  h[i] = IF i = 0 THEN a ELSE E[i][h[i - 1]]
    <3>1. CASE i = n + 1
      BY <2>2, <3>1
    <3>2. CASE i # n + 1
      <4>1. i \in 0..n /\ h[i] = g[i]
        BY <2>2, <3>2
      <4>2. g[i] = IF i = 0 THEN a ELSE E[i][g[i - 1]]
        BY <2>1, <4>1 DEF Recurs
      <4>3. i # 0 => h[i - 1] = g[i - 1]
        BY <2>2, <4>1
      <4>. QED BY <4>1, <4>2, <4>3
    <3>. QED BY <3>1, <3>2
  <2>5. Recurs(h, n + 1, a, E)
    <3>1. h = [i \in 0..(n + 1) |-> h[i]]
      OBVIOUS
    <3>. HIDE DEF h
    <3>. QED BY <2>4, <3>1 DEF Recurs
  <2>. HIDE DEF h
  <2>. QED BY <2>2, <2>3, <2>5
<1>. HIDE DEF S
<1>3. 0..N \subseteq S
  BY <1>1, <1>2, InductionUpTo
<1>. QED BY <1>3 DEF S


\* A set that holds the first value of a function and with each of its values
\* the next one holds the last one.
LEMMA StaysIn ==
    ASSUME NEW N \in Nat, NEW V, NEW h, h[0] \in V,
           \A i \in 1..N : h[i - 1] \in V => h[i] \in V
    PROVE  h[N] \in V
<1>. DEFINE S == {i \in 0..N : h[i] \in V}
<1>1. 0 \in S
  OBVIOUS
<1>2. ASSUME NEW i \in 0..(N - 1), i \in S PROVE i + 1 \in S
  <2>1. i + 1 \in 1..N /\ (i + 1) - 1 = i /\ i + 1 \in 0..N
    OBVIOUS
  <2>. QED BY <1>2, <2>1
<1>. HIDE DEF S
<1>3. 0..N \subseteq S
  BY <1>1, <1>2, InductionUpTo
<1>. QED BY <1>3 DEF S
=============================================================================

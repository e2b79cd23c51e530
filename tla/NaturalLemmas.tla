--------------------------- MODULE NaturalLemmas ---------------------------
(***************************************************************************)
(* Induction on the natural numbers and functions defined by recursion on  *)
(* them, as facts about sets and functions, which the provers can use.     *)
(***************************************************************************)
EXTENDS Naturals, FiniteSetTheorems, TLAPS

\* A set of numbers that holds 0, and with every number the next one, holds all:
\* the smallest initial segment whose last number is missing would have a smaller
\* one (inclusion of finite sets is well-founded).
LEMMA Induction ==
    ASSUME NEW S, 0 \in S, \A n \in Nat : n \in S => n + 1 \in S
    PROVE  \A n \in Nat : n \in S
  <1> SUFFICES ASSUME NEW n \in Nat, n \notin S PROVE FALSE
    OBVIOUS
  <1> DEFINE R == StrictSubsetOrdering(0 .. n)
             F == FiniteSubsetsOf(0 .. n)
             T == {0 .. k : k \in {m \in 0 .. n : m \notin S}}
  <1>1. IsWellFoundedOn(R, F)
    BY FS_StrictSubsetOrderingWellFounded, Zenon
  <1>2. ASSUME NEW k \in 0 .. n
        PROVE  0 .. k \in F
    <2>1. IsFiniteSet(0 .. k) /\ 0 .. k \subseteq 0 .. n
      BY FS_Interval
    <2> QED
      BY <2>1 DEF FiniteSubsetsOf
  <1>3. T \subseteq F /\ T # {}
    <2>1. 0 .. n \in T
      OBVIOUS
    <2> QED
      BY <1>2, <2>1
  <1>4. \E x \in T : \A y \in T : ~ (<<y, x>> \in R)
    <2> HIDE DEF R, F, T
    <2> QED
      BY <1>1, <1>3, WFMin, Zenon
  <1>5. PICK k \in 0 .. n : k \notin S /\ \A y \in T : ~ (<<y, 0 .. k>> \in R)
    BY <1>4
  <1>6. k - 1 \in 0 .. n /\ k - 1 \notin S
    <2>1. k # 0
      BY <1>5
    <2> QED
      BY <1>5, <2>1
  <1>7. <<0 .. k - 1, 0 .. k>> \in R
    <2>1. k \in 0 .. k /\ k \notin 0 .. k - 1
      OBVIOUS
    <2>2. 0 .. k - 1 \subseteq 0 .. k /\ 0 .. k - 1 # 0 .. k
      BY <2>1
    <2> QED
      BY <2>2 DEF StrictSubsetOrdering
  <1> QED
    BY <1>5, <1>6, <1>7

\* f starts with a, and F gives its value for n + 1 from n and the one for n.
RecursiveBy(f, S, a, F) ==
    /\ f \in [Nat -> S]
    /\ f[0] = a
    /\ \A n \in Nat : f[n + 1] = F[<<n, f[n]>>]

\* Such a function exists, whatever a and F are.
LEMMA Recursion ==
    ASSUME NEW S, NEW a \in S, NEW F \in [Nat \X S -> S]
    PROVE  \E f : RecursiveBy(f, S, a, F)
  <1> DEFINE Good(g, n) == /\ g \in [0 .. n -> S] /\ g[0] = a
                           /\ \A m \in 0 .. n - 1 : g[m + 1] = F[<<m, g[m]>>]
  <1>1. \A n \in Nat : \E g \in [0 .. n -> S] : Good(g, n)
    <2> DEFINE T == {n \in Nat : \E g \in [0 .. n -> S] : Good(g, n)}
    <2>1. 0 \in T
      <3>1. Good([m \in 0 .. 0 |-> a], 0)
        OBVIOUS
      <3> QED
        BY <3>1
    <2>2. ASSUME NEW n \in Nat, n \in T
          PROVE  n + 1 \in T
      <3>1. PICK g \in [0 .. n -> S] : Good(g, n)
        BY <2>2
      <3> DEFINE v == F[<<n, g[n]>>]
                 h == [m \in 0 .. n + 1 |-> IF m = n + 1 THEN v ELSE g[m]]
      <3>2. v \in S
        OBVIOUS
      <3>3. h \in [0 .. n + 1 -> S] /\ h[0] = a
        BY <3>1, <3>2
      <3>4. ASSUME NEW m \in 0 .. n
            PROVE  h[m + 1] = F[<<m, h[m]>>]
        <4>1. h[m] = g[m]
          OBVIOUS
        <4>2. CASE m = n
          <5>1. h[n + 1] = v
            OBVIOUS
          <5> HIDE DEF h
          <5> QED
            BY <4>1, <4>2, <5>1
        <4>3. CASE m # n
          <5>1. m \in 0 .. n - 1 /\ m + 1 \in 0 .. n
            BY <4>3
          <5>2. h[m + 1] = g[m + 1]
            BY <5>1
          <5> QED
            BY <3>1, <4>1, <5>1, <5>2
        <4> QED
          BY <4>2, <4>3
      <3> HIDE DEF h
      <3>5. Good(h, n + 1)
        BY <3>3, <3>4
      <3> HIDE DEF Good
      <3> QED
        BY <3>3, <3>5
    <2> HIDE DEF T
    <2>3. \A n \in Nat : n \in T
      BY <2>1, <2>2, Induction
    <2> QED
      BY <2>3 DEF T
  <1>2. ASSUME NEW n \in Nat, NEW m \in Nat, NEW g, NEW h, Good(g, n), Good(h, m)
        PROVE  \A k \in Nat : k <= n /\ k <= m => g[k] = h[k]
    <2> DEFINE T == {k \in Nat : k <= n /\ k <= m => g[k] = h[k]}
    <2>1. 0 \in T
      BY <1>2
    <2>2. ASSUME NEW k \in Nat, k \in T
          PROVE  k + 1 \in T
      <3> SUFFICES ASSUME k + 1 <= n, k + 1 <= m PROVE g[k + 1] = h[k + 1]
        OBVIOUS
      <3>1. k \in 0 .. n - 1 /\ k \in 0 .. m - 1 /\ g[k] = h[k]
        BY <2>2
      <3> QED
        BY <1>2, <3>1
    <2> HIDE DEF T
    <2>3. \A k \in Nat : k \in T
      BY <2>1, <2>2, Induction
    <2> QED
      BY <2>3 DEF T
  <1> DEFINE G(n) == CHOOSE g \in [0 .. n -> S] : Good(g, n)
             f == [n \in Nat |-> G(n)[n]]
  <1>3. ASSUME NEW n \in Nat
        PROVE  Good(G(n), n)
    BY <1>1
  <1> HIDE DEF G
  <1>4. f \in [Nat -> S] /\ f[0] = a
    <2>1. ASSUME NEW n \in Nat
          PROVE  G(n)[n] \in S
      <3>1. G(n) \in [0 .. n -> S] /\ n \in 0 .. n
        BY <1>3
      <3> QED
        BY <3>1
    <2>2. f \in [Nat -> S]
      BY <2>1
    <2>3. Good(G(0), 0)
      BY <1>3
    <2> QED
      BY <2>2, <2>3
  <1>5. ASSUME NEW n \in Nat
        PROVE  f[n + 1] = F[<<n, f[n]>>]
    <2>1. Good(G(n + 1), n + 1) /\ Good(G(n), n)
      BY <1>3
    <2>2. G(n + 1)[n] = G(n)[n]
      BY <1>2, <2>1
    <2>3. G(n + 1)[n + 1] = F[<<n, G(n + 1)[n]>>]
      BY <2>1
    <2> QED
      BY <2>2, <2>3
  <1> HIDE DEF f
  <1>6. RecursiveBy(f, S, a, F)
    BY <1>4, <1>5 DEF RecursiveBy
  <1> QED
    BY <1>6
=============================================================================

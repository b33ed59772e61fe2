------------------------- MODULE IterationTheorems -------------------------
(***************************************************************************)
(* Induction over the natural numbers for sets of numbers, and the         *)
(* functions that iterate a step.  The library's induction theorems take   *)
(* an operator; these take a set and a function.                           *)
(***************************************************************************)
EXTENDS Integers, WellFoundedInduction, TLAPS

\* A set of natural numbers that is not empty has a least member.
LEMMA LeastNatural ==
  ASSUME NEW T, T \subseteq Nat, T # {}
  PROVE  \E x \in T : \A y \in T : x <= y
<1> DEFINE R == OpToRel(<, Nat)
<1>1. IsWellFoundedOn(R, Nat)
  BY NatLessThanWellFounded
<1> HIDE DEF R
<1>2. \E x \in T : \A y \in T : ~(<<y, x>> \in R)
  BY <1>1, WFMin
<1>3. \A x, y \in Nat : x < y => <<x, y>> \in R
  BY DEF R, OpToRel
<1>4. PICK x \in T : \A y \in T : ~(<<y, x>> \in R)
  BY <1>2
<1>5. ASSUME NEW y \in T
      PROVE  x <= y
  <2>1. x \in Nat /\ y \in Nat
    OBVIOUS
  <2>2. ~(y < x)
    BY <1>3, <1>4, <2>1
  <2>3. QED
    BY <2>1, <2>2
<1>6. QED
  BY <1>5

\* What holds of 0, and of n + 1 if it holds of n, holds of every natural number.
LEMMA NatSetInduction ==
  ASSUME NEW S, 0 \in S, \A n \in Nat : n \in S => n + 1 \in S
  PROVE  Nat \subseteq S
<1> SUFFICES ASSUME Nat \ S # {} PROVE FALSE
  OBVIOUS
<1>1. PICK x \in Nat \ S : \A y \in Nat \ S : x <= y
  BY LeastNatural
<1>2. QED
  BY <1>1

-----------------------------------------------------------------------------
\* The first n iterations of G from x.
Iterates(X, G, x, n, g) ==
  /\ g \in [0..n -> X]
  /\ g[0] = x
  /\ \A i \in 1..n : g[i] = G[g[i - 1]]

LEMMA IteratesExist ==
  ASSUME NEW X, NEW x \in X, NEW G \in [X -> X]
  PROVE  \A n \in Nat : \E g : Iterates(X, G, x, n, g)
<1> DEFINE S == {n \in Nat : \E g : Iterates(X, G, x, n, g)}
<1>1. 0 \in S
  <2>1. Iterates(X, G, x, 0, [i \in 0..0 |-> x])
    BY DEF Iterates
  <2>2. QED
    BY <2>1
<1>2. ASSUME NEW n \in Nat, n \in S
      PROVE  n + 1 \in S
  <2>1. PICK g : Iterates(X, G, x, n, g)
    BY <1>2
  <2> DEFINE h == [i \in 0..(n + 1) |-> IF i <= n THEN g[i] ELSE G[g[n]]]
  <2>2. h \in [0..(n + 1) -> X]
    BY <2>1 DEF Iterates
  <2>3. h[0] = x /\ \A i \in 1..(n + 1) : h[i] = G[h[i - 1]]
    BY <2>1 DEF Iterates
  <2>4. Iterates(X, G, x, n + 1, h)
    BY <2>2, <2>3 DEF Iterates
  <2>5. QED
    BY <2>4
<1> HIDE DEF S
<1>3. Nat \subseteq S
  BY <1>1, <1>2, NatSetInduction
<1>4. QED
  BY <1>3 DEF S

LEMMA IteratesAgree ==
  ASSUME NEW X, NEW x \in X, NEW G \in [X -> X], NEW n \in Nat, NEW m \in Nat, NEW g, NEW h,
         Iterates(X, G, x, n, g), Iterates(X, G, x, m, h)
  PROVE  \A i \in Nat : i <= n /\ i <= m => g[i] = h[i]
<1> DEFINE S == {i \in Nat : i <= n /\ i <= m => g[i] = h[i]}
<1>1. 0 \in S
  BY DEF Iterates
<1>2. ASSUME NEW i \in Nat, i \in S
      PROVE  i + 1 \in S
  <2>1. CASE i + 1 <= n /\ i + 1 <= m
    <3>1. g[i + 1] = G[g[i]] /\ h[i + 1] = G[h[i]]
      BY <2>1 DEF Iterates
    <3>2. QED
      BY <1>2, <2>1, <3>1
  <2>2. QED
    BY <2>1
<1> HIDE DEF S
<1>3. Nat \subseteq S
  BY <1>1, <1>2, NatSetInduction
<1>4. QED
  BY <1>3 DEF S

\* f iterates G from x.
Iteration(X, G, x, f) ==
  f \in [Nat -> X] /\ f[0] = x /\ \A n \in Nat : f[n + 1] = G[f[n]]

\* There is such a function.
LEMMA IterationExists ==
  ASSUME NEW X, NEW x \in X, NEW G \in [X -> X]
  PROVE  \E f : Iteration(X, G, x, f)
<1> DEFINE upto(n) == CHOOSE g : Iterates(X, G, x, n, g)
           f == [n \in Nat |-> upto(n)[n]]
<1>1. \A n \in Nat : Iterates(X, G, x, n, upto(n))
  BY IteratesExist
<1> HIDE DEF upto
<1>2. f \in [Nat -> X] /\ f[0] = x
  BY <1>1 DEF Iterates
<1>3. ASSUME NEW n \in Nat
      PROVE  f[n + 1] = G[f[n]]
  <2>1. Iterates(X, G, x, n, upto(n)) /\ Iterates(X, G, x, n + 1, upto(n + 1))
    BY <1>1
  <2>2. upto(n + 1)[n + 1] = G[upto(n + 1)[n]]
    BY <2>1 DEF Iterates
  <2>3. upto(n + 1)[n] = upto(n)[n]
    BY <2>1, IteratesAgree
  <2>4. QED
    BY <2>2, <2>3
<1>4. QED
  BY <1>2, <1>3 DEF Iteration
=============================================================================

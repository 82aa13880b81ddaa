---------------------------- MODULE SetInduction ----------------------------
(***************************************************************************)
(* Induction on the natural numbers with a set in place of a predicate,    *)
(* and from it the existence of recursively defined functions.  A theorem  *)
(* whose parameter is a set can be used by a first-order prover, which the *)
(* induction theorems of the library, whose parameters are operators,      *)
(* cannot.                                                                 *)
(***************************************************************************)
EXTENDS Integers, WellFoundedInduction, TLAPS

\* Induction: a set with 0 and the successor of each of its numbers has all
\* numbers.
THEOREM NatSetInduction ==
    ASSUME NEW S, 0 \in S, \A n \in Nat : n \in S => n + 1 \in S
    PROVE  Nat \subseteq S
<1> DEFINE T == Nat \ S
           R == OpToRel(<, Nat)
<1>1. SUFFICES ASSUME T # {} PROVE FALSE
  OBVIOUS
<1>2. IsWellFoundedOn(R, Nat)
  BY NatLessThanWellFounded
<1>3. \E n \in T : \A m \in T : ~ (<<m, n>> \in R)
  <2> HIDE DEF R, T
  <2> QED BY <1>1, <1>2, WFMin DEF T
<1>4. PICK n \in T : \A m \in T : ~ (<<m, n>> \in R)
  BY <1>3
<1>5. n # 0 /\ n - 1 \in Nat
  OBVIOUS
<1>6. n - 1 \in T
  BY <1>5
<1>7. <<n - 1, n>> \in R
  BY <1>5 DEF OpToRel
<1> QED BY <1>4, <1>6, <1>7

\* f starts from base and is carried on by step, as far as N.
Follows(f, N, base, step) ==
    f[0] = base /\ \A n \in 0..(N - 1) : f[n + 1] = step[n][f[n]]

\* Two functions that follow the same equations agree as far as they do.
LEMMA RecursionUnique ==
    ASSUME NEW N \in Nat, NEW base, NEW step, NEW f, NEW g,
           Follows(f, N, base, step), Follows(g, N, base, step)
    PROVE  \A n \in 0..N : f[n] = g[n]
<1> DEFINE S == {n \in Nat : n <= N => f[n] = g[n]}
<1>1. 0 \in S
  BY DEF Follows
<1>2. ASSUME NEW n \in Nat, n \in S PROVE n + 1 \in S
  <2>1. CASE n + 1 <= N
    <3>1. n \in 0..(N - 1) /\ f[n] = g[n]
      BY <1>2, <2>1
    <3> QED BY <3>1 DEF Follows
  <2> QED BY <2>1
<1>3. Nat \subseteq S
  <2> HIDE DEF S
  <2> QED BY <1>1, <1>2, NatSetInduction
<1> QED BY <1>3

\* One more step of a function that follows the equations as far as k.
LEMMA RecursionExtends ==
    ASSUME NEW k \in Nat, NEW A, NEW base, NEW step, step[k] \in [A -> A],
           NEW f \in [0..k -> A], Follows(f, k, base, step)
    PROVE  \E g \in [0..(k + 1) -> A] : Follows(g, k + 1, base, step)
<1> DEFINE g == [i \in 0..(k + 1) |-> IF i = k + 1 THEN step[k][f[k]] ELSE f[i]]
<1>1. g \in [0..(k + 1) -> A]
  OBVIOUS
<1>2. g[0] = base
  BY DEF Follows
<1>3. ASSUME NEW n \in 0..(k + 1 - 1) PROVE g[n + 1] = step[n][g[n]]
  <2>1. CASE n = k
    BY <2>1
  <2>2. CASE n # k
    <3>1. n \in 0..(k - 1) /\ n + 1 \in 0..k /\ n + 1 # k + 1 /\ n # k + 1
      BY <2>2
    <3>2. f[n + 1] = step[n][f[n]]
      BY <3>1 DEF Follows
    <3> QED BY <3>1, <3>2
  <2> QED BY <2>1, <2>2
<1> HIDE DEF g
<1>4. Follows(g, k + 1, base, step)
  BY <1>2, <1>3 DEF Follows
<1> QED BY <1>1, <1>4

\* Recursion on an interval: equations that stay in A have a solution.
THEOREM FiniteRecursion ==
    ASSUME NEW N \in Nat, NEW A, NEW base \in A, NEW step,
           \A n \in 0..(N - 1) : step[n] \in [A -> A]
    PROVE  \E f \in [0..N -> A] : Follows(f, N, base, step)
<1> DEFINE S == {k \in Nat : k <= N => \E f \in [0..k -> A] : Follows(f, k, base, step)}
<1>1. 0 \in S
  <2>1. /\ [i \in 0..0 |-> base] \in [0..0 -> A]
        /\ Follows([i \in 0..0 |-> base], 0, base, step)
    BY DEF Follows
  <2> QED BY <2>1
<1>2. ASSUME NEW k \in Nat, k \in S PROVE k + 1 \in S
  <2> SUFFICES ASSUME k + 1 <= N
               PROVE  \E f \in [0..(k + 1) -> A] : Follows(f, k + 1, base, step)
    OBVIOUS
  <2>1. PICK f \in [0..k -> A] : Follows(f, k, base, step)
    BY <1>2
  <2>2. step[k] \in [A -> A]
    OBVIOUS
  <2> QED BY <2>1, <2>2, RecursionExtends
<1>3. Nat \subseteq S
  <2> HIDE DEF S
  <2> QED BY <1>1, <1>2, NatSetInduction
<1> QED BY <1>3

\* f starts from base and is carried on by step for ever.
FollowsAlways(f, base, step) ==
    f[0] = base /\ \A n \in Nat : f[n + 1] = step[n][f[n]]

\* Recursion on the natural numbers.
THEOREM NatRecursion ==
    ASSUME NEW A, NEW base \in A, NEW step, \A n \in Nat : step[n] \in [A -> A]
    PROVE  \E f \in [Nat -> A] : FollowsAlways(f, base, step)
<1> DEFINE G(k) == CHOOSE f : f \in [0..k -> A] /\ Follows(f, k, base, step)
           h == [n \in Nat |-> G(n)[n]]
<1>1. ASSUME NEW k \in Nat PROVE G(k) \in [0..k -> A] /\ Follows(G(k), k, base, step)
  <2>1. \A n \in 0..(k - 1) : step[n] \in [A -> A]
    OBVIOUS
  <2>2. \E f \in [0..k -> A] : Follows(f, k, base, step)
    BY <2>1, FiniteRecursion
  <2> QED BY <2>2
<1> HIDE DEF G
<1>2. ASSUME NEW k \in Nat PROVE G(k + 1)[k + 1] = step[k][G(k)[k]]
  <2>1. Follows(G(k + 1), k + 1, base, step) /\ Follows(G(k), k, base, step)
    BY <1>1
  <2>2. Follows(G(k + 1), k, base, step)
    BY <2>1 DEF Follows
  <2>3. G(k + 1)[k] = G(k)[k]
    BY <2>1, <2>2, RecursionUnique
  <2>4. k \in 0..(k + 1 - 1)
    OBVIOUS
  <2> QED BY <2>1, <2>3, <2>4 DEF Follows
<1>3. ASSUME NEW n \in Nat PROVE G(n)[0] = base /\ G(n)[n] \in A
  BY <1>1 DEF Follows
<1>4. h \in [Nat -> A] /\ h[0] = base
  BY <1>3
<1>5. ASSUME NEW k \in Nat PROVE h[k + 1] = step[k][h[k]]
  BY <1>2
<1> HIDE DEF h
<1>6. FollowsAlways(h, base, step)
  BY <1>4, <1>5 DEF FollowsAlways
<1> QED BY <1>4, <1>6
=============================================================================

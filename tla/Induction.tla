----------------------------- MODULE Induction -----------------------------
(***************************************************************************)
(* Induction and recursion over the natural numbers, stated of sets and    *)
(* functions: what is to hold of every number is the set of the numbers it *)
(* holds of, and the step of a recursion is a function.                    *)
(***************************************************************************)
EXTENDS Integers, WellFoundedInduction, TLAPS

Less == {ss \in Nat \X Nat : ss[1] < ss[2]}

LEMMA LessIsWellFounded == IsWellFoundedOn(Less, Nat)
<1>1. IsWellFoundedOn(OpToRel(<, Nat), Nat)
  BY NatLessThanWellFounded
<1>2. OpToRel(<, Nat) = Less
  BY Zenon DEF OpToRel, Less
<1> QED
  BY <1>1, <1>2, Zenon

\* A set of natural numbers that is not empty has a least element.
LEMMA LeastElement ==
    ASSUME NEW T, T \subseteq Nat, T # {}
    PROVE  \E x \in T : \A y \in T : x <= y
<1>1. PICK x \in T : \A y \in T : <<y, x>> \notin Less
  BY LessIsWellFounded, WFMin
<1>2. ASSUME NEW y \in T, y < x PROVE FALSE
  <2>1. <<y, x>> \in Less
    BY <1>2 DEF Less
  <2> QED
    BY <1>1, <2>1
<1> QED
  BY <1>2

\* A set that holds 0, and with a number the next, holds them all.
LEMMA Induct ==
    ASSUME NEW P, 0 \in P, \A n \in Nat : n \in P => n + 1 \in P
    PROVE  \A n \in Nat : n \in P
<1> DEFINE T == Nat \ P
<1> SUFFICES ASSUME T # {} PROVE FALSE
  OBVIOUS
<1>1. PICK x \in T : \A y \in T : x <= y
  BY LeastElement
<1>2. x # 0 /\ x - 1 \in Nat /\ x - 1 \notin T
  BY <1>1
<1> QED
  BY <1>2

\* The same where a number may need all that are below it.
LEMMA StrongInduct ==
    ASSUME NEW P, \A n \in Nat : (\A m \in 0 .. n - 1 : m \in P) => n \in P
    PROVE  \A n \in Nat : n \in P
<1> DEFINE T == Nat \ P
<1> SUFFICES ASSUME T # {} PROVE FALSE
  OBVIOUS
<1>1. PICK x \in T : \A y \in T : x <= y
  BY LeastElement
<1>2. x \in Nat /\ x \notin P /\ \A m \in 0 .. x - 1 : m \in P
  BY <1>1
<1> QED
  BY <1>2

\* A recursion on D with values in S: the value at a number of B is given by A, any
\* other is found by G from the value at a smaller number p[n].
Recursive(D, S, B, A, p, G) ==
    /\ D \subseteq Nat
    /\ \A n \in D : n \in B => A[n] \in S
    /\ \A n \in D : n \notin B => p[n] \in D /\ p[n] < n
    /\ \A n \in D, v \in S : n \notin B => G[<<n, v>>] \in S

\* It has a solution.
LEMMA Recursion ==
    ASSUME NEW D, NEW S, NEW B, NEW A, NEW p, NEW G, Recursive(D, S, B, A, p, G)
    PROVE  \E f \in [D -> S] :
              \A n \in D : f[n] = IF n \in B THEN A[n] ELSE G[<<n, f[p[n]]>>]
<1> USE DEF Recursive
<1> DEFINE Val(n, f) == IF n \in B THEN A[n] ELSE G[<<n, f[p[n]]>>]
           UpTo(n) == {d \in D : d <= n}
           Good(n, f) == f \in [UpTo(n) -> S] /\ \A d \in UpTo(n) : f[d] = Val(d, f)
\* Two solutions agree where both are defined.
<1>1. ASSUME NEW m \in Nat, NEW n \in Nat, NEW f, NEW g, Good(m, f), Good(n, g)
      PROVE  \A d \in D : d <= m /\ d <= n => f[d] = g[d]
  <2> DEFINE P == {d \in Nat : d \in D /\ d <= m /\ d <= n => f[d] = g[d]}
  <2>1. ASSUME NEW k \in Nat, \A e \in 0 .. k - 1 : e \in P PROVE k \in P
    <3> SUFFICES ASSUME k \in D, k <= m, k <= n PROVE f[k] = g[k]
      OBVIOUS
    <3>1. f[k] = Val(k, f) /\ g[k] = Val(k, g)
      BY <1>1
    <3>2. CASE k \in B
      BY <3>1, <3>2
    <3>3. CASE k \notin B
      <4>1. p[k] \in D /\ p[k] < k /\ p[k] \in Nat
        BY <3>3
      <4>2. f[p[k]] = g[p[k]]
        BY <2>1, <4>1
      <4> QED
        BY <3>1, <3>3, <4>2
    <3> QED
      BY <3>2, <3>3
  <2> HIDE DEF P
  <2>2. \A k \in Nat : k \in P
    BY <2>1, StrongInduct
  <2> QED
    BY <2>2 DEF P
\* Solutions up to every number.
<1>2. \A n \in Nat : \E f : Good(n, f)
  <2> DEFINE P == {n \in Nat : \E f : Good(n, f)}
             Step(n, f) == [d \in UpTo(n) |-> IF d < n THEN f[d] ELSE Val(n, f)]
  <2>1. ASSUME NEW n \in Nat, NEW f, \A d \in D : d < n => f[d] \in S /\ f[d] = Val(d, f)
        PROVE  Good(n, Step(n, f))
    <3> DEFINE g == Step(n, f)
    <3>1. ASSUME NEW d \in UpTo(n) PROVE g[d] \in S /\ g[d] = Val(d, f)
      <4>1. d \in D /\ d \in Nat /\ d <= n /\ g[d] = IF d < n THEN f[d] ELSE Val(n, f)
        OBVIOUS
      <4>2. CASE d < n
        BY <2>1, <4>1, <4>2
      <4>3. CASE d = n
        <5>1. d \notin B => p[d] \in D /\ p[d] < n
          BY <4>1, <4>3
        <5>2. Val(d, f) \in S
          BY <2>1, <4>1, <5>1
        <5> QED
          BY <4>1, <4>3, <5>2
      <4> HIDE DEF g
      <4> QED
        BY <4>1, <4>2, <4>3
    <3>2. ASSUME NEW d \in UpTo(n) PROVE Val(d, f) = Val(d, g)
      <4>1. d \in D /\ d \in Nat /\ d <= n
        OBVIOUS
      <4>2. CASE d \in B
        BY <4>2
      <4>3. CASE d \notin B
        <5> DEFINE e == p[d]
        <5>1. e \in D /\ e < d
          BY <4>1, <4>3
        <5> HIDE DEF e
        <5>2. e \in D /\ e \in Nat /\ e < n
          BY <4>1, <5>1
        <5>3. g[e] = f[e]
          BY <5>2
        <5> QED
          BY <4>3, <5>3 DEF e
      <4> QED
        BY <4>2, <4>3
    <3>3. g = [d \in UpTo(n) |-> g[d]]
      OBVIOUS
    <3> HIDE DEF g
    <3>4. g \in [UpTo(n) -> S]
      BY <3>1, <3>3
    <3>5. \A d \in UpTo(n) : g[d] = Val(d, g)
      BY <3>1, <3>2
    <3> QED
      BY <3>4, <3>5 DEF g
  <2> HIDE DEF Good, Step
  <2>2. 0 \in P
    <3>1. \A d \in D : ~(d < 0)
      OBVIOUS
    <3>2. Good(0, Step(0, A))
      BY <2>1, <3>1
    <3> QED
      BY <3>2
  <2>3. ASSUME NEW n \in Nat, n \in P PROVE n + 1 \in P
    <3>1. PICK f : Good(n, f)
      BY <2>3
    <3>2. \A d \in D : d < n + 1 => f[d] \in S /\ f[d] = Val(d, f)
      BY <3>1 DEF Good
    <3>3. Good(n + 1, Step(n + 1, f))
      <4>1. n + 1 \in Nat
        OBVIOUS
      <4> HIDE DEF Val
      <4> QED
        BY <2>1, <3>2, <4>1
    <3> QED
      BY <3>3
  <2> HIDE DEF P
  <2>4. \A n \in Nat : n \in P
    BY <2>2, <2>3, Induct
  <2> QED
    BY <2>4 DEF P
<1> DEFINE sol == [n \in Nat |-> CHOOSE f : Good(n, f)]
           F == [n \in D |-> sol[n][n]]
<1>3. ASSUME NEW n \in Nat PROVE Good(n, sol[n])
  <2> HIDE DEF Good
  <2>1. sol[n] = CHOOSE f : Good(n, f)
    OBVIOUS
  <2> HIDE DEF sol
  <2> QED
    BY <1>2, <2>1
<1> HIDE DEF sol
<1>4. ASSUME NEW n \in D PROVE n \in Nat /\ n \in UpTo(n) /\ F[n] = sol[n][n] /\ F[n] \in S
  <2>1. n \in Nat /\ n \in UpTo(n) /\ F[n] = sol[n][n]
    OBVIOUS
  <2>2. sol[n] \in [UpTo(n) -> S]
    BY <1>3, <2>1
  <2> QED
    BY <2>1, <2>2
<1>5. ASSUME NEW n \in D PROVE F[n] = Val(n, F)
  <2>1. F[n] = Val(n, sol[n])
    BY <1>3, <1>4
  <2>2. CASE n \in B
    BY <2>1, <2>2
  <2>3. CASE n \notin B
    <3>1. p[n] \in D /\ p[n] < n /\ p[n] \in Nat /\ n \in Nat
      BY <2>3
    <3>2. Good(n, sol[n]) /\ Good(p[n], sol[p[n]]) /\ F[p[n]] = sol[p[n]][p[n]]
      BY <1>3, <1>4, <3>1
    <3> HIDE DEF Good, F
    <3>3. F[p[n]] = sol[n][p[n]]
      BY <1>1, <3>1, <3>2
    <3> QED
      BY <2>1, <2>3, <3>3
  <2> QED
    BY <2>2, <2>3
<1>6. F = [n \in D |-> F[n]]
  OBVIOUS
<1> HIDE DEF F
<1>7. F \in [D -> S]
  BY <1>4, <1>6
<1> QED
  BY <1>5, <1>7

\* A loop over the first N numbers: each value is found from the one before.
Loop(N, S, a, G) ==
    /\ N \in Nat
    /\ a \in S
    /\ \A k \in 1 .. N, v \in S : G[<<k, v>>] \in S

LEMMA Iteration ==
    ASSUME NEW N, NEW S, NEW a, NEW G, Loop(N, S, a, G)
    PROVE  \E f \in [0 .. N -> S] :
              f[0] = a /\ \A k \in 1 .. N : f[k] = G[<<k, f[k - 1]>>]
<1> DEFINE D == 0 .. N
           A == [k \in D |-> a]
           p == [k \in D |-> k - 1]
<1>1. Recursive(D, S, {0}, A, p, G)
  BY DEF Recursive, Loop
<1>2. A[0] = a /\ 0 \in D /\ \A k \in 1 .. N : p[k] = k - 1 /\ k \in D /\ k # 0
  BY DEF Loop
<1> HIDE DEF A, p, D
<1>3. PICK f \in [D -> S] : \A k \in D : f[k] = IF k \in {0} THEN A[k] ELSE G[<<k, f[p[k]]>>]
  BY <1>1, Recursion
<1>4. f[0] = a /\ \A k \in 1 .. N : f[k] = G[<<k, f[k - 1]>>]
  BY <1>2, <1>3
<1> QED
  BY <1>3, <1>4 DEF D
=============================================================================

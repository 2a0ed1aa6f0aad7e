------------------------------- MODULE Recursion -------------------------------
(***************************************************************************)
(* Induction on the natural numbers, and the existence of the functions    *)
(* that are defined by recursion, as facts about sets and functions: the   *)
(* provers can instantiate them, which they cannot do for an operator.     *)
(*                                                                         *)
(* To a prover a recursive function f[x \in S] == e is a CHOOSE, and       *)
(* nothing is known of it before some function with that equation is       *)
(* shown to exist.                                                         *)
(***************************************************************************)
EXTENDS Integers, WellFoundedInduction, TLAPS

\* A set of natural numbers that is not empty has a least element.
LEMMA LeastNat ==
  ASSUME NEW A, A \subseteq Nat, A # {}
  PROVE  \E n \in A : \A m \in A : n <= m
<1>1. PICK n \in A : \A m \in A : ~(<<m, n>> \in OpToRel(<, Nat))
  BY Zenon, NatLessThanWellFounded, WFMin
<1>2. \A m \in A : m \in Nat /\ n \in Nat /\ ~(m < n)
  BY <1>1 DEF OpToRel
<1> QED
  BY <1>2

\* Induction: the set P is what is to be shown of a number.
LEMMA SetInduction ==
  ASSUME NEW P, 0 \in P, \A n \in Nat : n \in P => n + 1 \in P
  PROVE  Nat \subseteq P
<1> SUFFICES ASSUME Nat \ P # {} PROVE FALSE
  OBVIOUS
<1>1. PICK n \in Nat \ P : \A m \in Nat \ P : n <= m
  BY LeastNat
<1>2. n # 0
  OBVIOUS
<1>3. n - 1 \in Nat /\ n - 1 \in P
  BY <1>1, <1>2
<1>4. (n - 1) + 1 \in P
  BY <1>3
<1> QED
  BY <1>4

-----------------------------------------------------------------------------
\* A function on the natural numbers is determined by its value at 0 and by
\* how each value follows from the one before it.
Iterates(f, d, F) == f[0] = d /\ \A n \in Nat : f[n + 1] = F[<<n, f[n]>>]

LEMMA PrimitiveRecursion ==
  ASSUME NEW S, NEW d \in S, NEW F \in [Nat \X S -> S]
  PROVE  \E f \in [Nat -> S] : Iterates(f, d, F)
<1> DEFINE Approx(n) ==
      {g \in [0..n -> S] : g[0] = d /\ \A m \in Nat : m < n => g[m + 1] = F[<<m, g[m]>>]}
<1>1. \A n \in Nat : Approx(n) # {}
  <2> DEFINE P == {n \in Nat : Approx(n) # {}}
  <2>1. 0 \in P
    <3>1. [i \in 0..0 |-> d] \in Approx(0)
      OBVIOUS
    <3> QED
      BY <3>1
  <2>2. ASSUME NEW n \in Nat, n \in P PROVE n + 1 \in P
    <3>1. PICK g : g \in Approx(n)
      BY <2>2
    <3> DEFINE v == F[<<n, g[n]>>]
               h == [i \in 0..n+1 |-> IF i <= n THEN g[i] ELSE v]
    <3>2. g \in [0..n -> S] /\ n \in 0..n /\ 0 \in 0..n
      BY <3>1
    <3>3. v \in S
      BY <3>2
    <3> HIDE DEF v
    <3>4. h \in [0..n+1 -> S]
      BY <3>2, <3>3
    <3>5. h[0] = d
      BY <3>1
    <3>6. ASSUME NEW m \in Nat, m < n + 1 PROVE h[m + 1] = F[<<m, h[m]>>]
      <4>1. h[m] = g[m]
        BY <3>6
      <4>2. CASE m < n
        <5>1. h[m + 1] = g[m + 1]
          BY <4>2
        <5>2. g[m + 1] = F[<<m, g[m]>>]
          BY <3>1, <4>2
        <5> QED
          BY <4>1, <5>1, <5>2
      <4>3. CASE m = n
        <5>1. h[m + 1] = v
          BY <4>3
        <5> QED
          BY <4>1, <4>3, <5>1 DEF v
      <4> QED
        BY <3>6, <4>2, <4>3
    <3>7. h \in Approx(n + 1)
      <4> HIDE DEF h
      <4> QED
        BY <3>4, <3>5, <3>6
    <3> QED
      BY <3>7
  <2>3. Nat \subseteq P
    <3> HIDE DEF P
    <3> QED
      BY <2>1, <2>2, SetInduction
  <2> QED
    BY <2>3
<1>2. ASSUME NEW n \in Nat, NEW k \in Nat, n <= k,
             NEW g \in Approx(n), NEW h \in Approx(k)
      PROVE  g[n] = h[n]
  <2> DEFINE P == {i \in Nat : i <= n => g[i] = h[i]}
  <2>1. 0 \in P
    OBVIOUS
  <2>2. ASSUME NEW i \in Nat, i \in P PROVE i + 1 \in P
    <3> SUFFICES ASSUME i + 1 <= n PROVE g[i + 1] = h[i + 1]
      OBVIOUS
    <3>1. g[i] = h[i]
      BY <2>2
    <3>2. g[i + 1] = F[<<i, g[i]>>] /\ h[i + 1] = F[<<i, h[i]>>]
      BY <1>2
    <3> QED
      BY <3>1, <3>2
  <2>3. Nat \subseteq P
    <3> HIDE DEF P
    <3> QED
      BY <2>1, <2>2, SetInduction
  <2> QED
    BY <2>3
<1> DEFINE best(n) == CHOOSE g : g \in Approx(n)
           f == [n \in Nat |-> best(n)[n]]
<1>3. \A n \in Nat : best(n) \in Approx(n)
  <2> HIDE DEF Approx
  <2> QED
    BY Zenon, <1>1
<1>4. f \in [Nat -> S]
  <2> HIDE DEF best
  <2>1. \A n \in Nat : best(n) \in [0..n -> S] /\ n \in 0..n
    BY <1>3
  <2> QED
    BY <2>1
<1>5. f[0] = d
  <2> HIDE DEF best
  <2> QED
    BY <1>3
<1>6. ASSUME NEW n \in Nat PROVE f[n + 1] = F[<<n, f[n]>>]
  <2> HIDE DEF best
  <2>1. n + 1 \in Nat /\ n <= n + 1 /\ n < n + 1
    OBVIOUS
  <2>2. best(n + 1) \in Approx(n + 1) /\ best(n) \in Approx(n)
    BY <1>3, <2>1
  <2>3. best(n + 1)[n + 1] = F[<<n, best(n + 1)[n]>>]
    BY <2>1, <2>2
  <2>4. best(n)[n] = best(n + 1)[n]
    <3> HIDE DEF Approx
    <3> QED
      BY <1>2, <2>1, <2>2
  <2> QED
    BY <2>1, <2>3, <2>4
<1> QED
  <2> HIDE DEF f
  <2> QED
    BY <1>4, <1>5, <1>6 DEF Iterates

\* The same on the numbers up to n, as a function over the indices of a
\* sequence: step i has the value before it.
StepsTo(n, f, d, F) == f[0] = d /\ \A i \in 1..n : f[i] = F[<<i, f[i - 1]>>]

LEMMA FiniteRecursion ==
  ASSUME NEW S, NEW d \in S, NEW F \in [Nat \X S -> S], NEW n \in Nat
  PROVE  \E f \in [0..n -> S] : StepsTo(n, f, d, F)
<1> DEFINE G == [p \in Nat \X S |-> F[<<p[1] + 1, p[2]>>]]
<1>1. G \in [Nat \X S -> S]
  <2>1. \A p \in Nat \X S : <<p[1] + 1, p[2]>> \in Nat \X S
    OBVIOUS
  <2> QED
    BY <2>1
<1>2. PICK g \in [Nat -> S] : Iterates(g, d, G)
  <2> HIDE DEF G
  <2> QED
    BY Zenon, <1>1, PrimitiveRecursion
<1> DEFINE f == [i \in 0..n |-> g[i]]
<1>3. f \in [0..n -> S] /\ f[0] = d
  BY <1>2 DEF Iterates
<1>4. ASSUME NEW i \in 1..n PROVE f[i] = F[<<i, f[i - 1]>>]
  <2>1. i - 1 \in Nat /\ (i - 1) + 1 = i /\ i - 1 \in 0..n /\ i \in 0..n
    OBVIOUS
  <2>2. g[i] = G[<<i - 1, g[i - 1]>>]
    <3> HIDE DEF G
    <3> QED
      BY <1>2, <2>1 DEF Iterates
  <2>3. <<i - 1, g[i - 1]>> \in Nat \X S
    BY <2>1
  <2> QED
    BY <2>1, <2>2, <2>3
<1> QED
  BY <1>3, <1>4 DEF StepsTo

\* A loop from x, which goes on at next[x] until it stops, and m[x] bounds its
\* rounds: what it computes is a function of where it starts.
Follows(f, D, next, stop, res) ==
  \A x \in D : f[x] = IF x \in stop THEN res[x] ELSE f[next[x]]

LEMMA LoopRecursion ==
  ASSUME NEW D, NEW R, NEW m \in [D -> Nat], NEW next \in [D -> D],
         NEW stop, NEW res \in [D -> R],
         \A x \in D \ stop : m[next[x]] < m[x]
  PROVE  \E f \in [D -> R] : Follows(f, D, next, stop, res)
<1> DEFINE S == [D -> R]
           Unfold(g) == [x \in D |-> IF x \in stop THEN res[x] ELSE g[next[x]]]
           F == [p \in Nat \X S |-> Unfold(p[2])]
<1>1. F \in [Nat \X S -> S]
  <2>1. \A g \in S : Unfold(g) \in S
    OBVIOUS
  <2> HIDE DEF S, Unfold
  <2>2. \A p \in Nat \X S : p[2] \in S
    OBVIOUS
  <2> QED
    BY <2>1, <2>2
<1>2. PICK h \in [Nat -> S] : Iterates(h, res, F)
  <2>1. res \in S
    OBVIOUS
  <2> HIDE DEF S, F, Unfold
  <2> QED
    BY Zenon, <1>1, <2>1, PrimitiveRecursion
<1>3. \A n \in Nat, x \in D :
        h[n] \in S /\ h[n + 1][x] = IF x \in stop THEN res[x] ELSE h[n][next[x]]
  <2> SUFFICES ASSUME NEW n \in Nat, NEW x \in D
               PROVE  h[n] \in S /\ h[n + 1][x] = IF x \in stop THEN res[x] ELSE h[n][next[x]]
    OBVIOUS
  <2>1. h[n] \in S
    BY <1>2
  <2>2. h[n + 1] = Unfold(h[n])
    <3> HIDE DEF S, Unfold
    <3> QED
      BY <1>2, <2>1 DEF Iterates
  <2> QED
    BY <2>1, <2>2
\* Once there are enough rounds, more of them change nothing.
<1>4. \A n \in Nat, x \in D : m[x] < n => h[n + 1][x] = h[n][x]
  <2> DEFINE P == {n \in Nat : \A x \in D : m[x] < n => h[n + 1][x] = h[n][x]}
  <2>1. 0 \in P
    OBVIOUS
  <2>2. ASSUME NEW n \in Nat, n \in P PROVE n + 1 \in P
    <3> SUFFICES ASSUME NEW x \in D, m[x] < n + 1
                 PROVE  h[(n + 1) + 1][x] = h[n + 1][x]
      OBVIOUS
    <3>1. n + 1 \in Nat
      OBVIOUS
    <3>2. CASE x \in stop
      BY <1>3, <3>1, <3>2
    <3>3. CASE x \notin stop
      <4>1. next[x] \in D /\ m[next[x]] < n
        <5>1. m[next[x]] < m[x] /\ m[x] \in Nat /\ next[x] \in D /\ m[next[x]] \in Nat
          BY <3>3
        <5> QED
          BY <5>1
      <4>2. h[n + 1][next[x]] = h[n][next[x]]
        BY <2>2, <4>1
      <4> QED
        BY <1>3, <3>1, <3>3, <4>2
    <3> QED
      BY <3>2, <3>3
  <2>3. Nat \subseteq P
    <3> HIDE DEF P
    <3> QED
      BY <2>1, <2>2, SetInduction
  <2> QED
    BY <2>3
<1>5. \A k \in Nat, x \in D : h[m[x] + 1 + k][x] = h[m[x] + 1][x]
  <2> DEFINE P == {k \in Nat : \A x \in D : h[m[x] + 1 + k][x] = h[m[x] + 1][x]}
  <2>1. 0 \in P
    OBVIOUS
  <2>2. ASSUME NEW k \in Nat, k \in P PROVE k + 1 \in P
    <3> SUFFICES ASSUME NEW x \in D
                 PROVE  h[m[x] + 1 + (k + 1)][x] = h[m[x] + 1][x]
      OBVIOUS
    <3>1. m[x] \in Nat
      OBVIOUS
    <3>2. m[x] + 1 + k \in Nat /\ m[x] < m[x] + 1 + k /\ (m[x] + 1 + k) + 1 = m[x] + 1 + (k + 1)
      BY <3>1
    <3> QED
      BY <1>4, <2>2, <3>2
  <2>3. Nat \subseteq P
    <3> HIDE DEF P
    <3> QED
      BY <2>1, <2>2, SetInduction
  <2> QED
    BY <2>3
<1> DEFINE f == [x \in D |-> h[m[x] + 1][x]]
<1>6. f \in [D -> R]
  <2>1. \A x \in D : m[x] + 1 \in Nat
    OBVIOUS
  <2> QED
    BY <1>3, <2>1
<1>7. ASSUME NEW x \in D PROVE f[x] = IF x \in stop THEN res[x] ELSE f[next[x]]
  <2>1. m[x] \in Nat /\ next[x] \in D /\ m[next[x]] \in Nat
    OBVIOUS
  <2>2. f[x] = IF x \in stop THEN res[x] ELSE h[m[x]][next[x]]
    BY <1>3, <2>1
  <2>3. CASE x \in stop
    BY <2>2, <2>3
  <2>4. CASE x \notin stop
    <3>1. PICK k \in Nat : m[x] = m[next[x]] + 1 + k
      <4>1. m[next[x]] < m[x]
        BY <2>4
      <4>2. m[x] - (m[next[x]] + 1) \in Nat
        BY <2>1, <4>1
      <4>3. m[x] = m[next[x]] + 1 + (m[x] - (m[next[x]] + 1))
        BY <2>1
      <4> QED
        BY <4>2, <4>3
    <3>2. h[m[x]][next[x]] = h[m[next[x]] + 1][next[x]]
      BY <1>5, <2>1, <3>1
    <3> QED
      BY <2>1, <2>2, <2>4, <3>2
  <2> QED
    BY <2>3, <2>4
<1> QED
  <2> HIDE DEF f
  <2> QED
    BY <1>6, <1>7 DEF Follows

=============================================================================

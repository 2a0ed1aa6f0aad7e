---------------------------- MODULE OneCallProofs ----------------------------
(***************************************************************************)
(* Proofs about module OneCall, for every scenario, every clock and every  *)
(* size of the first buffer: what is marshalled fits, the deadlines of     *)
(* call1 are neither early nor late, the handler is called on exactly the  *)
(* bytes sent, and sides that agree on the types understand each other.    *)
(*                                                                         *)
(* The last two rest on what a value is written as (Encoding), whatever    *)
(* its type and length, and on what is read where it was written.          *)
(***************************************************************************)
EXTENDS OneCall, Recursion, SequenceTheorems, TLAPS

-----------------------------------------------------------------------------
(* Sequences.                                                              *)

\* Induction: the set P is what is to be shown of a sequence.
LEMMA SeqInduction ==
  ASSUME NEW S, NEW P, << >> \in P, \A s \in Seq(S), e \in S : s \in P => Append(s, e) \in P
  PROVE  Seq(S) \subseteq P
<1> DEFINE Q == {n \in Nat : \A s \in Seq(S) : Len(s) = n => s \in P}
<1>1. 0 \in Q
  BY EmptySeq
<1>2. ASSUME NEW n \in Nat, n \in Q PROVE n + 1 \in Q
  <2>1. ASSUME NEW s \in Seq(S), Len(s) = n + 1 PROVE s \in P
    <3>1. s # << >>
      BY <2>1
    <3>2. PICK t \in Seq(S), e \in S : s = Append(t, e)
      BY <3>1, SequenceEmptyOrAppend
    <3>3. Len(t) \in Nat /\ Len(t) + 1 = n + 1
      BY <2>1, <3>2, AppendProperties, LenProperties
    <3>4. t \in P
      BY <1>2, <3>3
    <3> QED
      BY Zenon, <3>2, <3>4
  <2> QED
    BY <2>1
<1>3. Nat \subseteq Q
  <2> HIDE DEF Q
  <2> QED
    BY Zenon, <1>1, <1>2, SetInduction
<1> QED
  BY <1>3, LenProperties

\* What FlattenSeq computes, piece by piece.
FlattenBy(f, s) == f[0] = <<>> /\ \A i \in 1..Len(s) : f[i] = f[i - 1] \o s[i]

LEMMA FlattenSteps ==
  ASSUME NEW A, NEW s \in Seq(Seq(A))
  PROVE  \E f \in [0..Len(s) -> Seq(A)] : FlattenBy(f, s) /\ FlattenSeq(s) = f[Len(s)]
<1> DEFINE n == Len(s)
           S == Seq(A)
           F == [q \in Nat \X S |-> IF q[1] \in 1..n THEN q[2] \o s[q[1]] ELSE q[2]]
           Body(f) == [i \in 1..n |-> IF i = 1 THEN s[i] ELSE f[i - 1] \o s[i]]
<1>1. n \in Nat /\ \A i \in 1..n : s[i] \in S
  BY Zenon, LenProperties, ElementOfSeq
<1>2. << >> \in S
  OBVIOUS
<1>3. F \in [Nat \X S -> S]
  <2> HIDE DEF n
  <2> SUFFICES ASSUME NEW q \in Nat \X S
               PROVE  (IF q[1] \in 1..n THEN q[2] \o s[q[1]] ELSE q[2]) \in S
    OBVIOUS
  <2>1. q[2] \in S
    OBVIOUS
  <2>2. ASSUME q[1] \in 1..n PROVE q[2] \o s[q[1]] \in S
    BY Zenon, <1>1, <2>1, <2>2, ConcatProperties DEF S
  <2> QED
    BY <2>1, <2>2
<1>4. PICK f \in [0..n -> S] : StepsTo(n, f, <<>>, F)
  <2> HIDE DEF S, F, n
  <2> QED
    BY Zenon, <1>1, <1>2, <1>3, FiniteRecursion
<1>5. f[0] = <<>>
  BY <1>4 DEF StepsTo
<1>6. ASSUME NEW i \in 1..n PROVE f[i] = f[i - 1] \o s[i] /\ f[i - 1] \in S
  <2> HIDE DEF S, n
  <2>1. f[i] = F[<<i, f[i - 1]>>]
    BY <1>4 DEF StepsTo
  <2>2. <<i, f[i - 1]>> \in Nat \X S /\ f[i - 1] \in S
    BY <1>1, <1>4
  <2> QED
    BY <2>1, <2>2
<1>7. FlattenBy(f, s)
  BY Zenon, <1>5, <1>6 DEF FlattenBy
<1>8. CASE n = 0
  <2>1. s = <<>>
    BY <1>8
  <2>2. FlattenSeq(s) = s
    BY Zenon, <1>8 DEF FlattenSeq
  <2> QED
    BY Zenon, <1>4, <1>5, <1>7, <1>8, <2>1, <2>2
<1>9. CASE n # 0
  <2> DEFINE g == [i \in 1..n |-> f[i]]
             h == CHOOSE x : x = Body(x)
  <2>1. FlattenSeq(s) = h[n]
    BY Zenon, <1>9 DEF FlattenSeq
  <2>2. g = Body(g)
    <3> HIDE DEF S, n
    <3>1. ASSUME NEW i \in 1..n
          PROVE  f[i] = IF i = 1 THEN s[i] ELSE g[i - 1] \o s[i]
      <4>1. CASE i = 1
        <5>0. i - 1 = 0
          BY <4>1
        <5>1. f[i] = <<>> \o s[i]
          BY Zenon, <1>5, <1>6, <5>0
        <5>2. <<>> \o s[i] = s[i]
          BY Zenon, <1>1, ConcatEmptySeq DEF S
        <5> QED
          BY <4>1, <5>1, <5>2
      <4>2. CASE i # 1
        <5>1. i - 1 \in 1..n
          BY <1>1, <4>2
        <5>2. g[i - 1] = f[i - 1]
          BY <5>1
        <5> QED
          BY Zenon, <1>6, <4>2, <5>2
      <4> QED
        BY <4>1, <4>2
    <3> QED
      BY Zenon, <3>1
  <2>3. h = Body(h)
    <3> HIDE DEF Body, g
    <3> QED
      BY Zenon, <2>2
  <2> DEFINE P == {i \in Nat : i + 1 \in 1..n => h[i + 1] = f[i + 1]}
  <2> HIDE DEF h, n, S
  <2>4. ASSUME NEW i \in 1..n PROVE h[i] = IF i = 1 THEN s[i] ELSE h[i - 1] \o s[i]
    BY Zenon, <2>3
  <2>5. 0 \in P
    <3>1. ASSUME 1 \in 1..n PROVE h[1] = f[1]
      <4>1. h[1] = s[1] /\ s[1] \in Seq(A)
        BY <1>1, <2>4, <3>1 DEF S
      <4>2. f[1] = <<>> \o s[1]
        <5>1. 1 - 1 = 0
          OBVIOUS
        <5> QED
          BY Zenon, <1>5, <1>6, <3>1, <5>1
      <4>3. <<>> \o s[1] = s[1]
        BY Zenon, <4>1, ConcatEmptySeq
      <4> QED
        BY <4>1, <4>2, <4>3
    <3> QED
      BY <3>1
  <2>6. ASSUME NEW i \in Nat, i \in P PROVE i + 1 \in P
    <3>1. ASSUME (i + 1) + 1 \in 1..n PROVE h[(i + 1) + 1] = f[(i + 1) + 1]
      <4>1. PICK j \in 1..n : j = (i + 1) + 1 /\ j # 1 /\ j - 1 = i + 1 /\ i + 1 \in 1..n
        BY <1>1, <3>1
      <4>2. h[j] = h[j - 1] \o s[j] /\ h[j - 1] = f[j - 1]
        BY <2>4, <2>6, <4>1
      <4> QED
        BY <1>6, <4>1, <4>2
    <3> QED
      BY <3>1
  <2>7. Nat \subseteq P
    <3> HIDE DEF P
    <3> QED
      BY Zenon, <2>5, <2>6, SetInduction
  <2>8. h[n] = f[n]
    <3>1. n - 1 \in Nat /\ (n - 1) + 1 = n /\ n \in 1..n
      BY <1>1, <1>9
    <3>2. n - 1 \in P
      BY Zenon, <2>7, <3>1
    <3> QED
      BY <3>1, <3>2
  <2> QED
    BY Zenon, <1>4, <1>7, <2>1, <2>8 DEF n, S
<1> QED
  BY <1>8, <1>9

LEMMA FlattenEmpty == FlattenSeq(<< >>) = << >>
<1>1. Len(<< >>) = 0
  OBVIOUS
<1> QED
  BY Zenon, <1>1 DEF FlattenSeq

LEMMA FlattenAppend ==
  ASSUME NEW A, NEW s \in Seq(Seq(A)), NEW e \in Seq(A)
  PROVE  /\ FlattenSeq(s) \in Seq(A) /\ FlattenSeq(Append(s, e)) \in Seq(A)
         /\ FlattenSeq(Append(s, e)) = FlattenSeq(s) \o e
<1>1. PICK t, n : t = Append(s, e) /\ n = Len(s)
  OBVIOUS
<1>2. /\ n \in Nat /\ t \in Seq(Seq(A)) /\ Len(t) = n + 1 /\ t[n + 1] = e
      /\ \A i \in 1..n : t[i] = s[i]
  <2>1. Append(s, e) \in Seq(Seq(A)) /\ Len(Append(s, e)) = Len(s) + 1
    BY Zenon, AppendProperties
  <2>2. Append(s, e)[Len(s) + 1] = e /\ \A i \in 1..Len(s) : Append(s, e)[i] = s[i]
    BY AppendProperties
  <2>3. Len(s) \in Nat
    BY Zenon, LenProperties
  <2> QED
    BY Zenon, <1>1, <2>1, <2>2, <2>3
<1>3. PICK f \in [0..n -> Seq(A)] : FlattenBy(f, s) /\ FlattenSeq(s) = f[n]
  BY Zenon, <1>1, FlattenSteps
<1>4. PICK g \in [0..n + 1 -> Seq(A)] : FlattenBy(g, t) /\ FlattenSeq(t) = g[n + 1]
  BY Zenon, <1>2, FlattenSteps
<1> DEFINE P == {i \in Nat : i <= n => f[i] = g[i]}
<1>5. 0 \in P
  BY <1>3, <1>4 DEF FlattenBy
<1>6. ASSUME NEW i \in Nat, i \in P PROVE i + 1 \in P
  <2>1. ASSUME i + 1 <= n PROVE f[i + 1] = g[i + 1]
    <3>1. PICK j \in 1..n : j = i + 1 /\ j - 1 = i /\ j \in 1..n + 1 /\ f[i] = g[i]
      BY <1>2, <1>6, <2>1
    <3>2. f[j] = f[j - 1] \o s[j]
      BY Zenon, <1>1, <1>3 DEF FlattenBy
    <3>3. g[j] = g[j - 1] \o t[j]
      BY Zenon, <1>2, <1>4, <3>1 DEF FlattenBy
    <3>4. t[j] = s[j]
      BY Zenon, <1>2
    <3> QED
      BY Zenon, <3>1, <3>2, <3>3, <3>4
  <2> QED
    BY <2>1
<1>7. Nat \subseteq P
  <2> HIDE DEF P
  <2> QED
    BY Zenon, <1>5, <1>6, SetInduction
<1>8. f[n] = g[n]
  BY <1>2, <1>7
<1>9. g[n + 1] = g[n] \o e
  <2>1. n + 1 \in 1..n + 1 /\ (n + 1) - 1 = n
    BY <1>2
  <2>2. g[n + 1] = g[(n + 1) - 1] \o t[n + 1]
    BY Zenon, <1>2, <1>4, <2>1 DEF FlattenBy
  <2> QED
    BY Zenon, <1>2, <2>1, <2>2
<1>10. FlattenSeq(s) \in Seq(A) /\ FlattenSeq(t) \in Seq(A)
  BY <1>2, <1>3, <1>4
<1> QED
  BY Zenon, <1>1, <1>3, <1>4, <1>8, <1>9, <1>10

Maps(m, S, T) == m \in [S -> T]
Mapped(m, s)  == [i \in DOMAIN s |-> m[s[i]]]

\* The concatenation of what the elements of s are mapped to by m.
FlatMap(m, s) == FlattenSeq(Mapped(m, s))

\* The equations below have names, by which the provers find them.
MapsLast(m, s, e) == Mapped(m, Append(s, e)) = Append(Mapped(m, s), m[e])
FlatLast(m, s, e) == FlatMap(m, Append(s, e)) = FlatMap(m, s) \o m[e]
FlatCat(m, s, t)  == FlatMap(m, s \o t) = FlatMap(m, s) \o FlatMap(m, t)
FlatHead(m, s)    == FlatMap(m, s) = m[Head(s)] \o FlatMap(m, Tail(s))
CatLast(s, t, e)  == Append(s \o t, e) = s \o Append(t, e)
CatCat(s, t, z)   == (s \o t) \o z = s \o (t \o z)

LEMMA MapAppend ==
  ASSUME NEW S, NEW T, NEW m, Maps(m, S, T), NEW s \in Seq(S), NEW e \in S
  PROVE  Mapped(m, s) \in Seq(T) /\ MapsLast(m, s, e)
<1>1. PICK t, n : t = Append(s, e) /\ n = Len(s)
  OBVIOUS
<1>2. /\ n \in Nat /\ t \in Seq(S) /\ Len(t) = n + 1 /\ t[n + 1] = e
      /\ \A i \in 1..n : t[i] = s[i]
  BY <1>1, AppendProperties, LenProperties
<1>3. DOMAIN s = 1..n /\ DOMAIN t = 1..n + 1 /\ \A i \in 1..n : s[i] \in S
  BY <1>1, <1>2, LenProperties, ElementOfSeq
<1> DEFINE a == [i \in DOMAIN s |-> m[s[i]]]
<1>4. a \in [1..n -> T]
  BY Zenon, <1>3 DEF Maps
<1>5. a \in Seq(T) /\ Len(a) = n
  BY <1>2, <1>3, <1>4
<1>6. m[e] \in T
  BY DEF Maps
<1>7. [i \in DOMAIN t |-> m[t[i]]] = Append(a, m[e])
  <2>1. PICK b : b = Append(a, m[e])
    OBVIOUS
  <2>2. b \in Seq(T) /\ Len(b) = n + 1 /\ b[n + 1] = m[e] /\ \A i \in 1..n : b[i] = a[i]
    <3> HIDE DEF a
    <3> QED
      BY <1>5, <1>6, <2>1, AppendProperties
  <2>3. ASSUME NEW i \in 1..n + 1 PROVE b[i] = m[t[i]]
    <3>1. CASE i = n + 1
      BY <1>2, <2>2, <3>1
    <3>2. CASE i # n + 1
      <4>1. i \in 1..n
        BY <1>2, <3>2
      <4> QED
        BY Zenon, <1>2, <1>3, <2>2, <4>1
    <3> QED
      BY <3>1, <3>2
  <2>4. DOMAIN b = 1..n + 1 /\ b = [i \in DOMAIN b |-> b[i]]
    BY <2>2
  <2>5. [i \in DOMAIN t |-> m[t[i]]] = [i \in 1..n + 1 |-> b[i]]
    BY Zenon, <1>3, <2>3
  <2> QED
    BY Zenon, <2>1, <2>4, <2>5
<1> QED
  BY Zenon, <1>1, <1>5, <1>7 DEF Mapped, MapsLast

LEMMA FlatMapEmpty ==
  ASSUME NEW m
  PROVE  FlatMap(m, << >>) = << >>
<1>1. [i \in DOMAIN << >> |-> m[<< >>[i]]] = << >>
  OBVIOUS
<1> QED
  BY Zenon, <1>1, FlattenEmpty DEF FlatMap, Mapped

LEMMA FlatMapAppend ==
  ASSUME NEW S, NEW A, NEW m, Maps(m, S, Seq(A)), NEW s \in Seq(S), NEW e \in S
  PROVE  FlatMap(m, s) \in Seq(A) /\ m[e] \in Seq(A) /\ FlatLast(m, s, e)
<1>1. PICK a : a = Mapped(m, s)
  OBVIOUS
<1>2. Mapped(m, s) \in Seq(Seq(A)) /\ MapsLast(m, s, e)
  BY Zenon, MapAppend
<1>3. m[e] \in Seq(A)
  BY DEF Maps
<1>4. FlatMap(m, s) = FlattenSeq(a) /\ FlatMap(m, Append(s, e)) = FlattenSeq(Append(a, m[e]))
  BY Zenon, <1>1, <1>2 DEF FlatMap, MapsLast
<1> QED
  BY Zenon, <1>1, <1>2, <1>3, <1>4, FlattenAppend DEF FlatLast

LEMMA ConcatAssociates ==
  ASSUME NEW S, NEW s \in Seq(S), NEW t \in Seq(S), NEW z \in Seq(S)
  PROVE  CatCat(s, t, z)
BY DEF CatCat

LEMMA ConcatAppend ==
  ASSUME NEW S, NEW s \in Seq(S), NEW t \in Seq(S), NEW e \in S
  PROVE  CatLast(s, t, e)
<1>1. <<e>> \in Seq(S) /\ Append(t, e) = t \o <<e>>
  BY AppendIsConcat
<1>2. s \o t \in Seq(S)
  BY ConcatProperties
<1>3. Append(s \o t, e) = (s \o t) \o <<e>>
  BY <1>2, AppendIsConcat
<1>4. CatCat(s, t, <<e>>)
  BY Zenon, <1>1, ConcatAssociates
<1> QED
  BY Zenon, <1>1, <1>3, <1>4 DEF CatLast, CatCat

LEMMA FlatMapIsSeq ==
  ASSUME NEW S, NEW A, NEW m, Maps(m, S, Seq(A)), NEW s \in Seq(S)
  PROVE  FlatMap(m, s) \in Seq(A)
<1>1. CASE S = {}
  <2>1. s = << >> /\ << >> \in Seq(A)
    BY <1>1
  <2> QED
    BY Zenon, <2>1, FlatMapEmpty
<1>2. CASE S # {}
  <2>1. PICK e : e \in S
    BY <1>2
  <2> QED
    BY Zenon, <2>1, FlatMapAppend
<1> QED
  BY <1>1, <1>2

LEMMA FlatMapConcat ==
  ASSUME NEW S, NEW A, NEW m, Maps(m, S, Seq(A)), NEW s \in Seq(S), NEW t \in Seq(S)
  PROVE  FlatCat(m, s, t)
<1> DEFINE P == {z \in Seq(S) : FlatCat(m, s, z)}
<1>1. FlatMap(m, s) \in Seq(A)
  BY Zenon, FlatMapIsSeq
<1>2. << >> \in P
  <2>1. << >> \in Seq(S) /\ s \o << >> = s
    OBVIOUS
  <2>2. FlatMap(m, << >>) = << >>
    BY Zenon, FlatMapEmpty
  <2>3. FlatMap(m, s) \o << >> = FlatMap(m, s)
    BY Zenon, <1>1, ConcatEmptySeq
  <2> QED
    BY Zenon, <2>1, <2>2, <2>3 DEF FlatCat
<1>3. ASSUME NEW z \in Seq(S), NEW e \in S, z \in P PROVE Append(z, e) \in P
  <2>1. FlatMap(m, z) \in Seq(A) /\ m[e] \in Seq(A) /\ FlatLast(m, z, e)
    BY Zenon, FlatMapAppend
  <2>2. PICK y \in Seq(S) : y = s \o z
    BY Zenon, ConcatProperties
  <2>3. FlatLast(m, y, e)
    BY Zenon, FlatMapAppend
  <2>4. CatLast(s, z, e)
    BY Zenon, ConcatAppend
  <2>5. FlatMap(m, y) = FlatMap(m, s) \o FlatMap(m, z)
    BY Zenon, <1>3, <2>2 DEF FlatCat
  <2>6. CatCat(FlatMap(m, s), FlatMap(m, z), m[e])
    BY Zenon, <1>1, <2>1, ConcatAssociates
  <2>7. Append(z, e) \in Seq(S)
    BY Zenon, AppendProperties
  <2>8. FlatMap(m, s \o Append(z, e)) = FlatMap(m, s) \o (FlatMap(m, z) \o m[e])
    BY Zenon, <2>2, <2>3, <2>4, <2>5, <2>6 DEF FlatLast, CatLast, CatCat
  <2> QED
    BY Zenon, <2>1, <2>7, <2>8 DEF FlatCat, FlatLast
<1>4. Seq(S) \subseteq P
  <2> HIDE DEF P
  <2> QED
    BY Zenon, <1>2, <1>3, SeqInduction
<1> QED
  BY <1>4

LEMMA FlatMapOne ==
  ASSUME NEW S, NEW A, NEW m, Maps(m, S, Seq(A)), NEW e \in S
  PROVE  FlatMap(m, <<e>>) = m[e]
<1>1. << >> \in Seq(S) /\ Append(<< >>, e) = <<e>> /\ m[e] \in Seq(A)
  BY DEF Maps
<1>2. FlatLast(m, << >>, e)
  BY Zenon, <1>1, FlatMapAppend
<1>3. FlatMap(m, << >>) = << >> /\ << >> \o m[e] = m[e]
  BY Zenon, <1>1, FlatMapEmpty, ConcatEmptySeq
<1> QED
  BY Zenon, <1>1, <1>2, <1>3 DEF FlatLast

LEMMA FlatMapCons ==
  ASSUME NEW S, NEW A, NEW m, Maps(m, S, Seq(A)), NEW s \in Seq(S), s # << >>
  PROVE  FlatHead(m, s)
<1>1. PICK e, t : e = Head(s) /\ t = Tail(s)
  OBVIOUS
<1>2. e \in S /\ t \in Seq(S) /\ <<e>> \in Seq(S) /\ s = <<e>> \o t
  BY <1>1
<1>3. FlatCat(m, <<e>>, t)
  BY Zenon, <1>2, FlatMapConcat
<1>4. FlatMap(m, <<e>>) = m[e]
  BY Zenon, <1>2, FlatMapOne
<1> QED
  BY Zenon, <1>1, <1>2, <1>3, <1>4 DEF FlatCat, FlatHead

\* What m makes of s, and k of that, is what h makes of s.
FlatTwice(k, m, h, s) == FlatMap(k, FlatMap(m, s)) = FlatMap(h, s)
Composes(k, m, h, S)  == \A x \in S : h[x] = FlatMap(k, m[x])

LEMMA FlatMapTwice ==
  ASSUME NEW S, NEW B, NEW A, NEW m, NEW k, NEW h,
         Maps(m, S, Seq(B)), Maps(k, B, Seq(A)), Maps(h, S, Seq(A)), Composes(k, m, h, S),
         NEW s \in Seq(S)
  PROVE  FlatTwice(k, m, h, s)
<1> DEFINE P == {z \in Seq(S) : FlatTwice(k, m, h, z)}
<1>1. << >> \in P
  <2>1. << >> \in Seq(S)
    OBVIOUS
  <2>2. FlatMap(m, << >>) = << >> /\ FlatMap(k, << >>) = << >> /\ FlatMap(h, << >>) = << >>
    BY Zenon, FlatMapEmpty
  <2> QED
    BY Zenon, <2>1, <2>2 DEF FlatTwice
<1>2. ASSUME NEW z \in Seq(S), NEW e \in S, z \in P PROVE Append(z, e) \in P
  <2>1. FlatMap(m, z) \in Seq(B) /\ m[e] \in Seq(B) /\ FlatLast(m, z, e)
    BY Zenon, FlatMapAppend
  <2>2. FlatLast(h, z, e)
    BY Zenon, FlatMapAppend
  <2>3. FlatCat(k, FlatMap(m, z), m[e])
    BY Zenon, <2>1, FlatMapConcat
  <2>4. h[e] = FlatMap(k, m[e]) /\ FlatMap(k, FlatMap(m, z)) = FlatMap(h, z)
    BY Zenon, <1>2 DEF Composes, FlatTwice
  <2>5. Append(z, e) \in Seq(S)
    BY Zenon, AppendProperties
  <2> QED
    BY Zenon, <2>1, <2>2, <2>3, <2>4, <2>5 DEF FlatLast, FlatCat, FlatTwice
<1>3. Seq(S) \subseteq P
  <2> HIDE DEF P
  <2> QED
    BY Zenon, <1>1, <1>2, SeqInduction
<1> QED
  BY <1>3

-----------------------------------------------------------------------------
(* What a value writes: a sequence of calls of rawbyte and rawbytes.       *)

WriteOps == {w \in [op : {"rawbyte", "rawbytes"}, bytes : Seq(Bytes)] :
               w.op = "rawbyte" => Len(w.bytes) = 1}

LEMMA ByteIsOp ==
  ASSUME NEW b \in Bytes
  PROVE  Byte(b) \in WriteOps
<1>1. <<b>> \in Seq(Bytes) /\ Len(<<b>>) = 1
  OBVIOUS
<1>2. Byte(b) \in [op : {"rawbyte", "rawbytes"}, bytes : Seq(Bytes)] /\ Byte(b).bytes = <<b>>
  BY Zenon, <1>1 DEF Byte
<1> QED
  BY Zenon, <1>1, <1>2 DEF WriteOps

\* The bytes that a sequence of writes adds to a buffer.
ItsBytes     == [w \in WriteOps |-> w.bytes]
BytesOf(ops) == FlatMap(ItsBytes, ops)

LEMMA ItsBytesMaps == Maps(ItsBytes, WriteOps, Seq(Bytes))
BY DEF Maps, ItsBytes, WriteOps

\* The w low bytes of x, the highest first.
Digits(x, w) == [i \in 1..w |-> (x \div 256^(w - i)) % 256]
Widths == {1, 2, 4}

LEMMA DigitsAreBytes ==
  ASSUME NEW x \in Int, NEW w \in Widths
  PROVE  Digits(x, w) \in Seq(Bytes) /\ Len(Digits(x, w)) = w
<1>1. ASSUME NEW i \in 1..w PROVE (x \div 256^(w - i)) % 256 \in Bytes
  <2>1. PICK k : k = w - i
    OBVIOUS
  <2>2. k \in {0, 1, 2, 3}
    BY <2>1 DEF Widths
  <2>3. 256^0 = 1 /\ 256^1 = 256 /\ 256^2 = 65536 /\ 256^3 = 16777216
    BY SMT
  <2>4. PICK d : d = 256^k
    OBVIOUS
  <2>5. d \in Nat /\ d > 0
    <3>1. CASE k = 0
      BY <2>3, <2>4, <3>1
    <3>2. CASE k = 1
      BY <2>3, <2>4, <3>2
    <3>3. CASE k = 2
      BY <2>3, <2>4, <3>3
    <3>4. CASE k = 3
      BY <2>3, <2>4, <3>4
    <3> QED
      BY <2>2, <3>1, <3>2, <3>3, <3>4
  <2>6. x \div d \in Int
    BY <2>5
  <2>7. (x \div d) % 256 \in 0..255
    BY <2>6
  <2> QED
    BY Zenon, <2>1, <2>4, <2>7 DEF Bytes
<1>2. w \in Nat
  BY DEF Widths
<1>3. Digits(x, w) \in [1..w -> Bytes]
  BY Zenon, <1>1 DEF Digits
<1> QED
  BY <1>2, <1>3

\* One rawbyte for each of them.
LEMMA RawByteEach ==
  ASSUME NEW b \in Seq(Bytes)
  PROVE  /\ [i \in DOMAIN b |-> Byte(b[i])] \in Seq(WriteOps)
         /\ BytesOf([i \in DOMAIN b |-> Byte(b[i])]) = b
<1> DEFINE m == [x \in Bytes |-> Byte(x)]
           P == {s \in Seq(Bytes) : BytesOf(Mapped(m, s)) = s}
<1>1. Maps(m, Bytes, WriteOps)
  BY Zenon, ByteIsOp DEF Maps
<1>2. ASSUME NEW s \in Seq(Bytes) PROVE Mapped(m, s) \in Seq(WriteOps)
  <2>1. 0 \in Bytes
    BY DEF Bytes
  <2> HIDE DEF m
  <2> QED
    BY Zenon, <1>1, <2>1, MapAppend
<1>3. << >> \in P
  <2>1. Mapped(m, << >>) = << >> /\ << >> \in Seq(Bytes)
    BY DEF Mapped
  <2>2. BytesOf(<< >>) = << >>
    BY Zenon, FlatMapEmpty DEF BytesOf
  <2> HIDE DEF m
  <2> QED
    BY Zenon, <2>1, <2>2
<1>4. ASSUME NEW s \in Seq(Bytes), NEW e \in Bytes, s \in P PROVE Append(s, e) \in P
  <2>1. m[e] = Byte(e) /\ Byte(e) \in WriteOps
    BY ByteIsOp
  <2> HIDE DEF m
  <2>2. Mapped(m, s) \in Seq(WriteOps) /\ MapsLast(m, s, e)
    BY Zenon, <1>1, MapAppend
  <2>3. FlatLast(ItsBytes, Mapped(m, s), Byte(e))
    BY Zenon, <2>1, <2>2, ItsBytesMaps, FlatMapAppend
  <2>4. ItsBytes[Byte(e)] = <<e>>
    BY <2>1 DEF ItsBytes, Byte
  <2>5. Append(s, e) = s \o <<e>> /\ Append(s, e) \in Seq(Bytes)
    BY AppendIsConcat, AppendProperties
  <2>6. BytesOf(Mapped(m, s)) = s
    BY Zenon, <1>4
  <2>7. BytesOf(Mapped(m, Append(s, e))) = Append(s, e)
    BY Zenon, <2>1, <2>2, <2>3, <2>4, <2>5, <2>6 DEF MapsLast, FlatLast, BytesOf
  <2> QED
    BY Zenon, <2>5, <2>7
<1>5. Seq(Bytes) \subseteq P
  <2> HIDE DEF P
  <2> QED
    BY Zenon, <1>3, <1>4, SeqInduction
<1>6. [i \in DOMAIN b |-> Byte(b[i])] = Mapped(m, b)
  <2>1. \A i \in DOMAIN b : b[i] \in Bytes
    OBVIOUS
  <2> QED
    BY Zenon, <2>1 DEF Mapped
<1>7. BytesOf(Mapped(m, b)) = b
  BY Zenon, <1>5
<1> QED
  <2> HIDE DEF m
  <2> QED
    BY Zenon, <1>2, <1>6, <1>7

LEMMA NetworkOrderWrites ==
  ASSUME NEW x \in Int, NEW w \in Widths
  PROVE  NetworkOrder(x, w) \in Seq(WriteOps) /\ BytesOf(NetworkOrder(x, w)) = Digits(x, w)
<1>1. PICK b : b = Digits(x, w)
  OBVIOUS
<1>2. b \in Seq(Bytes)
  BY Zenon, <1>1, DigitsAreBytes
<1>3. [i \in DOMAIN b |-> Byte(b[i])] = NetworkOrder(x, w)
  <2>1. DOMAIN b = 1..w /\ \A i \in 1..w : b[i] = (x \div 256^(w - i)) % 256
    BY Zenon, <1>1 DEF Digits
  <2> QED
    BY Zenon, <2>1 DEF NetworkOrder
<1> QED
  BY Zenon, <1>1, <1>2, <1>3, RawByteEach

\* What each type writes.
WordOps   == [x \in Ints |-> NetworkOrder(x, 4)]
Words     == [x \in Ints |-> Digits(x, 4)]

Encoding(v) ==
  CASE v.type \in {"bool", "char"} -> Digits(v.val, 1)
    [] v.type = "short"  -> Digits(v.val, 2)
    [] v.type = "int"    -> Digits(v.val, 4)
    [] v.type = "ull"    -> Digits(v.val.hi, 4) \o Digits(v.val.lo, 4)
    [] v.type = "string" -> Digits(Len(v.val), 4) \o v.val
    [] v.type = "vector" -> Digits(Len(v.val), 4) \o FlatMap(Words, v.val)

LEMMA UpTo ==
  ASSUME NEW n \in Nat, NEW x
  PROVE  x \in 0..n <=> x \in Nat /\ x <= n
OBVIOUS

LEMMA ShortsAreNat ==
  ASSUME NEW x
  PROVE  x \in Shorts <=> x \in Nat /\ x <= MaxShort
<1>1. PICK n : n = MaxShort
  OBVIOUS
<1>2. n \in Nat
  BY SMT, <1>1 DEF MaxShort
<1>3. x \in 0..n <=> x \in Nat /\ x <= n
  BY Zenon, <1>2, UpTo
<1> QED
  BY Zenon, <1>1, <1>3 DEF Shorts

LEMMA NumbersAreNat ==
  ASSUME NEW x
  PROVE  x \in Numbers <=> x \in Nat /\ x <= MaxNumber
<1>1. PICK n : n = MaxNumber
  OBVIOUS
<1>2. n \in Nat
  BY SMT, <1>1 DEF MaxNumber
<1>3. x \in 0..n <=> x \in Nat /\ x <= n
  BY Zenon, <1>2, UpTo
<1> QED
  BY Zenon, <1>1, <1>3 DEF Numbers

LEMMA IntsAreInt ==
  ASSUME NEW x
  PROVE  /\ x \in Ints <=> x \in Int /\ -MaxNumber - 1 <= x /\ x <= MaxNumber
         /\ x \in Numbers => x \in Ints
<1>1. x \in Ints <=> x \in Int /\ -MaxNumber - 1 <= x /\ x <= MaxNumber
  <2>1. PICK n, k : n = MaxNumber /\ k = -MaxNumber - 1
    OBVIOUS
  <2>2. n \in Int /\ k \in Int
    BY SMT, <2>1 DEF MaxNumber
  <2>3. x \in k..n <=> x \in Int /\ k <= x /\ x <= n
    BY <2>2
  <2> QED
    BY Zenon, <2>1, <2>3 DEF Ints
<1>2. x \in Numbers => x \in Ints
  <2>1. x \in Numbers <=> x \in Nat /\ x <= MaxNumber
    BY Zenon, NumbersAreNat
  <2>2. x \in Nat /\ x <= MaxNumber => x \in Int /\ -MaxNumber - 1 <= x
    BY SMT DEF MaxNumber
  <2> QED
    BY Zenon, <1>1, <2>1, <2>2
<1> QED
  BY Zenon, <1>1, <1>2

LEMMA WordsMap ==
  /\ Maps(WordOps, Ints, Seq(WriteOps)) /\ Maps(Words, Ints, Seq(Bytes))
  /\ Composes(ItsBytes, WordOps, Words, Ints)
<1>1. 4 \in Widths /\ \A x \in Ints : x \in Int
  BY IntsAreInt DEF Widths
<1>2. Maps(WordOps, Ints, Seq(WriteOps))
  BY Zenon, <1>1, NetworkOrderWrites DEF Maps, WordOps
<1>3. Maps(Words, Ints, Seq(Bytes))
  BY Zenon, <1>1, DigitsAreBytes DEF Maps, Words
<1>4. ASSUME NEW x \in Ints PROVE Words[x] = FlatMap(ItsBytes, WordOps[x])
  <2>1. Words[x] = Digits(x, 4) /\ WordOps[x] = NetworkOrder(x, 4)
    BY Zenon DEF Words, WordOps
  <2>2. BytesOf(NetworkOrder(x, 4)) = Digits(x, 4)
    BY Zenon, <1>1, NetworkOrderWrites
  <2> QED
    BY Zenon, <2>1, <2>2 DEF BytesOf
<1> QED
  BY Zenon, <1>2, <1>3, <1>4 DEF Composes

\* Two sequences of writes, one after the other.
LEMMA BytesOfBoth ==
  ASSUME NEW a \in Seq(WriteOps), NEW b \in Seq(WriteOps)
  PROVE  /\ a \o b \in Seq(WriteOps) /\ BytesOf(a) \in Seq(Bytes)
         /\ BytesOf(a \o b) = BytesOf(a) \o BytesOf(b)
<1>1. FlatCat(ItsBytes, a, b)
  BY Zenon, ItsBytesMaps, FlatMapConcat
<1>2. FlatMap(ItsBytes, a) \in Seq(Bytes)
  BY Zenon, ItsBytesMaps, FlatMapIsSeq
<1>3. a \o b \in Seq(WriteOps)
  BY Zenon, ConcatProperties
<1> QED
  BY Zenon, <1>1, <1>2, <1>3 DEF FlatCat, BytesOf

LEMMA ValueCases ==
  ASSUME NEW v \in Values
  PROVE  \/ v.type = "bool" /\ v.val \in 0..1
         \/ v.type = "char" /\ v.val \in Bytes
         \/ v.type = "short" /\ v.val \in Shorts
         \/ v.type = "int" /\ v.val \in Ints
         \/ v.type = "ull" /\ v.val \in [hi : Ints, lo : Ints]
         \/ v.type = "string" /\ v.val \in Seq(Bytes) /\ Len(v.val) \in Numbers
         \/ v.type = "vector" /\ v.val \in Seq(Ints) /\ Len(v.val) \in Numbers
<1>1. ASSUME NEW S, NEW s \in Seq(S), Len(s) <= MaxNumber PROVE Len(s) \in Numbers
  BY Zenon, <1>1, NumbersAreNat, LenProperties
<1>2. CASE v \in [type : {"string"}, val : {s \in Seq(Bytes) : Len(s) <= MaxNumber}]
  BY Zenon, <1>1, <1>2
<1>3. CASE v \in [type : {"vector"}, val : {s \in Seq(Ints) : Len(s) <= MaxNumber}]
  BY Zenon, <1>1, <1>3
<1>4. CASE v \in [type : {"bool"}, val : 0..1] \cup [type : {"char"}, val : Bytes]
                   \cup [type : {"short"}, val : Shorts] \cup [type : {"int"}, val : Ints]
  BY Zenon, <1>4
<1>5. CASE v \in [type : {"ull"}, val : [hi : Ints, lo : Ints]]
  BY Zenon, <1>5
<1> QED
  BY Zenon, <1>2, <1>3, <1>4, <1>5 DEF Values

\* A number of the contents is one that Digits is about.
LEMMA ContentsAreNat ==
  ASSUME NEW x
  PROVE  /\ x \in 0..1 => x \in Nat /\ x \in Int
         /\ x \in Bytes => x \in Nat /\ x \in Int
         /\ x \in Shorts => x \in Nat /\ x \in Int
         /\ x \in Numbers => x \in Nat /\ x \in Int
         /\ x \in Ints => x \in Int
<1>1. x \in 0..1 => x \in Nat
  OBVIOUS
<1>2. x \in Bytes => x \in Nat
  BY DEF Bytes
<1>3. x \in Shorts => x \in Nat
  BY Zenon, ShortsAreNat
<1>4. x \in Nat => x \in Int
  OBVIOUS
<1> QED
  BY Zenon, <1>1, <1>2, <1>3, <1>4, NumbersAreNat, IntsAreInt

WritesIt(v) == Writes(v) \in Seq(WriteOps) /\ BytesOf(Writes(v)) = Encoding(v)

LEMMA WritesEncoding ==
  ASSUME NEW v \in Values
  PROVE  WritesIt(v)
<1>0. 1 \in Widths /\ 2 \in Widths /\ 4 \in Widths
  BY DEF Widths
<1>1. CASE v.type \in {"bool", "char"}
  <2>1. v.val \in Int
    BY Zenon, <1>1, ValueCases, ContentsAreNat
  <2>2. Writes(v) = NetworkOrder(v.val, 1) /\ Encoding(v) = Digits(v.val, 1)
    BY <1>1 DEF Writes, ScalarWrites, Scalars, Encoding
  <2> QED
    BY Zenon, <1>0, <2>1, <2>2, NetworkOrderWrites DEF WritesIt
<1>2. CASE v.type = "short"
  <2>1. v.val \in Int
    BY Zenon, <1>2, ValueCases, ContentsAreNat
  <2>2. Writes(v) = NetworkOrder(v.val, 2) /\ Encoding(v) = Digits(v.val, 2)
    BY <1>2 DEF Writes, ScalarWrites, Scalars, Encoding
  <2> QED
    BY Zenon, <1>0, <2>1, <2>2, NetworkOrderWrites DEF WritesIt
<1>3. CASE v.type = "int"
  <2>1. v.val \in Int
    BY Zenon, <1>3, ValueCases, ContentsAreNat
  <2>2. Writes(v) = NetworkOrder(v.val, 4) /\ Encoding(v) = Digits(v.val, 4)
    BY <1>3 DEF Writes, ScalarWrites, Scalars, Encoding
  <2> QED
    BY Zenon, <1>0, <2>1, <2>2, NetworkOrderWrites DEF WritesIt
<1>4. CASE v.type = "ull"
  <2>1. v.val.hi \in Int /\ v.val.lo \in Int
    BY Zenon, <1>4, ValueCases, ContentsAreNat
  <2>2. PICK a, b : a = NetworkOrder(v.val.hi, 4) /\ b = NetworkOrder(v.val.lo, 4)
    OBVIOUS
  <2>3. /\ a \in Seq(WriteOps) /\ BytesOf(a) = Digits(v.val.hi, 4)
        /\ b \in Seq(WriteOps) /\ BytesOf(b) = Digits(v.val.lo, 4)
    BY Zenon, <1>0, <2>1, <2>2, NetworkOrderWrites
  <2>4. a \o b \in Seq(WriteOps) /\ BytesOf(a \o b) = BytesOf(a) \o BytesOf(b)
    BY Zenon, <2>3, BytesOfBoth
  <2>5. Writes(v) = a \o b /\ Encoding(v) = Digits(v.val.hi, 4) \o Digits(v.val.lo, 4)
    BY <1>4, <2>2 DEF Writes, ScalarWrites, Scalars, Encoding
  <2> QED
    BY Zenon, <2>3, <2>4, <2>5 DEF WritesIt
<1>5. CASE v.type = "string"
  <2>1. Len(v.val) \in Int /\ v.val \in Seq(Bytes)
    BY Zenon, <1>5, ValueCases, ContentsAreNat
  <2>2. PICK a, w : a = NetworkOrder(Len(v.val), 4) /\ w = Chunk(v.val)
    OBVIOUS
  <2>3. a \in Seq(WriteOps) /\ BytesOf(a) = Digits(Len(v.val), 4)
    BY Zenon, <1>0, <2>1, <2>2, NetworkOrderWrites
  <2>4. w \in WriteOps /\ ItsBytes[w] = v.val
    BY <2>1, <2>2 DEF Chunk, WriteOps, ItsBytes
  <2>5. FlatLast(ItsBytes, a, w)
    BY Zenon, <2>3, <2>4, ItsBytesMaps, FlatMapAppend
  <2>6. Append(a, w) \in Seq(WriteOps)
    BY Zenon, <2>3, <2>4, AppendProperties
  <2>7. Writes(v) = Append(a, w) /\ Encoding(v) = Digits(Len(v.val), 4) \o v.val
    BY <1>5, <2>2 DEF Writes, ScalarWrites, Scalars, Encoding
  <2> QED
    BY Zenon, <2>3, <2>4, <2>5, <2>6, <2>7 DEF WritesIt, FlatLast, BytesOf
<1>6. CASE v.type = "vector"
  <2>1. Len(v.val) \in Int /\ v.val \in Seq(Ints)
    BY Zenon, <1>6, ValueCases, ContentsAreNat
  <2>2. PICK a, b : a = NetworkOrder(Len(v.val), 4) /\ b = FlatMap(WordOps, v.val)
    OBVIOUS
  <2>3. a \in Seq(WriteOps) /\ BytesOf(a) = Digits(Len(v.val), 4)
    BY Zenon, <1>0, <2>1, <2>2, NetworkOrderWrites
  <2>4. b \in Seq(WriteOps)
    BY Zenon, <2>1, <2>2, WordsMap, FlatMapIsSeq
  <2>5. FlatTwice(ItsBytes, WordOps, Words, v.val)
    BY Zenon, <2>1, WordsMap, ItsBytesMaps, FlatMapTwice
  <2>6. a \o b \in Seq(WriteOps) /\ BytesOf(a \o b) = BytesOf(a) \o BytesOf(b)
    BY Zenon, <2>3, <2>4, BytesOfBoth
  <2>7. b = FlattenSeq([i \in DOMAIN v.val |-> NetworkOrder(v.val[i], 4)])
    <3>1. \A i \in DOMAIN v.val : v.val[i] \in Ints
      BY <2>1
    <3>2. \A i \in DOMAIN v.val : WordOps[v.val[i]] = NetworkOrder(v.val[i], 4)
      BY Zenon, <3>1 DEF WordOps
    <3> QED
      BY Zenon, <2>2, <3>2 DEF FlatMap, Mapped
  <2>8. Writes(v) = a \o b
    BY Zenon, <1>6, <2>2, <2>7 DEF Writes, Scalars
  <2>9. Encoding(v) = Digits(Len(v.val), 4) \o FlatMap(Words, v.val)
    BY <1>6 DEF Encoding
  <2> QED
    BY Zenon, <2>2, <2>3, <2>5, <2>6, <2>8, <2>9 DEF WritesIt, FlatTwice, BytesOf
<1> QED
  BY <1>1, <1>2, <1>3, <1>4, <1>5, <1>6, ValueCases

\* A sequence of values.
ValueOps == [v \in Values |-> Writes(v)]
Encodings == [v \in Values |-> Encoding(v)]

LEMMA ValuesMap ==
  /\ Maps(ValueOps, Values, Seq(WriteOps)) /\ Maps(Encodings, Values, Seq(Bytes))
  /\ Composes(ItsBytes, ValueOps, Encodings, Values)
<1>1. ASSUME NEW v \in Values
      PROVE  Writes(v) \in Seq(WriteOps) /\ Encoding(v) = FlatMap(ItsBytes, Writes(v))
  BY Zenon, WritesEncoding DEF WritesIt, BytesOf
<1>2. ASSUME NEW v \in Values PROVE Encoding(v) \in Seq(Bytes)
  BY Zenon, <1>1, ItsBytesMaps, FlatMapIsSeq
<1>3. Maps(ValueOps, Values, Seq(WriteOps))
  BY Zenon, <1>1 DEF Maps, ValueOps
<1>4. Maps(Encodings, Values, Seq(Bytes))
  BY Zenon, <1>2 DEF Maps, Encodings
<1>5. Composes(ItsBytes, ValueOps, Encodings, Values)
  BY Zenon, <1>1 DEF Composes, ValueOps, Encodings
<1> QED
  BY Zenon, <1>3, <1>4, <1>5

LEMMA AllWritesEncode ==
  ASSUME NEW vs \in Seq(Values)
  PROVE  /\ AllWrites(vs) \in Seq(WriteOps)
         /\ BytesOf(AllWrites(vs)) = FlatMap(Encodings, vs)
<1>1. AllWrites(vs) = FlatMap(ValueOps, vs)
  <2>1. \A i \in DOMAIN vs : vs[i] \in Values
    OBVIOUS
  <2>2. \A i \in DOMAIN vs : ValueOps[vs[i]] = Writes(vs[i])
    BY Zenon, <2>1 DEF ValueOps
  <2> QED
    BY Zenon, <2>2 DEF FlatMap, Mapped, AllWrites
<1>2. FlatMap(ValueOps, vs) \in Seq(WriteOps)
  BY Zenon, ValuesMap, FlatMapIsSeq
<1>3. FlatTwice(ItsBytes, ValueOps, Encodings, vs)
  BY Zenon, ValuesMap, ItsBytesMaps, FlatMapTwice
<1> QED
  BY Zenon, <1>1, <1>2, <1>3 DEF FlatTwice, BytesOf

\* What one write adds to a buffer.
LEMMA WriteAdds ==
  ASSUME NEW m, m.buf \in Seq(Bytes), NEW w \in WriteOps
  PROVE  Write(m, w).buf = m.buf \o ItsBytes[w] /\ ItsBytes[w] \in Seq(Bytes)
<1>1. PICK b \in Seq(Bytes) : b = m.buf
  OBVIOUS
<1>2. PICK p \in Seq(Bytes) : p = w.bytes /\ (w.op = "rawbyte" => Len(p) = 1)
  BY Zenon DEF WriteOps
<1>3. ItsBytes[w] = p
  BY Zenon, <1>2 DEF ItsBytes
<1>4. CASE w.op = "rawbyte"
  <2>1. p = <<p[1]>> /\ p[1] \in Bytes
    BY <1>2, <1>4
  <2>2. Append(b, p[1]) = b \o <<p[1]>>
    BY Zenon, <2>1, AppendIsConcat
  <2>3. Write(m, w).buf = Append(b, p[1])
    BY <1>1, <1>2, <1>4 DEF Write, RawByte
  <2> QED
    BY Zenon, <1>1, <1>3, <2>1, <2>2, <2>3
<1>5. CASE w.op # "rawbyte"
  <2>1. Write(m, w).buf = b \o p
    BY <1>1, <1>2, <1>5 DEF Write, RawBytes
  <2> QED
    BY Zenon, <1>1, <1>3, <2>1
<1> QED
  BY <1>4, <1>5

-----------------------------------------------------------------------------
(* Sizes.                                                                  *)

\* Two functions that start alike and go on alike.
GoAlike(f, h, n) == f[0] = h[0] /\ \A i \in 1..n : f[i - 1] = h[i - 1] => f[i] = h[i]
EndAlike(f, h, n) == f[n] = h[n]

LEMMA SameUpTo ==
  ASSUME NEW n \in Nat, NEW f, NEW h, GoAlike(f, h, n)
  PROVE  EndAlike(f, h, n)
<1> DEFINE P == {i \in Nat : i <= n => f[i] = h[i]}
<1>1. 0 \in P
  BY DEF GoAlike
<1>2. ASSUME NEW i \in Nat, i \in P PROVE i + 1 \in P
  <2>1. ASSUME i + 1 <= n PROVE f[i + 1] = h[i + 1]
    <3>1. PICK j \in 1..n : j = i + 1 /\ j - 1 = i /\ i <= n
      BY <2>1
    <3>2. f[j - 1] = h[j - 1]
      BY <1>2, <3>1
    <3> QED
      BY Zenon, <3>1, <3>2 DEF GoAlike
  <2> QED
    BY <2>1
<1>3. Nat \subseteq P
  <2> HIDE DEF P
  <2> QED
    BY Zenon, <1>1, <1>2, SetInduction
<1> QED
  BY <1>3 DEF EndAlike

\* The values that unmarshall may yield.
Seen ==
       [type : {"bool", "char", "short", "int"}, val : Int]
  \cup [type : {"ull"},    val : [hi : Int, lo : Int]]
  \cup [type : {"string"}, val : Seq(Bytes)]
  \cup [type : {"vector"}, val : Seq(Int)]

LEMMA SizeIsNat ==
  ASSUME NEW v \in Seen
  PROVE  EncodedSize(v) \in Nat
<1>1. CASE v.type \in {"bool", "char"}
  BY <1>1 DEF EncodedSize
<1>2. CASE v.type = "short"
  BY <1>2 DEF EncodedSize
<1>3. CASE v.type = "int"
  BY <1>3 DEF EncodedSize
<1>4. CASE v.type = "ull"
  BY <1>4 DEF EncodedSize
<1>5. CASE v.type = "string"
  <2>1. v.val \in Seq(Bytes)
    BY <1>5 DEF Seen
  <2>2. Len(v.val) \in Nat
    BY Zenon, <2>1, LenProperties
  <2> QED
    BY <1>5, <2>2 DEF EncodedSize
<1>6. CASE v.type = "vector"
  <2>1. v.val \in Seq(Int)
    BY <1>6 DEF Seen
  <2>2. Len(v.val) \in Nat
    BY Zenon, <2>1, LenProperties
  <2> QED
    BY <1>6, <2>2 DEF EncodedSize
<1>7. v.type \in {"bool", "char", "short", "int", "ull", "string", "vector"}
  BY DEF Seen
<1> QED
  BY <1>1, <1>2, <1>3, <1>4, <1>5, <1>6, <1>7

SizesBy(f, vs) == f[0] = 0 /\ \A i \in 1..Len(vs) : f[i] = f[i - 1] + EncodedSize(vs[i])

LEMMA SizeSteps ==
  ASSUME NEW vs \in Seq(Seen)
  PROVE  \E f \in [0..Len(vs) -> Nat] : SizesBy(f, vs) /\ TotalSize(vs) = f[Len(vs)]
<1> DEFINE n == Len(vs)
           e(i) == EncodedSize(vs[i])
           F == [q \in Nat \X Nat |-> IF q[1] \in 1..n THEN q[2] + e(q[1]) ELSE 0]
           Body(f) == [i \in 0..n |-> IF i = 0 THEN 0 ELSE f[i - 1] + e(i)]
           h == CHOOSE f : f = Body(f)
<1>1. n \in Nat
  BY LenProperties
<1>2. ASSUME NEW i \in 1..n PROVE e(i) \in Nat
  BY Zenon, ElementOfSeq, SizeIsNat
<1> HIDE DEF n, e
<1>3. F \in [Nat \X Nat -> Nat]
  BY <1>2
<1>4. PICK f \in [0..n -> Nat] : StepsTo(n, f, 0, F)
  <2>1. 0 \in Nat
    OBVIOUS
  <2> HIDE DEF F
  <2> QED
    BY Zenon, <1>1, <1>3, <2>1, FiniteRecursion
<1>5. f[0] = 0
  BY Zenon, <1>4 DEF StepsTo
<1>6. ASSUME NEW i \in 1..n PROVE f[i] = f[i - 1] + e(i)
  <2>1. f[i] = F[<<i, f[i - 1]>>]
    <3> HIDE DEF F
    <3> QED
      BY Zenon, <1>4 DEF StepsTo
  <2>2. <<i, f[i - 1]>> \in Nat \X Nat
    BY <1>1, <1>4
  <2> QED
    BY <2>1, <2>2
<1>7. f = Body(f)
  BY <1>4, <1>5, <1>6
<1>8. h = Body(h)
  <2> HIDE DEF Body
  <2> QED
    BY Zenon, <1>7
<1> HIDE DEF h
<1>9. h[0] = 0 /\ \A i \in 1..n : h[i] = h[i - 1] + e(i)
  BY <1>1, <1>8
<1>10. GoAlike(f, h, n)
  BY Zenon, <1>5, <1>6, <1>9 DEF GoAlike
<1>11. f[n] = h[n]
  BY Zenon, <1>1, <1>10, SameUpTo DEF EndAlike
<1>12. TotalSize(vs) = h[n]
  BY Zenon DEF TotalSize, h, n, e
<1>13. SizesBy(f, vs)
  BY Zenon, <1>5, <1>6 DEF SizesBy, n, e
<1> QED
  BY Zenon, <1>4, <1>11, <1>12, <1>13 DEF n

LEMMA SizeEmpty == TotalSize(<< >>) = 0
<1>1. << >> \in Seq(Seen) /\ Len(<< >>) = 0
  OBVIOUS
<1> QED
  BY Zenon, <1>1, SizeSteps DEF SizesBy

LEMMA SizeAppend ==
  ASSUME NEW vs \in Seq(Seen), NEW v \in Seen
  PROVE  TotalSize(vs) \in Nat /\ TotalSize(Append(vs, v)) = TotalSize(vs) + EncodedSize(v)
<1>1. PICK t, n : t = Append(vs, v) /\ n = Len(vs)
  OBVIOUS
<1>2. /\ n \in Nat /\ t \in Seq(Seen) /\ Len(t) = n + 1 /\ t[n + 1] = v
      /\ \A i \in 1..n : t[i] = vs[i]
  BY <1>1, AppendProperties, LenProperties
<1>3. PICK f \in [0..n -> Nat] : SizesBy(f, vs) /\ TotalSize(vs) = f[n]
  BY Zenon, <1>1, SizeSteps
<1>4. PICK g \in [0..n + 1 -> Nat] : SizesBy(g, t) /\ TotalSize(t) = g[n + 1]
  BY Zenon, <1>2, SizeSteps
<1>5. f[0] = g[0]
  BY Zenon, <1>3, <1>4 DEF SizesBy
<1>6. \A i \in 1..n : f[i - 1] = g[i - 1] => f[i] = g[i]
  <2>1. \A i \in 1..n : i \in 1..n + 1
    BY <1>2
  <2> QED
    BY Zenon, <1>1, <1>2, <1>3, <1>4, <2>1 DEF SizesBy
<1>7. f[n] = g[n]
  <2>1. GoAlike(f, g, n)
    BY Zenon, <1>5, <1>6 DEF GoAlike
  <2> QED
    BY Zenon, <1>2, <2>1, SameUpTo DEF EndAlike
<1>8. g[n + 1] = g[n] + EncodedSize(v)
  <2>1. n + 1 \in 1..n + 1 /\ (n + 1) - 1 = n
    BY <1>2
  <2>2. g[n + 1] = g[(n + 1) - 1] + EncodedSize(t[n + 1])
    BY Zenon, <1>2, <1>4, <2>1 DEF SizesBy
  <2> QED
    BY Zenon, <1>2, <2>1, <2>2
<1>9. f[n] \in Nat
  BY <1>2
<1> QED
  BY Zenon, <1>1, <1>3, <1>4, <1>7, <1>8, <1>9

LEMMA SizeNat ==
  ASSUME NEW vs \in Seq(Seen)
  PROVE  TotalSize(vs) \in Nat
<1>1. PICK v : v = [type |-> "int", val |-> 0]
  OBVIOUS
<1>2. v \in Seen
  BY <1>1 DEF Seen
<1> QED
  BY Zenon, <1>2, SizeAppend

\* A value is written as many bytes as it is said to take.
LEMMA WordsSize ==
  ASSUME NEW s \in Seq(Ints)
  PROVE  FlatMap(Words, s) \in Seq(Bytes) /\ Len(FlatMap(Words, s)) = 4 * Len(s)
<1> DEFINE P == {z \in Seq(Ints) : Len(FlatMap(Words, z)) = 4 * Len(z)}
<1>1. << >> \in P
  <2>1. FlatMap(Words, << >>) = << >>
    BY Zenon, FlatMapEmpty
  <2>2. << >> \in Seq(Ints) /\ Len(<< >>) = 4 * Len(<< >>)
    OBVIOUS
  <2> QED
    BY Zenon, <2>1, <2>2
<1>2. ASSUME NEW z \in Seq(Ints), NEW e \in Ints, z \in P PROVE Append(z, e) \in P
  <2>1. FlatMap(Words, z) \in Seq(Bytes) /\ Words[e] \in Seq(Bytes) /\ FlatLast(Words, z, e)
    BY Zenon, WordsMap, FlatMapAppend
  <2>2. PICK a, b, t, n : /\ a = FlatMap(Words, z) /\ b = Words[e]
                          /\ t = Append(z, e) /\ n = Len(z)
    OBVIOUS
  <2>3. n \in Nat /\ t \in Seq(Ints) /\ Len(t) = n + 1
    BY <2>2, AppendProperties, LenProperties
  <2>4. b \in Seq(Bytes) /\ Len(b) = 4
    <3>1. b = Digits(e, 4)
      BY Zenon, <2>2 DEF Words
    <3>2. e \in Int /\ 4 \in Widths
      BY IntsAreInt DEF Widths
    <3> QED
      BY Zenon, <3>1, <3>2, DigitsAreBytes
  <2>5. a \in Seq(Bytes) /\ Len(a) = 4 * n
    BY Zenon, <1>2, <2>1, <2>2
  <2>6. FlatMap(Words, t) = a \o b
    BY Zenon, <2>1, <2>2 DEF FlatLast
  <2>7. Len(a \o b) = Len(a) + Len(b)
    BY Zenon, <2>4, <2>5, ConcatProperties
  <2>8. 4 * n + 4 = 4 * (n + 1)
    BY <2>3
  <2>9. Len(FlatMap(Words, t)) = 4 * Len(t)
    BY Zenon, <2>3, <2>4, <2>5, <2>6, <2>7, <2>8
  <2> QED
    BY Zenon, <2>2, <2>3, <2>9
<1>3. Seq(Ints) \subseteq P
  <2> HIDE DEF P
  <2> QED
    BY Zenon, <1>1, <1>2, SeqInduction
<1>4. FlatMap(Words, s) \in Seq(Bytes)
  BY Zenon, WordsMap, FlatMapIsSeq
<1> QED
  BY <1>3, <1>4

Sized(v) == /\ Encoding(v) \in Seq(Bytes) /\ Len(Encoding(v)) = EncodedSize(v)
            /\ EncodedSize(v) \in Nat

LEMMA DigitsThen ==
  ASSUME NEW x \in Int, NEW s \in Seq(Bytes), NEW n \in Nat, Len(s) = n
  PROVE  Digits(x, 4) \o s \in Seq(Bytes) /\ Len(Digits(x, 4) \o s) = 4 + n
<1>1. 4 \in Widths
  BY DEF Widths
<1>2. Digits(x, 4) \in Seq(Bytes) /\ Len(Digits(x, 4)) = 4
  BY Zenon, <1>1, DigitsAreBytes
<1>3. PICK a : a = Digits(x, 4)
  OBVIOUS
<1>4. a \in Seq(Bytes) /\ Len(a) = 4
  BY Zenon, <1>2, <1>3
<1>5. a \o s \in Seq(Bytes) /\ Len(a \o s) = Len(a) + Len(s)
  BY Zenon, <1>4, ConcatProperties
<1> QED
  BY Zenon, <1>3, <1>4, <1>5

LEMMA EncodingSized ==
  ASSUME NEW v \in Values
  PROVE  Sized(v)
<1>0. 1 \in Widths /\ 2 \in Widths /\ 4 \in Widths /\ 4 \in Nat /\ 1 \in Nat /\ 2 \in Nat /\ 8 \in Nat
  BY DEF Widths
<1>1. CASE v.type \in {"bool", "char"}
  <2>1. v.val \in Int
    BY Zenon, <1>1, ValueCases, ContentsAreNat
  <2>2. Encoding(v) = Digits(v.val, 1) /\ EncodedSize(v) = 1
    BY <1>1 DEF Encoding, EncodedSize
  <2> QED
    BY Zenon, <1>0, <2>1, <2>2, DigitsAreBytes DEF Sized
<1>2. CASE v.type = "short"
  <2>1. v.val \in Int
    BY Zenon, <1>2, ValueCases, ContentsAreNat
  <2>2. Encoding(v) = Digits(v.val, 2) /\ EncodedSize(v) = 2
    BY <1>2 DEF Encoding, EncodedSize
  <2> QED
    BY Zenon, <1>0, <2>1, <2>2, DigitsAreBytes DEF Sized
<1>3. CASE v.type = "int"
  <2>1. v.val \in Int
    BY Zenon, <1>3, ValueCases, ContentsAreNat
  <2>2. Encoding(v) = Digits(v.val, 4) /\ EncodedSize(v) = 4
    BY <1>3 DEF Encoding, EncodedSize
  <2> QED
    BY Zenon, <1>0, <2>1, <2>2, DigitsAreBytes DEF Sized
<1>4. CASE v.type = "ull"
  <2>1. v.val.hi \in Int /\ v.val.lo \in Int
    BY Zenon, <1>4, ValueCases, ContentsAreNat
  <2>2. Encoding(v) = Digits(v.val.hi, 4) \o Digits(v.val.lo, 4) /\ EncodedSize(v) = 8
    BY <1>4 DEF Encoding, EncodedSize
  <2>3. Digits(v.val.lo, 4) \in Seq(Bytes) /\ Len(Digits(v.val.lo, 4)) = 4
    BY Zenon, <1>0, <2>1, DigitsAreBytes
  <2>4. Encoding(v) \in Seq(Bytes) /\ Len(Encoding(v)) = 4 + 4
    <3>1. PICK x, s : x = v.val.hi /\ s = Digits(v.val.lo, 4)
      OBVIOUS
    <3>2. x \in Int /\ s \in Seq(Bytes) /\ Len(s) = 4
      BY Zenon, <2>1, <2>3, <3>1
    <3>3. Digits(x, 4) \o s \in Seq(Bytes) /\ Len(Digits(x, 4) \o s) = 4 + 4
      BY Zenon, <1>0, <3>2, DigitsThen
    <3> QED
      BY Zenon, <2>2, <3>1, <3>3
  <2>5. 4 + 4 = 8
    OBVIOUS
  <2> QED
    BY Zenon, <1>0, <2>2, <2>4, <2>5 DEF Sized
<1>5. CASE v.type = "string"
  <2>1. v.val \in Seq(Bytes) /\ Len(v.val) \in Nat /\ Len(v.val) \in Int
    BY Zenon, <1>5, ValueCases, ContentsAreNat
  <2>2. Encoding(v) = Digits(Len(v.val), 4) \o v.val /\ EncodedSize(v) = 4 + Len(v.val)
    BY <1>5 DEF Encoding, EncodedSize
  <2>3. 4 + Len(v.val) \in Nat
    BY <2>1
  <2> QED
    BY Zenon, <2>1, <2>2, <2>3, DigitsThen DEF Sized
<1>6. CASE v.type = "vector"
  <2>1. v.val \in Seq(Ints) /\ Len(v.val) \in Nat /\ Len(v.val) \in Int
    BY Zenon, <1>6, ValueCases, ContentsAreNat
  <2>2. Encoding(v) = Digits(Len(v.val), 4) \o FlatMap(Words, v.val) /\ EncodedSize(v) = 4 + 4 * Len(v.val)
    BY <1>6 DEF Encoding, EncodedSize
  <2>3. FlatMap(Words, v.val) \in Seq(Bytes) /\ Len(FlatMap(Words, v.val)) = 4 * Len(v.val)
    BY Zenon, <2>1, WordsSize
  <2>4. 4 * Len(v.val) \in Nat /\ 4 + 4 * Len(v.val) \in Nat
    BY <2>1
  <2> QED
    BY Zenon, <2>1, <2>2, <2>3, <2>4, DigitsThen DEF Sized
<1> QED
  BY <1>1, <1>2, <1>3, <1>4, <1>5, <1>6, ValueCases

LEMMA ValueSeen ==
  ASSUME NEW v \in Values
  PROVE  v \in Seen
<1>1. \A s \in Seq(Ints) : s \in Seq(Int)
  <2>1. \A x \in Ints : x \in Int
    BY Zenon, IntsAreInt
  <2> QED
    BY <2>1
<1>2. v = [type |-> v.type, val |-> v.val]
  BY DEF Values
<1>3. CASE v.type \in {"bool", "char", "short", "int"} /\ v.val \in Int
  BY Zenon, <1>2, <1>3 DEF Seen
<1>4. CASE v.type = "ull" /\ v.val \in [hi : Ints, lo : Ints]
  <2>1. v.val \in [hi : Int, lo : Int]
    BY Zenon, <1>4, IntsAreInt
  <2> QED
    BY Zenon, <1>2, <1>4, <2>1 DEF Seen
<1>5. CASE v.type = "string" /\ v.val \in Seq(Bytes)
  BY Zenon, <1>2, <1>5 DEF Seen
<1>6. CASE v.type = "vector" /\ v.val \in Seq(Ints)
  BY Zenon, <1>1, <1>2, <1>6 DEF Seen
<1> QED
  BY Zenon, <1>3, <1>4, <1>5, <1>6, ValueCases, ContentsAreNat

LEMMA ValuesSized ==
  ASSUME NEW vs \in Seq(Values)
  PROVE  FlatMap(Encodings, vs) \in Seq(Bytes) /\ Len(FlatMap(Encodings, vs)) = TotalSize(vs)
<1> DEFINE P == {z \in Seq(Values) : z \in Seq(Seen) /\ Len(FlatMap(Encodings, z)) = TotalSize(z)}
<1>1. << >> \in P
  <2>1. FlatMap(Encodings, << >>) = << >>
    BY Zenon, FlatMapEmpty
  <2>2. << >> \in Seq(Values) /\ << >> \in Seq(Seen) /\ Len(<< >>) = 0
    OBVIOUS
  <2> QED
    BY Zenon, <2>1, <2>2, SizeEmpty
<1>2. ASSUME NEW z \in Seq(Values), NEW e \in Values, z \in P PROVE Append(z, e) \in P
  <2>1. /\ FlatMap(Encodings, z) \in Seq(Bytes) /\ Encodings[e] \in Seq(Bytes)
        /\ FlatLast(Encodings, z, e)
    BY Zenon, ValuesMap, FlatMapAppend
  <2>2. Encodings[e] = Encoding(e) /\ Sized(e) /\ e \in Seen
    BY Zenon, EncodingSized, ValueSeen DEF Encodings
  <2>3. z \in Seq(Seen) /\ Len(FlatMap(Encodings, z)) = TotalSize(z)
    BY Zenon, <1>2
  <2>4. Append(z, e) \in Seq(Values) /\ Append(z, e) \in Seq(Seen)
    BY Zenon, <2>2, <2>3, AppendProperties
  <2>5. Len(FlatMap(Encodings, z) \o Encodings[e]) = Len(FlatMap(Encodings, z)) + Len(Encodings[e])
    BY Zenon, <2>1, ConcatProperties
  <2>6. TotalSize(Append(z, e)) = TotalSize(z) + EncodedSize(e)
    BY Zenon, <2>2, <2>3, SizeAppend
  <2>7. Len(FlatMap(Encodings, Append(z, e))) = TotalSize(Append(z, e))
    BY Zenon, <2>1, <2>2, <2>3, <2>5, <2>6 DEF FlatLast, Sized
  <2> QED
    BY Zenon, <2>4, <2>7
<1>3. Seq(Values) \subseteq P
  <2> HIDE DEF P
  <2> QED
    BY Zenon, <1>1, <1>2, SeqInduction
<1>4. FlatMap(Encodings, vs) \in Seq(Bytes)
  BY Zenon, ValuesMap, FlatMapIsSeq
<1> QED
  BY <1>3, <1>4

-----------------------------------------------------------------------------
(* Buffers.                                                                *)

\* m is inside its buffer, which is not much larger than it has to be, and
\* what is still to be written fits into a PDU, too.
Fits(m, ops) ==
  /\ m.ind \in Nat /\ m.capa \in Nat
  /\ HeaderSize <= m.capa /\ m.ind <= m.capa
  /\ m.capa <= InitialSize \/ m.capa <= 2 * m.ind
  /\ m.ind + Len(BytesOf(ops)) <= MaxPdu

BufferInv ==
  /\ sc \in Scenarios
  /\ todo \in Seq(WriteOps) /\ rtodo \in Seq(WriteOps)
  /\ Fits(req, todo) /\ Fits(rep, rtodo)
  /\ spc \in {"idle", "args"} => rep.ind = HeaderSize

\* The first of several writes: its bytes, and those of the others.
LEMMA FirstWrite ==
  ASSUME NEW ops \in Seq(WriteOps), ops # << >>
  PROVE  /\ Head(ops) \in WriteOps /\ Tail(ops) \in Seq(WriteOps)
         /\ Len(Head(ops).bytes) \in Nat /\ Len(BytesOf(Tail(ops))) \in Nat
         /\ Len(BytesOf(ops)) = Len(Head(ops).bytes) + Len(BytesOf(Tail(ops)))
<1>1. PICK w, z : w = Head(ops) /\ z = Tail(ops)
  OBVIOUS
<1>2. w \in WriteOps /\ z \in Seq(WriteOps)
  BY <1>1
<1>3. FlatHead(ItsBytes, ops)
  BY Zenon, ItsBytesMaps, FlatMapCons
<1>4. ItsBytes[w] = w.bytes /\ ItsBytes[w] \in Seq(Bytes)
  BY <1>2 DEF ItsBytes, WriteOps
<1>5. FlatMap(ItsBytes, z) \in Seq(Bytes)
  BY Zenon, <1>2, ItsBytesMaps, FlatMapIsSeq
<1>6. /\ Len(ItsBytes[w] \o FlatMap(ItsBytes, z)) = Len(ItsBytes[w]) + Len(FlatMap(ItsBytes, z))
      /\ Len(ItsBytes[w]) \in Nat /\ Len(FlatMap(ItsBytes, z)) \in Nat
  BY Zenon, <1>4, <1>5, ConcatProperties, LenProperties
<1> QED
  BY Zenon, <1>1, <1>2, <1>3, <1>4, <1>6 DEF FlatHead, BytesOf

\* rawbyte and rawbytes: whichever way the buffer grows, it grows enough, and
\* no sum of ints wraps around while all of it fits into a PDU.
LEMMA SmallSum ==
  ASSUME NEW n \in Nat, n <= MaxNumber
  PROVE  Int32(n) = n
<1>1. n \in Numbers
  BY Zenon, NumbersAreNat
<1>2. n \in Ints
  BY Zenon, <1>1, IntsAreInt
<1> QED
  BY Zenon, <1>2 DEF Int32

LEMMA WriteFits ==
  ASSUME NEW m, NEW ops \in Seq(WriteOps), ops # << >>, Fits(m, ops)
  PROVE  Fits(Write(m, Head(ops)), Tail(ops))
<1>1. PICK w, n, i, c, k, d : /\ w = Head(ops) /\ n = Len(w.bytes) /\ i = m.ind /\ c = m.capa
                              /\ k = Len(BytesOf(Tail(ops))) /\ d = InitialSize
  OBVIOUS
<1>2. w \in WriteOps /\ n \in Nat /\ k \in Nat /\ Len(BytesOf(ops)) = n + k
  BY Zenon, <1>1, FirstWrite
<1>3. /\ i \in Nat /\ c \in Nat /\ 24 <= c /\ i <= c /\ i + (n + k) <= MaxPdu
      /\ c <= d \/ c <= 2 * i
      /\ d \in Nat /\ d <= MaxPdu
  <2>1. /\ i \in Nat /\ c \in Nat /\ HeaderSize <= c /\ i <= c
        /\ c <= d \/ c <= 2 * i
        /\ i + (n + k) <= MaxPdu /\ d \in Nat /\ d <= MaxPdu
    BY Zenon, <1>1, <1>2, MarshallAssumption DEF Fits
  <2>2. HeaderSize = 24
    BY DEF HeaderSize
  <2> QED
    BY Zenon, <2>1, <2>2
<1>4. /\ c <= 2 * MaxPdu /\ i <= MaxPdu /\ n <= MaxPdu
      /\ MaxPdu \in Nat /\ MaxNumber \in Nat /\ 4 * MaxPdu <= MaxNumber
  BY SMT, <1>2, <1>3 DEF MaxPdu, MaxNumber
<1>5. /\ Int32(i + 1) = i + 1 /\ Int32(2 * c) = 2 * c
      /\ Int32(i + n) = i + n /\ Int32(c + n) = c + n
  <2>1. /\ i + 1 \in Nat /\ i + 1 <= MaxNumber /\ 2 * c \in Nat /\ 2 * c <= MaxNumber
        /\ i + n \in Nat /\ i + n <= MaxNumber /\ c + n \in Nat /\ c + n <= MaxNumber
    <3>1. 1 <= MaxPdu
      BY SMT DEF MaxPdu
    <3> QED
      BY SMT, <1>2, <1>3, <1>4, <3>1
  <2> QED
    BY Zenon, <2>1, SmallSum
<1>6. ASSUME NEW j, NEW e, j \in Nat, e \in Nat, 24 <= e, j <= e, e <= d \/ e <= 2 * j,
             j + k <= MaxPdu, Write(m, w).ind = j, Write(m, w).capa = e
      PROVE  Fits(Write(m, w), Tail(ops))
  BY <1>1, <1>6 DEF Fits, HeaderSize
<1>7. CASE w.op = "rawbyte"
  <2>1. n = 1
    BY <1>1, <1>2, <1>7 DEF WriteOps
  <2>2. Write(m, w).ind = i + 1
    BY <1>1, <1>5, <1>7 DEF Write, RawByte
  <2>3. Write(m, w).capa = IF i >= c THEN 2 * c ELSE c
    BY <1>1, <1>5, <1>7 DEF Write, RawByte, GrownForByte
  <2>4. PICK j, e : j = i + 1 /\ e = IF i >= c THEN 2 * c ELSE c
    OBVIOUS
  <2>5. /\ j \in Nat /\ e \in Nat /\ 24 <= e /\ j <= e /\ (e <= d \/ e <= 2 * j)
        /\ j + k <= MaxPdu
    BY SMT, <1>2, <1>3, <1>4, <2>1, <2>4
  <2> QED
    BY Zenon, <1>1, <1>6, <2>2, <2>3, <2>4, <2>5
<1>8. CASE w.op # "rawbyte"
  <2>1. Write(m, w).ind = i + n
    BY <1>1, <1>5, <1>8 DEF Write, RawBytes
  <2>2. Write(m, w).capa = IF i + n <= c THEN c ELSE IF c > n THEN 2 * c ELSE c + n
    BY <1>1, <1>5, <1>8 DEF Write, RawBytes, GrownForBytes
  <2>3. PICK j, e : j = i + n /\ e = IF i + n <= c THEN c ELSE IF c > n THEN 2 * c ELSE c + n
    OBVIOUS
  <2>4. /\ j \in Nat /\ e \in Nat /\ 24 <= e /\ j <= e /\ (e <= d \/ e <= 2 * j)
        /\ j + k <= MaxPdu
    BY SMT, <1>2, <1>3, <1>4, <2>3
  <2> QED
    BY Zenon, <1>1, <1>6, <2>1, <2>2, <2>3, <2>4
<1> QED
  BY Zenon, <1>1, <1>7, <1>8

\* All that a scenario has marshalled fits into a PDU.
LEMMA ArgsFit ==
  ASSUME NEW s \in Scenarios
  PROVE  /\ AllWrites(s.args) \in Seq(WriteOps) /\ Writes(s.res) \in Seq(WriteOps)
         /\ HeaderSize + Len(BytesOf(AllWrites(s.args))) <= MaxPdu
         /\ HeaderSize + Len(BytesOf(Writes(s.res))) <= MaxPdu
<1>1. /\ s.args \in Seq(Values) /\ s.res \in Values
      /\ HeaderSize + TotalSize(s.args) <= MaxPdu /\ HeaderSize + EncodedSize(s.res) <= MaxPdu
  BY Zenon, OneCallAssumption
<1>2. /\ AllWrites(s.args) \in Seq(WriteOps)
      /\ BytesOf(AllWrites(s.args)) = FlatMap(Encodings, s.args)
  BY Zenon, <1>1, AllWritesEncode
<1>3. Len(FlatMap(Encodings, s.args)) = TotalSize(s.args)
  BY Zenon, <1>1, ValuesSized
<1>4. Writes(s.res) \in Seq(WriteOps) /\ BytesOf(Writes(s.res)) = Encoding(s.res)
  BY Zenon, <1>1, WritesEncoding DEF WritesIt
<1>5. Len(Encoding(s.res)) = EncodedSize(s.res)
  BY Zenon, <1>1, EncodingSized DEF Sized
<1> QED
  BY Zenon, <1>1, <1>2, <1>3, <1>4, <1>5

LEMMA FitsWhenNew ==
  ASSUME NEW ops, HeaderSize + Len(BytesOf(ops)) <= MaxPdu
  PROVE  Fits(NewMarshall, ops)
<1>1. NewMarshall.ind = HeaderSize /\ NewMarshall.capa = InitialSize
  BY DEF NewMarshall
<1>2. HeaderSize \in Nat /\ InitialSize <= InitialSize
  BY MarshallAssumption DEF HeaderSize
<1> QED
  BY Zenon, <1>1, <1>2, MarshallAssumption DEF Fits

LEMMA BufferInit == Init => BufferInv
<1> SUFFICES ASSUME Init PROVE BufferInv
  OBVIOUS
<1>1. /\ sc \in Scenarios /\ todo = AllWrites(sc.args) /\ rtodo = << >>
      /\ req = NewMarshall /\ rep = NewMarshall
  BY DEF Init
<1>2. << >> \in Seq(WriteOps) /\ HeaderSize + Len(BytesOf(<< >>)) <= MaxPdu
  <2>1. BytesOf(<< >>) = << >>
    BY Zenon, FlatMapEmpty DEF BytesOf
  <2>2. << >> \in Seq(WriteOps) /\ HeaderSize + Len(<< >>) <= MaxPdu
    BY SMT DEF HeaderSize, MaxPdu
  <2> QED
    BY Zenon, <2>1, <2>2
<1>3. rep.ind = HeaderSize
  BY <1>1 DEF NewMarshall
<1> QED
  BY Zenon, <1>1, <1>2, <1>3, ArgsFit, FitsWhenNew DEF BufferInv

LEMMA BufferNext == BufferInv /\ [Next]_vars => BufferInv'
<1> SUFFICES ASSUME BufferInv, [Next]_vars PROVE BufferInv'
  OBVIOUS
<1> USE DEF callerVars, waitVars, netVars, srvVars
<1>1. CASE MarshalArgs
  <2>1. todo # << >> /\ req' = Write(req, Head(todo)) /\ todo' = Tail(todo)
        /\ UNCHANGED <<sc, rep, rtodo, spc>>
    BY <1>1 DEF MarshalArgs
  <2>2. Tail(todo) \in Seq(WriteOps) /\ Fits(Write(req, Head(todo)), Tail(todo))
    BY Zenon, <2>1, FirstWrite, WriteFits DEF BufferInv
  <2> QED
    BY Zenon, <2>1, <2>2 DEF BufferInv, Fits
<1>2. CASE MarshalResult
  <2>1. /\ spc = "reply" /\ rtodo # << >> /\ rep' = Write(rep, Head(rtodo)) /\ rtodo' = Tail(rtodo)
        /\ UNCHANGED <<sc, req, todo, spc>>
    BY <1>2 DEF MarshalResult
  <2>2. Tail(rtodo) \in Seq(WriteOps) /\ Fits(Write(rep, Head(rtodo)), Tail(rtodo))
    BY Zenon, <2>1, FirstWrite, WriteFits DEF BufferInv
  <2>3. spc' \notin {"idle", "args"}
    BY <2>1
  <2> QED
    BY Zenon, <2>1, <2>2, <2>3 DEF BufferInv, Fits
<1>3. CASE RunHandler
  <2>1. /\ spc = "args" /\ spc' = "reply" /\ UNCHANGED <<sc, req, todo, rep>>
        /\ rtodo' = rtodo \/ rtodo' = Writes(sc.res)
    BY <1>3 DEF RunHandler
  <2>2. spc' \notin {"idle", "args"} /\ spc \in {"idle", "args"}
    BY <2>1
  <2>3. Writes(sc.res) \in Seq(WriteOps) /\ HeaderSize + Len(BytesOf(Writes(sc.res))) <= MaxPdu
    BY Zenon, ArgsFit DEF BufferInv
  <2>4. rep.ind = HeaderSize
    BY Zenon, <2>2 DEF BufferInv
  <2>5. Fits(rep, Writes(sc.res))
    BY Zenon, <2>3, <2>4 DEF BufferInv, Fits
  <2> QED
    BY Zenon, <2>1, <2>2, <2>3, <2>5 DEF BufferInv, Fits
<1>4. CASE /\ UNCHANGED <<sc, todo, rtodo, req, rep>>
           /\ spc' \in {"idle", "args"} => spc \in {"idle", "args"}
  BY Zenon, <1>4 DEF BufferInv, Fits
<1>5. CASE Start \/ GetConn \/ Send \/ SetDeadline \/ TimedOut \/ Spin \/ SeesReply
  BY <1>5, <1>4 DEF Start, GetConn, Send, SetDeadline, TimedOut, Spin, SeesReply, srvVars
<1>9. CASE Return \/ CallerCrashes \/ ServerCrashes
  BY <1>9, <1>4 DEF Return, CallerCrashes, ServerCrashes, callerVars, srvVars
<1>6. CASE GotRequest \/ UnmarshalArg \/ SendReply \/ Duplicate
  BY <1>6, <1>4 DEF GotRequest, UnmarshalArg, SendReply, Duplicate, callerVars, srvVars
<1>7. CASE GotReply \/ ConnDies \/ Tick
  BY <1>7, <1>4 DEF GotReply, ConnDies, Tick, callerVars, srvVars
<1>8. CASE UNCHANGED vars
  BY <1>8, <1>4 DEF vars, callerVars, srvVars
<1> QED
  BY <1>1, <1>2, <1>3, <1>5, <1>6, <1>7, <1>8, <1>9 DEF Next, CallerNext, CallerGoesOn, ServerNext

\* marshall never writes past its buffer, whatever values of a request or a
\* reply of at most MAX_PDU bytes the program marshals, in whatever order and
\* whatever DEFAULT_RPC_SZ is up to MAX_PDU, with the sums taken in 32 bits: none
\* of them wraps around.  Nothing is said of longer ones, which no connection
\* takes, and with which _capa comes to wrap.
THEOREM BuffersFitHolds == Spec => []BuffersFit
<1>1. BufferInv => BuffersFit
  BY DEF BufferInv, Fits, BuffersFit
<1> QED
  BY <1>1, BufferInit, BufferNext, PTL DEF Spec

-----------------------------------------------------------------------------
(* Deadlines.                                                              *)

Time == [sec : Nat, ns : Nat]

\* The milliseconds of a whole number of seconds.
Whole(ms) == \E k \in Nat : ms = 1000 * k

\* The final deadline.
Limit == Plus(began, sc.to)

LEMMA Units == NsPerSec = 1000000000 /\ NsPerMs = 1000000
  BY SMT DEF NsPerSec, NsPerMs

LEMMA ValidIsTime ==
  ASSUME NEW t, ValidTime(t)
  PROVE  t.sec \in Nat /\ t.ns \in Nat /\ t.ns < 1000000000
<1>1. NsPerSec \in Nat
  BY SMT, Units
<1>2. t.sec \in Nat /\ t.ns \in Nat /\ t.ns < NsPerSec
  BY SMT, <1>1 DEF ValidTime
<1> QED
  BY SMT, <1>2, Units

LEMMA IsValid ==
  ASSUME NEW t, t.sec \in Nat, t.ns \in Nat, t.ns < 1000000000
  PROVE  ValidTime(t)
<1>1. NsPerSec \in Nat /\ t.ns < NsPerSec
  BY SMT, Units
<1> QED
  BY SMT, <1>1 DEF ValidTime

\* The two cases of Plus.
LEMMA PlusNoCarry ==
  ASSUME NEW t, NEW ms, ~(t.ns + (ms % 1000) * NsPerMs > NsPerSec)
  PROVE  Plus(t, ms) = [sec |-> t.sec + ms \div 1000, ns |-> t.ns + (ms % 1000) * NsPerMs]
<1> DEFINE ns == t.ns + (ms % 1000) * NsPerMs
<1> QED
  BY DEF Plus

LEMMA PlusCarry ==
  ASSUME NEW t, NEW ms, t.ns + (ms % 1000) * NsPerMs > NsPerSec
  PROVE  Plus(t, ms) = [sec |-> t.sec + ms \div 1000 + 1,
                        ns |-> (t.ns + (ms % 1000) * NsPerMs) - NsPerSec]
<1> DEFINE ns == t.ns + (ms % 1000) * NsPerMs
<1>1. Plus(t, ms) = IF ns > NsPerSec
                      THEN [sec |-> t.sec + ms \div 1000 + 1, ns |-> ns - NsPerSec]
                      ELSE [sec |-> t.sec + ms \div 1000, ns |-> ns]
  BY DEF Plus
<1>2. ns > NsPerSec
  OBVIOUS
<1> HIDE DEF ns
<1>3. Plus(t, ms) = [sec |-> t.sec + ms \div 1000 + 1, ns |-> ns - NsPerSec]
  BY <1>1, <1>2
<1> QED
  BY <1>3 DEF ns

LEMMA PlusIsTime ==
  ASSUME NEW t, ValidTime(t), NEW ms \in Nat
  PROVE  Plus(t, ms) \in Time /\ Plus(t, ms).sec >= t.sec
<1> DEFINE q == ms \div 1000
           ns == t.ns + (ms % 1000) * NsPerMs
<1>1. q \in Nat /\ ms % 1000 \in Nat
  BY SMT
<1>2. t.sec \in Nat /\ t.ns \in Nat
  BY ValidIsTime
<1>3. ns \in Nat /\ NsPerSec \in Nat
  BY SMT, <1>1, <1>2, Units
<1>4. Plus(t, ms) = IF ns > NsPerSec THEN [sec |-> t.sec + q + 1, ns |-> ns - NsPerSec]
                                     ELSE [sec |-> t.sec + q, ns |-> ns]
  BY DEF Plus
<1> HIDE DEF q, ns
<1>5. CASE ns > NsPerSec
  <2>1. Plus(t, ms) = [sec |-> t.sec + q + 1, ns |-> ns - NsPerSec]
    BY <1>4, <1>5
  <2>2. t.sec + q + 1 \in Nat /\ ns - NsPerSec \in Nat /\ t.sec + q + 1 >= t.sec
    BY SMT, <1>1, <1>2, <1>3, <1>5
  <2> QED
    BY <2>1, <2>2 DEF Time
<1>6. CASE ~(ns > NsPerSec)
  <2>1. Plus(t, ms) = [sec |-> t.sec + q, ns |-> ns]
    BY <1>4, <1>6
  <2>2. t.sec + q \in Nat /\ t.sec + q >= t.sec
    BY SMT, <1>1, <1>2
  <2> QED
    BY <1>3, <2>1, <2>2 DEF Time
<1> QED
  BY <1>5, <1>6

\* Whole seconds are added without a carry, so the result is valid.
LEMMA PlusWhole ==
  ASSUME NEW t, ValidTime(t), NEW ms, Whole(ms)
  PROVE  ValidTime(Plus(t, ms))
<1>1. PICK k \in Nat : ms = 1000 * k
  BY DEF Whole
<1>2. ms \div 1000 = k /\ ms % 1000 = 0
  BY <1>1
<1>3. t.sec \in Nat /\ t.ns \in Nat /\ t.ns < 1000000000
  BY ValidIsTime
<1>4. t.ns + (ms % 1000) * NsPerMs = t.ns /\ ~(t.ns > NsPerSec)
  BY SMT, <1>2, <1>3, Units
<1>5. Plus(t, ms) = [sec |-> t.sec + k, ns |-> t.ns]
  BY <1>2, <1>4 DEF Plus
<1>6. t.sec + k \in Nat
  BY SMT, <1>3
<1> QED
  BY SMT, <1>3, <1>5, <1>6, IsValid

\* Plus without a carry, and with one, in terms of the four numbers.
LEMMA ElapsedNoCarry ==
  ASSUME NEW bs \in Nat, NEW bn \in Nat, NEW es \in Nat, NEW en \in Nat,
         NEW q \in Nat, NEW m \in Nat, m < 1000,
         bn + m * 1000000 <= 1000000000,
         es > bs + q \/ (es = bs + q /\ en >= bn + m * 1000000),
         NEW d \in Int, d = (es - bs) * 1000 - (1000 * q + m)
  PROVE  d >= 1000 \/ (d > -1000 /\ d * 1000000 >= bn - en)
<1>1. CASE es = bs + q /\ en >= bn + m * 1000000
  <2>1. d = -m
    BY SMT, <1>1
  <2> QED
    BY SMT, <1>1, <2>1
<1>2. CASE es > bs + q
  <2>1. d >= 1000 - m
    BY SMT, <1>2
  <2>2. d * 1000000 >= bn
    BY SMT, <2>1
  <2> QED
    BY SMT, <2>1, <2>2
<1> QED
  BY SMT, <1>1, <1>2

LEMMA ElapsedCarry ==
  ASSUME NEW bs \in Nat, NEW bn \in Nat, NEW es \in Nat, NEW en \in Nat,
         NEW q \in Nat, NEW m \in Nat, m < 1000,
         \/ es > bs + q + 1
         \/ es = bs + q + 1 /\ en >= bn + m * 1000000 - 1000000000,
         NEW d \in Int, d = (es - bs) * 1000 - (1000 * q + m)
  PROVE  d >= 1000 \/ (d > -1000 /\ d * 1000000 >= bn - en)
<1>1. CASE es = bs + q + 1 /\ en >= bn + m * 1000000 - 1000000000
  <2>1. d = 1000 - m
    BY SMT, <1>1
  <2> QED
    BY SMT, <1>1, <2>1
<1>2. CASE es > bs + q + 1
  BY SMT, <1>2
<1> QED
  BY SMT, <1>1, <1>2

\* Once the deadline is not later than the clock, the time is over.
LEMMA DeadlineElapsed ==
  ASSUME NEW b, ValidTime(b), NEW e, ValidTime(e), NEW ms \in Nat,
         ~Later(Plus(b, ms), e)
  PROVE  HasElapsed(b, e, ms)
<1>1. PICK q \in Nat, m \in Nat : q = ms \div 1000 /\ m = ms % 1000
  BY SMT
<1>2. m < 1000 /\ ms = 1000 * q + m
  BY SMT, <1>1
<1>3. b.sec \in Nat /\ b.ns \in Nat /\ e.sec \in Nat /\ e.ns \in Nat
  BY ValidIsTime
<1>4. PICK d \in Int : d = (e.sec - b.sec) * 1000 - ms
  BY SMT, <1>3
<1>5. d = (e.sec - b.sec) * 1000 - (1000 * q + m)
  BY SMT, <1>2, <1>4
<1>6. SUFFICES d >= 1000 \/ (d > -1000 /\ d * 1000000 >= b.ns - e.ns)
  <2>1. HasElapsed(b, e, ms) <=>
          (d >= 1000 \/ (d > -1000 /\ d * NsPerMs >= b.ns - e.ns))
    BY <1>4 DEF HasElapsed
  <2> QED
    BY SMT, <2>1, Units
<1>7. CASE b.ns + m * NsPerMs > NsPerSec
  <2>1. /\ Plus(b, ms).sec = b.sec + q + 1
        /\ Plus(b, ms).ns = (b.ns + m * NsPerMs) - NsPerSec
    <3>1. b.ns + (ms % 1000) * NsPerMs > NsPerSec
      BY <1>1, <1>7
    <3>2. Plus(b, ms) = [sec |-> b.sec + ms \div 1000 + 1,
                         ns |-> (b.ns + (ms % 1000) * NsPerMs) - NsPerSec]
      BY <3>1, PlusCarry
    <3> QED
      BY <3>2, <1>1
  <2>2. /\ ~(b.sec + q + 1 > e.sec)
        /\ ~(b.sec + q + 1 = e.sec /\ (b.ns + m * NsPerMs) - NsPerSec > e.ns)
    BY <2>1 DEF Later
  <2>3. \/ e.sec > b.sec + q + 1
        \/ e.sec = b.sec + q + 1 /\ e.ns >= b.ns + m * 1000000 - 1000000000
    BY SMT, <1>3, <2>2, Units
  <2> QED
    BY SMT, <1>2, <1>3, <1>5, <2>3, ElapsedCarry
<1>8. CASE ~(b.ns + m * NsPerMs > NsPerSec)
  <2>1. Plus(b, ms).sec = b.sec + q /\ Plus(b, ms).ns = b.ns + m * NsPerMs
    <3>1. ~(b.ns + (ms % 1000) * NsPerMs > NsPerSec)
      BY <1>1, <1>8
    <3>2. Plus(b, ms) = [sec |-> b.sec + ms \div 1000,
                         ns |-> b.ns + (ms % 1000) * NsPerMs]
      BY <3>1, PlusNoCarry
    <3> QED
      BY <3>2, <1>1
  <2>2. /\ ~(b.sec + q > e.sec)
        /\ ~(b.sec + q = e.sec /\ b.ns + m * NsPerMs > e.ns)
    BY <2>1 DEF Later
  <2>3. e.sec > b.sec + q \/ (e.sec = b.sec + q /\ e.ns >= b.ns + m * 1000000)
    BY SMT, <1>3, <2>2, Units
  <2>4. b.ns + m * 1000000 <= 1000000000
    BY SMT, <1>3, <1>8, Units
  <2> QED
    BY SMT, <1>2, <1>3, <1>5, <2>3, <2>4, ElapsedNoCarry
<1> QED
  BY <1>7, <1>8

\* The clock goes on: what is over stays over.
LEMMA StaysOver ==
  ASSUME NEW t \in Time, NEW n, ValidTime(n), NEW m, ValidTime(m),
         ~Later(t, n), Later(m, n)
  PROVE  ~Later(t, m)
<1>1. t.sec \in Nat /\ t.ns \in Nat
  BY DEF Time
<1>2. n.sec \in Nat /\ n.ns \in Nat /\ m.sec \in Nat /\ m.ns \in Nat
  BY SMT, ValidIsTime
<1>3. ~(t.sec > n.sec) /\ ~(t.sec = n.sec /\ t.ns > n.ns)
  BY DEF Later
<1>4. m.sec > n.sec \/ (m.sec = n.sec /\ m.ns > n.ns)
  BY DEF Later
<1>5. ~(t.sec > m.sec \/ (t.sec = m.sec /\ t.ns > m.ns))
  BY SMT, <1>1, <1>2, <1>3, <1>4
<1> QED
  BY <1>5 DEF Later

\* The results a handler or a failed unmarshalling can leave.
Results == Nat \cup {unmarshal_args_failure}

Kinds ==
  /\ sc \in Scenarios /\ now \in Clock /\ Whole(curr)
  /\ sret \in Results /\ intret \in Results

\* final is the deadline until the last wait, which is up to the deadline.
FinalKept ==
  pc # "args" => /\ began \in Clock
                 /\ final.sec = 0 \/ final = Limit
                 /\ pc = "deadline" => final.sec # 0

WaitsWithinLimit ==
  pc \in {"wait", "spin"} => /\ ~Later(next, Limit)
                             /\ final.sec = 0 => next = Limit

\* Where a caller that has waited up to the deadline can be.
GaveUp ==
  \/ pc \in {"transmit", "send"} /\ final.sec = 0
  \/ pc = "leave" /\ ~done
  \/ pc = "returned" /\ ret = timeout_failure

LeavesLate == GaveUp => ~Later(Limit, now)

WholeIsValid ==
  Whole(sc.to) => (pc = "wait" => ValidTime(next)) /\ pc # "spin"

DeadlineInv == Kinds /\ FinalKept /\ WaitsWithinLimit /\ LeavesLate /\ WholeIsValid

LEMMA ClockIsValid ==
  ASSUME NEW t \in Clock
  PROVE  ValidTime(t) /\ t.sec \in Nat /\ t.sec >= 1
<1>1. ValidTime(t) /\ t.sec \in Nat \ {0}
  BY OneCallAssumption
<1> QED
  BY SMT, <1>1

LEMMA LimitIsTime ==
  ASSUME Kinds, began \in Clock
  PROVE  Limit \in Time /\ Limit.sec # 0
<1>1. sc.to \in Nat
  BY OneCallAssumption DEF Kinds
<1>2. ValidTime(began) /\ began.sec \in Nat /\ began.sec >= 1
  BY ClockIsValid
<1>3. Limit \in Time /\ Limit.sec >= began.sec
  BY <1>1, <1>2, PlusIsTime DEF Limit
<1>4. Limit.sec \in Nat
  BY <1>3 DEF Time
<1> QED
  BY SMT, <1>2, <1>3, <1>4

LEMMA NotLaterItself ==
  ASSUME NEW t \in Time PROVE ~Later(t, t)
<1>1. t.sec \in Nat /\ t.ns \in Nat
  BY DEF Time
<1> QED
  BY SMT, <1>1 DEF Later

LEMMA WholeNumbers ==
  /\ Whole(to_min)
  /\ \A ms : Whole(ms) => ms \in Nat /\ Whole(BackOff(ms))
<1>1. Whole(to_min)
  <2>1. to_min = 1000 * 1 /\ 1 \in Nat
    BY SMT DEF to_min
  <2> QED
    BY <2>1 DEF Whole
<1>2. ASSUME NEW ms, Whole(ms) PROVE ms \in Nat /\ Whole(BackOff(ms))
  <2>1. PICK k \in Nat : ms = 1000 * k
    BY <1>2 DEF Whole
  <2>2. ms \in Nat /\ BackOff(ms) = 1000 * (2 * k) /\ 2 * k \in Nat
    BY SMT, <2>1 DEF BackOff
  <2> QED
    BY <2>2 DEF Whole
<1> QED
  BY <1>1, <1>2

LEMMA DeadlineInit == Init => DeadlineInv
<1> SUFFICES ASSUME Init PROVE DeadlineInv
  OBVIOUS
<1>1. Kinds
  <2>1. 0 \in Results
    BY DEF Results
  <2> QED
    BY <2>1, WholeNumbers DEF Init, Kinds
<1>2. pc = "args"
  BY DEF Init
<1> QED
  BY <1>1, <1>2 DEF DeadlineInv, FinalKept, WaitsWithinLimit, LeavesLate, GaveUp, WholeIsValid

\* What leaves the caller and the clock alone leaves the invariant alone.
LEMMA SameDeadlines ==
  ASSUME DeadlineInv, Kinds',
         UNCHANGED <<sc, now, pc, next, final, ret, began>>,
         done => done'
  PROVE  DeadlineInv'
BY DEF DeadlineInv, FinalKept, WaitsWithinLimit, LeavesLate, GaveUp, WholeIsValid, Limit

LEMMA DeadlineStart == DeadlineInv /\ Start => DeadlineInv'
<1> SUFFICES ASSUME DeadlineInv, Start PROVE DeadlineInv'
  OBVIOUS
<1>1. Kinds' /\ pc' = "transmit" /\ final' = Limit' /\ began' \in Clock
  BY DEF DeadlineInv, Kinds, Start, waitVars, srvVars, Limit
<1>2. Limit'.sec # 0
  <2>1. sc'.to \in Nat
    BY <1>1, OneCallAssumption DEF Kinds
  <2>2. ValidTime(began') /\ began'.sec \in Nat /\ began'.sec >= 1
    BY <1>1, ClockIsValid
  <2>3. Limit' \in Time /\ Limit'.sec >= began'.sec
    BY <2>1, <2>2, PlusIsTime DEF Limit
  <2>4. Limit'.sec \in Nat
    BY <2>3 DEF Time
  <2> QED
    BY SMT, <2>2, <2>3, <2>4
<1>3. ~GaveUp'
  BY <1>1, <1>2 DEF GaveUp
<1> QED
  BY <1>1, <1>2, <1>3
  DEF DeadlineInv, FinalKept, WaitsWithinLimit, LeavesLate, WholeIsValid

LEMMA DeadlineTransmit == DeadlineInv /\ (GetConn \/ Send) => DeadlineInv'
<1> SUFFICES ASSUME DeadlineInv, GetConn \/ Send PROVE DeadlineInv'
  OBVIOUS
<1>1. Kinds' /\ UNCHANGED <<sc, now, began, final, next, ret, done>>
  BY DEF DeadlineInv, Kinds, GetConn, Send, waitVars, srvVars
<1>2. /\ pc \in {"transmit", "send"}
      /\ pc' = "send" \/ pc' = IF final.sec = 0 THEN "leave" ELSE "deadline"
  BY DEF GetConn, Send, AfterTransmit
<1>3. FinalKept'
  BY <1>1, <1>2 DEF DeadlineInv, FinalKept, Limit
<1>4. LeavesLate'
  <2>1. GaveUp' => GaveUp
    BY <1>1, <1>2 DEF GaveUp
  <2> QED
    BY <1>1, <2>1 DEF DeadlineInv, LeavesLate, Limit
<1> QED
  BY <1>1, <1>2, <1>3, <1>4 DEF DeadlineInv, WaitsWithinLimit, WholeIsValid

\* The one step that needs the arithmetic: the next deadline.
LEMMA DeadlineSet == DeadlineInv /\ SetDeadline => DeadlineInv'
<1> SUFFICES ASSUME DeadlineInv, SetDeadline PROVE DeadlineInv'
  OBVIOUS
<1>1. Kinds /\ Kinds' /\ UNCHANGED <<sc, now, began, ret, done>>
  BY DEF DeadlineInv, Kinds, SetDeadline, waitVars, srvVars
<1>2. pc = "deadline" /\ pc' = "wait"
  BY DEF SetDeadline
<1>3. began \in Clock /\ final = Limit /\ Limit' = Limit
  BY <1>1, <1>2 DEF DeadlineInv, FinalKept, Limit
<1>4. Limit \in Time /\ Limit.sec # 0
  BY <1>1, <1>3, LimitIsTime
<1>5. ~GaveUp'
  BY <1>2 DEF GaveUp
<1>6. ValidTime(now) /\ ValidTime(began) /\ Whole(curr)
  BY <1>1, <1>3, ClockIsValid DEF Kinds
<1>7. CASE Later(Plus(now, curr), final)
  <2>1. next' = Limit /\ final' = [final EXCEPT !.sec = 0]
    BY <1>3, <1>7 DEF SetDeadline, IsLast
  <2>2. final'.sec = 0
    BY <1>3, <1>4, <2>1 DEF Time
  <2>3. WaitsWithinLimit'
    BY <1>3, <1>4, <2>1, NotLaterItself DEF WaitsWithinLimit
  <2>4. WholeIsValid'
    BY <1>1, <1>2, <1>6, <2>1, PlusWhole DEF WholeIsValid, Limit
  <2> QED
    BY <1>1, <1>2, <1>3, <1>5, <2>2, <2>3, <2>4 DEF DeadlineInv, FinalKept, LeavesLate
<1>8. CASE ~Later(Plus(now, curr), final)
  <2>1. next' = Plus(now, curr) /\ final' = final
    BY <1>8 DEF SetDeadline, IsLast
  <2>2. WaitsWithinLimit'
    BY <1>3, <1>4, <1>8, <2>1 DEF WaitsWithinLimit
  <2>3. WholeIsValid'
    BY <1>2, <1>6, <2>1, PlusWhole DEF WholeIsValid
  <2> QED
    BY <1>1, <1>2, <1>3, <1>5, <2>1, <2>2, <2>3 DEF DeadlineInv, FinalKept, LeavesLate
<1> QED
  BY <1>7, <1>8

LEMMA DeadlineTimedOut == DeadlineInv /\ TimedOut => DeadlineInv'
<1> SUFFICES ASSUME DeadlineInv, TimedOut PROVE DeadlineInv'
  OBVIOUS
<1>1. UNCHANGED <<sc, now, began, final, next, ret, done>>
  BY DEF TimedOut, waitVars
<1>2. Kinds'
  BY <1>1, WholeNumbers DEF DeadlineInv, Kinds, TimedOut, waitVars, srvVars
<1>3. pc = "wait" /\ ~done /\ ~Later(next, now)
  BY DEF TimedOut
<1>4. \/ pc' = "transmit"
      \/ pc' = "leave" /\ final.sec = 0
      \/ pc' = "deadline" /\ final.sec # 0
  BY DEF TimedOut, AfterTransmit
<1>5. FinalKept'
  BY <1>1, <1>3, <1>4 DEF DeadlineInv, FinalKept, Limit
<1>6. LeavesLate'
  <2>1. GaveUp' => final.sec = 0
    BY <1>1, <1>4 DEF GaveUp
  <2>2. final.sec = 0 => next = Limit
    BY <1>3 DEF DeadlineInv, WaitsWithinLimit
  <2> QED
    BY <1>1, <1>3, <2>1, <2>2 DEF LeavesLate, Limit
<1> QED
  BY <1>2, <1>4, <1>5, <1>6 DEF DeadlineInv, WaitsWithinLimit, WholeIsValid

LEMMA DeadlineReturn == DeadlineInv /\ Return => DeadlineInv'
<1> SUFFICES ASSUME DeadlineInv, Return PROVE DeadlineInv'
  OBVIOUS
<1>1. Kinds' /\ UNCHANGED <<sc, now, began, final, done>>
  BY DEF DeadlineInv, Kinds, Return, waitVars, srvVars
<1>2. pc = "leave" /\ pc' = "returned"
  BY DEF Return
<1>3. intret \in Results
  BY DEF DeadlineInv, Kinds
<1>4. intret # timeout_failure
  BY SMT, <1>3 DEF Results, timeout_failure, unmarshal_args_failure
<1>5. unmarshal_reply_failure # timeout_failure
  BY SMT DEF timeout_failure, unmarshal_reply_failure
<1>6. ret' = timeout_failure => ~done
  <2>1. CASE ~done
    BY <2>1
  <2>2. CASE done
    <3>1. ret' = intret \/ ret' = unmarshal_reply_failure
      BY <2>2 DEF Return
    <3> QED
      BY <3>1, <1>4, <1>5
  <2> QED
    BY <2>1, <2>2
<1>7. LeavesLate'
  BY <1>1, <1>2, <1>6 DEF DeadlineInv, LeavesLate, GaveUp, Limit
<1> QED
  BY <1>1, <1>2, <1>7 DEF DeadlineInv, FinalKept, WaitsWithinLimit, WholeIsValid, Limit

LEMMA DeadlineTick == DeadlineInv /\ Tick => DeadlineInv'
<1> SUFFICES ASSUME DeadlineInv, Tick PROVE DeadlineInv'
  OBVIOUS
<1>1. Kinds /\ Kinds' /\ now' \in Clock /\ Later(now', now)
  BY DEF DeadlineInv, Kinds, Tick, callerVars, waitVars, srvVars
<1>2. UNCHANGED <<sc, pc, began, final, next, ret, done>>
  BY DEF Tick, callerVars, waitVars
<1>3. LeavesLate'
  <2>1. SUFFICES ASSUME GaveUp, ~Later(Limit, now) PROVE ~Later(Limit, now')
    BY <1>2 DEF DeadlineInv, LeavesLate, GaveUp, Limit
  <2>2. pc # "args"
    BY <2>1 DEF GaveUp
  <2>3. Limit \in Time
    BY <1>1, <2>2, LimitIsTime DEF DeadlineInv, FinalKept
  <2>4. ValidTime(now) /\ ValidTime(now')
    BY <1>1, ClockIsValid DEF Kinds
  <2> QED
    BY <1>1, <2>1, <2>3, <2>4, StaysOver
<1> QED
  BY <1>1, <1>2, <1>3 DEF DeadlineInv, FinalKept, WaitsWithinLimit, WholeIsValid, Limit

LEMMA DeadlineNext == DeadlineInv /\ [Next]_vars => DeadlineInv'
<1> SUFFICES ASSUME DeadlineInv, [Next]_vars PROVE DeadlineInv'
  OBVIOUS
<1>1. Kinds
  BY DEF DeadlineInv
<1>2. CASE MarshalArgs
  BY <1>1, <1>2, SameDeadlines DEF MarshalArgs, Kinds, waitVars, srvVars
<1>3. CASE Spin
  <2>1. UNCHANGED <<sc, now, began, final, next, ret, done>> /\ Kinds'
    BY <1>1, <1>3 DEF Spin, Kinds, waitVars, srvVars
  <2>2. pc = "wait" /\ pc' = "spin" /\ ~ValidTime(next)
    BY <1>3 DEF Spin
  <2>3. ~Whole(sc.to)
    BY <2>2 DEF DeadlineInv, WholeIsValid
  <2> QED
    BY <2>1, <2>2, <2>3
    DEF DeadlineInv, FinalKept, WaitsWithinLimit, LeavesLate, GaveUp, WholeIsValid, Limit
<1>4. CASE SeesReply
  <2>1. UNCHANGED <<sc, now, began, final, next, ret, done>> /\ Kinds'
    BY <1>1, <1>4 DEF SeesReply, Kinds, waitVars, srvVars
  <2>2. pc = "wait" /\ pc' = "leave" /\ done
    BY <1>4 DEF SeesReply
  <2> QED
    BY <2>1, <2>2
    DEF DeadlineInv, FinalKept, WaitsWithinLimit, LeavesLate, GaveUp, WholeIsValid, Limit
<1>5. CASE GotReply
  <2>1. Kinds'
    BY <1>1, <1>5 DEF GotReply, Kinds, callerVars, waitVars, srvVars
  <2>2. done => done'
    BY <1>5 DEF GotReply, waitVars
  <2> QED
    BY <1>5, <2>1, <2>2, SameDeadlines DEF GotReply, callerVars
<1>6. CASE RunHandler
  <2>1. sret' \in Results
    BY <1>1, <1>6, OneCallAssumption DEF RunHandler, Kinds, Results
  <2> QED
    BY <1>1, <1>6, <2>1, SameDeadlines DEF RunHandler, Kinds, callerVars, waitVars
<1>7. CASE GotRequest \/ UnmarshalArg \/ MarshalResult \/ SendReply \/ Duplicate
  BY <1>1, <1>7, SameDeadlines
  DEF GotRequest, UnmarshalArg, MarshalResult, SendReply, Duplicate, Kinds,
      callerVars, waitVars, srvVars
<1>8. CASE ConnDies \/ ServerCrashes \/ UNCHANGED vars
  BY <1>1, <1>8, SameDeadlines
  DEF ConnDies, ServerCrashes, vars, Kinds, callerVars, waitVars, netVars, srvVars
<1>9. CASE CallerCrashes
  <2>1. UNCHANGED <<sc, now, began, final, next, ret, done>> /\ Kinds'
    BY <1>1, <1>9 DEF CallerCrashes, Kinds, waitVars, srvVars
  <2>2. pc = "leave" /\ pc' = "crashed"
    BY <1>9 DEF CallerCrashes
  <2> QED
    BY <2>1, <2>2
    DEF DeadlineInv, FinalKept, WaitsWithinLimit, LeavesLate, GaveUp, WholeIsValid, Limit
<1> QED
  BY <1>2, <1>3, <1>4, <1>5, <1>6, <1>7, <1>8, <1>9, DeadlineStart, DeadlineTransmit,
     DeadlineSet, DeadlineTimedOut, DeadlineReturn, DeadlineTick
  DEF Next, CallerNext, CallerGoesOn, ServerNext

LEMMA DeadlineInvHolds == Spec => []DeadlineInv
BY DeadlineInit, DeadlineNext, PTL DEF Spec

\* No call reports timeout_failure before its time is over, whatever its time,
\* the clock and the connections do in between.
THEOREM NotEarlyHolds == Spec => []NotEarly
<1>1. ASSUME DeadlineInv PROVE NotEarly
  <2>1. SUFFICES ASSUME pc = "returned", ret = timeout_failure
                 PROVE  HasElapsed(began, now, sc.to)
    BY DEF NotEarly
  <2>2. ~Later(Plus(began, sc.to), now)
    BY <1>1, <2>1 DEF DeadlineInv, LeavesLate, GaveUp, Limit
  <2>3. began \in Clock /\ now \in Clock /\ sc.to \in Nat
    BY <1>1, <2>1, OneCallAssumption DEF DeadlineInv, Kinds, FinalKept
  <2> QED
    BY <2>2, <2>3, ClockIsValid, DeadlineElapsed
<1> QED
  BY <1>1, DeadlineInvHolds, PTL

\* No wait of a call, backed off as it may be, is set past the call's deadline.
THEOREM WithinLimitHolds == Spec => []WithinLimit
<1>1. DeadlineInv => WithinLimit
  BY DEF DeadlineInv, WaitsWithinLimit, WithinLimit, Limit
<1> QED
  BY <1>1, DeadlineInvHolds, PTL

\* add_timespec makes no invalid deadline for a call of whole seconds: such a
\* caller never spins with ca.m held.
THEOREM WholeSecondsWaitHolds == Spec => []WholeSecondsWait
<1>1. ASSUME DeadlineInv PROVE WholeSecondsWait
  <2>1. SUFFICES ASSUME sc.to % 1000 = 0 PROVE pc # "spin"
    BY DEF WholeSecondsWait
  <2>2. sc.to \in Nat
    BY <1>1, OneCallAssumption DEF DeadlineInv, Kinds
  <2>3. sc.to \div 1000 \in Nat /\ sc.to = 1000 * (sc.to \div 1000)
    BY SMT, <2>1, <2>2
  <2> QED
    BY <1>1, <2>3 DEF DeadlineInv, WholeIsValid, Whole
<1> QED
  BY <1>1, DeadlineInvHolds, PTL

-----------------------------------------------------------------------------
(* Types.                                                                  *)

InRange(t) == t.sec \in Nat /\ t.ns \in Nat /\ t.ns <= NsPerSec

Places == {"args", "transmit", "send", "deadline", "wait", "leave", "spin", "returned",
           "crashed"}

Ranges ==
  /\ pc \in Places
  /\ curr \in Nat /\ curr > 0
  /\ InRange(next) /\ InRange(final) /\ InRange(began)
  /\ done \in BOOLEAN /\ ret \in Int
  /\ ch \in {"none", "up", "dead"} /\ inReq \in BOOLEAN /\ inRep \in BOOLEAN
  /\ spc \in {"idle", "args", "reply", "done", "crashed"} /\ ran \in BOOLEAN

LEMMA PlusInRange ==
  ASSUME NEW t, ValidTime(t), NEW ms \in Nat
  PROVE  InRange(Plus(t, ms))
<1>1. ms \div 1000 \in Nat /\ ms % 1000 \in 0..999
  BY SMT
<1>2. t.sec \in Nat /\ t.ns \in Nat /\ t.ns < 1000000000
  BY ValidIsTime
<1>3. PICK ns \in Nat : ns = t.ns + (ms % 1000) * NsPerMs /\ ns < 2000000000
  BY SMT, <1>1, <1>2, Units
<1>4. CASE ns > NsPerSec
  <2>1. Plus(t, ms) = [sec |-> t.sec + ms \div 1000 + 1, ns |-> ns - NsPerSec]
    BY <1>3, <1>4, PlusCarry
  <2>2. t.sec + ms \div 1000 + 1 \in Nat /\ ns - NsPerSec \in Nat /\ ns - NsPerSec <= NsPerSec
    BY SMT, <1>1, <1>2, <1>3, <1>4, Units
  <2> QED
    BY <2>1, <2>2 DEF InRange
<1>5. CASE ~(ns > NsPerSec)
  <2>1. Plus(t, ms) = [sec |-> t.sec + ms \div 1000, ns |-> ns]
    BY <1>3, <1>5, PlusNoCarry
  <2>2. t.sec + ms \div 1000 \in Nat /\ ns <= NsPerSec
    BY SMT, <1>1, <1>2, <1>3, <1>5, Units
  <2> QED
    BY <2>1, <2>2 DEF InRange
<1> QED
  BY <1>4, <1>5

LEMMA ValidInRange ==
  ASSUME NEW t, ValidTime(t)
  PROVE  InRange(t)
BY SMT, ValidIsTime, Units DEF InRange

LEMMA RangesInit ==
  ASSUME Init
  PROVE  Ranges
<1>1. InRange(NoTime)
  <2>1. NoTime.sec = 0 /\ NoTime.ns = 0
    BY DEF NoTime
  <2> QED
    BY SMT, <2>1, Units DEF InRange
<1>2. to_min \in Nat /\ to_min > 0
  BY SMT DEF to_min
<1>3. pc = "args" /\ ch = "none" /\ spc = "idle" /\ ret = 0
  BY DEF Init
<1>4. curr = to_min /\ next = NoTime /\ final = NoTime /\ began = NoTime
  BY DEF Init
<1>5. done \in BOOLEAN /\ inReq \in BOOLEAN /\ inRep \in BOOLEAN /\ ran \in BOOLEAN
  BY Zenon DEF Init
<1>6. InRange(next) /\ InRange(final) /\ InRange(began) /\ curr \in Nat /\ curr > 0
  BY Zenon, <1>1, <1>2, <1>4
<1>7. /\ pc \in Places
      /\ ret \in Int /\ ch \in {"none", "up", "dead"} /\ spc \in {"idle", "args", "reply", "done", "crashed"}
  BY <1>3 DEF Places
<1> QED
  BY Zenon, <1>5, <1>6, <1>7 DEF Ranges

LEMMA RangesNext ==
  ASSUME DeadlineInv, Ranges, [Next]_vars
  PROVE  Ranges'
<1> USE DEF Ranges, Places, callerVars, waitVars, netVars, srvVars
<1>1. /\ sc \in Scenarios /\ ValidTime(now) /\ now \in Clock
      /\ sc.to \in Nat /\ sret \in Int /\ intret \in Int
  <2>1. sc \in Scenarios /\ now \in Clock /\ sret \in Results /\ intret \in Results
    BY DEF DeadlineInv, Kinds
  <2>2. \A i \in Results : i \in Int
    BY SMT DEF Results, unmarshal_args_failure
  <2> QED
    BY <2>1, <2>2, ClockIsValid, OneCallAssumption
<1>2. CASE Start
  BY <1>1, <1>2, PlusInRange, ValidInRange DEF Start
<1>3. CASE SetDeadline
  <2>1. InRange(Plus(now, curr))
    BY <1>1, PlusInRange
  <2>2. final' = final \/ final' = [final EXCEPT !.sec = 0]
    BY <1>3 DEF SetDeadline
  <2>3. InRange(final')
    <3>1. CASE final' = final
      BY <3>1
    <3>2. CASE final' = [final EXCEPT !.sec = 0]
      <4>1. final'.sec = 0 /\ final'.ns = final.ns
        BY <3>2 DEF InRange
      <4> QED
        BY <4>1 DEF InRange
    <3> QED
      BY <2>2, <3>1, <3>2
  <2>4. InRange(next')
    BY <1>3, <2>1 DEF SetDeadline
  <2> QED
    BY <1>3, <2>3, <2>4 DEF SetDeadline
<1>4. CASE TimedOut
  <2>1. BackOff(curr) \in Nat /\ BackOff(curr) > 0
    BY SMT DEF BackOff
  <2> QED
    BY <1>4, <2>1 DEF TimedOut, AfterTransmit
<1>5. CASE GetConn
  BY <1>5 DEF GetConn, AfterTransmit
<1>12. CASE Send
  <2>1. inReq' \in BOOLEAN
    BY Zenon, <1>12 DEF Send
  <2> QED
    BY <1>12, <2>1 DEF Send, AfterTransmit
<1>13. CASE CallerCrashes \/ ServerCrashes
  BY <1>13 DEF CallerCrashes, ServerCrashes
<1>6. CASE MarshalArgs \/ Spin \/ SeesReply
  BY <1>6 DEF MarshalArgs, Spin, SeesReply
<1>7. CASE Return
  <2>1. ret' \in Int
    <3>1. timeout_failure \in Int /\ unmarshal_reply_failure \in Int
      BY SMT DEF timeout_failure, unmarshal_reply_failure
    <3>2. ret' \in {intret, timeout_failure, unmarshal_reply_failure}
      BY <1>7 DEF Return
    <3> QED
      BY <1>1, <3>1, <3>2
  <2> QED
    BY <1>7, <2>1 DEF Return
<1>8. CASE GotRequest \/ UnmarshalArg \/ RunHandler \/ MarshalResult
  BY <1>8 DEF GotRequest, UnmarshalArg, RunHandler, MarshalResult
<1>9. CASE SendReply \/ Duplicate
  BY Zenon, <1>9 DEF SendReply, Duplicate
<1>10. CASE GotReply \/ ConnDies \/ Tick
  BY <1>10 DEF GotReply, ConnDies, Tick
<1>11. CASE UNCHANGED vars
  BY <1>11 DEF vars
<1> QED
  BY <1>2, <1>3, <1>4, <1>5, <1>6, <1>7, <1>8, <1>9, <1>10, <1>11, <1>12, <1>13
  DEF Next, CallerNext, CallerGoesOn, ServerNext

\* Every variable keeps its type; the nanoseconds of a deadline may reach a
\* whole second, which add_timespec does not carry, and never exceed it.
THEOREM OneCallTypeCorrect == Spec => []TypeOK
<1>1. ASSUME BufferInv, DeadlineInv, Ranges PROVE TypeOK
  <2>1. \A m \in {req, rep} : m.ind \in Nat /\ m.capa \in Nat
    BY <1>1 DEF BufferInv, Fits
  <2>2. \A t \in {next, final, began} : t.sec \in Nat /\ t.ns \in 0..NsPerSec
    <3>1. NsPerSec \in Nat
      BY SMT, Units
    <3>2. ASSUME NEW t, InRange(t) PROVE t.sec \in Nat /\ t.ns \in 0..NsPerSec
      BY <3>1, <3>2 DEF InRange
    <3> QED
      BY Zenon, <1>1, <3>2 DEF Ranges
  <2>3. sc \in Scenarios /\ now \in Clock /\ sret \in Int /\ intret \in Int
    <3>1. \A i \in Results : i \in Int
      BY SMT DEF Results, unmarshal_args_failure
    <3> QED
      BY <1>1, <3>1 DEF DeadlineInv, Kinds
  <2> QED
    BY Zenon, <1>1, <2>1, <2>2, <2>3 DEF TypeOK, Ranges, Places
<1>2. Init => Ranges
  BY RangesInit
<1>3. DeadlineInv /\ Ranges /\ [Next]_vars => Ranges'
  BY RangesNext
<1> QED
  BY <1>1, <1>2, <1>3, BufferInit, BufferNext, DeadlineInvHolds, PTL DEF Spec

-----------------------------------------------------------------------------
(* What is read.                                                           *)

\* A buffer, and a place past its header.
Place(u, i) == u.buf \in Seq(Bytes) /\ i \in Nat /\ HeaderSize <= i

LEMMA ByteIsNat ==
  ASSUME NEW u, NEW i, Place(u, i)
  PROVE  ByteAt(u, i) \in Nat
<1>1. PICK b \in Seq(Bytes) : b = u.buf
  BY DEF Place
<1>2. CASE i < SizeOf(u)
  <2>1. PICK j : j = i - HeaderSize + 1
    OBVIOUS
  <2>2. j \in 1..Len(b)
    BY <1>1, <1>2, <2>1 DEF Place, SizeOf, HeaderSize
  <2>3. b[j] \in Bytes
    BY Zenon, <2>2, ElementOfSeq
  <2>4. b[j] \in Nat
    BY Zenon, <2>3, ContentsAreNat
  <2> QED
    BY Zenon, <1>1, <1>2, <2>1, <2>4 DEF ByteAt
<1>3. CASE ~(i < SizeOf(u))
  BY <1>3 DEF ByteAt
<1> QED
  BY <1>2, <1>3

NumberBy(f, u, i, w) ==
  f[0] = 0 /\ \A k \in 1..w : f[k] = 256 * f[k - 1] + ByteAt(u, i + k - 1)

LEMMA NumberSteps ==
  ASSUME NEW u, NEW i, Place(u, i), NEW w \in Nat
  PROVE  \E f \in [0..w -> Nat] : NumberBy(f, u, i, w) /\ NumberAt(u, i, w) = f[w]
<1> DEFINE e(k) == ByteAt(u, i + k - 1)
           F == [q \in Nat \X Nat |-> IF q[1] \in 1..w THEN 256 * q[2] + e(q[1]) ELSE 0]
           Body(f) == [k \in 0..w |-> IF k = 0 THEN 0 ELSE 256 * f[k - 1] + e(k)]
           h == CHOOSE f : f = Body(f)
<1>1. NumberAt(u, i, w) = h[w]
  BY Zenon DEF NumberAt
<1>2. ASSUME NEW k \in 1..w PROVE e(k) \in Nat
  <2>1. Place(u, i + k - 1)
    BY DEF Place, HeaderSize
  <2> QED
    BY Zenon, <2>1, ByteIsNat
<1> HIDE DEF e
<1>3. F \in [Nat \X Nat -> Nat]
  BY <1>2
<1>4. PICK f \in [0..w -> Nat] : StepsTo(w, f, 0, F)
  <2>1. 0 \in Nat
    OBVIOUS
  <2> HIDE DEF F
  <2> QED
    BY Zenon, <1>3, <2>1, FiniteRecursion
<1>5. f[0] = 0
  BY Zenon, <1>4 DEF StepsTo
<1>6. ASSUME NEW k \in 1..w PROVE f[k] = 256 * f[k - 1] + e(k)
  <2>1. f[k] = F[<<k, f[k - 1]>>]
    <3> HIDE DEF F
    <3> QED
      BY Zenon, <1>4 DEF StepsTo
  <2>2. <<k, f[k - 1]>> \in Nat \X Nat
    BY <1>4
  <2> QED
    BY <2>1, <2>2
<1>7. f = Body(f)
  BY <1>4, <1>5, <1>6
<1>8. h = Body(h)
  <2> HIDE DEF Body
  <2> QED
    BY Zenon, <1>7
<1> HIDE DEF h
<1>9. h[0] = 0 /\ \A k \in 1..w : h[k] = 256 * h[k - 1] + e(k)
  <2>1. ASSUME NEW k \in 0..w PROVE h[k] = IF k = 0 THEN 0 ELSE 256 * h[k - 1] + e(k)
    BY Zenon, <1>8
  <2>2. 0 \in 0..w /\ \A k \in 1..w : k \in 0..w /\ k # 0
    OBVIOUS
  <2> QED
    BY Zenon, <2>1, <2>2
<1>10. GoAlike(f, h, w)
  <2>1. ASSUME NEW k \in 1..w, f[k - 1] = h[k - 1] PROVE f[k] = h[k]
    <3>1. f[k] = 256 * f[k - 1] + e(k)
      BY Zenon, <1>6
    <3>2. h[k] = 256 * h[k - 1] + e(k)
      BY Zenon, <1>9
    <3> QED
      BY Zenon, <2>1, <3>1, <3>2
  <2>2. f[0] = h[0]
    BY Zenon, <1>5, <1>9
  <2> QED
    BY Zenon, <2>1, <2>2 DEF GoAlike
<1>11. f[w] = h[w]
  BY Zenon, <1>10, SameUpTo DEF EndAlike
<1>12. NumberBy(f, u, i, w)
  BY Zenon, <1>5, <1>6 DEF NumberBy, e
<1> QED
  BY Zenon, <1>1, <1>4, <1>11, <1>12

LEMMA NumberIsNat ==
  ASSUME NEW u, NEW i, Place(u, i), NEW w \in Nat
  PROVE  NumberAt(u, i, w) \in Nat
<1>1. PICK f \in [0..w -> Nat] : NumberAt(u, i, w) = f[w]
  BY Zenon, NumberSteps
<1> QED
  BY <1>1

\* The numbers that are read take one, two or, after the first of a word, three
\* bytes.
LEMMA NumberUnfolds ==
  ASSUME NEW u, NEW i, Place(u, i)
  PROVE  /\ NumberAt(u, i, 1) = ByteAt(u, i)
         /\ NumberAt(u, i, 2) = 256 * ByteAt(u, i) + ByteAt(u, i + 1)
         /\ NumberAt(u, i, 3) = 256 * (256 * ByteAt(u, i) + ByteAt(u, i + 1)) + ByteAt(u, i + 2)
<1> DEFINE e(k) == ByteAt(u, i + k - 1)
<1>0. i \in Nat
  BY DEF Place
<1>1. e(1) = ByteAt(u, i) /\ e(2) = ByteAt(u, i + 1) /\ e(3) = ByteAt(u, i + 2)
  <2>1. i + 1 - 1 = i /\ i + 2 - 1 = i + 1 /\ i + 3 - 1 = i + 2
    BY <1>0
  <2> QED
    BY Zenon, <2>1
<1>2. ASSUME NEW w \in Nat, NEW f, NumberBy(f, u, i, w)
      PROVE  f[0] = 0 /\ \A k \in 1..w : f[k] = 256 * f[k - 1] + e(k)
  BY Zenon, <1>2 DEF NumberBy
<1>3. ByteAt(u, i) \in Nat
  BY Zenon, ByteIsNat
<1> HIDE DEF e
<1>4. NumberAt(u, i, 1) = ByteAt(u, i)
  <2>1. PICK f \in [0..1 -> Nat] : NumberBy(f, u, i, 1) /\ NumberAt(u, i, 1) = f[1]
    BY NumberSteps
  <2>2. f[0] = 0 /\ f[1] = 256 * f[1 - 1] + e(1)
    BY <1>2, <2>1
  <2> QED
    BY <1>1, <1>3, <2>1, <2>2
<1>5. NumberAt(u, i, 2) = 256 * ByteAt(u, i) + ByteAt(u, i + 1)
  <2>1. PICK f \in [0..2 -> Nat] : NumberBy(f, u, i, 2) /\ NumberAt(u, i, 2) = f[2]
    BY NumberSteps
  <2>2. f[0] = 0 /\ f[1] = 256 * f[1 - 1] + e(1) /\ f[2] = 256 * f[2 - 1] + e(2)
    BY <1>2, <2>1
  <2> QED
    BY <1>1, <1>3, <2>1, <2>2
<1>6. NumberAt(u, i, 3) = 256 * (256 * ByteAt(u, i) + ByteAt(u, i + 1)) + ByteAt(u, i + 2)
  <2>1. PICK f \in [0..3 -> Nat] : NumberBy(f, u, i, 3) /\ NumberAt(u, i, 3) = f[3]
    BY NumberSteps
  <2>2. /\ f[0] = 0 /\ f[1] = 256 * f[1 - 1] + e(1) /\ f[2] = 256 * f[2 - 1] + e(2)
        /\ f[3] = 256 * f[3 - 1] + e(3)
    BY <1>2, <2>1
  <2> QED
    BY <1>1, <1>3, <2>1, <2>2
<1> QED
  BY <1>4, <1>5, <1>6

\* A word is an int, whatever its bytes; the sign is that of the first one.
WordIs(u, i) ==
  WordAt(u, i) = 256^3 * (IF ByteAt(u, i) < 128 THEN ByteAt(u, i) ELSE ByteAt(u, i) - 256)
                   + (256 * (256 * ByteAt(u, i + 1) + ByteAt(u, i + 2)) + ByteAt(u, i + 3))

LEMMA WordUnfolds ==
  ASSUME NEW u, NEW i, Place(u, i)
  PROVE  /\ WordAt(u, i) \in Int /\ 0 <= WordAt(u, i) + 2^32
         /\ WordIs(u, i)
<1>1. i \in Nat
  BY Zenon DEF Place
<1>2. Place(u, i + 1) /\ (i + 1) + 1 = i + 2 /\ (i + 1) + 2 = i + 3
  <2>1. i + 1 \in Nat /\ HeaderSize <= i + 1 /\ (i + 1) + 1 = i + 2 /\ (i + 1) + 2 = i + 3
    BY <1>1 DEF Place, HeaderSize
  <2> QED
    BY Zenon, <2>1 DEF Place
<1>3. PICK a, n : a = ByteAt(u, i) /\ n = NumberAt(u, i + 1, 3)
  OBVIOUS
<1>4. n = 256 * (256 * ByteAt(u, i + 1) + ByteAt(u, i + 2)) + ByteAt(u, i + 3)
  <2>1. PICK j : j = i + 1
    OBVIOUS
  <2>2. Place(u, j)
    BY Zenon, <1>2, <2>1
  <2>3. NumberAt(u, j, 3) = 256 * (256 * ByteAt(u, j) + ByteAt(u, j + 1)) + ByteAt(u, j + 2)
    <3> USE <2>2
    <3> QED
      BY SMT, NumberUnfolds
  <2>4. j + 1 = i + 2 /\ j + 2 = i + 3
    BY Zenon, <1>2, <2>1
  <2> QED
    BY Zenon, <1>3, <2>1, <2>3, <2>4
<1>5. a \in Nat /\ n \in Nat
  <2>1. 3 \in Nat
    OBVIOUS
  <2> QED
    BY Zenon, <1>2, <1>3, <2>1, ByteIsNat, NumberIsNat
<1>6. WordAt(u, i) = 256^3 * (IF a < 128 THEN a ELSE a - 256) + n
  BY Zenon, <1>3 DEF WordAt
<1>7. /\ 256^3 * (IF a < 128 THEN a ELSE a - 256) + n \in Int
      /\ 0 <= (256^3 * (IF a < 128 THEN a ELSE a - 256) + n) + 2^32
  <2>1. 256^3 = 16777216 /\ 2^32 = 4294967296
    BY SMT
  <2> QED
    BY SMT, <1>5, <2>1
<1>8. WordAt(u, i) \in Int /\ 0 <= WordAt(u, i) + 2^32
  BY Zenon, <1>6, <1>7
<1>9. WordAt(u, i) = 256^3 * (IF ByteAt(u, i) < 128 THEN ByteAt(u, i) ELSE ByteAt(u, i) - 256) + n
  BY Zenon, <1>3, <1>6
<1> QED
  BY Zenon, <1>4, <1>8, <1>9 DEF WordIs

\* From place i on, u holds the bytes b.
Holds(u, i, b) ==
  /\ Place(u, i) /\ b \in Seq(Bytes) /\ i + Len(b) <= SizeOf(u)
  /\ \A j \in 1..Len(b) : ByteAt(u, i + j - 1) = b[j]

LEMMA HoldsBoth ==
  ASSUME NEW u, NEW i, NEW a \in Seq(Bytes), NEW b \in Seq(Bytes), Holds(u, i, a \o b)
  PROVE  Holds(u, i, a) /\ Holds(u, i + Len(a), b)
<1>1. PICK n, k, c : n = Len(a) /\ k = Len(b) /\ c = a \o b
  OBVIOUS
<1>2. n \in Nat /\ k \in Nat
  BY Zenon, <1>1, LenProperties
<1>3. Len(c) = n + k /\ \A j \in 1..n + k : c[j] = IF j <= n THEN a[j] ELSE b[j - n]
  BY <1>1, ConcatProperties
<1>4. /\ Place(u, i) /\ i + (n + k) <= SizeOf(u)
      /\ \A j \in 1..n + k : ByteAt(u, i + j - 1) = c[j]
  BY Zenon, <1>1, <1>3 DEF Holds
<1>5. i \in Nat /\ SizeOf(u) \in Nat /\ HeaderSize <= i
  <2>1. u.buf \in Seq(Bytes) /\ i \in Nat /\ HeaderSize <= i
    BY Zenon, <1>4 DEF Place
  <2>2. Len(u.buf) \in Nat
    BY Zenon, <2>1, LenProperties
  <2> QED
    BY <2>1, <2>2 DEF SizeOf, HeaderSize
<1>6. PICK s : s = SizeOf(u)
  OBVIOUS
<1>7. i + n <= s /\ (i + n) + k <= s /\ i + n \in Nat /\ HeaderSize <= i + n
  BY <1>2, <1>4, <1>5, <1>6 DEF HeaderSize
<1>8. ASSUME NEW j \in 1..n PROVE ByteAt(u, i + j - 1) = a[j]
  <2>1. j \in 1..n + k /\ j <= n
    BY <1>2
  <2> QED
    BY Zenon, <1>3, <1>4, <2>1
<1>9. ASSUME NEW j \in 1..k PROVE ByteAt(u, (i + n) + j - 1) = b[j]
  <2>1. PICK l : l = n + j
    OBVIOUS
  <2>2. l \in 1..n + k /\ ~(l <= n) /\ l - n = j /\ i + l - 1 = (i + n) + j - 1
    BY <1>2, <1>5, <2>1
  <2>3. c[l] = b[l - n]
    BY Zenon, <1>3, <2>2
  <2> QED
    BY Zenon, <1>4, <2>2, <2>3
<1>10. Place(u, i + n)
  BY Zenon, <1>4, <1>7 DEF Place
<1> QED
  BY Zenon, <1>1, <1>4, <1>6, <1>7, <1>8, <1>9, <1>10 DEF Holds

LEMMA HoldsMiddle ==
  ASSUME NEW u, NEW p \in Seq(Bytes), NEW b \in Seq(Bytes), NEW q \in Seq(Bytes),
         u.buf = p \o (b \o q)
  PROVE  Holds(u, HeaderSize + Len(p), b)
<1>1. PICK c, d, n, k, l : /\ c = b \o q /\ d = p \o c
                           /\ n = Len(p) /\ k = Len(b) /\ l = Len(q)
  OBVIOUS
<1>2. n \in Nat /\ k \in Nat /\ l \in Nat
  BY Zenon, <1>1, LenProperties
<1>3. c \in Seq(Bytes) /\ Len(c) = k + l /\ \A j \in 1..k + l : c[j] = IF j <= k THEN b[j] ELSE q[j - k]
  BY <1>1, ConcatProperties
<1>4. /\ d \in Seq(Bytes) /\ Len(d) = n + (k + l)
      /\ \A j \in 1..n + (k + l) : d[j] = IF j <= n THEN p[j] ELSE c[j - n]
  BY <1>1, <1>3, ConcatProperties
<1>5. u.buf = d
  BY Zenon, <1>1
<1>6. SizeOf(u) = 24 + (n + (k + l)) /\ HeaderSize + n = 24 + n
  BY <1>4, <1>5 DEF SizeOf, HeaderSize
<1>7. Place(u, HeaderSize + n)
  <2>1. HeaderSize + n \in Nat /\ HeaderSize <= HeaderSize + n
    BY <1>2 DEF HeaderSize
  <2> QED
    BY Zenon, <1>4, <1>5, <2>1 DEF Place
<1>8. (HeaderSize + n) + k <= SizeOf(u)
  BY <1>2, <1>6
<1>9. ASSUME NEW j \in 1..k PROVE ByteAt(u, (HeaderSize + n) + j - 1) = b[j]
  <2>1. PICK i, m : i = (HeaderSize + n) + j - 1 /\ m = n + j
    OBVIOUS
  <2>2. i < SizeOf(u) /\ i - HeaderSize + 1 = m
    BY <1>2, <1>6, <2>1 DEF HeaderSize
  <2>3. m \in 1..n + (k + l) /\ ~(m <= n) /\ m - n = j /\ j \in 1..k + l /\ j <= k
    BY <1>2, <2>1
  <2>4. d[m] = b[j]
    BY Zenon, <1>3, <1>4, <2>3
  <2> QED
    BY Zenon, <1>5, <2>1, <2>2, <2>4 DEF ByteAt
<1> QED
  BY Zenon, <1>1, <1>7, <1>8, <1>9 DEF Holds

\* A number is read back from its digits.
LEMMA OneDigit ==
  ASSUME NEW x \in Int
  PROVE  /\ x \div 256 \in Int /\ x % 256 \in Nat /\ x % 256 < 256
         /\ x = 256 * (x \div 256) + (x % 256)
<1>1. x \div 256 \in Int
  BY SMT
<1>2. x % 256 \in Nat /\ x % 256 < 256
  BY SMT
<1>3. x = 256 * (x \div 256) + (x % 256)
  BY SMT
<1> QED
  BY <1>1, <1>2, <1>3

LEMMA ShiftTwice ==
  ASSUME NEW x \in Int
  PROVE  /\ (x \div 256) \div 256 = x \div 65536
         /\ (x \div 65536) \div 256 = x \div 16777216
<1>1. (x \div 256) \div 256 = x \div 65536
  BY SMT
<1>2. (x \div 65536) \div 256 = x \div 16777216
  BY SMT
<1> QED
  BY <1>1, <1>2

AreTwo(x, a, d) == x \in Nat /\ x <= 65535 /\ a = (x \div 256) % 256 /\ d = x % 256
Two(x, a, d)    == x = 256 * a + d

LEMMA TwoDigits ==
  ASSUME NEW x, NEW a, NEW d, AreTwo(x, a, d)
  PROVE  Two(x, a, d)
<1>0. x \in Nat /\ x <= 65535 /\ a = (x \div 256) % 256 /\ d = x % 256
  BY SMT DEF AreTwo
<1>1. PICK y : y = x \div 256
  OBVIOUS
<1>2. y \in Int /\ d \in Nat /\ d < 256 /\ x = 256 * y + d
  BY SMT, <1>0, <1>1, OneDigit
<1>3. y < 256 /\ y >= 0
  BY SMT, <1>0, <1>2
<1>4. y % 256 = y
  BY SMT, <1>2, <1>3
<1>5. a = y
  BY SMT, <1>0, <1>1, <1>4
<1> QED
  BY SMT, <1>2, <1>5 DEF Two

AreFour(x, a, b, c, d) ==
  /\ x \in Int /\ -MaxNumber - 1 <= x /\ x <= MaxNumber
  /\ a = (x \div 16777216) % 256 /\ b = (x \div 65536) % 256
  /\ c = (x \div 256) % 256 /\ d = x % 256
Four(x, a, b, c, d) ==
  x = 256^3 * (IF a < 128 THEN a ELSE a - 256) + (256 * (256 * b + c) + d)

LEMMA FourDigits ==
  ASSUME NEW x, NEW a, NEW b, NEW c, NEW d, AreFour(x, a, b, c, d)
  PROVE  Four(x, a, b, c, d)
<1>0. /\ x \in Int /\ -MaxNumber - 1 <= x /\ x <= MaxNumber
      /\ a = (x \div 16777216) % 256 /\ b = (x \div 65536) % 256
      /\ c = (x \div 256) % 256 /\ d = x % 256
  BY SMT DEF AreFour
<1>1. PICK y : y = x \div 256
  OBVIOUS
<1>2. PICK z : z = y \div 256
  OBVIOUS
<1>3. PICK t : t = z \div 256
  OBVIOUS
<1>4. y \in Int /\ d \in Nat /\ d < 256 /\ x = 256 * y + d
  BY SMT, <1>0, <1>1, OneDigit
<1>5. z = x \div 65536 /\ t = x \div 16777216
  BY SMT, <1>0, <1>1, <1>2, <1>3, ShiftTwice
<1>6. c = y % 256 /\ b = z % 256 /\ a = t % 256
  BY SMT, <1>0, <1>1, <1>5
<1>7. z \in Int /\ c \in Nat /\ c < 256 /\ y = 256 * z + c
  BY SMT, <1>2, <1>4, <1>6, OneDigit
<1>8. t \in Int /\ b \in Nat /\ b < 256 /\ z = 256 * t + b
  BY SMT, <1>3, <1>6, <1>7, OneDigit
<1>9. -128 <= t /\ t < 128
  BY SMT, <1>0, <1>4, <1>7, <1>8 DEF MaxNumber
<1>10. t = IF a < 128 THEN a ELSE a - 256
  <2>1. CASE t >= 0
    <3>1. t % 256 = t
      BY SMT, <1>8, <1>9, <2>1
    <3> QED
      BY SMT, <1>6, <1>8, <1>9, <3>1
  <2>2. CASE t < 0
    <3>1. t % 256 = t + 256
      BY SMT, <1>8, <1>9, <2>2
    <3> QED
      BY SMT, <1>6, <1>8, <1>9, <2>2, <3>1
  <2> QED
    BY SMT, <1>8, <2>1, <2>2
<1>11. x = 256^3 * t + (256 * (256 * b + c) + d)
  <2>1. 256^3 = 16777216
    BY SMT
  <2> QED
    BY SMT, <1>4, <1>7, <1>8, <2>1
<1> QED
  BY Zenon, <1>10, <1>11 DEF Four

Fitting(x, w) ==
  \/ w = 1 /\ x \in Bytes
  \/ w = 2 /\ x \in Shorts
  \/ w = 4 /\ x \in Ints

\* What is read where w digits are held.
ReadAt(u, i, w) == IF w = 4 THEN WordAt(u, i) ELSE NumberAt(u, i, w)

LEMMA NumberBack ==
  ASSUME NEW u, NEW i, NEW w, NEW x, Fitting(x, w), Holds(u, i, Digits(x, w))
  PROVE  ReadAt(u, i, w) = x
<1>1. x \in Int /\ w \in Widths
  BY Zenon, ContentsAreNat DEF Fitting, Widths
<1>2. Place(u, i)
  BY Zenon DEF Holds
<1>3. \A j \in 1..w : ByteAt(u, i + j - 1) = (x \div 256^(w - j)) % 256
  <2>1. Len(Digits(x, w)) = w
    BY Zenon, <1>1, DigitsAreBytes
  <2>2. \A j \in 1..w : Digits(x, w)[j] = (x \div 256^(w - j)) % 256
    BY Zenon DEF Digits
  <2> QED
    BY Zenon, <2>1, <2>2 DEF Holds
<1>4. i \in Nat
  BY Zenon, <1>2 DEF Place
<1>5. 256^0 = 1 /\ 256^1 = 256 /\ 256^2 = 65536 /\ 256^3 = 16777216
  BY SMT
<1>6. CASE w = 1
  <2>1. x \in Nat /\ x <= 255
    BY <1>6 DEF Fitting, Bytes
  <2>2. ByteAt(u, i) = (x \div 256^0) % 256
    BY <1>3, <1>4, <1>6
  <2>3. ReadAt(u, i, w) = ByteAt(u, i)
    BY <1>2, <1>6, NumberUnfolds DEF ReadAt
  <2> QED
    BY <1>5, <1>6, <2>1, <2>2, <2>3
<1>7. CASE w = 2
  <2>1. x \in Nat /\ x <= 65535
    <3>1. x \in Shorts
      BY <1>7 DEF Fitting
    <3> QED
      BY SMT, <3>1, ShortsAreNat DEF MaxShort
  <2>2. PICK a, d : a = ByteAt(u, i) /\ d = ByteAt(u, i + 1)
    OBVIOUS
  <2>3. a = (x \div 256^1) % 256 /\ d = (x \div 256^0) % 256
    BY <1>3, <1>4, <1>7, <2>2
  <2>4. AreTwo(x, a, d)
    BY <1>5, <2>1, <2>3 DEF AreTwo
  <2>5. Two(x, a, d)
    BY Zenon, <2>4, TwoDigits
  <2>6. ReadAt(u, i, w) = 256 * a + d
    BY <1>2, <1>7, <2>2, NumberUnfolds DEF ReadAt
  <2> QED
    BY SMT, <2>5, <2>6 DEF Two
<1>8. CASE w = 4
  <2>1. x \in Int /\ -MaxNumber - 1 <= x /\ x <= MaxNumber
    <3>1. x \in Ints
      BY <1>8 DEF Fitting
    <3> QED
      BY Zenon, <3>1, IntsAreInt
  <2>2. PICK a, b, c, d : /\ a = ByteAt(u, i) /\ b = ByteAt(u, i + 1)
                          /\ c = ByteAt(u, i + 2) /\ d = ByteAt(u, i + 3)
    OBVIOUS
  <2>3. /\ a = (x \div 256^3) % 256 /\ b = (x \div 256^2) % 256
        /\ c = (x \div 256^1) % 256 /\ d = (x \div 256^0) % 256
    BY <1>3, <1>4, <1>8, <2>2
  <2>4. AreFour(x, a, b, c, d)
    BY <1>5, <2>1, <2>3 DEF AreFour
  <2>5. Four(x, a, b, c, d)
    BY Zenon, <2>4, FourDigits
  <2>6. ReadAt(u, i, w) = 256^3 * (IF a < 128 THEN a ELSE a - 256) + (256 * (256 * b + c) + d)
    <3>1. WordIs(u, i)
      BY Zenon, <1>2, WordUnfolds
    <3>2. ReadAt(u, i, w) = WordAt(u, i)
      BY Zenon, <1>8 DEF ReadAt
    <3> QED
      BY Zenon, <2>2, <3>1, <3>2 DEF WordIs
  <2> QED
    BY Zenon, <2>5, <2>6 DEF Four
<1> QED
  BY <1>6, <1>7, <1>8 DEF Fitting

-----------------------------------------------------------------------------
(* Reading a value, whatever the bytes are.                                *)

Unmarshalls   == [buf : Seq(Bytes), ind : Nat, ok : BOOLEAN]
IsInside(u)   == HeaderSize <= u.ind /\ u.ind <= SizeOf(u)
IsReader(u)   == u \in Unmarshalls /\ IsInside(u)

LEMMA ReaderPlace ==
  ASSUME NEW u, IsReader(u)
  PROVE  Place(u, u.ind) /\ SizeOf(u) \in Nat /\ u.ind \in Nat /\ u.ind <= SizeOf(u)
<1>1. u.buf \in Seq(Bytes) /\ u.ind \in Nat
  BY Zenon DEF IsReader, Unmarshalls
<1>2. Len(u.buf) \in Nat
  BY Zenon, <1>1, LenProperties
<1>3. SizeOf(u) \in Nat
  BY <1>2 DEF SizeOf, HeaderSize
<1> QED
  BY Zenon, <1>1, <1>3 DEF IsReader, IsInside, Place

LEMMA PlaceAfter ==
  ASSUME NEW u, IsReader(u), NEW n \in Nat
  PROVE  Place(u, u.ind + n) /\ WordAt(u, u.ind + n) \in Int
<1>1. Place(u, u.ind)
  BY Zenon, ReaderPlace
<1>2. u.ind \in Nat /\ HeaderSize <= u.ind
  BY Zenon, <1>1 DEF Place
<1>3. u.ind + n \in Nat /\ HeaderSize <= u.ind + n
  BY <1>2 DEF HeaderSize
<1>4. Place(u, u.ind + n)
  BY Zenon, <1>1, <1>3 DEF Place
<1> QED
  BY Zenon, <1>4, WordUnfolds

\* u has become w by reading n bytes, or by failing to.
Moves(u, w, n) ==
  /\ IsReader(w) /\ w.buf = u.buf
  /\ w.ok => u.ok /\ u.ind + n <= SizeOf(u) /\ w.ind = u.ind + n
Reaches(u, w, n) == u.ok /\ u.ind + n <= SizeOf(u) => w.ok

LEMMA AdvancedMoves ==
  ASSUME NEW u, IsReader(u), NEW n \in Nat
  PROVE  Moves(u, Advanced(u, n), n) /\ Reaches(u, Advanced(u, n), n)
<1>1. PICK w, i, s : w = Advanced(u, n) /\ i = u.ind /\ s = SizeOf(u)
  OBVIOUS
<1>2. u \in Unmarshalls /\ i \in Nat /\ s \in Nat /\ HeaderSize <= i /\ i <= s
  BY Zenon, <1>1, ReaderPlace DEF IsReader, IsInside
<1>3. PICK j : j = IF i + n <= s THEN i + n ELSE s
  OBVIOUS
<1>4. j \in Nat /\ HeaderSize <= j /\ j <= s /\ (i + n <= s => j = i + n)
  BY <1>2, <1>3 DEF HeaderSize
<1>5. w = [u EXCEPT !.ind = j, !.ok = u.ok /\ i + n <= s]
  BY Zenon, <1>1, <1>3 DEF Advanced
<1>6. w \in Unmarshalls
  BY Zenon, <1>2, <1>4, <1>5 DEF Unmarshalls
<1>7. w.buf = u.buf /\ w.ind = j /\ (w.ok <=> u.ok /\ i + n <= s)
  BY Zenon, <1>2, <1>5 DEF Unmarshalls
<1>8. SizeOf(w) = s
  BY Zenon, <1>1, <1>7 DEF SizeOf
<1>9. IsReader(w)
  BY Zenon, <1>4, <1>6, <1>7, <1>8 DEF IsReader, IsInside
<1> QED
  BY Zenon, <1>1, <1>4, <1>7, <1>9 DEF Moves, Reaches

\* The value of type t that was read as g.
Valued(t, g) == [type |-> t, val |-> g.val]

Reads(u, t, g) ==
  /\ Valued(t, g) \in Seen
  /\ Moves(u, g.u, EncodedSize(Valued(t, g)))

LEMMA GetNumber ==
  ASSUME NEW u, IsReader(u), NEW t,
         t \in {"bool", "char"} \/ t = "short" \/ t = "int", NEW old
  PROVE  Reads(u, t, Get(u, t, old))
<1>1. PICK n, g : n = EncodedSize(Valued(t, Get(u, t, old))) /\ g = Get(u, t, old)
  OBVIOUS
<1>2. n = IF t \in {"bool", "char"} THEN 1 ELSE IF t = "short" THEN 2 ELSE 4
  BY <1>1 DEF EncodedSize, Valued
<1>3. n \in Nat
  BY <1>2
<1>4. g.u = Advanced(u, n)
  BY <1>1, <1>2 DEF Get, GetBool, GetInt, Number, Got
<1>5. g.val \in Int
  <2>1. Place(u, u.ind) /\ 1 \in Nat /\ 2 \in Nat
    BY ReaderPlace
  <2>2. /\ NumberAt(u, u.ind, 1) \in Nat /\ NumberAt(u, u.ind, 2) \in Nat
        /\ WordAt(u, u.ind) \in Int
    BY Zenon, <2>1, NumberIsNat, WordUnfolds
  <2> QED
    BY <1>1, <2>2 DEF Get, GetBool, GetInt, Number, Got
<1>6. Valued(t, g) \in Seen
  BY <1>5 DEF Valued, Seen
<1>7. Moves(u, g.u, n)
  BY Zenon, <1>3, <1>4, AdvancedMoves
<1> QED
  BY Zenon, <1>1, <1>6, <1>7 DEF Reads

LEMMA GetUll ==
  ASSUME NEW u, IsReader(u), NEW old
  PROVE  Reads(u, "ull", Get(u, "ull", old))
<1>1. PICK g, hi, lo : /\ g = Get(u, "ull", old)
                       /\ hi = WordAt(u, u.ind) /\ lo = WordAt(u, u.ind + 4)
  OBVIOUS
<1>2. 4 \in Nat /\ 8 \in Nat
  OBVIOUS
<1>3. Place(u, u.ind) /\ Place(u, u.ind + 4)
  BY Zenon, <1>2, ReaderPlace, PlaceAfter
<1>4. hi \in Int /\ lo \in Int
  BY Zenon, <1>1, <1>3, WordUnfolds
<1>5. g.u = Advanced(u, 8) /\ g.val = [hi |-> hi, lo |-> lo]
  BY <1>1 DEF Get, GetLong, Got
<1>6. Valued("ull", g) \in Seen /\ EncodedSize(Valued("ull", g)) = 8
  BY <1>4, <1>5 DEF Valued, Seen, EncodedSize
<1>7. Moves(u, g.u, 8)
  BY Zenon, <1>2, <1>5, AdvancedMoves
<1> QED
  BY Zenon, <1>1, <1>6, <1>7 DEF Reads

LEMMA GetStr ==
  ASSUME NEW u, IsReader(u), NEW old \in Seq(Bytes)
  PROVE  Reads(u, "string", Get(u, "string", old))
<1>1. PICK g, n, i : g = Get(u, "string", old) /\ n = WordAt(u, u.ind) /\ i = u.ind + 4
  OBVIOUS
<1>2. n \in Int
  BY Zenon, <1>1, ReaderPlace, WordUnfolds
<1>3. /\ u.ind \in Nat /\ SizeOf(u) \in Nat /\ HeaderSize <= u.ind
      /\ u.buf \in Seq(Bytes) /\ 4 \in Nat
  BY ReaderPlace DEF Place
<1>5. CASE u.ok /\ n >= 0 /\ i + n <= SizeOf(u)
  <2>0. n \in Nat /\ 4 + n \in Nat
    BY <1>2, <1>5
  <2>1. PICK s, f, l : /\ f = i - HeaderSize + 1 /\ l = i - HeaderSize + n
                       /\ s = SubSeq(u.buf, f, l)
    OBVIOUS
  <2>2. g.u = Advanced(u, 4 + n) /\ g.val = s
    BY Zenon, <1>1, <1>5, <2>1 DEF Get, GetString, Got
  <2>3. PICK b, k : b = u.buf /\ k = Len(b)
    OBVIOUS
  <2>4. s \in Seq(Bytes) /\ Len(s) = n
    <3>1. b \in Seq(Bytes) /\ k \in Nat
      BY Zenon, <1>3, <2>3, LenProperties
    <3>2. SizeOf(u) = 24 + k
      BY <2>3 DEF SizeOf, HeaderSize
    <3>3. i \in Nat /\ 28 <= i /\ i + n <= 24 + k
      BY <1>1, <1>3, <1>5, <3>2 DEF HeaderSize
    <3>4. f = (i - 24) + 1 /\ l = (i - 24) + n
      BY <2>1 DEF HeaderSize
    <3>5. f \in Int /\ l \in Int /\ 1 <= f /\ l <= k /\ (l - f) + 1 = n
      BY <2>0, <3>1, <3>3, <3>4
    <3>6. \A j \in f..l : j \in 1..k
      BY <3>1, <3>5
    <3>7. \A j \in f..l : b[j] \in Bytes
      BY Zenon, <2>3, <3>1, <3>6, ElementOfSeq
    <3>8. /\ SubSeq(b, f, l) \in Seq(Bytes)
          /\ Len(SubSeq(b, f, l)) = IF f <= l THEN l - f + 1 ELSE 0
      BY <3>5, <3>7, SubSeqProperties
    <3>9. (IF f <= l THEN l - f + 1 ELSE 0) = n
      BY <2>0, <3>5
    <3>10. s = SubSeq(b, f, l)
      BY Zenon, <2>1, <2>3
    <3> QED
      BY Zenon, <3>8, <3>9, <3>10
  <2>5. Valued("string", g) \in Seen
    BY Zenon, <2>2, <2>4 DEF Valued, Seen
  <2>6. EncodedSize(Valued("string", g)) = 4 + n
    BY <2>2, <2>4 DEF Valued, EncodedSize
  <2>7. Moves(u, g.u, 4 + n)
    BY Zenon, <2>0, <2>2, AdvancedMoves
  <2> QED
    BY Zenon, <1>1, <2>5, <2>6, <2>7 DEF Reads
<1>6. CASE ~(u.ok /\ n >= 0 /\ i + n <= SizeOf(u))
  <2>1. PICK w : w = Advanced(u, 4)
    OBVIOUS
  <2>2. g.u = [w EXCEPT !.ok = FALSE] /\ g.val = old
    BY Zenon, <1>1, <1>6, <2>1 DEF Get, GetString, Got
  <2>3. IsReader(w) /\ w.buf = u.buf
    BY Zenon, <1>3, <2>1, AdvancedMoves DEF Moves
  <2>4. /\ g.u \in Unmarshalls /\ g.u.buf = w.buf /\ g.u.ind = w.ind /\ ~g.u.ok
    BY Zenon, <2>2, <2>3 DEF IsReader, Unmarshalls
  <2>5. IsReader(g.u)
    BY Zenon, <2>3, <2>4 DEF IsReader, IsInside, SizeOf
  <2>6. Valued("string", g) \in Seen
    BY Zenon, <2>2 DEF Valued, Seen
  <2> QED
    BY Zenon, <1>1, <2>3, <2>4, <2>5, <2>6 DEF Reads, Moves
<1> QED
  BY <1>5, <1>6

LEMMA GetVec ==
  ASSUME NEW u, IsReader(u)
  PROVE  Reads(u, "vector", Get(u, "vector", << >>))
<1>1. PICK g, n, s : /\ g = Get(u, "vector", << >>) /\ n = Unsigned(WordAt(u, u.ind))
                     /\ s = [k \in 1..n |-> WordAt(u, u.ind + 4 * k)]
  OBVIOUS
<1>2. n \in Nat
  <2>1. PICK w : w = WordAt(u, u.ind)
    OBVIOUS
  <2>2. n = IF w >= 0 THEN w ELSE w + 2^32
    BY Zenon, <1>1, <2>1 DEF Unsigned
  <2>3. Place(u, u.ind)
    BY Zenon, ReaderPlace
  <2>4. w \in Int /\ 0 <= w + 2^32
    BY Zenon, <2>1, <2>3, WordUnfolds
  <2> QED
    BY SMT, <2>2, <2>4
<1>3. ASSUME NEW k \in 1..n PROVE WordAt(u, u.ind + 4 * k) \in Int
  <2>1. 4 * k \in Nat
    BY <1>2
  <2> QED
    BY Zenon, <2>1, PlaceAfter
<1>4. s \in [1..n -> Int]
  BY Zenon, <1>1, <1>3
<1>5. s \in Seq(Int) /\ Len(s) = n
  BY <1>2, <1>4
<1>6. << >> \o s = s
  BY Zenon, <1>5, ConcatEmptySeq
<1>7. g.u = Advanced(u, 4 + 4 * n) /\ g.val = s
  BY Zenon, <1>1, <1>6 DEF Get, GetVector, Got
<1>8. Valued("vector", g) \in Seen
  BY Zenon, <1>5, <1>7 DEF Valued, Seen
<1>9. EncodedSize(Valued("vector", g)) = 4 + 4 * n /\ 4 + 4 * n \in Nat
  BY <1>2, <1>5, <1>7 DEF Valued, EncodedSize
<1>10. Moves(u, g.u, 4 + 4 * n)
  BY Zenon, <1>7, <1>9, AdvancedMoves
<1> QED
  BY Zenon, <1>1, <1>8, <1>9, <1>10 DEF Reads

\* Reading any type takes as many bytes as the value it yields is encoded in.
LEMMA GetReads ==
  ASSUME NEW u, IsReader(u), NEW t \in Types
  PROVE  Reads(u, t, Get(u, t, << >>))
<1>1. \/ t \in {"bool", "char"} \/ t = "short" \/ t = "int"
      \/ t = "ull" \/ t = "string" \/ t = "vector"
  BY DEF Types, Scalars
<1>2. << >> \in Seq(Bytes)
  OBVIOUS
<1> QED
  BY Zenon, <1>1, <1>2, GetNumber, GetUll, GetStr, GetVec

-----------------------------------------------------------------------------
(* Reading back what was written.                                          *)

\* The elements of a vector, from place i on.
AreAt(u, i, s)    == \A k \in 1..Len(s) : WordAt(u, i + 4 * (k - 1)) = s[k]
WordsHeld(u, i, s) ==
  /\ FlatMap(Words, s) \in Seq(Bytes) /\ Len(FlatMap(Words, s)) = 4 * Len(s)
  /\ Holds(u, i, FlatMap(Words, s)) => AreAt(u, i, s)

LEMMA WordsAreHeld ==
  ASSUME NEW u, NEW i, NEW s \in Seq(Ints)
  PROVE  WordsHeld(u, i, s)
<1> DEFINE P == {z \in Seq(Ints) : WordsHeld(u, i, z)}
<1>1. << >> \in P
  <2>1. FlatMap(Words, << >>) = << >>
    BY Zenon, FlatMapEmpty
  <2>2. << >> \in Seq(Bytes) /\ << >> \in Seq(Ints) /\ Len(<< >>) = 4 * Len(<< >>)
    OBVIOUS
  <2>3. AreAt(u, i, << >>)
    BY DEF AreAt
  <2> QED
    BY Zenon, <2>1, <2>2, <2>3 DEF WordsHeld
<1>2. ASSUME NEW z \in Seq(Ints), NEW e \in Ints, z \in P PROVE Append(z, e) \in P
  <2>1. FlatMap(Words, z) \in Seq(Bytes) /\ Words[e] \in Seq(Bytes) /\ FlatLast(Words, z, e)
    BY Zenon, WordsMap, FlatMapAppend
  <2>2. PICK a, b, t, n : /\ a = FlatMap(Words, z) /\ b = Words[e]
                          /\ t = Append(z, e) /\ n = Len(z)
    OBVIOUS
  <2>3. /\ n \in Nat /\ t \in Seq(Ints) /\ Len(t) = n + 1 /\ t[n + 1] = e
        /\ \A k \in 1..n : t[k] = z[k]
    BY <2>2, AppendProperties, LenProperties
  <2>4. b = Digits(e, 4) /\ b \in Seq(Bytes) /\ Len(b) = 4
    <3>1. b = Digits(e, 4)
      BY Zenon, <2>2 DEF Words
    <3>2. e \in Int /\ 4 \in Widths
      BY IntsAreInt DEF Widths
    <3> QED
      BY Zenon, <3>1, <3>2, DigitsAreBytes
  <2>5. a \in Seq(Bytes) /\ Len(a) = 4 * n
    BY Zenon, <1>2, <2>2 DEF WordsHeld
  <2>6. FlatMap(Words, t) = a \o b
    BY Zenon, <2>1, <2>2 DEF FlatLast
  <2>7. a \o b \in Seq(Bytes) /\ Len(a \o b) = 4 * (n + 1)
    <3>1. a \o b \in Seq(Bytes) /\ Len(a \o b) = Len(a) + Len(b)
      BY Zenon, <2>4, <2>5, ConcatProperties
    <3>2. 4 * n + 4 = 4 * (n + 1)
      BY <2>3
    <3> QED
      BY Zenon, <2>4, <2>5, <3>1, <3>2
  <2>8. ASSUME Holds(u, i, a \o b) PROVE AreAt(u, i, t)
    <3>1. Holds(u, i, a) /\ Holds(u, i + Len(a), b)
      BY Zenon, <2>4, <2>5, <2>8, HoldsBoth
    <3>2. AreAt(u, i, z)
      BY Zenon, <1>2, <2>2, <3>1 DEF WordsHeld
    <3>3. WordAt(u, i + 4 * n) = e
      <4>1. Holds(u, i + 4 * n, Digits(e, 4))
        BY Zenon, <2>4, <2>5, <3>1
      <4>2. Fitting(e, 4)
        BY Zenon DEF Fitting
      <4> QED
        BY Zenon, <4>1, <4>2, NumberBack DEF ReadAt
    <3>4. ASSUME NEW k \in 1..n + 1 PROVE WordAt(u, i + 4 * (k - 1)) = t[k]
      <4>1. CASE k = n + 1
        <5>1. k - 1 = n
          BY <2>3, <4>1
        <5> QED
          BY Zenon, <2>3, <3>3, <4>1, <5>1
      <4>2. CASE k # n + 1
        <5>1. k \in 1..n
          BY <2>3, <4>2
        <5> QED
          BY Zenon, <2>2, <2>3, <3>2, <5>1 DEF AreAt
      <4> QED
        BY <4>1, <4>2
    <3> QED
      BY Zenon, <2>3, <3>4 DEF AreAt
  <2> QED
    BY Zenon, <2>2, <2>3, <2>6, <2>7, <2>8 DEF WordsHeld
<1>3. Seq(Ints) \subseteq P
  <2> HIDE DEF P
  <2> QED
    BY Zenon, <1>1, <1>2, SeqInduction
<1> QED
  BY <1>3

\* What a variable that held old holds after reading v into it.
ReadInto(v, old) == IF v.type = "vector" THEN old \o v.val ELSE v.val

ReadBack(u, v, old) ==
  LET g == Get(u, v.type, old) IN
  /\ g.u.ok /\ IsReader(g.u) /\ g.u.buf = u.buf
  /\ g.u.ind = u.ind + Len(Encoding(v)) /\ g.val = ReadInto(v, old)

\* n bytes that are there can be read.
LEMMA AdvancedArrives ==
  ASSUME NEW u, IsReader(u), u.ok, NEW n \in Nat, u.ind + n <= SizeOf(u)
  PROVE  /\ Advanced(u, n).ok /\ IsReader(Advanced(u, n))
         /\ Advanced(u, n).buf = u.buf /\ Advanced(u, n).ind = u.ind + n
BY Zenon, AdvancedMoves DEF Moves, Reaches

LEMMA NumberReadBack ==
  ASSUME NEW u, IsReader(u), u.ok, NEW v, NEW w, NEW old,
         Fitting(v.val, w), v.type # "vector",
         Encoding(v) = Digits(v.val, w), Holds(u, u.ind, Encoding(v)),
         \/ w # 4 /\ Get(u, v.type, old) = Number(u, w)
         \/ w = 4 /\ Get(u, v.type, old) = GetInt(u)
         \/ (v.val \in 0..1 /\ w = 1 /\ Get(u, v.type, old) = GetBool(u))
  PROVE  ReadBack(u, v, old)
<1>1. PICK x : x = v.val
  OBVIOUS
<1>2. x \in Int /\ w \in Widths /\ w \in Nat
  <2>1. x \in Int /\ w \in Widths
    BY Zenon, <1>1, ContentsAreNat DEF Fitting, Widths
  <2> QED
    BY <2>1 DEF Widths
<1>3. Len(Encoding(v)) = w
  BY Zenon, <1>1, <1>2, DigitsAreBytes
<1>4. u.ind + w <= SizeOf(u) /\ Holds(u, u.ind, Digits(x, w))
  BY Zenon, <1>1, <1>3 DEF Holds
<1>5. ReadAt(u, u.ind, w) = x
  BY Zenon, <1>1, <1>4, NumberBack
<1>6. PICK a : a = Advanced(u, w)
  OBVIOUS
<1>7. a.ok /\ IsReader(a) /\ a.buf = u.buf /\ a.ind = u.ind + w
  BY Zenon, <1>2, <1>4, <1>6, AdvancedArrives
<1> DEFINE g == [u |-> a, val |-> x]
<1>8. ASSUME Get(u, v.type, old) = g PROVE ReadBack(u, v, old)
  <2>1. g.u = a /\ g.val = x
    OBVIOUS
  <2>2. ReadInto(v, old) = x
    BY Zenon, <1>1 DEF ReadInto
  <2> HIDE DEF g
  <2> QED
    BY Zenon, <1>3, <1>7, <1>8, <2>1, <2>2 DEF ReadBack
<1>9. CASE w # 4 /\ Get(u, v.type, old) = Number(u, w)
  BY Zenon, <1>5, <1>6, <1>8, <1>9 DEF Number, Got, ReadAt
<1>11. CASE w = 4 /\ Get(u, v.type, old) = GetInt(u)
  BY Zenon, <1>5, <1>6, <1>8, <1>11 DEF GetInt, Got, ReadAt
<1>10. CASE x \in 0..1 /\ w = 1 /\ Get(u, v.type, old) = GetBool(u)
  <2>1. NumberAt(u, u.ind, 1) = ByteAt(u, u.ind)
    <3>1. Place(u, u.ind)
      BY Zenon, ReaderPlace
    <3> QED
      BY <3>1, NumberUnfolds
  <2>2. (IF ByteAt(u, u.ind) = 0 THEN 0 ELSE 1) = x
    BY <1>5, <1>10, <2>1 DEF ReadAt
  <2>3. GetBool(u) = g
    BY Zenon, <1>6, <1>10, <2>2 DEF GetBool, Got
  <2> QED
    BY Zenon, <1>8, <1>10, <2>3
<1> QED
  BY Zenon, <1>1, <1>9, <1>10, <1>11

\* A size or a number of four bytes, and what follows it.
IsFour(e, x, b) == x \in Ints /\ b \in Seq(Bytes) /\ e = Digits(x, 4) \o b
FourRead(u, i, e, x, b) ==
  WordAt(u, i) = x /\ Holds(u, i + 4, b) /\ Len(e) = 4 + Len(b)

LEMMA FourThenRest ==
  ASSUME NEW u, NEW i, NEW e, NEW x, NEW b, IsFour(e, x, b), Holds(u, i, e)
  PROVE  FourRead(u, i, e, x, b)
<1>0. x \in Ints /\ b \in Seq(Bytes) /\ e = Digits(x, 4) \o b
  BY Zenon DEF IsFour
<1>1. x \in Int /\ 4 \in Widths
  BY <1>0, IntsAreInt DEF Widths
<1>2. Digits(x, 4) \in Seq(Bytes) /\ Len(Digits(x, 4)) = 4
  BY Zenon, <1>1, DigitsAreBytes
<1>3. Holds(u, i, Digits(x, 4)) /\ Holds(u, i + 4, b)
  BY Zenon, <1>0, <1>2, HoldsBoth
<1>4. Fitting(x, 4)
  BY Zenon, <1>0 DEF Fitting
<1>5. WordAt(u, i) = x
  BY Zenon, <1>3, <1>4, NumberBack DEF ReadAt
<1>6. Len(Digits(x, 4) \o b) = Len(Digits(x, 4)) + Len(b)
  BY Zenon, <1>0, <1>2, ConcatProperties
<1> QED
  BY Zenon, <1>0, <1>2, <1>3, <1>5, <1>6 DEF FourRead

LEMMA UllReadBack ==
  ASSUME NEW u, IsReader(u), u.ok, NEW v, NEW old, v.type = "ull",
         v.val \in [hi : Ints, lo : Ints], Holds(u, u.ind, Encoding(v))
  PROVE  ReadBack(u, v, old)
<1>1. PICK hi \in Ints, lo \in Ints : v.val = [hi |-> hi, lo |-> lo]
  BY Zenon
<1>2. v.val.hi = hi /\ v.val.lo = lo
  BY <1>1
<1>3. Encoding(v) = Digits(hi, 4) \o Digits(lo, 4)
  BY <1>2 DEF Encoding
<1>4. Digits(lo, 4) \in Seq(Bytes) /\ Len(Digits(lo, 4)) = 4
  <2>1. lo \in Int /\ 4 \in Widths
    BY IntsAreInt DEF Widths
  <2> QED
    BY Zenon, <2>1, DigitsAreBytes
<1>5. FourRead(u, u.ind, Encoding(v), hi, Digits(lo, 4))
  <2>1. IsFour(Encoding(v), hi, Digits(lo, 4))
    BY Zenon, <1>3, <1>4 DEF IsFour
  <2> QED
    BY Zenon, <2>1, FourThenRest
<1>6. WordAt(u, u.ind + 4) = lo
  <2>1. Fitting(lo, 4)
    BY Zenon DEF Fitting
  <2>2. Holds(u, u.ind + 4, Digits(lo, 4))
    BY Zenon, <1>5 DEF FourRead
  <2> QED
    BY Zenon, <2>1, <2>2, NumberBack DEF ReadAt
<1>7. Len(Encoding(v)) = 8
  <2>1. Len(Encoding(v)) = 4 + 4
    BY Zenon, <1>4, <1>5 DEF FourRead
  <2> QED
    BY <2>1
<1>8. u.ind + 8 <= SizeOf(u) /\ 8 \in Nat
  BY Zenon, <1>7 DEF Holds
<1>9. PICK g, a : g = Get(u, v.type, old) /\ a = Advanced(u, 8)
  OBVIOUS
<1>10. a.ok /\ IsReader(a) /\ a.buf = u.buf /\ a.ind = u.ind + 8
  BY Zenon, <1>8, <1>9, AdvancedArrives
<1>11. g.u = a /\ g.val = v.val
  <2>1. WordAt(u, u.ind) = hi
    BY Zenon, <1>5 DEF FourRead
  <2> QED
    BY <1>1, <1>6, <1>9, <2>1 DEF Get, GetLong, Got
<1>12. ReadInto(v, old) = v.val
  BY DEF ReadInto
<1> QED
  BY Zenon, <1>7, <1>9, <1>10, <1>11, <1>12 DEF ReadBack

\* A piece of the buffer, cut out.
LEMMA CutOut ==
  ASSUME NEW u, NEW i, NEW s \in Seq(Bytes), Holds(u, i, s)
  PROVE  SubSeq(u.buf, i - HeaderSize + 1, i - HeaderSize + Len(s)) = s
<1>1. PICK b, k, n, f, l : /\ b = u.buf /\ k = Len(b) /\ n = Len(s)
                           /\ f = i - HeaderSize + 1 /\ l = i - HeaderSize + n
  OBVIOUS
<1>2. b \in Seq(Bytes) /\ i \in Nat /\ HeaderSize <= i
  BY Zenon, <1>1 DEF Holds, Place
<1>3. k \in Nat /\ n \in Nat
  BY Zenon, <1>1, <1>2, LenProperties
<1>4. SizeOf(u) = 24 + k
  BY <1>1 DEF SizeOf, HeaderSize
<1>5. i + n <= SizeOf(u)
  BY Zenon, <1>1 DEF Holds
<1>6. /\ f = (i - 24) + 1 /\ l = (i - 24) + n /\ 24 <= i /\ i + n <= 24 + k
  BY <1>1, <1>2, <1>4, <1>5 DEF HeaderSize
<1>7. f \in Int /\ l \in Int /\ 1 <= f /\ l <= k /\ (l - f) + 1 = n
  BY <1>2, <1>3, <1>6
<1>8. PICK t : t = SubSeq(b, f, l)
  OBVIOUS
<1>9. t \in Seq(Bytes) /\ Len(t) = n /\ \A j \in 1..n : t[j] = b[f + j - 1]
  <2>1. \A j \in f..l : j \in 1..k
    BY <1>3, <1>7
  <2>2. \A j \in f..l : b[j] \in Bytes
    BY Zenon, <1>1, <1>2, <2>1, ElementOfSeq
  <2>3. /\ t \in Seq(Bytes) /\ Len(t) = IF f <= l THEN l - f + 1 ELSE 0
        /\ \A j \in 1..l - f + 1 : t[j] = b[f + j - 1]
    BY <1>7, <1>8, <2>2, SubSeqProperties
  <2>4. (IF f <= l THEN l - f + 1 ELSE 0) = n /\ l - f + 1 = n
    BY <1>3, <1>7
  <2> QED
    BY Zenon, <2>3, <2>4
<1>10. ASSUME NEW j \in 1..n PROVE t[j] = s[j]
  <2>1. PICK p, m : p = i + j - 1 /\ m = f + j - 1
    OBVIOUS
  <2>2. p < SizeOf(u) /\ p - HeaderSize + 1 = m
    BY <1>2, <1>3, <1>4, <1>6, <2>1 DEF HeaderSize
  <2>3. ByteAt(u, p) = b[m]
    BY Zenon, <1>1, <2>2 DEF ByteAt
  <2>4. ByteAt(u, p) = s[j]
    BY Zenon, <1>1, <2>1 DEF Holds
  <2> QED
    BY Zenon, <1>9, <2>1, <2>3, <2>4
<1>11. t = s
  <2>1. DOMAIN t = 1..n /\ t = [j \in DOMAIN t |-> t[j]]
    BY <1>9
  <2>2. DOMAIN s = 1..n /\ s = [j \in DOMAIN s |-> s[j]]
    BY <1>1
  <2> QED
    BY Zenon, <1>10, <2>1, <2>2
<1> QED
  BY Zenon, <1>1, <1>8, <1>11

LEMMA StrReadBack ==
  ASSUME NEW u, IsReader(u), u.ok, NEW v, NEW old, v.type = "string",
         v.val \in Seq(Bytes), Len(v.val) \in Numbers, Holds(u, u.ind, Encoding(v))
  PROVE  ReadBack(u, v, old)
<1>1. PICK s, n, i : s = v.val /\ n = Len(s) /\ i = u.ind + 4
  OBVIOUS
<1>2. Encoding(v) = Digits(n, 4) \o s
  BY <1>1 DEF Encoding
<1>3. WordAt(u, u.ind) = n /\ Holds(u, i, s) /\ Len(Encoding(v)) = 4 + n
  <2>1. IsFour(Encoding(v), n, s)
    BY Zenon, <1>1, <1>2, IntsAreInt DEF IsFour
  <2>2. FourRead(u, u.ind, Encoding(v), n, s)
    BY Zenon, <2>1, FourThenRest
  <2> QED
    BY Zenon, <1>1, <2>2 DEF FourRead
<1>4. i + n <= SizeOf(u)
  <2>1. Holds(u, i, s)
    BY Zenon, <1>3
  <2>2. i + Len(s) <= SizeOf(u)
    BY Zenon, <2>1 DEF Holds
  <2> QED
    BY Zenon, <1>1, <2>2
<1>5. SubSeq(u.buf, i - HeaderSize + 1, i - HeaderSize + n) = s
  <2>1. Holds(u, i, s) /\ s \in Seq(Bytes)
    BY Zenon, <1>1, <1>3
  <2>2. SubSeq(u.buf, i - HeaderSize + 1, i - HeaderSize + Len(s)) = s
    BY Zenon, <2>1, CutOut
  <2> QED
    BY Zenon, <1>1, <2>2
<1>6. 4 + n \in Nat /\ u.ind + (4 + n) <= SizeOf(u)
  <2>1. n \in Nat
    BY Zenon, <1>1, NumbersAreNat
  <2>2. 4 + n \in Nat
    BY <2>1
  <2>3. u.ind + (4 + n) <= SizeOf(u)
    BY Zenon, <1>3 DEF Holds
  <2> QED
    BY <2>2, <2>3
<1>7. PICK g, a : g = Get(u, v.type, old) /\ a = Advanced(u, 4 + n)
  OBVIOUS
<1>8. a.ok /\ IsReader(a) /\ a.buf = u.buf /\ a.ind = u.ind + (4 + n)
  BY Zenon, <1>6, <1>7, AdvancedArrives
<1>9. g.u = a /\ g.val = s
  <2>1. n >= 0
    BY <1>1, NumbersAreNat
  <2> QED
    BY <1>1, <1>3, <1>4, <1>5, <1>7, <2>1 DEF Get, GetString, Got
<1>10. ReadInto(v, old) = s
  BY <1>1 DEF ReadInto
<1> QED
  BY Zenon, <1>3, <1>7, <1>8, <1>9, <1>10 DEF ReadBack

LEMMA VecReadBack ==
  ASSUME NEW u, IsReader(u), u.ok, NEW v, NEW old, v.type = "vector",
         v.val \in Seq(Ints), Len(v.val) \in Numbers, Holds(u, u.ind, Encoding(v))
  PROVE  ReadBack(u, v, old)
<1>1. PICK s, n, b : s = v.val /\ n = Len(s) /\ b = FlatMap(Words, s)
  OBVIOUS
<1>2. Encoding(v) = Digits(n, 4) \o b
  BY <1>1 DEF Encoding
<1>3. WordsHeld(u, u.ind + 4, s)
  BY Zenon, <1>1, WordsAreHeld
<1>4. b \in Seq(Bytes) /\ Len(b) = 4 * n
  BY Zenon, <1>1, <1>3 DEF WordsHeld
<1>5. WordAt(u, u.ind) = n /\ Holds(u, u.ind + 4, b) /\ Len(Encoding(v)) = 4 + 4 * n
  <2>1. IsFour(Encoding(v), n, b)
    BY Zenon, <1>1, <1>2, <1>4, IntsAreInt DEF IsFour
  <2>2. FourRead(u, u.ind, Encoding(v), n, b)
    BY Zenon, <2>1, FourThenRest
  <2> QED
    BY Zenon, <1>4, <2>2 DEF FourRead
<1>6. AreAt(u, u.ind + 4, s)
  BY Zenon, <1>1, <1>3, <1>5 DEF WordsHeld
<1>7. n \in Nat /\ u.ind \in Nat
  BY Zenon, <1>1, NumbersAreNat, ReaderPlace
<1>8. [k \in 1..n |-> WordAt(u, u.ind + 4 * k)] = s
  <2>1. ASSUME NEW k \in 1..n PROVE WordAt(u, u.ind + 4 * k) = s[k]
    <3>1. (u.ind + 4) + 4 * (k - 1) = u.ind + 4 * k
      BY <1>7
    <3> QED
      BY Zenon, <1>1, <1>6, <3>1 DEF AreAt
  <2>2. DOMAIN s = 1..n /\ s = [k \in DOMAIN s |-> s[k]]
    <3>1. s \in Seq(Ints)
      BY <1>1
    <3> QED
      BY <1>1, <3>1
  <2> QED
    BY Zenon, <2>1, <2>2
<1>9. 4 + 4 * n \in Nat /\ u.ind + (4 + 4 * n) <= SizeOf(u)
  <2>1. 4 + 4 * n \in Nat
    BY <1>7
  <2>2. u.ind + (4 + 4 * n) <= SizeOf(u)
    BY Zenon, <1>5 DEF Holds
  <2> QED
    BY <2>1, <2>2
<1>10. PICK g, a : g = Get(u, v.type, old) /\ a = Advanced(u, 4 + 4 * n)
  OBVIOUS
<1>11. a.ok /\ IsReader(a) /\ a.buf = u.buf /\ a.ind = u.ind + (4 + 4 * n)
  BY Zenon, <1>9, <1>10, AdvancedArrives
<1>12. GetVector(u, old) = [u |-> a, val |-> old \o s]
  <2>1. Unsigned(n) = n
    BY <1>7 DEF Unsigned
  <2> QED
    BY Zenon, <2>1, <1>5, <1>8, <1>10 DEF GetVector, Got
<1>13. g.u = a /\ g.val = old \o s
  BY <1>10, <1>12 DEF Get
<1>14. ReadInto(v, old) = old \o s
  BY Zenon, <1>1 DEF ReadInto
<1> QED
  BY Zenon, <1>5, <1>10, <1>11, <1>13, <1>14 DEF ReadBack

\* Whatever v is, reading its type where it was written yields it, and ends
\* where it ends.
LEMMA GetReadsBack ==
  ASSUME NEW u, IsReader(u), u.ok, NEW v \in Values, NEW old, Holds(u, u.ind, Encoding(v))
  PROVE  ReadBack(u, v, old)
<1>1. CASE v.type = "bool" /\ v.val \in 0..1
  <2>1. Encoding(v) = Digits(v.val, 1) /\ Get(u, v.type, old) = GetBool(u) /\ v.type # "vector"
    BY <1>1 DEF Encoding, Get
  <2>2. Fitting(v.val, 1)
    BY <1>1 DEF Fitting, Bytes
  <2> QED
    BY Zenon, <1>1, <2>1, <2>2, NumberReadBack
<1>2. CASE v.type = "char" /\ v.val \in Bytes
  <2>1. Encoding(v) = Digits(v.val, 1) /\ Get(u, v.type, old) = Number(u, 1) /\ v.type # "vector" /\ 1 # 4
    BY <1>2 DEF Encoding, Get
  <2>2. Fitting(v.val, 1)
    BY Zenon, <1>2 DEF Fitting
  <2> QED
    BY Zenon, <2>1, <2>2, NumberReadBack
<1>3. CASE v.type = "short" /\ v.val \in Shorts
  <2>1. Encoding(v) = Digits(v.val, 2) /\ Get(u, v.type, old) = Number(u, 2) /\ v.type # "vector" /\ 2 # 4
    BY <1>3 DEF Encoding, Get
  <2>2. Fitting(v.val, 2)
    BY Zenon, <1>3 DEF Fitting
  <2> QED
    BY Zenon, <2>1, <2>2, NumberReadBack
<1>4. CASE v.type = "int" /\ v.val \in Ints
  <2>1. Encoding(v) = Digits(v.val, 4) /\ Get(u, v.type, old) = GetInt(u) /\ v.type # "vector"
    BY <1>4 DEF Encoding, Get
  <2>2. Fitting(v.val, 4)
    BY Zenon, <1>4 DEF Fitting
  <2> QED
    BY Zenon, <2>1, <2>2, NumberReadBack
<1>5. CASE v.type = "ull" /\ v.val \in [hi : Ints, lo : Ints]
  BY Zenon, <1>5, UllReadBack
<1>6. CASE v.type = "string" /\ v.val \in Seq(Bytes) /\ Len(v.val) \in Numbers
  BY Zenon, <1>6, StrReadBack
<1>7. CASE v.type = "vector" /\ v.val \in Seq(Ints) /\ Len(v.val) \in Numbers
  BY Zenon, <1>7, VecReadBack
<1> QED
  BY Zenon, <1>1, <1>2, <1>3, <1>4, <1>5, <1>6, <1>7, ValueCases

-----------------------------------------------------------------------------
(* What is sent and what is seen of it.                                    *)

LEMMA ScenarioIs ==
  ASSUME NEW s \in Scenarios
  PROVE  /\ s.args \in Seq(Values) /\ s.sig \in Seq(Types)
         /\ s.res \in Values /\ s.rtype \in Types /\ s.b \in Nat
BY Zenon, OneCallAssumption

\* What rpcc::call has written is the beginning of what it is to write.
RequestInv ==
  /\ req.buf \in Seq(Bytes)
  /\ req.buf \o BytesOf(todo) = FlatMap(Encodings, sc.args)
  /\ pc # "args" => todo = <<>>
  /\ inReq \/ spc # "idle" => pc # "args"

LEMMA RequestInit == Init => RequestInv
<1> SUFFICES ASSUME Init PROVE RequestInv
  OBVIOUS
<1>1. /\ sc \in Scenarios /\ todo = AllWrites(sc.args) /\ req.buf = <<>>
      /\ pc = "args" /\ ~inReq /\ spc = "idle"
  BY DEF Init, NewMarshall
<1>2. BytesOf(todo) = FlatMap(Encodings, sc.args)
  BY Zenon, <1>1, ScenarioIs, AllWritesEncode
<1>3. FlatMap(Encodings, sc.args) \in Seq(Bytes)
  BY Zenon, <1>1, ScenarioIs, ValuesMap, FlatMapIsSeq
<1>4. <<>> \in Seq(Bytes) /\ <<>> \o FlatMap(Encodings, sc.args) = FlatMap(Encodings, sc.args)
  BY Zenon, <1>3, ConcatEmptySeq, EmptySeq
<1> QED
  BY Zenon, <1>1, <1>2, <1>4 DEF RequestInv

\* A write moves its bytes from what is still to be written to the buffer.
BufferIs(m, ops, b) == m.buf \in Seq(Bytes) /\ m.buf \o BytesOf(ops) = b

LEMMA WriteMoves ==
  ASSUME NEW m, NEW ops \in Seq(WriteOps), ops # <<>>, NEW b, BufferIs(m, ops, b)
  PROVE  BufferIs(Write(m, Head(ops)), Tail(ops), b)
<1>1. PICK w, t : w = Head(ops) /\ t = Tail(ops)
  OBVIOUS
<1>2. w \in WriteOps /\ t \in Seq(WriteOps)
  BY <1>1
<1>3. m.buf \in Seq(Bytes) /\ m.buf \o BytesOf(ops) = b
  BY Zenon DEF BufferIs
<1>4. Write(m, w).buf = m.buf \o ItsBytes[w] /\ ItsBytes[w] \in Seq(Bytes)
  BY Zenon, <1>2, <1>3, WriteAdds
<1>5. FlatHead(ItsBytes, ops)
  BY Zenon, ItsBytesMaps, FlatMapCons
<1>6. FlatMap(ItsBytes, t) \in Seq(Bytes)
  BY Zenon, <1>2, ItsBytesMaps, FlatMapIsSeq
<1>7. CatCat(m.buf, ItsBytes[w], FlatMap(ItsBytes, t))
  BY Zenon, <1>3, <1>4, <1>6, ConcatAssociates
<1>8. m.buf \o ItsBytes[w] \in Seq(Bytes)
  BY Zenon, <1>3, <1>4, ConcatProperties
<1> QED
  BY Zenon, <1>1, <1>3, <1>4, <1>5, <1>7, <1>8 DEF BufferIs, BytesOf, FlatHead, CatCat

LEMMA RequestNext ==
  ASSUME BufferInv, RequestInv, [Next]_vars
  PROVE  RequestInv'
<1> USE DEF callerVars, waitVars, netVars, srvVars
<1>1. CASE UNCHANGED <<sc, req, todo>> /\ (pc' = "args" => pc = "args")
           /\ (pc = "args" => pc' = "args" \/ todo = <<>>)
           /\ (inReq' \/ spc' # "idle" => inReq \/ spc # "idle" \/ pc' # "args")
  BY Zenon, <1>1 DEF RequestInv
<1>2. CASE MarshalArgs
  <2>1. /\ pc = "args" /\ todo # <<>> /\ req' = Write(req, Head(todo)) /\ todo' = Tail(todo)
        /\ UNCHANGED <<sc, pc, inReq, spc>>
    BY <1>2 DEF MarshalArgs
  <2>2. BufferIs(req, todo, FlatMap(Encodings, sc.args)) /\ todo \in Seq(WriteOps)
    BY Zenon DEF RequestInv, BufferIs, BufferInv
  <2>3. BufferIs(Write(req, Head(todo)), Tail(todo), FlatMap(Encodings, sc.args))
    BY Zenon, <2>1, <2>2, WriteMoves
  <2>4. req'.buf \in Seq(Bytes) /\ req'.buf \o BytesOf(todo') = FlatMap(Encodings, sc'.args)
    BY Zenon, <2>1, <2>3 DEF BufferIs
  <2> QED
    BY Zenon, <2>1, <2>4 DEF RequestInv
<1>3. CASE Start
  BY <1>1, <1>3 DEF Start
<1>4. CASE GetConn \/ Send
  BY <1>1, <1>4 DEF GetConn, Send, AfterTransmit
<1>12. CASE CallerCrashes \/ ServerCrashes
  BY <1>1, <1>12 DEF CallerCrashes, ServerCrashes
<1>5. CASE SetDeadline \/ Spin \/ SeesReply
  BY <1>1, <1>5 DEF SetDeadline, Spin, SeesReply
<1>6. CASE TimedOut \/ Return
  BY <1>1, <1>6 DEF TimedOut, AfterTransmit, Return
<1>7. CASE GotRequest
  BY <1>1, <1>7 DEF GotRequest
<1>8. CASE UnmarshalArg \/ RunHandler \/ MarshalResult
  BY <1>1, <1>8 DEF UnmarshalArg, RunHandler, MarshalResult
<1>9. CASE SendReply \/ Duplicate
  BY <1>1, <1>9 DEF SendReply, Duplicate
<1>10. CASE GotReply \/ ConnDies \/ Tick
  BY <1>1, <1>10 DEF GotReply, ConnDies, Tick
<1>11. CASE UNCHANGED vars
  BY <1>1, <1>11 DEF vars
<1> QED
  BY <1>2, <1>3, <1>4, <1>5, <1>6, <1>7, <1>8, <1>9, <1>10, <1>11, <1>12
  DEF Next, CallerNext, CallerGoesOn, ServerNext

\* The handler has read the values that saw has, from the front of the request,
\* unless un.ok says otherwise; it is called once all of it has been read.
ServerInv ==
  /\ saw \in Seq(Seen) /\ IsReader(un)
  /\ un.ok => un.ind = HeaderSize + TotalSize(saw)
  /\ spc = "idle" => saw = << >>
  /\ spc # "idle" => un.buf = req.buf
  /\ spc \in {"idle", "args"} => ~ran
  /\ ran => spc \in {"reply", "done"} /\ OkDone(un) /\ sret = sc.b

LEMMA StartIsReader ==
  ASSUME NEW b \in Seq(Bytes)
  PROVE  /\ IsReader(StartPastHeader(b)) /\ StartPastHeader(b).buf = b
         /\ StartPastHeader(b).ok /\ StartPastHeader(b).ind = HeaderSize
<1>1. Len(b) \in Nat
  BY LenProperties
<1>2. PICK u : u = StartPastHeader(b)
  OBVIOUS
<1>3. u.buf = b /\ u.ok = TRUE /\ u.ind = HeaderSize
  BY <1>2 DEF StartPastHeader
<1>4. HeaderSize \in Nat /\ HeaderSize <= HeaderSize + Len(b)
  BY <1>1 DEF HeaderSize
<1>5. u \in Unmarshalls
  BY Zenon, <1>2, <1>4 DEF StartPastHeader, Unmarshalls
<1>6. IsInside(u)
  <2>1. HeaderSize <= HeaderSize
    BY <1>4
  <2> QED
    BY Zenon, <1>3, <1>4, <2>1 DEF IsInside, SizeOf
<1> QED
  BY Zenon, <1>2, <1>3, <1>5, <1>6 DEF IsReader

LEMMA ServerInit == Init => ServerInv
<1> SUFFICES ASSUME Init PROVE ServerInv
  OBVIOUS
<1>1. spc = "idle" /\ saw = << >> /\ ran = FALSE /\ un = StartPastHeader(<< >>)
  BY DEF Init
<1>2. << >> \in Seq(Bytes) /\ << >> \in Seq(Seen)
  OBVIOUS
<1>3. IsReader(un) /\ un.ind = HeaderSize
  BY Zenon, <1>1, <1>2, StartIsReader
<1>4. HeaderSize = HeaderSize + TotalSize(<< >>)
  BY SizeEmpty DEF HeaderSize
<1> QED
  BY Zenon, <1>1, <1>2, <1>3, <1>4 DEF ServerInv

\* One more value is read.
LEMMA ServerReads == ServerInv /\ BufferInv /\ UnmarshalArg => ServerInv'
<1> SUFFICES ASSUME ServerInv, BufferInv, UnmarshalArg PROVE ServerInv'
  OBVIOUS
<1>1. PICK t, g : /\ t = sc.sig[Len(saw) + 1] /\ g = Get(un, t, << >>)
                  /\ un' = g.u /\ saw' = Append(saw, [type |-> t, val |-> g.val])
  BY Zenon DEF UnmarshalArg
<1>2. /\ spc = "args" /\ Len(saw) < Len(sc.sig)
      /\ UNCHANGED <<sc, spc, req, ran, sret>>
  BY DEF UnmarshalArg, callerVars
<1>3. saw \in Seq(Seen) /\ IsReader(un) /\ (un.ok => un.ind = HeaderSize + TotalSize(saw))
      /\ un.buf = req.buf /\ ~ran
  BY <1>2 DEF ServerInv
<1>4. t \in Types
  <2>1. sc.sig \in Seq(Types)
    BY Zenon, ScenarioIs DEF BufferInv
  <2>2. PICK s, n : s = sc.sig /\ n = Len(saw)
    OBVIOUS
  <2>3. n \in Nat
    BY Zenon, <1>3, <2>2, LenProperties
  <2>4. s \in Seq(Types) /\ n < Len(s) /\ t = s[n + 1]
    BY Zenon, <1>1, <1>2, <2>1, <2>2
  <2> QED
    BY <2>3, <2>4
<1>5. PICK v, k : v = Valued(t, g) /\ k = EncodedSize(v)
  OBVIOUS
<1>6. Reads(un, t, g)
  BY Zenon, <1>1, <1>3, <1>4, GetReads
<1>7. v \in Seen /\ Moves(un, un', k)
  BY Zenon, <1>1, <1>5, <1>6 DEF Reads
<1>8. saw' = Append(saw, v)
  BY Zenon, <1>1, <1>5 DEF Valued
<1>9. saw' \in Seq(Seen)
  BY Zenon, <1>3, <1>7, <1>8, AppendProperties
<1>10. IsReader(un') /\ un'.buf = un.buf
  BY Zenon, <1>7 DEF Moves
<1>11. ASSUME un'.ok PROVE un'.ind = HeaderSize + TotalSize(saw')
  <2>1. un.ok /\ un'.ind = un.ind + k
    BY Zenon, <1>7, <1>11 DEF Moves
  <2>2. un.ind = HeaderSize + TotalSize(saw)
    BY Zenon, <1>3, <2>1
  <2>3. TotalSize(saw) \in Nat /\ TotalSize(saw') = TotalSize(saw) + k /\ k \in Nat
    BY Zenon, <1>3, <1>5, <1>7, <1>8, SizeAppend, SizeIsNat
  <2> QED
    BY <2>1, <2>2, <2>3 DEF HeaderSize
<1>12. IsReader(un)'
  BY Zenon, <1>10 DEF IsReader, IsInside, SizeOf
<1>13. spc' = "args" /\ ~ran' /\ un'.buf = req'.buf
  BY Zenon, <1>2, <1>3, <1>10
<1>14. spc' # "idle"
  BY <1>13
<1> QED
  BY Zenon, <1>9, <1>11, <1>12, <1>13, <1>14 DEF ServerInv

LEMMA ServerNextInv ==
  ASSUME BufferInv, RequestInv, ServerInv, [Next]_vars
  PROVE  ServerInv'
<1> USE DEF callerVars, waitVars, netVars, srvVars
<1>1. CASE UNCHANGED <<sc, saw, un, ran, sret, spc>> /\ (spc # "idle" => UNCHANGED req)
  BY Zenon, <1>1 DEF ServerInv, IsReader, IsInside, SizeOf, OkDone
<1>2. CASE MarshalArgs
  BY <1>1, <1>2 DEF MarshalArgs, RequestInv
<1>3. CASE Start \/ GetConn \/ Send \/ SetDeadline \/ TimedOut \/ Spin \/ SeesReply
  BY <1>1, <1>3 DEF Start, GetConn, Send, SetDeadline, TimedOut, Spin, SeesReply
<1>11. CASE Return \/ CallerCrashes
  BY <1>1, <1>11 DEF Return, CallerCrashes
<1>12. CASE ServerCrashes
  <2>1. spc = "args" /\ spc' = "crashed" /\ UNCHANGED <<sc, saw, un, ran, sret, req>>
    BY <1>12 DEF ServerCrashes
  <2>2. spc' # "idle" /\ spc # "idle" /\ spc \in {"idle", "args"} /\ ~ran
    BY <2>1 DEF ServerInv
  <2> QED
    BY Zenon, <2>1, <2>2 DEF ServerInv, IsReader, IsInside, SizeOf, OkDone
<1>4. CASE GotRequest
  <2>1. spc = "idle" /\ spc' = "args" /\ un' = StartPastHeader(req.buf)
        /\ UNCHANGED <<sc, saw, ran, sret, req>>
    BY <1>4 DEF GotRequest
  <2>2. req.buf \in Seq(Bytes)
    BY Zenon DEF RequestInv
  <2>3. IsReader(un') /\ un'.buf = req.buf /\ un'.ind = HeaderSize
    BY Zenon, <2>1, <2>2, StartIsReader
  <2>4. saw' = << >> /\ << >> \in Seq(Seen) /\ ~ran'
    BY <2>1 DEF ServerInv
  <2>5. HeaderSize = HeaderSize + TotalSize(<< >>)
    BY SizeEmpty DEF HeaderSize
  <2>6. IsReader(un)'
    BY Zenon, <2>3 DEF IsReader, IsInside, SizeOf
  <2>7. spc' # "idle"
    BY <2>1
  <2> QED
    BY Zenon, <2>1, <2>3, <2>4, <2>5, <2>6, <2>7 DEF ServerInv
<1>5. CASE UnmarshalArg
  BY Zenon, <1>5, ServerReads
<1>6. CASE RunHandler
  <2>1. /\ spc = "args" /\ spc' = "reply" /\ UNCHANGED <<sc, saw, un, req>>
        /\ (ran' => ran \/ (OkDone(un) /\ sret' = sc.b))
    BY <1>6 DEF RunHandler
  <2>2. ~ran
    BY <2>1 DEF ServerInv
  <2>3. spc' # "idle" /\ spc' \notin {"idle", "args"} /\ spc # "idle"
    BY <2>1
  <2> QED
    BY Zenon, <2>1, <2>2, <2>3 DEF ServerInv, IsReader, IsInside, SizeOf, OkDone
<1>7. CASE MarshalResult
  BY <1>1, <1>7 DEF MarshalResult
<1>8. CASE SendReply
  <2>1. spc = "reply" /\ spc' = "done" /\ UNCHANGED <<sc, saw, un, ran, sret, req>>
    BY <1>8 DEF SendReply
  <2>2. spc' # "idle" /\ spc' \notin {"idle", "args"} /\ spc # "idle"
    BY <2>1
  <2> QED
    BY Zenon, <2>1, <2>2 DEF ServerInv, IsReader, IsInside, SizeOf, OkDone
<1>9. CASE Duplicate \/ GotReply \/ ConnDies \/ Tick
  BY <1>1, <1>9 DEF Duplicate, GotReply, ConnDies, Tick
<1>10. CASE UNCHANGED vars
  BY <1>1, <1>10 DEF vars
<1> QED
  BY <1>2, <1>3, <1>4, <1>5, <1>6, <1>7, <1>8, <1>9, <1>10, <1>11, <1>12
  DEF Next, CallerNext, CallerGoesOn, ServerNext

\* What the server has written is the beginning of the result, nothing if the
\* handler was not called; a reply is seen once all of it is written.
ReplyInv ==
  /\ ran => BufferIs(rep, rtodo, Encoding(sc.res))
  /\ ~ran => rep.buf = << >> /\ rtodo = << >>
  /\ inRep \/ done => spc = "done"
  /\ spc = "done" => rtodo = << >>
  /\ done => intret = sret /\ reply = rep.buf

LEMMA ReplyInit == Init => ReplyInv
<1> SUFFICES ASSUME Init PROVE ReplyInv
  OBVIOUS
<1>1. rep = NewMarshall /\ rtodo = << >> /\ ~ran /\ ~inRep /\ ~done /\ spc = "idle"
  BY DEF Init
<1>2. rep.buf = << >> /\ spc # "done"
  BY <1>1 DEF NewMarshall
<1> QED
  BY Zenon, <1>1, <1>2 DEF ReplyInv

LEMMA ReplyNext ==
  ASSUME BufferInv, ServerInv, ReplyInv, [Next]_vars
  PROVE  ReplyInv'
<1> USE DEF callerVars, waitVars, netVars, srvVars
<1>1. CASE UNCHANGED <<sc, rep, rtodo, ran, spc, sret, done, intret, reply>>
           /\ (inRep' => inRep \/ spc = "done")
  BY Zenon, <1>1 DEF ReplyInv, BufferIs
<1>2. CASE MarshalArgs \/ Start \/ GetConn \/ Send \/ CallerCrashes
  BY <1>1, <1>2 DEF MarshalArgs, Start, GetConn, Send, CallerCrashes
<1>12. CASE ServerCrashes
  <2>1. /\ spc = "args" /\ spc' = "crashed" /\ inRep' = FALSE
        /\ UNCHANGED <<sc, rep, rtodo, ran, done, sret, intret, reply>>
    BY <1>12 DEF ServerCrashes
  <2>2. spc # "done" /\ spc' # "done"
    BY <2>1
  <2> QED
    BY Zenon, <2>1, <2>2 DEF ReplyInv, BufferIs
<1>3. CASE SetDeadline \/ TimedOut \/ Spin \/ SeesReply \/ Return
  BY <1>1, <1>3 DEF SetDeadline, TimedOut, Spin, SeesReply, Return
<1>4. CASE GotRequest
  <2>1. /\ spc = "idle" /\ spc' = "args"
        /\ UNCHANGED <<sc, rep, rtodo, ran, done, intret, reply, inRep>>
    BY <1>4 DEF GotRequest
  <2>2. spc # "done" /\ spc' # "done"
    BY <2>1
  <2> QED
    BY Zenon, <2>1, <2>2 DEF ReplyInv, BufferIs
<1>5. CASE UnmarshalArg
  BY <1>1, <1>5 DEF UnmarshalArg
<1>6. CASE RunHandler
  <2>1. spc = "args" /\ spc' = "reply" /\ UNCHANGED <<sc, rep, done, intret, reply, inRep>>
    BY <1>6 DEF RunHandler
  <2>2. spc # "done" /\ spc' # "done" /\ ~ran
    BY <2>1 DEF ServerInv
  <2>3. ~inRep /\ ~done /\ rep.buf = << >> /\ rtodo = << >>
    BY Zenon, <2>2 DEF ReplyInv
  <2>4. \/ ran' = TRUE /\ rtodo' = Writes(sc.res)
        \/ UNCHANGED <<ran, rtodo>>
    BY <1>6 DEF RunHandler
  <2>5. CASE ran' = TRUE /\ rtodo' = Writes(sc.res)
    <3>1. sc.res \in Values
      BY Zenon, ScenarioIs DEF BufferInv
    <3>2. BytesOf(rtodo') = Encoding(sc.res) /\ rtodo' \in Seq(WriteOps)
      BY Zenon, <2>5, <3>1, WritesEncoding DEF WritesIt
    <3>3. Encoding(sc.res) \in Seq(Bytes)
      BY Zenon, <3>2, ItsBytesMaps, FlatMapIsSeq DEF BytesOf
    <3>4. << >> \in Seq(Bytes) /\ << >> \o Encoding(sc.res) = Encoding(sc.res)
      BY Zenon, <3>3, EmptySeq, ConcatEmptySeq
    <3>5. rep'.buf \in Seq(Bytes) /\ rep'.buf \o BytesOf(rtodo') = Encoding(sc'.res)
      BY Zenon, <2>1, <2>3, <3>2, <3>4
    <3> QED
      BY Zenon, <2>1, <2>2, <2>3, <2>5, <3>5 DEF ReplyInv, BufferIs
  <2>6. CASE UNCHANGED <<ran, rtodo>>
    BY Zenon, <2>1, <2>2, <2>3, <2>6 DEF ReplyInv
  <2> QED
    BY Zenon, <2>4, <2>5, <2>6
<1>7. CASE MarshalResult
  <2>1. /\ spc = "reply" /\ rtodo # << >> /\ rep' = Write(rep, Head(rtodo))
        /\ rtodo' = Tail(rtodo)
        /\ UNCHANGED <<sc, spc, ran, sret, done, intret, reply, inRep>>
    BY <1>7 DEF MarshalResult
  <2>2. ran /\ rtodo \in Seq(WriteOps) /\ spc # "done"
    BY <2>1 DEF ReplyInv, BufferInv
  <2>3. BufferIs(rep, rtodo, Encoding(sc.res)) /\ ~inRep /\ ~done
    BY Zenon, <2>2 DEF ReplyInv
  <2>4. BufferIs(Write(rep, Head(rtodo)), Tail(rtodo), Encoding(sc.res))
    BY Zenon, <2>1, <2>2, <2>3, WriteMoves
  <2> QED
    BY Zenon, <2>1, <2>2, <2>3, <2>4 DEF ReplyInv, BufferIs
<1>8. CASE SendReply
  <2>1. /\ spc = "reply" /\ rtodo = << >> /\ spc' = "done"
        /\ UNCHANGED <<sc, rep, rtodo, ran, sret, done, intret, reply>>
    BY <1>8 DEF SendReply
  <2> QED
    BY Zenon, <2>1 DEF ReplyInv, BufferIs
<1>9. CASE GotReply
  <2>1. inRep /\ inRep' = FALSE /\ UNCHANGED <<sc, rep, rtodo, ran, spc, sret>>
    BY <1>9 DEF GotReply
  <2>2. \/ done' = TRUE /\ intret' = sret /\ reply' = rep.buf
        \/ UNCHANGED <<done, intret, reply>>
    BY <1>9 DEF GotReply
  <2>3. spc' = "done" /\ rtodo' = << >>
    BY Zenon, <2>1 DEF ReplyInv
  <2>4. done' => intret' = sret' /\ reply' = rep'.buf
    BY Zenon, <2>1, <2>2 DEF ReplyInv
  <2> QED
    BY Zenon, <2>1, <2>3, <2>4 DEF ReplyInv, BufferIs
<1>10. CASE Duplicate \/ ConnDies \/ Tick
  BY <1>1, <1>10 DEF Duplicate, ConnDies, Tick
<1>11. CASE UNCHANGED vars
  BY <1>1, <1>11 DEF vars
<1> QED
  BY <1>2, <1>3, <1>4, <1>5, <1>6, <1>7, <1>8, <1>9, <1>10, <1>11, <1>12
  DEF Next, CallerNext, CallerGoesOn, ServerNext

\* What call returns is its own or what the handler's reply says.
ReturnInv ==
  /\ pc # "returned" => r = sc.prior
  /\ pc = "returned" => \/ ret = timeout_failure /\ r = sc.prior
                        \/ done /\ ret = intret
                        \/ ret = unmarshal_reply_failure

LEMMA ReturnNext ==
  ASSUME ReturnInv, [Next]_vars
  PROVE  ReturnInv'
<1> USE DEF callerVars, waitVars, netVars, srvVars
<1>1. CASE /\ UNCHANGED <<sc, r>> /\ pc # "returned" /\ pc' # "returned"
  BY Zenon, <1>1 DEF ReturnInv
<1>2. CASE /\ UNCHANGED <<sc, r, pc, ret>>
           /\ pc = "returned" => UNCHANGED <<done, intret>>
  BY Zenon, <1>2 DEF ReturnInv
<1>3. CASE MarshalArgs \/ GotRequest \/ UnmarshalArg \/ ServerCrashes \/ RunHandler \/ MarshalResult
  BY <1>2, <1>3 DEF MarshalArgs, GotRequest, UnmarshalArg, ServerCrashes, RunHandler, MarshalResult
<1>4. CASE SendReply \/ Duplicate \/ ConnDies \/ Tick \/ UNCHANGED vars
  BY <1>2, <1>4 DEF SendReply, Duplicate, ConnDies, Tick, vars
<1>5. CASE GotReply
  BY <1>2, <1>5 DEF GotReply
<1>6. CASE Start \/ GetConn \/ Send \/ SetDeadline \/ CallerCrashes
  BY <1>1, <1>6 DEF Start, GetConn, Send, SetDeadline, AfterTransmit, CallerCrashes
<1>7. CASE TimedOut \/ Spin \/ SeesReply
  BY <1>1, <1>7 DEF TimedOut, Spin, SeesReply, AfterTransmit
<1>8. CASE Return
  <2>1. pc = "leave" /\ pc' = "returned" /\ UNCHANGED <<sc, done, intret>>
    BY <1>8 DEF Return
  <2>2. pc # "returned"
    BY <2>1
  <2>3. CASE ~done
    <3>1. ret' = timeout_failure /\ UNCHANGED r
      BY <1>8, <2>3 DEF Return
    <3> QED
      BY Zenon, <2>1, <2>2, <3>1 DEF ReturnInv, timeout_failure
  <2>4. CASE done
    <3>1. ret' \in {intret, unmarshal_reply_failure}
      BY <1>8, <2>4 DEF Return
    <3> QED
      BY Zenon, <2>1, <2>4, <3>1 DEF ReturnInv, unmarshal_reply_failure
  <2> QED
    BY Zenon, <2>3, <2>4
<1> QED
  BY <1>3, <1>4, <1>5, <1>6, <1>7, <1>8 DEF Next, CallerNext, CallerGoesOn, ServerNext

ExactInv == BufferInv /\ RequestInv /\ ServerInv /\ ReplyInv /\ ReturnInv

LEMMA ExactInvHolds == Spec => []ExactInv
<1>1. Init => ExactInv
  <2>1. Init => ReturnInv
    <3> SUFFICES ASSUME Init PROVE ReturnInv
      OBVIOUS
    <3>1. pc # "returned" /\ r = sc.prior
      BY DEF Init
    <3> QED
      BY Zenon, <3>1 DEF ReturnInv
  <2> QED
    BY Zenon, <2>1, BufferInit, RequestInit, ServerInit, ReplyInit DEF ExactInv
<1>2. ExactInv /\ [Next]_vars => ExactInv'
  BY Zenon, BufferNext, RequestNext, ServerNextInv, ReplyNext, ReturnNext DEF ExactInv
<1> QED
  BY <1>1, <1>2, PTL DEF Spec

\* A handler of rpcs::reg is called on arguments that take as many bytes as
\* rpcc::call has sent, and on no others: of a request that is too short or too
\* long for the types of the handler, the caller gets unmarshal_args_failure, or
\* the server's process has ended at a size that wraps around in the sum of
\* unmarshall::rawbytes.
THEOREM ExactArgumentsHolds == Spec => []ExactArguments
<1>1. ASSUME ExactInv PROVE ExactArguments
  <2>1. ASSUME ran PROVE TotalSize(saw) = Len(req.buf)
    <3>1. OkDone(un) /\ saw \in Seq(Seen)
      BY Zenon, <1>1, <2>1 DEF ExactInv, ServerInv
    <3>2. un.ok /\ un.ind = HeaderSize + Len(un.buf)
      BY Zenon, <3>1 DEF OkDone, SizeOf
    <3>3. un.ind = HeaderSize + TotalSize(saw) /\ spc # "idle"
      BY <1>1, <2>1, <3>2 DEF ExactInv, ServerInv
    <3>4. un.buf = req.buf /\ req.buf \in Seq(Bytes)
      BY Zenon, <1>1, <3>3 DEF ExactInv, ServerInv, RequestInv
    <3>5. HeaderSize + TotalSize(saw) = HeaderSize + Len(req.buf)
      BY Zenon, <3>2, <3>3, <3>4
    <3>6. Len(req.buf) \in Nat
      BY Zenon, <3>4, LenProperties
    <3>7. TotalSize(saw) \in Nat
      BY Zenon, <3>1, SizeNat
    <3>8. PICK n, k : n = TotalSize(saw) /\ k = Len(req.buf)
      OBVIOUS
    <3>9. n \in Nat /\ k \in Nat /\ HeaderSize + n = HeaderSize + k
      BY Zenon, <3>5, <3>6, <3>7, <3>8
    <3>10. n = k
      BY <3>9 DEF HeaderSize
    <3> QED
      BY Zenon, <3>8, <3>10
  <2>2. ASSUME pc = "returned", ret = unmarshal_args_failure PROVE ~ran
    <3>1. done /\ ret = intret
      BY <1>1, <2>2
      DEF ExactInv, ReturnInv, timeout_failure, unmarshal_reply_failure, unmarshal_args_failure
    <3>2. sret = unmarshal_args_failure
      BY Zenon, <1>1, <2>2, <3>1 DEF ExactInv, ReplyInv
    <3>3. sc.b \in Nat /\ (ran => sret = sc.b)
      BY Zenon, <1>1, ScenarioIs DEF ExactInv, BufferInv, ServerInv
    <3> QED
      BY <3>2, <3>3 DEF unmarshal_args_failure
  <2> QED
    BY Zenon, <2>1, <2>2 DEF ExactArguments
<1> QED
  BY <1>1, ExactInvHolds, PTL

\* If the two sides agree on the types, the values read so far are the first of
\* those passed, and reading has come to the end of what they were written as.
Begins(s, t) == \E rest \in Seq(Values) : t = s \o rest

ArgsAgree ==
  TypesAgree =>
    /\ un.ok /\ saw \in Seq(Values) /\ Begins(saw, sc.args)
    /\ spc # "idle" => un.ind = HeaderSize + Len(FlatMap(Encodings, saw))
    /\ spc \in {"reply", "done"} => ran /\ saw = sc.args

\* The handler's parameters are as many as the arguments and of their types.
LEMMA ParametersFit ==
  ASSUME sc \in Scenarios, TypesAgree
  PROVE  Len(sc.sig) = Len(sc.args) /\ \A i \in 1..Len(sc.args) : sc.sig[i] = sc.args[i].type
<1>1. PICK a, g : a = sc.args /\ g = sc.sig
  OBVIOUS
<1>2. a \in Seq(Values) /\ g \in Seq(Types)
  BY Zenon, <1>1, ScenarioIs
<1>3. g = [i \in DOMAIN a |-> a[i].type]
  BY Zenon, <1>1 DEF TypesAgree
<1>4. DOMAIN a = 1..Len(a) /\ DOMAIN g = 1..Len(g) /\ Len(a) \in Nat /\ Len(g) \in Nat
  BY <1>2
<1>5. DOMAIN g = DOMAIN a /\ \A i \in DOMAIN a : g[i] = a[i].type
  BY Zenon, <1>3
<1>6. 1..Len(g) = 1..Len(a)
  BY Zenon, <1>4, <1>5
<1>7. Len(g) = Len(a)
  <2>1. PICK m, n : m = Len(g) /\ n = Len(a)
    OBVIOUS
  <2>2. m \in Nat /\ n \in Nat /\ 1..m = 1..n
    BY Zenon, <1>4, <1>6, <2>1
  <2>3. ~(m < n)
    <3>1. m < n => n \in 1..n /\ n \notin 1..m
      BY <2>2
    <3> QED
      BY Zenon, <2>2, <3>1
  <2>4. ~(n < m)
    <3>1. n < m => m \in 1..m /\ m \notin 1..n
      BY <2>2
    <3> QED
      BY Zenon, <2>2, <3>1
  <2>5. m = n
    BY <2>2, <2>3, <2>4
  <2> QED
    BY Zenon, <2>1, <2>5
<1> QED
  BY Zenon, <1>1, <1>4, <1>5, <1>7

\* Once it is sent, the request is all that the arguments are written as.
LEMMA RequestIsWhole ==
  ASSUME BufferInv, RequestInv, pc # "args"
  PROVE  req.buf = FlatMap(Encodings, sc.args) /\ req.buf \in Seq(Bytes)
<1>1. todo = << >> /\ req.buf \in Seq(Bytes) /\ req.buf \o BytesOf(todo) = FlatMap(Encodings, sc.args)
  BY Zenon DEF RequestInv
<1>2. BytesOf(todo) = << >>
  BY Zenon, <1>1, FlatMapEmpty DEF BytesOf
<1> QED
  BY Zenon, <1>1, <1>2, ConcatEmptySeq

\* A value is its type and its contents.
LEMMA ValueIs ==
  ASSUME NEW v \in Values
  PROVE  v = [type |-> v.type, val |-> v.val] /\ ReadInto(v, << >>) = v.val
<1>1. v = [type |-> v.type, val |-> v.val]
  BY DEF Values
<1>2. CASE v.type # "vector"
  BY <1>1, <1>2 DEF ReadInto
<1>3. CASE v.type = "vector"
  <2>1. v.val \in Seq(Ints)
    BY Zenon, <1>3, ValueCases
  <2>2. << >> \o v.val = v.val
    BY Zenon, <2>1, ConcatEmptySeq
  <2> QED
    BY Zenon, <1>1, <1>3, <2>2 DEF ReadInto
<1> QED
  BY Zenon, <1>2, <1>3

\* One more value begins the same sequence.
LEMMA BeginsNext ==
  ASSUME NEW s \in Seq(Values), NEW rest \in Seq(Values), rest # << >>
  PROVE  /\ Head(rest) \in Values /\ Tail(rest) \in Seq(Values)
         /\ (s \o rest)[Len(s) + 1] = Head(rest)
         /\ Begins(Append(s, Head(rest)), s \o rest)
<1>1. PICK e, t : e = Head(rest) /\ t = Tail(rest)
  OBVIOUS
<1>2. e \in Values /\ t \in Seq(Values) /\ <<e>> \in Seq(Values) /\ rest = <<e>> \o t
  BY <1>1
<1>3. (s \o rest)[Len(s) + 1] = e
  <2>1. Len(s) \in Nat /\ Len(rest) \in Nat /\ Len(rest) >= 1 /\ rest[1] = e
    BY <1>1
  <2>2. PICK n, k, c : n = Len(s) /\ k = Len(rest) /\ c = s \o rest
    OBVIOUS
  <2>3. \A i \in 1..n + k : c[i] = IF i <= n THEN s[i] ELSE rest[i - n]
    BY <2>2, ConcatProperties
  <2>4. n + 1 \in 1..n + k /\ ~(n + 1 <= n) /\ (n + 1) - n = 1
    BY <2>1, <2>2
  <2>5. c[n + 1] = IF n + 1 <= n THEN s[n + 1] ELSE rest[(n + 1) - n]
    BY Zenon, <2>3, <2>4
  <2>6. c[n + 1] = rest[1]
    BY Zenon, <2>4, <2>5
  <2> QED
    BY Zenon, <2>1, <2>2, <2>6
<1>4. CatCat(s, <<e>>, t)
  BY Zenon, <1>2, ConcatAssociates
<1>5. s \o <<e>> = Append(s, e)
  BY <1>2
<1>6. s \o rest = Append(s, e) \o t
  BY Zenon, <1>2, <1>4, <1>5 DEF CatCat
<1> QED
  BY Zenon, <1>1, <1>2, <1>3, <1>6 DEF Begins

LEMMA ArgsRead ==
  ASSUME BufferInv, RequestInv, ServerInv, ArgsAgree, TypesAgree, UnmarshalArg
  PROVE  /\ un'.ok /\ saw' \in Seq(Values) /\ Begins(saw', sc.args)
         /\ un'.ind = HeaderSize + Len(FlatMap(Encodings, saw'))
<1>1. PICK s, t, g : /\ s = saw /\ t = sc.sig[Len(saw) + 1] /\ g = Get(un, t, << >>)
                     /\ un' = g.u /\ saw' = Append(s, [type |-> t, val |-> g.val])
  BY Zenon DEF UnmarshalArg
<1>2. spc = "args" /\ Len(s) < Len(sc.sig)
  BY <1>1 DEF UnmarshalArg
<1>3. spc # "idle" /\ sc \in Scenarios
  BY <1>2 DEF BufferInv
<1>4. IsReader(un) /\ un.buf = req.buf /\ pc # "args"
  BY Zenon, <1>3 DEF ServerInv, RequestInv
<1>5. un.ok /\ s \in Seq(Values) /\ un.ind = HeaderSize + Len(FlatMap(Encodings, s))
  BY Zenon, <1>1, <1>3 DEF ArgsAgree
<1>6. PICK rest \in Seq(Values) : sc.args = s \o rest
  BY Zenon, <1>1 DEF ArgsAgree, Begins
<1>7. rest # << >> /\ Len(s) + 1 \in 1..Len(sc.args)
  <2>1. Len(sc.sig) = Len(sc.args)
    BY Zenon, <1>3, ParametersFit
  <2>2. Len(s \o rest) = Len(s) + Len(rest) /\ Len(s) \in Nat /\ Len(rest) \in Nat
    <3>1. s \in Seq(Values) /\ rest \in Seq(Values)
      BY Zenon, <1>5, <1>6
    <3> QED
      BY <3>1
  <2>3. PICK n, k : n = Len(s) /\ k = Len(rest)
    OBVIOUS
  <2>4. n < n + k /\ n \in Nat /\ k \in Nat /\ Len(sc.args) = n + k
    BY Zenon, <1>2, <1>6, <2>1, <2>2, <2>3
  <2>5. k # 0 /\ n + 1 \in 1..n + k
    BY <2>4
  <2>6. Len(<< >>) = 0
    OBVIOUS
  <2> QED
    BY Zenon, <2>3, <2>4, <2>5, <2>6
<1>8. PICK v, q : v = Head(rest) /\ q = Tail(rest)
  OBVIOUS
<1>9. v \in Values /\ q \in Seq(Values) /\ sc.args[Len(s) + 1] = v /\ Begins(Append(s, v), sc.args)
  BY Zenon, <1>5, <1>6, <1>7, <1>8, BeginsNext
<1>10. t = v.type
  BY Zenon, <1>1, <1>3, <1>7, <1>9, ParametersFit
<1>11. Encodings[v] = Encoding(v)
  BY Zenon, <1>9 DEF Encodings
<1>12. PICK p, b, z : p = FlatMap(Encodings, s) /\ b = Encoding(v) /\ z = FlatMap(Encodings, q)
  OBVIOUS
<1>13. p \in Seq(Bytes) /\ b \in Seq(Bytes) /\ FlatMap(Encodings, Append(s, v)) = p \o b
  <2>1. Maps(Encodings, Values, Seq(Bytes))
    BY Zenon, ValuesMap
  <2>2. /\ FlatMap(Encodings, s) \in Seq(Bytes) /\ Encodings[v] \in Seq(Bytes)
        /\ FlatLast(Encodings, s, v)
    <3>1. s \in Seq(Values) /\ v \in Values
      BY Zenon, <1>5, <1>9
    <3> QED
      BY Zenon, <2>1, <3>1, FlatMapAppend
  <2> QED
    BY Zenon, <1>11, <1>12, <2>2 DEF FlatLast
<1>14. z \in Seq(Bytes)
  BY Zenon, <1>9, <1>12, ValuesMap, FlatMapIsSeq
<1>15. un.buf = p \o (b \o z)
  <2>1. un.buf = FlatMap(Encodings, s \o rest)
    BY Zenon, <1>4, <1>6, RequestIsWhole
  <2>2. FlatCat(Encodings, s, rest)
    BY Zenon, <1>5, <1>6, ValuesMap, FlatMapConcat
  <2>3. FlatHead(Encodings, rest)
    BY Zenon, <1>6, <1>7, ValuesMap, FlatMapCons
  <2> QED
    BY Zenon, <1>8, <1>11, <1>12, <2>1, <2>2, <2>3 DEF FlatCat, FlatHead
<1>16. Holds(un, un.ind, b)
  BY Zenon, <1>5, <1>12, <1>13, <1>14, <1>15, HoldsMiddle
<1>17. ReadBack(un, v, << >>)
  BY Zenon, <1>4, <1>5, <1>9, <1>12, <1>16, GetReadsBack
<1>18. un'.ok /\ un'.ind = un.ind + Len(b) /\ g.val = ReadInto(v, << >>)
  BY Zenon, <1>1, <1>10, <1>12, <1>17 DEF ReadBack
<1>19. saw' = Append(s, v)
  BY Zenon, <1>1, <1>9, <1>10, <1>18, ValueIs
<1>20. un'.ind = HeaderSize + Len(p \o b)
  <2>1. Len(p \o b) = Len(p) + Len(b) /\ Len(p) \in Nat /\ Len(b) \in Nat
    BY Zenon, <1>13, ConcatProperties, LenProperties
  <2>2. PICK n, k : n = Len(p) /\ k = Len(b)
    OBVIOUS
  <2>3. (HeaderSize + n) + k = HeaderSize + (n + k)
    BY <2>1, <2>2 DEF HeaderSize
  <2> QED
    BY Zenon, <1>5, <1>12, <1>18, <2>1, <2>2, <2>3
<1>21. saw' \in Seq(Values)
  BY Zenon, <1>5, <1>9, <1>19, AppendProperties
<1> QED
  BY Zenon, <1>9, <1>13, <1>18, <1>19, <1>20, <1>21

LEMMA ArgsInit == Init => ArgsAgree
<1> SUFFICES ASSUME Init PROVE ArgsAgree
  OBVIOUS
<1>1. spc = "idle" /\ saw = << >> /\ un.ok = TRUE /\ sc \in Scenarios
  BY DEF Init, StartPastHeader
<1>2. spc \notin {"reply", "done"}
  BY <1>1
<1>3. << >> \in Seq(Values) /\ sc.args \in Seq(Values)
  BY Zenon, <1>1, EmptySeq, ScenarioIs
<1>4. << >> \o sc.args = sc.args
  BY Zenon, <1>3, ConcatEmptySeq
<1>5. Begins(<< >>, sc.args)
  BY Zenon, <1>3, <1>4 DEF Begins
<1> QED
  BY Zenon, <1>1, <1>2, <1>3, <1>5 DEF ArgsAgree

\* When as many have been read as there are parameters, they are all there are.
LEMMA AllArgsRead ==
  ASSUME BufferInv, RequestInv, ServerInv, ArgsAgree, TypesAgree,
         spc = "args", Len(saw) = Len(sc.sig)
  PROVE  saw = sc.args /\ OkDone(un)
<1>1. spc # "idle" /\ sc \in Scenarios
  BY DEF BufferInv
<1>2. /\ un.ok /\ saw \in Seq(Values) /\ Begins(saw, sc.args)
      /\ un.ind = HeaderSize + Len(FlatMap(Encodings, saw))
  BY Zenon, <1>1 DEF ArgsAgree
<1>3. PICK rest \in Seq(Values) : sc.args = saw \o rest
  BY Zenon, <1>2 DEF Begins
<1>4. PICK s : s = saw
  OBVIOUS
<1>5. s \in Seq(Values) /\ Len(s \o rest) = Len(s)
  BY Zenon, <1>1, <1>2, <1>3, <1>4, ParametersFit
<1>6. rest = << >>
  BY <1>5
<1>7. s \o << >> = s
  BY Zenon, <1>5, ConcatEmptySeq
<1>8. saw = sc.args
  BY Zenon, <1>3, <1>4, <1>6, <1>7
<1>9. un.buf = req.buf /\ pc # "args"
  BY Zenon, <1>1 DEF ServerInv, RequestInv
<1>10. un.buf = FlatMap(Encodings, saw)
  BY Zenon, <1>8, <1>9, RequestIsWhole
<1> QED
  BY Zenon, <1>2, <1>8, <1>10 DEF OkDone, SizeOf

LEMMA ArgsNext ==
  ASSUME BufferInv, RequestInv, ServerInv, ArgsAgree, [Next]_vars
  PROVE  ArgsAgree'
<1> USE DEF callerVars, waitVars, netVars, srvVars
<1>1. CASE UNCHANGED <<sc, saw, un, ran, spc>>
  BY Zenon, <1>1 DEF ArgsAgree, TypesAgree
<1>2. CASE MarshalArgs \/ Start \/ GetConn \/ Send \/ SetDeadline \/ CallerCrashes
  BY <1>1, <1>2 DEF MarshalArgs, Start, GetConn, Send, SetDeadline, CallerCrashes
<1>10. CASE ServerCrashes
  <2>1. spc = "args" /\ spc' = "crashed" /\ UNCHANGED <<sc, saw, un, ran>>
    BY <1>10 DEF ServerCrashes
  <2>2. spc # "idle" /\ spc' \notin {"reply", "done"}
    BY <2>1
  <2> QED
    BY Zenon, <2>1, <2>2 DEF ArgsAgree, TypesAgree
<1>3. CASE TimedOut \/ Spin \/ SeesReply \/ Return
  BY <1>1, <1>3 DEF TimedOut, Spin, SeesReply, Return
<1>4. CASE GotRequest
  <2>1. spc = "idle" /\ spc' = "args" /\ un' = StartPastHeader(req.buf) /\ UNCHANGED <<sc, saw, ran>>
    BY <1>4 DEF GotRequest
  <2>2. req.buf \in Seq(Bytes) /\ saw = << >>
    BY Zenon, <2>1 DEF RequestInv, ServerInv
  <2>3. un'.ok /\ un'.ind = HeaderSize
    BY Zenon, <2>1, <2>2, StartIsReader
  <2>4. HeaderSize = HeaderSize + Len(FlatMap(Encodings, saw'))
    <3>1. saw' = << >>
      BY Zenon, <2>1, <2>2
    <3>2. FlatMap(Encodings, saw') = << >>
      BY Zenon, <3>1, FlatMapEmpty
    <3>3. HeaderSize = HeaderSize + Len(<< >>)
      BY DEF HeaderSize
    <3> QED
      BY Zenon, <3>2, <3>3
  <2>5. spc' \notin {"reply", "done"}
    BY <2>1
  <2> QED
    BY Zenon, <2>1, <2>3, <2>4, <2>5 DEF ArgsAgree, TypesAgree
<1>5. CASE UnmarshalArg
  <2>1. UNCHANGED <<sc, spc>> /\ spc = "args"
    BY <1>5 DEF UnmarshalArg
  <2>2. ASSUME TypesAgree PROVE /\ un'.ok /\ saw' \in Seq(Values) /\ Begins(saw', sc.args)
                                /\ un'.ind = HeaderSize + Len(FlatMap(Encodings, saw'))
    BY Zenon, <1>5, <2>2, ArgsRead
  <2>3. spc' \notin {"reply", "done"}
    BY <2>1
  <2> QED
    BY Zenon, <2>1, <2>2, <2>3 DEF ArgsAgree, TypesAgree
<1>6. CASE RunHandler
  <2>1. spc = "args" /\ Len(saw) = Len(sc.sig) /\ UNCHANGED <<sc, saw, un>>
        /\ (OkDone(un) => ran' = TRUE)
    BY <1>6 DEF RunHandler
  <2>2. ASSUME TypesAgree PROVE saw = sc.args /\ ran'
    BY Zenon, <1>6, <2>1, <2>2, AllArgsRead
  <2>3. spc # "idle"
    BY <2>1
  <2> QED
    BY Zenon, <2>1, <2>2, <2>3 DEF ArgsAgree, TypesAgree
<1>7. CASE MarshalResult \/ Duplicate \/ GotReply \/ ConnDies \/ Tick
  BY <1>1, <1>7 DEF MarshalResult, Duplicate, GotReply, ConnDies, Tick
<1>8. CASE SendReply
  <2>1. spc = "reply" /\ spc' = "done" /\ UNCHANGED <<sc, saw, un, ran>>
    BY <1>8 DEF SendReply
  <2>2. spc # "idle" /\ spc \in {"reply", "done"}
    BY <2>1
  <2> QED
    BY Zenon, <2>1, <2>2 DEF ArgsAgree, TypesAgree
<1>9. CASE UNCHANGED vars
  BY <1>1, <1>9 DEF vars
<1> QED
  BY <1>2, <1>3, <1>4, <1>5, <1>6, <1>7, <1>8, <1>9, <1>10 DEF Next, CallerNext, CallerGoesOn, ServerNext

\* A call that has returned, between sides that agree on the types.
ResultAgrees ==
  TypesAgree /\ pc = "returned" =>
    \/ ret = timeout_failure /\ r = sc.prior
    \/ ran /\ ret = sc.b /\ r = ReadInto(sc.res, sc.prior)

LEMMA ResultReturned ==
  ASSUME BufferInv, ServerInv, ReplyInv, ReturnInv, ArgsAgree, Return
  PROVE  ResultAgrees'
<1>1. pc = "leave" /\ UNCHANGED <<sc, ran>>
  BY DEF Return, srvVars
<1>2. r = sc.prior /\ sc \in Scenarios
  BY <1>1 DEF ReturnInv, BufferInv
<1>3. CASE ~done
  <2>1. ret' = timeout_failure /\ UNCHANGED r
    BY <1>3 DEF Return
  <2> QED
    BY Zenon, <1>1, <1>2, <2>1 DEF ResultAgrees, timeout_failure
<1>4. CASE done /\ TypesAgree
  <2>1. spc = "done" /\ rtodo = << >> /\ intret = sret /\ reply = rep.buf
    BY Zenon, <1>4 DEF ReplyInv
  <2>2. spc \in {"reply", "done"}
    BY <2>1
  <2>3. ran
    BY Zenon, <1>4, <2>2 DEF ArgsAgree
  <2>4. intret = sc.b /\ sc.b \in Nat
    BY Zenon, <1>2, <2>1, <2>3, ScenarioIs DEF ServerInv
  <2>5. ~(intret < 0)
    BY <2>4
  <2>6. PICK u, v, g : u = TakenIn(reply) /\ v = sc.res /\ g = Get(u, v.type, sc.prior)
    OBVIOUS
  <2>7. ret' = (IF OkDone(g.u) THEN intret ELSE unmarshal_reply_failure) /\ r' = g.val
    <3>1. g = Get(TakenIn(reply), sc.rtype, sc.prior)
      BY Zenon, <1>4, <2>6 DEF TypesAgree
    <3> QED
      BY Zenon, <1>4, <2>5, <3>1 DEF Return
  <2>8. reply = Encoding(v) /\ v \in Values /\ Encoding(v) \in Seq(Bytes)
    <3>1. BytesOf(rtodo) = << >>
      BY Zenon, <2>1, FlatMapEmpty DEF BytesOf
    <3>2. rep.buf \in Seq(Bytes) /\ rep.buf \o << >> = Encoding(v)
      BY Zenon, <2>3, <2>6, <3>1 DEF ReplyInv, BufferIs
    <3>3. rep.buf \o << >> = rep.buf
      BY Zenon, <3>2, ConcatEmptySeq
    <3>4. v \in Values
      BY Zenon, <1>2, <2>6, ScenarioIs
    <3> QED
      BY Zenon, <2>1, <3>2, <3>3, <3>4
  <2>9. u.buf = Encoding(v) /\ IsReader(u) /\ u.ok /\ u.ind = HeaderSize
    BY Zenon, <2>6, <2>8, StartIsReader DEF TakenIn
  <2>10. Holds(u, u.ind, Encoding(v))
    <3>1. << >> \in Seq(Bytes) /\ Encoding(v) = << >> \o (Encoding(v) \o << >>)
      <4>1. PICK b : b = Encoding(v)
        OBVIOUS
      <4>2. b \in Seq(Bytes)
        BY Zenon, <2>8, <4>1
      <4>3. << >> \in Seq(Bytes) /\ b = << >> \o (b \o << >>)
        BY <4>2
      <4> QED
        BY Zenon, <4>1, <4>3
    <3>2. Holds(u, HeaderSize + Len(<< >>), Encoding(v))
      BY Zenon, <2>8, <2>9, <3>1, HoldsMiddle
    <3>3. HeaderSize + Len(<< >>) = HeaderSize
      BY DEF HeaderSize
    <3> QED
      BY Zenon, <2>9, <3>2, <3>3
  <2>11. ReadBack(u, v, sc.prior)
    BY Zenon, <2>8, <2>9, <2>10, GetReadsBack
  <2>12. OkDone(g.u) /\ g.val = ReadInto(v, sc.prior)
    BY Zenon, <2>6, <2>9, <2>11 DEF ReadBack, OkDone, SizeOf
  <2> QED
    BY Zenon, <1>1, <2>3, <2>4, <2>6, <2>7, <2>12 DEF ResultAgrees
<1> QED
  BY Zenon, <1>1, <1>3, <1>4 DEF ResultAgrees, TypesAgree

LEMMA ResultNext ==
  ASSUME BufferInv, ServerInv, ReplyInv, ReturnInv, ArgsAgree, ResultAgrees, [Next]_vars
  PROVE  ResultAgrees'
<1> USE DEF callerVars, waitVars, netVars, srvVars
<1>1. CASE UNCHANGED <<sc, pc, ret, r>> /\ (ran => ran')
  BY Zenon, <1>1 DEF ResultAgrees, TypesAgree
<1>2. CASE pc' # "returned"
  BY Zenon, <1>2 DEF ResultAgrees
<1>3. CASE MarshalArgs \/ GotRequest \/ UnmarshalArg \/ ServerCrashes \/ RunHandler \/ MarshalResult
  BY <1>1, <1>3 DEF MarshalArgs, GotRequest, UnmarshalArg, ServerCrashes, RunHandler, MarshalResult
<1>4. CASE SendReply \/ Duplicate \/ ConnDies \/ Tick \/ GotReply \/ UNCHANGED vars
  BY <1>1, <1>4 DEF SendReply, Duplicate, ConnDies, Tick, GotReply, vars
<1>5. CASE Start \/ GetConn \/ Send \/ SetDeadline \/ CallerCrashes
  BY <1>2, <1>5 DEF Start, GetConn, Send, SetDeadline, AfterTransmit, CallerCrashes
<1>6. CASE TimedOut \/ Spin \/ SeesReply
  BY <1>2, <1>6 DEF TimedOut, Spin, SeesReply, AfterTransmit
<1>7. CASE Return
  BY Zenon, <1>7, ResultReturned
<1> QED
  BY <1>3, <1>4, <1>5, <1>6, <1>7 DEF Next, CallerNext, CallerGoesOn, ServerNext

AgreeInv == ExactInv /\ ArgsAgree /\ ResultAgrees

LEMMA AgreeInvHolds == Spec => []AgreeInv
<1>1. Init => ArgsAgree /\ ResultAgrees
  <2>1. Init => pc # "returned"
    BY DEF Init
  <2> QED
    BY Zenon, <2>1, ArgsInit DEF ResultAgrees
<1>2. ExactInv /\ ArgsAgree /\ ResultAgrees /\ [Next]_vars => (ArgsAgree /\ ResultAgrees)'
  BY Zenon, ArgsNext, ResultNext DEF ExactInv
<1> QED
  BY <1>1, <1>2, ExactInvHolds, PTL DEF Spec, AgreeInv

\* If rpcc::call and the handler given to rpcs::reg agree on the types, the
\* handler is called with the values passed, however many of them and however
\* long, and a call that is answered returns what the handler returned and its
\* result: what operator>> reads is what operator<< has written.
THEOREM TypedResultHolds == Spec => []TypedResult
<1>1. ASSUME AgreeInv PROVE TypedResult
  <2>1. ASSUME TypesAgree, ran PROVE saw = sc.args
    <3>1. spc \in {"reply", "done"}
      BY Zenon, <1>1, <2>1 DEF AgreeInv, ExactInv, ServerInv
    <3> QED
      BY Zenon, <1>1, <2>1, <3>1 DEF AgreeInv, ArgsAgree
  <2>2. ASSUME TypesAgree, pc = "returned"
        PROVE  \/ ret = timeout_failure /\ r = sc.prior
               \/ /\ ran /\ ret = sc.b
                  /\ r = IF sc.rtype = "vector" THEN sc.prior \o sc.res.val ELSE sc.res.val
    BY Zenon, <1>1, <2>2 DEF AgreeInv, ResultAgrees, ReadInto, TypesAgree
  <2> QED
    BY Zenon, <2>1, <2>2 DEF TypedResult
<1> QED
  BY <1>1, AgreeInvHolds, PTL

=============================================================================

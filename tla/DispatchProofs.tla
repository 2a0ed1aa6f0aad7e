---------------------------- MODULE DispatchProofs ----------------------------
(***************************************************************************)
(* Proofs about modules XidWindow and Dispatch, for any number of workers, *)
(* connections and calls: xid_rep_window_ is exact, references are counted *)
(* exactly, the buffers of the replies are owned, there while a caller     *)
(* waits for them, and freed in the end, and each handler starts once.     *)
(***************************************************************************)
EXTENDS Dispatch, Recursion, FiniteSetTheorems, SequenceTheorems, TLAPS

-----------------------------------------------------------------------------
(* xid_rep_window_.                                                        *)

Sorted(s) == \A i, j \in 1..Len(s) : i < j => s[i] <= s[j]

\* A list of xids as update_xid_rep finds it.
IsWindow(s) == s \in Seq(Nat) /\ s # <<>> /\ Sorted(s)

LEMMA MinOf ==
  ASSUME NEW I, I \subseteq Nat, I # {}
  PROVE  Min(I) \in I /\ \A j \in I : Min(I) <= j
<1>1. \E i \in I : \A j \in I : i <= j
  BY LeastNat
<1> QED
  BY Zenon, <1>1 DEF Min

IsInsertion(t, s, x, k) ==
  /\ t \in Seq(Nat) /\ Len(t) = Len(s) + 1
  /\ t[k] = x
  /\ \A i \in 1..Len(s) : i < k => t[i] = s[i]
  /\ \A i \in 1..Len(s) : i >= k => t[i + 1] = s[i]

\* Where std::list::insert puts x, and that it is where the order has it.
LEMMA InsertedIs ==
  ASSUME NEW s, IsWindow(s), NEW x \in Nat
  PROVE  \E k \in 1..Len(s) + 1 :
           /\ \A i \in 1..Len(s) : IF i < k THEN s[i] <= x ELSE s[i] > x
           /\ IsInsertion(Inserted(s, x), s, x, k)
<1> DEFINE I == {i \in 1..Len(s) : s[i] > x}
           n == Len(s)
<1>1. s \in Seq(Nat) /\ n \in Nat /\ \A i \in 1..n : s[i] \in Nat
  BY DEF IsWindow
<1>2. Inserted(s, x) = IF (IF I # {} THEN Min(I) ELSE 0) = 0 THEN Append(s, x)
                       ELSE InsertAt(s, IF I # {} THEN Min(I) ELSE 0, x)
  BY DEF Inserted, SelectInSeq
<1>3. CASE I = {}
  <2>1. Inserted(s, x) = Append(s, x)
    BY <1>2, <1>3
  <2>2. \A i \in 1..n : s[i] <= x
    BY <1>1, <1>3
  <2>3. /\ Append(s, x) \in Seq(Nat) /\ Len(Append(s, x)) = n + 1
        /\ \A i \in 1..n : Append(s, x)[i] = s[i]
        /\ Append(s, x)[n + 1] = x
    BY <1>1, AppendProperties
  <2>5. IsInsertion(Append(s, x), s, x, n + 1)
    BY <1>1, <2>3 DEF IsInsertion
  <2>4. n + 1 \in 1..n + 1 /\ \A i \in 1..n : IF i < n + 1 THEN s[i] <= x ELSE s[i] > x
    BY <1>1, <2>2
  <2> QED
    BY <2>1, <2>4, <2>5
<1>4. CASE I # {}
  <2>1. PICK k \in 1..n : k = Min(I) /\ s[k] > x /\ \A j \in I : k <= j
    <3>1. I \subseteq Nat
      OBVIOUS
    <3>2. Min(I) \in I /\ \A j \in I : Min(I) <= j
      <4> HIDE DEF I
      <4> QED
        BY <1>4, <3>1, MinOf
    <3> QED
      BY <3>2
  <2>2. Inserted(s, x) = InsertAt(s, k, x)
    <3>1. k # 0
      OBVIOUS
    <3> HIDE DEF I
    <3> QED
      BY Zenon, <1>2, <1>4, <2>1, <3>1
  <2>3. \A i \in 1..n : IF i < k THEN s[i] <= x ELSE s[i] > x
    <3> SUFFICES ASSUME NEW i \in 1..n
                 PROVE  IF i < k THEN s[i] <= x ELSE s[i] > x
      OBVIOUS
    <3>1. CASE i < k
      BY <1>1, <2>1, <3>1
    <3>2. CASE i >= k
      <4>1. s[k] <= s[i]
        BY <1>1, <2>1, <3>2 DEF IsWindow, Sorted
      <4> QED
        BY <1>1, <2>1, <3>2, <4>1
    <3> QED
      BY <3>1, <3>2
  <2>4. IsInsertion(InsertAt(s, k, x), s, x, k)
    <3> DEFINE a == SubSeq(s, 1, k - 1)
               b == SubSeq(s, k, n)
               c == a \o <<x>>
    <3>1. /\ a \in Seq(Nat) /\ Len(a) = k - 1 /\ \A i \in 1..k - 1 : a[i] = s[i]
          /\ b \in Seq(Nat) /\ Len(b) = n - k + 1
          /\ \A i \in 1..n - k + 1 : b[i] = s[k + i - 1]
      BY <1>1
    <3>2. InsertAt(s, k, x) = c \o b
      BY DEF InsertAt
    <3>3. <<x>> \in Seq(Nat) /\ Len(<<x>>) = 1 /\ <<x>>[1] = x
      OBVIOUS
    <3> HIDE DEF a, b, n
    <3>4. /\ c \in Seq(Nat) /\ Len(c) = Len(a) + Len(<<x>>)
          /\ \A i \in 1..Len(a) + Len(<<x>>) :
               c[i] = IF i <= Len(a) THEN a[i] ELSE <<x>>[i - Len(a)]
      BY Zenon, <3>1, <3>3, ConcatProperties
    <3>9. c \in Seq(Nat) /\ Len(c) = k
      BY <1>1, <3>1, <3>3, <3>4
    <3>5. c[k] = x /\ \A i \in 1..k : i < k => c[i] = s[i]
      <4>1. k - 1 \in Nat /\ \A i \in 1..k : i \in 1..Len(a) + Len(<<x>>)
        BY <1>1, <3>1, <3>3
      <4>2. ASSUME NEW i \in 1..k, i < k PROVE c[i] = s[i]
        <5>1. i \in 1..k - 1 /\ i <= Len(a)
          BY <3>1, <4>2
        <5> QED
          BY <3>1, <3>4, <4>1, <4>2, <5>1
      <4>3. c[k] = x
        <5>1. k \in 1..k /\ ~(k <= Len(a)) /\ k - Len(a) = 1
          BY <1>1, <3>1, <4>1
        <5>2. c[k] = <<x>>[k - Len(a)]
          BY Zenon, <3>4, <4>1, <5>1
        <5> QED
          BY Zenon, <3>3, <5>1, <5>2
      <4> QED
        BY <4>2, <4>3
    <3> HIDE DEF c
    <3>6. /\ c \o b \in Seq(Nat) /\ Len(c \o b) = Len(c) + Len(b)
          /\ \A i \in 1..Len(c) + Len(b) :
               (c \o b)[i] = IF i <= Len(c) THEN c[i] ELSE b[i - Len(c)]
      BY Zenon, <3>1, <3>9, ConcatProperties
    <3>7. Len(c) + Len(b) = n + 1
      BY <1>1, <3>1, <3>9
    <3>8. (c \o b)[k] = x /\ \A i \in 1..n : i < k => (c \o b)[i] = s[i]
      BY <1>1, <3>5, <3>6, <3>7, <3>9
    <3>10. ASSUME NEW i \in 1..n, i >= k PROVE (c \o b)[i + 1] = s[i]
      <4>1. /\ i + 1 \in 1..Len(c) + Len(b) /\ ~(i + 1 <= Len(c))
            /\ (i + 1) - Len(c) = i - k + 1
        BY <1>1, <3>7, <3>9, <3>10
      <4>4. (c \o b)[i + 1] = b[(i + 1) - Len(c)]
        BY Zenon, <3>6, <4>1
      <4>2. (c \o b)[i + 1] = b[i - k + 1]
        BY Zenon, <4>1, <4>4
      <4>3. i - k + 1 \in 1..n - k + 1 /\ k + (i - k + 1) - 1 = i
        BY <1>1, <3>10
      <4> QED
        BY <3>1, <4>2, <4>3
    <3> QED
      BY <3>2, <3>6, <3>7, <3>8, <3>10 DEF IsInsertion, n
  <2>5. k \in 1..n + 1
    BY <1>1
  <2> QED
    BY <2>2, <2>3, <2>4, <2>5
<1> QED
  BY <1>3, <1>4

-----------------------------------------------------------------------------
(* The compress loop.                                                      *)

Rounds(l) == IF l.it > Len(l.xids) THEN 0 ELSE (2 * Len(l.xids) - l.it) + 1

Onward(l) ==
  IF l.it > Len(l.xids) THEN l
  ELSE IF MergesWith(l.xids, l.it)
    THEN [xids |-> Tail(l.xids), it |-> l.it - 1]
    ELSE [xids |-> l.xids, it |-> l.it + 1]

\* The front is never popped in front of itself, so the list is never empty,
\* and every round brings the end nearer.
LEMMA OnwardIs ==
  ASSUME NEW l \in Loops
  PROVE  /\ Onward(l) \in Loops /\ Rounds(l) \in Nat
         /\ l.it <= Len(l.xids) => Rounds(Onward(l)) < Rounds(l)
<1>1. l.xids \in Seq(Nat) /\ l.xids # <<>> /\ l.it \in Nat /\ l.it >= 1
  BY DEF Loops
<1>2. Len(l.xids) \in Nat /\ Len(l.xids) >= 1 /\ Head(l.xids) = l.xids[1] /\ l.xids[1] \in Nat
  BY <1>1
<1>3. Rounds(l) \in Nat
  BY <1>1, <1>2 DEF Rounds
<1>4. CASE l.it > Len(l.xids)
  BY <1>1, <1>2, <1>3, <1>4 DEF Onward
<1>5. CASE l.it <= Len(l.xids) /\ MergesWith(l.xids, l.it)
  <2>1. Onward(l) = [xids |-> Tail(l.xids), it |-> l.it - 1]
    BY <1>1, <1>2, <1>5 DEF Onward
  <2>2. l.it # 1
    BY <1>2, <1>5 DEF MergesWith
  <2>3. Tail(l.xids) \in Seq(Nat) /\ Len(Tail(l.xids)) = Len(l.xids) - 1
    BY Zenon, <1>1, HeadTailProperties
  <2>4. Tail(l.xids) # <<>> /\ l.it - 1 \in Nat \ {0}
    <3>1. Len(Tail(l.xids)) # 0 /\ l.it - 1 \in Nat \ {0}
      <4>1. l.it >= 2 /\ l.it <= Len(l.xids)
        BY <1>1, <1>5, <2>2
      <4>2. PICK n \in Nat : n = Len(l.xids)
        BY <1>2
      <4>3. PICK k \in Nat : k = l.it
        BY <1>1
      <4>4. k >= 2 /\ n >= k
        BY Zenon, <4>1, <4>2, <4>3
      <4>5. n - 1 # 0 /\ k - 1 \in Nat /\ k - 1 # 0
        BY <4>4
      <4> QED
        BY Zenon, <2>3, <4>2, <4>3, <4>5
    <3>2. Len(<< >>) = 0
      OBVIOUS
    <3> QED
      BY Zenon, <3>1, <3>2
  <2>5. Onward(l) \in Loops
    BY <2>1, <2>3, <2>4 DEF Loops
  <2>6. Rounds(Onward(l)) = (2 * (Len(l.xids) - 1) - (l.it - 1)) + 1
    BY <1>1, <1>2, <1>5, <2>1, <2>3 DEF Rounds
  <2>7. Rounds(l) = (2 * Len(l.xids) - l.it) + 1
    BY <1>1, <1>2, <1>5 DEF Rounds
  <2> QED
    BY <1>1, <1>2, <1>3, <2>5, <2>6, <2>7
<1>6. CASE l.it <= Len(l.xids) /\ ~MergesWith(l.xids, l.it)
  <2>1. Onward(l) = [xids |-> l.xids, it |-> l.it + 1]
    BY <1>1, <1>2, <1>6 DEF Onward
  <2>2. Onward(l) \in Loops
    BY <1>1, <2>1 DEF Loops
  <2>3. \/ Rounds(Onward(l)) = 0
        \/ Rounds(Onward(l)) = (2 * Len(l.xids) - (l.it + 1)) + 1
    BY <1>1, <1>2, <1>6, <2>1 DEF Rounds
  <2>4. Rounds(l) = (2 * Len(l.xids) - l.it) + 1
    BY <1>1, <1>2, <1>6 DEF Rounds
  <2> QED
    BY <1>1, <1>2, <1>3, <1>6, <2>2, <2>3, <2>4
<1> QED
  BY <1>1, <1>2, <1>4, <1>5, <1>6

\* The loop ends, so the recursive definition defines what it says.
LEMMA CompressIs ==
  \A l \in Loops :
    compress[l] = IF l.it > Len(l.xids) THEN l.xids ELSE compress[Onward(l)]
<1> DEFINE m == [l \in Loops |-> Rounds(l)]
           next == [l \in Loops |-> Onward(l)]
           stop == {l \in Loops : l.it > Len(l.xids)}
           res == [l \in Loops |-> l.xids]
           Body(f) == [l \in Loops |->
             IF l.it > Len(l.xids) THEN l.xids
             ELSE IF MergesWith(l.xids, l.it)
               THEN f[[xids |-> Tail(l.xids), it |-> l.it - 1]]
               ELSE f[[xids |-> l.xids, it |-> l.it + 1]]]
           Short(f) == [l \in Loops |-> IF l.it > Len(l.xids) THEN l.xids ELSE f[Onward(l)]]
<1>1. /\ m \in [Loops -> Nat] /\ next \in [Loops -> Loops]
      /\ res \in [Loops -> Seq(Nat)]
      /\ \A l \in Loops \ stop : m[next[l]] < m[l]
  <2>1. m \in [Loops -> Nat] /\ next \in [Loops -> Loops]
    BY OnwardIs
  <2>2. res \in [Loops -> Seq(Nat)]
    BY DEF Loops
  <2>3. ASSUME NEW l \in Loops \ stop PROVE m[next[l]] < m[l]
    <3>1. l.it \in Nat /\ Len(l.xids) \in Nat /\ ~(l.it > Len(l.xids))
      BY <2>3 DEF Loops
    <3>2. Onward(l) \in Loops /\ Rounds(Onward(l)) < Rounds(l)
      BY <3>1, OnwardIs
    <3> QED
      BY <3>2
  <2> QED
    BY <2>1, <2>2, <2>3
<1>2. PICK f \in [Loops -> Seq(Nat)] : Follows(f, Loops, next, stop, res)
  <2> HIDE DEF m, next, stop, res
  <2> QED
    BY Zenon, <1>1, LoopRecursion
<1>3. f = Short(f)
  BY <1>2 DEF Follows
<1>4. ASSUME NEW g PROVE Short(g) = Body(g)
  BY DEF Onward
<1>5. compress = CHOOSE g : g = Body(g)
  BY DEF compress
<1>6. compress = Body(compress)
  <2> HIDE DEF Body, Short
  <2> QED
    BY Zenon, <1>3, <1>4, <1>5
<1>7. compress = Short(compress)
  <2> HIDE DEF Body, Short
  <2> QED
    BY Zenon, <1>4, <1>6
<1> QED
  BY Zenon, <1>7

\* The loop invariant, where s is the list at the start of the loop: only
\* numbers from the front of s to the new front were popped, all of which s
\* has, and no element passed so far is the number after the front.
LoopInv(s, l) ==
  /\ l \in Loops /\ Sorted(l.xids)
  /\ ToSet(l.xids) \subseteq ToSet(s)
  /\ \A y \in ToSet(s) : y \in ToSet(l.xids) \/ y < l.xids[1]
  /\ \A y \in Nat : s[1] <= y /\ y <= l.xids[1] => y \in ToSet(s)
  /\ \A j \in 1..Len(l.xids) : j < l.it => l.xids[j] # l.xids[1] + 1

LEMMA TailIs ==
  ASSUME NEW S, NEW a \in Seq(S), a # <<>>
  PROVE  /\ Len(a) \in Nat \ {0} /\ Head(a) = a[1]
         /\ Tail(a) \in Seq(S) /\ Len(Tail(a)) = Len(a) - 1
         /\ \A j \in 1..Len(a) - 1 : Tail(a)[j] = a[j + 1]
<1>1. Tail(a) \in Seq(S) /\ Len(Tail(a)) = Len(a) - 1
  BY Zenon, HeadTailProperties
<1>2. Len(a) \in Nat \ {0}
  BY Zenon, EmptySeq
<1>3. Head(a) = a[1]
  OBVIOUS
<1>4. \A j \in 1..Len(a) - 1 : Tail(a)[j] = a[j + 1]
  OBVIOUS
<1> QED
  BY <1>1, <1>2, <1>3, <1>4

LEMMA ElementsOf ==
  ASSUME NEW a \in Seq(Nat)
  PROVE  /\ ToSet(a) \subseteq Nat
         /\ \A i \in 1..Len(a) : a[i] \in ToSet(a) /\ a[i] \in Nat
         /\ \A y \in ToSet(a) : \E i \in 1..Len(a) : y = a[i]
  BY DEF ToSet

LEMMA OnwardKeeps ==
  ASSUME NEW s, IsWindow(s), NEW l, LoopInv(s, l), l.it <= Len(l.xids)
  PROVE  LoopInv(s, Onward(l))
<1>1. PICK a \in Seq(Nat), it \in Nat : a = l.xids /\ it = l.it /\ a # <<>> /\ it >= 1
  BY DEF LoopInv, Loops
<1>2. /\ Len(a) \in Nat \ {0} /\ Head(a) = a[1] /\ it <= Len(a)
      /\ \A i \in 1..Len(a) : a[i] \in Nat
      /\ \A i, j \in 1..Len(a) : i < j => a[i] <= a[j]
      /\ \A j \in 1..Len(a) : j < it => a[j] # a[1] + 1
  BY <1>1, TailIs DEF LoopInv, Sorted
<1>3. Onward(l) \in Loops
  BY OnwardIs DEF LoopInv
<1>4. CASE a[1] + 1 = a[it]
  <2> DEFINE t == Tail(a)
  <2>1. Onward(l) = [xids |-> t, it |-> it - 1]
    BY <1>1, <1>2, <1>4 DEF Onward, MergesWith
  <2>2. /\ t \in Seq(Nat) /\ Len(t) = Len(a) - 1
        /\ \A j \in 1..Len(a) - 1 : t[j] = a[j + 1]
    BY Zenon, <1>1, TailIs
  <2>3. it >= 2 /\ Len(a) >= 2
    BY <1>1, <1>2, <1>4
  <2>4. t[1] = a[2] /\ a[1] <= a[2] /\ a[2] <= a[1] + 1 /\ a[1] \in Nat /\ a[2] \in Nat
    <3>1. a[2] <= a[it]
      BY <1>2, <2>3
    <3> QED
      BY <1>2, <1>4, <2>2, <2>3, <3>1
  <2> HIDE DEF t
  <2>5. Sorted(t)
    <3> SUFFICES ASSUME NEW i \in 1..Len(t), NEW j \in 1..Len(t), i < j
                 PROVE  t[i] <= t[j]
      BY DEF Sorted
    <3>1. /\ i + 1 \in 1..Len(a) /\ j + 1 \in 1..Len(a) /\ i + 1 < j + 1
          /\ t[i] = a[i + 1] /\ t[j] = a[j + 1]
      BY <1>2, <2>2
    <3>2. a[i + 1] <= a[j + 1]
      BY <1>2, <3>1
    <3> QED
      BY <3>1, <3>2
  <2>6. ToSet(t) \subseteq ToSet(a)
    <3>1. \A j \in 1..Len(t) : j + 1 \in 1..Len(a) /\ t[j] = a[j + 1]
      BY <1>2, <2>2
    <3> SUFFICES ASSUME NEW y \in ToSet(t) PROVE y \in ToSet(a)
      OBVIOUS
    <3>2. PICK j \in 1..Len(t) : y = t[j]
      BY Zenon, <2>2, ElementsOf
    <3> QED
      BY Zenon, <3>1, <3>2, ElementsOf
  <2>7. \A y \in ToSet(a) : y \in ToSet(t) \/ y < t[1]
    <3> SUFFICES ASSUME NEW y \in ToSet(a) PROVE y \in ToSet(t) \/ y < t[1]
      OBVIOUS
    <3>1. PICK i \in 1..Len(a) : y = a[i]
      BY ElementsOf
    <3>2. CASE i = 1
      <4>1. CASE a[2] = a[1]
        <5>1. t[1] \in ToSet(t)
          BY SMTT(30), <1>2, <2>2, <2>3, ElementsOf
        <5> QED
          BY <2>4, <3>1, <3>2, <4>1, <5>1
      <4>2. CASE a[2] # a[1]
        BY <2>4, <3>1, <3>2, <4>2
      <4> QED
        BY <4>1, <4>2
    <3>3. CASE i # 1
      <4>1. i - 1 \in 1..Len(t) /\ t[i - 1] = a[i]
        BY <1>2, <2>2, <3>3
      <4> QED
        BY <2>2, <3>1, <4>1, ElementsOf
    <3> QED
      BY <3>2, <3>3
  <2>8. \A y \in Nat : s[1] <= y /\ y <= t[1] => y \in ToSet(s)
    <3> SUFFICES ASSUME NEW y \in Nat, s[1] <= y, y <= t[1] PROVE y \in ToSet(s)
      OBVIOUS
    <3>1. CASE y <= a[1]
      BY <1>1, <3>1 DEF LoopInv
    <3>2. CASE ~(y <= a[1])
      <4>1. y = a[2]
        BY <2>4, <3>2
      <4>2. a[2] \in ToSet(a)
        BY <1>2, <2>3, ElementsOf
      <4> QED
        BY <1>1, <4>1, <4>2 DEF LoopInv
    <3> QED
      BY <3>1, <3>2
  <2>9. \A j \in 1..Len(t) : j < it - 1 => t[j] # t[1] + 1
    <3> SUFFICES ASSUME NEW j \in 1..Len(t), j < it - 1 PROVE t[j] # t[1] + 1
      OBVIOUS
    <3>1. j + 1 \in 1..Len(a) /\ j + 1 < it /\ t[j] = a[j + 1] /\ it \in 1..Len(a)
      BY <1>1, <1>2, <2>2
    <3>2. a[j + 1] # a[1] + 1 /\ a[j + 1] <= a[it] /\ a[j + 1] \in Nat
      BY <1>2, <3>1
    <3> QED
      BY SMTT(30), <1>4, <2>4, <3>1, <3>2
  <2>10. \A y \in ToSet(s) : y \in ToSet(t) \/ y < t[1]
    <3> SUFFICES ASSUME NEW y \in ToSet(s) PROVE y \in ToSet(t) \/ y < t[1]
      OBVIOUS
    <3>1. CASE y \in ToSet(a)
      BY <2>7, <3>1
    <3>2. CASE y < a[1]
      <4>1. y \in Nat
        BY ElementsOf DEF IsWindow
      <4> QED
        BY <2>4, <3>2, <4>1
    <3> QED
      BY <1>1, <3>1, <3>2 DEF LoopInv
  <2>11. ToSet(t) \subseteq ToSet(s)
    BY <1>1, <2>6 DEF LoopInv
  <2> QED
    BY <1>3, <2>1, <2>5, <2>8, <2>9, <2>10, <2>11 DEF LoopInv
<1>5. CASE a[1] + 1 # a[it]
  <2>1. Onward(l) = [xids |-> a, it |-> it + 1]
    BY <1>1, <1>2, <1>5 DEF Onward, MergesWith
  <2>2. \A j \in 1..Len(a) : j < it + 1 => a[j] # a[1] + 1
    BY <1>2, <1>5
  <2> QED
    BY <1>1, <1>3, <2>1, <2>2 DEF LoopInv
<1> QED
  BY <1>4, <1>5

\* What the loop makes of the list s.
Merged(s, t) ==
  /\ IsWindow(t)
  /\ ToSet(t) \subseteq ToSet(s)
  /\ \A y \in ToSet(s) : y \in ToSet(t) \/ y < t[1]
  /\ \A y \in Nat : s[1] <= y /\ y <= t[1] => y \in ToSet(s)
  /\ t[1] + 1 \notin ToSet(t)

LEMMA LoopEnds ==
  ASSUME NEW s, NEW l, LoopInv(s, l), l.it > Len(l.xids)
  PROVE  Merged(s, l.xids)
<1>1. l.xids \in Seq(Nat) /\ l.xids # <<>> /\ l.it \in Nat /\ Len(l.xids) \in Nat
  BY DEF LoopInv, Loops
<1>2. l.xids[1] + 1 \notin ToSet(l.xids)
  <2> SUFFICES ASSUME l.xids[1] + 1 \in ToSet(l.xids) PROVE FALSE
    OBVIOUS
  <2>1. PICK j \in 1..Len(l.xids) : l.xids[1] + 1 = l.xids[j]
    BY Zenon, <1>1, ElementsOf
  <2>2. j < l.it
    BY <1>1
  <2> QED
    BY <2>1, <2>2 DEF LoopInv
<1> QED
  BY <1>1, <1>2 DEF Merged, IsWindow, LoopInv

LEMMA CompressMerges ==
  ASSUME NEW s, IsWindow(s)
  PROVE  Merged(s, compress[[xids |-> s, it |-> 2]])
<1> DEFINE Good(l) == LoopInv(s, l) => Merged(s, compress[l])
           P == {n \in Nat : \A l \in Loops : Rounds(l) <= n => Good(l)}
<1>1. ASSUME NEW l \in Loops, ~Good(l)
      PROVE  Onward(l) \in Loops /\ Rounds(Onward(l)) < Rounds(l) /\ ~Good(Onward(l))
  <2>1. LoopInv(s, l) /\ ~Merged(s, compress[l])
    BY <1>1
  <2>2. l.it \in Nat /\ Len(l.xids) \in Nat
    BY DEF Loops
  <2>3. ~(l.it > Len(l.xids))
    <3> SUFFICES ASSUME l.it > Len(l.xids) PROVE FALSE
      OBVIOUS
    <3>1. compress[l] = l.xids
      BY CompressIs
    <3> QED
      BY <2>1, <3>1, LoopEnds
  <2>4. compress[l] = compress[Onward(l)]
    BY <2>3, CompressIs
  <2>5. l.it <= Len(l.xids)
    BY <2>2, <2>3
  <2>6. LoopInv(s, Onward(l))
    BY <2>1, <2>5, OnwardKeeps
  <2> QED
    BY <2>1, <2>4, <2>5, <2>6, OnwardIs
<1> HIDE DEF Good
<1>2. 0 \in P
  <2> SUFFICES ASSUME NEW l \in Loops, Rounds(l) <= 0, ~Good(l) PROVE FALSE
    OBVIOUS
  <2>1. Onward(l) \in Loops /\ Rounds(Onward(l)) < Rounds(l)
    BY <1>1
  <2>2. Rounds(Onward(l)) \in Nat /\ Rounds(l) \in Nat
    BY <2>1, OnwardIs
  <2> QED
    BY <2>1, <2>2
<1>3. ASSUME NEW n \in Nat, n \in P PROVE n + 1 \in P
  <2> SUFFICES ASSUME NEW l \in Loops, Rounds(l) <= n + 1, ~Good(l) PROVE FALSE
    OBVIOUS
  <2>1. Onward(l) \in Loops /\ Rounds(Onward(l)) < Rounds(l) /\ ~Good(Onward(l))
    BY <1>1
  <2>2. Rounds(Onward(l)) \in Nat /\ Rounds(l) \in Nat
    BY <2>1, OnwardIs
  <2>3. Rounds(Onward(l)) <= n
    BY <2>1, <2>2
  <2> QED
    BY <1>3, <2>1, <2>3
<1>4. Nat \subseteq P
  <2> HIDE DEF P
  <2> QED
    BY <1>2, <1>3, SetInduction
<1> DEFINE l0 == [xids |-> s, it |-> 2]
<1>5. l0 \in Loops /\ l0.xids = s /\ l0.it = 2
  BY DEF Loops, IsWindow
<1> HIDE DEF l0
<1>6. LoopInv(s, l0)
  <2>1. s \in Seq(Nat) /\ s[1] \in Nat
    BY TailIs DEF IsWindow
  <2>2. \A j \in 1..Len(s) : j < 2 => s[j] # s[1] + 1
    BY <2>1
  <2>3. \A y \in Nat : s[1] <= y /\ y <= s[1] => y \in ToSet(s)
    <3>1. s[1] \in ToSet(s)
      BY <2>1, TailIs, ElementsOf DEF IsWindow
    <3> QED
      BY <2>1, <3>1
  <2> QED
    BY <1>5, <2>2, <2>3 DEF LoopInv, IsWindow
<1>7. Good(l0)
  <2>1. Rounds(l0) \in Nat /\ Rounds(l0) <= Rounds(l0)
    BY <1>5, OnwardIs
  <2> QED
    BY <1>4, <1>5, <2>1
<1> QED
  BY <1>6, <1>7 DEF Good, l0

-----------------------------------------------------------------------------
(* update_xid_rep keeps the window exact.                                  *)

WindowInv ==
  /\ window \in Seq(0..MaxXid) /\ window # <<>> /\ reported \subseteq Xids
  /\ WindowIsExact

\* WindowIsExact in terms of the elements.
IsExact(t, R) ==
  /\ \A y \in Nat : 1 <= y /\ y <= t[1] => y \in R
  /\ t[1] + 1 \notin R
  /\ \A y \in ToSet(t) : y >= t[1] /\ (y > t[1] => y \in R)
  /\ \A y \in R : y > t[1] => y \in ToSet(t)
  /\ Sorted(t)

LEMMA ExactIs ==
  ASSUME NEW t \in Seq(Nat), t # <<>>, NEW R, R \subseteq Nat
  PROVE  IsExact(t, R) <=>
           /\ 1..Head(t) \subseteq R /\ Head(t) + 1 \notin R
           /\ {t[i] : i \in 2..Len(t)} \ {Head(t)} = {x \in R : x > Head(t)}
           /\ \A i, j \in 1..Len(t) : i < j => t[i] <= t[j]
<1>1. Len(t) \in Nat \ {0} /\ Head(t) = t[1] /\ 1 \in 1..Len(t) /\ t[1] \in Nat
  BY TailIs
<1>2. PICK h \in Nat : h = t[1]
  BY <1>1
<1>3. 1..h \subseteq R <=> \A y \in Nat : 1 <= y /\ y <= h => y \in R
  OBVIOUS
<1>4. Sorted(t) => \A y \in ToSet(t) : y >= h
  <2> SUFFICES ASSUME Sorted(t), NEW y \in ToSet(t) PROVE y >= h
    OBVIOUS
  <2>1. PICK i \in 1..Len(t) : y = t[i] /\ t[i] \in Nat
    BY Zenon, ElementsOf
  <2>2. i = 1 \/ 1 < i
    OBVIOUS
  <2> QED
    BY <1>1, <1>2, <2>1, <2>2 DEF Sorted
<1> DEFINE A == {t[i] : i \in 2..Len(t)} \ {h}
<1>5. Sorted(t) => A = {y \in ToSet(t) : y > h}
  <2> SUFFICES ASSUME Sorted(t) PROVE A = {y \in ToSet(t) : y > h}
    OBVIOUS
  <2>1. ASSUME NEW y \in A PROVE y \in ToSet(t) /\ y > h
    <3>1. PICK i \in 2..Len(t) : y = t[i] /\ y # h
      OBVIOUS
    <3>2. i \in 1..Len(t)
      BY <1>1
    <3>3. y \in ToSet(t) /\ y \in Nat
      BY Zenon, <3>1, <3>2, ElementsOf
    <3>4. y >= h
      BY <1>4, <3>3
    <3> QED
      BY <3>1, <3>3, <3>4
  <2>2. ASSUME NEW y \in ToSet(t), y > h PROVE y \in A
    <3>1. PICK i \in 1..Len(t) : y = t[i] /\ t[i] \in Nat
      BY Zenon, ElementsOf
    <3>2. i # 1 /\ y # h
      BY <1>2, <2>2, <3>1
    <3>3. i \in 2..Len(t)
      BY <1>1, <3>2
    <3> QED
      BY <3>1, <3>2, <3>3
  <2> QED
    BY <2>1, <2>2
<1> HIDE DEF A
<1>6. Sorted(t) =>
        (A = {x \in R : x > h} <=>
           /\ \A y \in ToSet(t) : y >= h /\ (y > h => y \in R)
           /\ \A y \in R : y > h => y \in ToSet(t))
  BY <1>4, <1>5
<1>7. A = {t[i] : i \in 2..Len(t)} \ {Head(t)}
  BY <1>1, <1>2 DEF A
<1>8. Sorted(t) <=> \A i, j \in 1..Len(t) : i < j => t[i] <= t[j]
  BY DEF Sorted
<1> QED
  BY Zenon, <1>1, <1>2, <1>3, <1>6, <1>7, <1>8 DEF IsExact

LEMMA InsertedHas ==
  ASSUME NEW s, IsWindow(s), NEW x \in Nat, x > s[1]
  PROVE  /\ IsWindow(Inserted(s, x)) /\ Inserted(s, x)[1] = s[1]
         /\ ToSet(Inserted(s, x)) = ToSet(s) \cup {x}
<1>1. PICK k \in 1..Len(s) + 1 :
        /\ \A i \in 1..Len(s) : IF i < k THEN s[i] <= x ELSE s[i] > x
        /\ IsInsertion(Inserted(s, x), s, x, k)
  BY InsertedIs
<1>2. PICK t : t = Inserted(s, x)
  OBVIOUS
<1>3. PICK n \in Nat : n = Len(s) /\ n >= 1
  BY TailIs DEF IsWindow
<1>4. /\ s \in Seq(Nat) /\ \A i \in 1..n : s[i] \in Nat
      /\ \A i, j \in 1..n : i < j => s[i] <= s[j]
  BY <1>3 DEF IsWindow, Sorted
<1>5. /\ t \in Seq(Nat) /\ Len(t) = n + 1 /\ t[k] = x /\ k \in 1..n + 1
      /\ \A i \in 1..n : i < k => t[i] = s[i]
      /\ \A i \in 1..n : i >= k => t[i + 1] = s[i]
  BY <1>1, <1>2, <1>3 DEF IsInsertion
<1>6. /\ \A i \in 1..n : i < k => s[i] <= x
      /\ \A i \in 1..n : i >= k => s[i] > x
  BY <1>1, <1>3
<1>7. k # 1
  <2> SUFFICES ASSUME k = 1 PROVE FALSE
    OBVIOUS
  <2>1. 1 \in 1..n
    BY <1>3
  <2>2. s[1] > x /\ s[1] \in Nat
    BY <1>4, <1>6, <2>1
  <2> QED
    BY <2>2
<1>8. t[1] = s[1]
  BY <1>3, <1>5, <1>7
\* Where an element of t comes from.
<1>9. ASSUME NEW i \in 1..n + 1
      PROVE  \/ i = k
             \/ i < k /\ i \in 1..n /\ t[i] = s[i] /\ s[i] <= x
             \/ i > k /\ i - 1 \in 1..n /\ t[i] = s[i - 1] /\ s[i - 1] > x
  <2>1. CASE i < k
    BY <1>5, <1>6, <2>1
  <2>2. CASE i > k
    <3>1. PICK j \in 1..n : i = j + 1 /\ j >= k /\ i - 1 = j
      <4>1. i - 1 \in 1..n /\ i = (i - 1) + 1 /\ i - 1 >= k
        BY <2>2, <1>5
      <4> QED
        BY <4>1
    <3> QED
      BY <1>5, <1>6, <2>2, <3>1
  <2> QED
    BY <2>1, <2>2, <1>5
<1>10. Sorted(t)
  <2> SUFFICES ASSUME NEW i \in 1..n + 1, NEW j \in 1..n + 1, i < j PROVE t[i] <= t[j]
    BY <1>5 DEF Sorted
  <2>1. CASE j < k
    <3>1. i < k /\ i \in 1..n /\ j \in 1..n /\ t[i] = s[i] /\ t[j] = s[j]
      BY <1>5, <1>9, <2>1
    <3> QED
      BY <1>4, <3>1
  <2>2. CASE j = k
    <3>1. i < k /\ t[i] = s[i] /\ s[i] <= x
      BY <1>5, <1>9, <2>2
    <3> QED
      BY <1>5, <2>2, <3>1
  <2>3. CASE j > k
    <3>1. j - 1 \in 1..n /\ t[j] = s[j - 1] /\ s[j - 1] > x /\ s[j - 1] \in Nat
      BY <1>4, <1>9, <2>3
    <3>2. CASE i < k
      <4>1. i \in 1..n /\ t[i] = s[i] /\ s[i] <= x /\ s[i] \in Nat
        BY <1>4, <1>9, <3>2
      <4> QED
        BY <3>1, <4>1
    <3>3. CASE i = k
      BY <1>5, <3>1, <3>3
    <3>4. CASE i > k
      <4>1. i - 1 \in 1..n /\ t[i] = s[i - 1] /\ i - 1 < j - 1
        BY <1>9, <3>4
      <4> QED
        BY <1>4, <3>1, <4>1
    <3> QED
      BY <3>2, <3>3, <3>4, <1>5
  <2> QED
    BY <2>1, <2>2, <2>3, <1>5
<1>11. t # << >>
  <2>1. Len(t) # 0 /\ Len(<< >>) = 0
    BY <1>5
  <2> QED
    BY Zenon, <2>1
<1>12. ToSet(t) = ToSet(s) \cup {x}
  <2>1. ASSUME NEW y \in ToSet(t) PROVE y \in ToSet(s) \cup {x}
    <3>1. PICK i \in 1..n + 1 : y = t[i]
      BY Zenon, <1>5, ElementsOf
    <3>2. CASE i = k
      BY <1>5, <3>1, <3>2
    <3>3. CASE i < k
      <4>1. i \in 1..Len(s) /\ y = s[i]
        BY <1>3, <1>5, <1>9, <3>1, <3>3
      <4> QED
        BY Zenon, <1>4, <4>1, ElementsOf
    <3>4. CASE i > k
      <4>1. i - 1 \in 1..Len(s) /\ y = s[i - 1]
        BY <1>3, <1>5, <1>9, <3>1, <3>4
      <4> QED
        BY Zenon, <1>4, <4>1, ElementsOf
    <3> QED
      BY <1>5, <3>2, <3>3, <3>4
  <2>2. x \in ToSet(t)
    BY Zenon, <1>5, ElementsOf
  <2>3. ASSUME NEW y \in ToSet(s) PROVE y \in ToSet(t)
    <3>1. PICK i \in 1..n : y = s[i]
      BY Zenon, <1>3, <1>4, ElementsOf
    <3>2. CASE i < k
      <4>1. i \in 1..Len(t) /\ y = t[i]
        BY <1>5, <3>1, <3>2
      <4> QED
        BY Zenon, <1>5, <4>1, ElementsOf
    <3>3. CASE i >= k
      <4>1. i + 1 \in 1..Len(t) /\ y = t[i + 1]
        BY <1>5, <3>1, <3>3
      <4> QED
        BY Zenon, <1>5, <4>1, ElementsOf
    <3> QED
      BY <1>5, <3>2, <3>3
  <2> QED
    BY <2>1, <2>2, <2>3
<1> QED
  BY <1>2, <1>5, <1>8, <1>10, <1>11, <1>12 DEF IsWindow

LEMMA InRange ==
  ASSUME NEW T, NEW t \in Seq(T), NEW S, ToSet(t) \subseteq S
  PROVE  t \in Seq(S)
<1>1. Len(t) \in Nat /\ t \in [1..Len(t) -> T] /\ DOMAIN t = 1..Len(t)
  BY Zenon, LenProperties
<1>2. t \in [1..Len(t) -> S]
  <2>1. \A i \in 1..Len(t) : t[i] \in S
    BY Zenon, <1>1 DEF ToSet
  <2> QED
    BY Zenon, <1>1, <2>1
<1> QED
  BY ZenonT(40), <1>1, <1>2, SeqDef

LEMMA WindowSeq ==
  ASSUME NEW t \in Seq(0..MaxXid)
  PROVE  t \in Seq(Nat) /\ ToSet(t) \subseteq 0..MaxXid
<1>1. DOMAIN t = 1..Len(t) /\ \A i \in 1..Len(t) : t[i] \in 0..MaxXid
  BY LenProperties
<1>2. ToSet(t) \subseteq 0..MaxXid
  BY Zenon, <1>1 DEF ToSet
<1>3. 0..MaxXid \subseteq Nat
  OBVIOUS
<1>4. t \in Seq(Nat)
  BY Zenon, <1>3, SeqMonotonic
<1> QED
  BY <1>2, <1>4

\* The window after the xid x was reported.
LEMMA UpdatedIsExact ==
  ASSUME NEW s, NEW R, R \subseteq Xids, NEW x \in Xids,
         s \in Seq(0..MaxXid), s # <<>>, IsExact(s, R)
  PROVE  /\ Updated(s, x) \in Seq(0..MaxXid) /\ Updated(s, x) # <<>>
         /\ IsExact(Updated(s, x), R \cup {x})
<1>1. s \in Seq(Nat) /\ IsWindow(s) /\ Head(s) = s[1] /\ s[1] \in Nat /\ x \in Nat /\ x >= 1
  <2>1. s \in Seq(Nat)
    BY WindowSeq
  <2> QED
    BY <2>1, TailIs DEF IsWindow, IsExact, Xids
<1>2. CASE x <= s[1]
  <2>1. Updated(s, x) = s
    BY <1>1, <1>2 DEF Updated
  <2>2. x \in R
    BY <1>1, <1>2 DEF IsExact
  <2>3. R \cup {x} = R
    BY <2>2
  <2> QED
    BY Zenon, <2>1, <2>3
<1>3. CASE x > s[1]
  <2>1. PICK a : a = Inserted(s, x)
    OBVIOUS
  <2>2. PICK t : t = compress[[xids |-> a, it |-> 2]]
    OBVIOUS
  <2>3. Updated(s, x) = t
    BY <1>1, <1>3, <2>1, <2>2 DEF Updated
  <2>4. IsWindow(a) /\ a[1] = s[1] /\ ToSet(a) = ToSet(s) \cup {x}
    BY <1>1, <1>3, <2>1, InsertedHas
  <2>5. Merged(a, t)
    BY <2>2, <2>4, CompressMerges
  <2>6. /\ t \in Seq(Nat) /\ t # <<>> /\ Sorted(t) /\ t[1] \in Nat /\ t[1] \in ToSet(t)
        /\ ToSet(t) \subseteq ToSet(a) /\ ToSet(a) \subseteq Nat
    <3>1. t \in Seq(Nat) /\ t # <<>> /\ Sorted(t) /\ ToSet(t) \subseteq ToSet(a)
      BY <2>5 DEF Merged, IsWindow
    <3>2. 1 \in 1..Len(t)
      BY <3>1, TailIs
    <3>3. t[1] \in Nat /\ t[1] \in ToSet(t)
      BY Zenon, <3>1, <3>2, ElementsOf
    <3>4. ToSet(a) \subseteq Nat
      BY <2>4, ElementsOf DEF IsWindow
    <3> QED
      BY <3>1, <3>3, <3>4
  \* The front does not move back.
  <2>7. \A y \in ToSet(t) : y >= t[1] /\ y >= s[1]
    <3> SUFFICES ASSUME NEW y \in ToSet(t) PROVE y >= t[1] /\ y >= s[1]
      OBVIOUS
    <3>1. PICK i \in 1..Len(t) : y = t[i] /\ t[i] \in Nat
      BY Zenon, <2>6, ElementsOf
    <3>2. 1 \in 1..Len(t) /\ (i = 1 \/ 1 < i)
      BY <2>6, TailIs
    <3>3. y >= t[1]
      BY <2>6, <3>1, <3>2 DEF Sorted
    <3>4. y \in ToSet(s) \/ y = x
      BY <2>4, <2>6
    <3>5. y >= s[1]
      BY <1>1, <1>3, <3>4 DEF IsExact
    <3> QED
      BY <3>3, <3>5
  <2>8. t[1] >= s[1]
    BY <2>6, <2>7
  <2>9. \A y \in ToSet(a) : y > s[1] => y \in R \cup {x}
    BY <2>4 DEF IsExact
  <2>10. \A y \in R \cup {x} : y > s[1] => y \in ToSet(a)
    BY <2>4 DEF IsExact
  <2>11. \A y \in Nat : 1 <= y /\ y <= t[1] => y \in R \cup {x}
    <3> SUFFICES ASSUME NEW y \in Nat, 1 <= y, y <= t[1] PROVE y \in R \cup {x}
      OBVIOUS
    <3>1. CASE y <= s[1]
      BY <3>1 DEF IsExact
    <3>2. CASE y > s[1]
      <4>1. a[1] <= y
        BY <1>1, <2>4, <3>2
      <4>2. y \in ToSet(a)
        BY <2>5, <4>1 DEF Merged
      <4> QED
        BY <2>9, <3>2, <4>2
    <3> QED
      BY <1>1, <3>1, <3>2
  <2>12. t[1] + 1 \notin R \cup {x}
    <3> SUFFICES ASSUME t[1] + 1 \in R \cup {x} PROVE FALSE
      OBVIOUS
    <3>1. t[1] + 1 \in ToSet(a)
      BY <1>1, <2>6, <2>8, <2>10
    <3>2. t[1] + 1 \in ToSet(t) \/ t[1] + 1 < t[1]
      BY Zenon, <2>5, <3>1 DEF Merged
    <3>3. ~(t[1] + 1 < t[1])
      BY <2>6
    <3> QED
      BY Zenon, <2>5, <3>2, <3>3 DEF Merged
  <2>13. \A y \in ToSet(t) : y > t[1] => y \in R \cup {x}
    <3> SUFFICES ASSUME NEW y \in ToSet(t), y > t[1] PROVE y \in R \cup {x}
      OBVIOUS
    <3>1. y \in Nat /\ y \in ToSet(a) /\ y > s[1]
      BY <1>1, <2>6, <2>8
    <3> QED
      BY <2>9, <3>1
  <2>14. \A y \in R \cup {x} : y > t[1] => y \in ToSet(t)
    <3> SUFFICES ASSUME NEW y \in R \cup {x}, y > t[1] PROVE y \in ToSet(t)
      OBVIOUS
    <3>1. y \in Nat /\ y > s[1]
      BY <1>1, <2>6, <2>8 DEF Xids
    <3>2. y \in ToSet(a)
      BY <2>10, <3>1
    <3>3. y \in ToSet(t) \/ y < t[1]
      BY Zenon, <2>5, <3>2 DEF Merged
    <3> QED
      BY <2>6, <3>1, <3>3
  <2>15. IsExact(t, R \cup {x})
    BY <2>6, <2>7, <2>11, <2>12, <2>13, <2>14 DEF IsExact
  <2>16. ToSet(t) \subseteq 0..MaxXid
    <3>1. ToSet(s) \subseteq 0..MaxXid
      BY WindowSeq
    <3> QED
      BY <2>4, <2>6, <3>1 DEF Xids
  <2>17. t \in Seq(0..MaxXid)
    BY <2>6, <2>16, InRange
  <2> QED
    BY <2>3, <2>6, <2>15, <2>17
<1> QED
  BY <1>1, <1>2, <1>3

LEMMA UpdateXidRepKeeps ==
  ASSUME WindowInv, NEW x \in Xids, UpdateXidRep(x)
  PROVE  WindowInv'
<1>1. \A t \in Seq(0..MaxXid) : t \in Seq(Nat)
  BY Zenon, WindowSeq
<1>2. window \in Seq(Nat) /\ reported \subseteq Nat /\ reported \cup {x} \subseteq Xids
  BY <1>1 DEF WindowInv, Xids
<1>3. IsExact(window, reported)
  BY Zenon, <1>2, ExactIs DEF WindowInv, WindowIsExact
<1>4. PICK t : t = Updated(window, x)
  OBVIOUS
<1>5. t \in Seq(0..MaxXid) /\ t # <<>> /\ IsExact(t, reported \cup {x})
  BY Zenon, <1>3, <1>4, UpdatedIsExact DEF WindowInv
<1>6. t \in Seq(Nat) /\ reported \cup {x} \subseteq Nat
  BY <1>1, <1>2, <1>5 DEF Xids
<1>7. window' = t /\ reported' = reported \cup {x}
  BY <1>4 DEF UpdateXidRep
<1>8. /\ 1..Head(t) \subseteq reported \cup {x} /\ Head(t) + 1 \notin reported \cup {x}
      /\ {t[i] : i \in 2..Len(t)} \ {Head(t)} = {y \in reported \cup {x} : y > Head(t)}
      /\ \A i, j \in 1..Len(t) : i < j => t[i] <= t[j]
  BY Zenon, <1>5, <1>6, ExactIs
<1>9. WindowIsExact'
  BY Zenon, <1>7, <1>8 DEF WindowIsExact
<1> QED
  BY Zenon, <1>2, <1>5, <1>7, <1>9 DEF WindowInv

-----------------------------------------------------------------------------
(* reply_window_: lists of entries.                                        *)

Entries == [xid : Xids, done : BOOLEAN]

\* No xid has two entries.
Unique(s) == \A i, j \in 1..Len(s) : s[i].xid = s[j].xid => i = j

LEMMA MembersOf ==
  ASSUME NEW S, NEW s \in Seq(S)
  PROVE  /\ Len(s) \in Nat /\ DOMAIN s = 1..Len(s)
         /\ \A i \in 1..Len(s) : s[i] \in ToSet(s) /\ s[i] \in S
         /\ \A e \in ToSet(s) : e \in S /\ \E i \in 1..Len(s) : e = s[i]
<1>1. Len(s) \in Nat /\ DOMAIN s = 1..Len(s) /\ \A i \in 1..Len(s) : s[i] \in S
  BY Zenon, LenProperties, ElementOfSeq
<1>2. ToSet(s) = {s[i] : i \in 1..Len(s)}
  BY Zenon, <1>1 DEF ToSet
<1> QED
  BY Zenon, <1>1, <1>2

LEMMA MemberAt ==
  ASSUME NEW S, NEW s, s \in Seq(S), NEW e, e \in ToSet(s)
  PROVE  \E i \in 1..Len(s) : e = s[i]
  BY Zenon, MembersOf

LEMMA AppendedIs ==
  ASSUME NEW S, NEW s \in Seq(S), NEW e \in S
  PROVE  Append(s, e) \in Seq(S) /\ ToSet(Append(s, e)) = ToSet(s) \cup {e}
<1>0. PICK t : t = Append(s, e)
  OBVIOUS
<1>1. /\ t \in Seq(S) /\ Len(t) = Len(s) + 1 /\ Len(s) \in Nat
      /\ \A i \in 1..Len(s) : t[i] = s[i]
      /\ t[Len(s) + 1] = e
  BY <1>0, AppendProperties, LenProperties
<1>2. ASSUME NEW f \in ToSet(t) PROVE f \in ToSet(s) \cup {e}
  <2>5. t \in Seq(S)
    BY <1>1
  <2>4. PICK i \in 1..Len(t) : f = t[i]
    BY Zenon, <1>2, <2>5, MemberAt
  <2>1. i \in 1..Len(s) + 1 /\ f = t[i]
    BY <1>1, <2>4
  <2>2. CASE i = Len(s) + 1
    BY <1>1, <2>1, <2>2
  <2>3. CASE i \in 1..Len(s)
    BY Zenon, <1>1, <2>1, <2>3, MembersOf
  <2> QED
    BY <1>1, <2>2, <2>3
<1>3. ASSUME NEW f \in ToSet(s) PROVE f \in ToSet(t)
  <2>1. PICK i \in 1..Len(s) : f = s[i]
    BY Zenon, MembersOf
  <2>2. i \in 1..Len(t)
    BY <1>1
  <2> QED
    BY Zenon, <1>1, <2>1, <2>2, MembersOf
<1>4. e \in ToSet(t)
  <2>1. Len(s) + 1 \in 1..Len(t)
    BY <1>1
  <2> QED
    BY Zenon, <1>1, <2>1, MembersOf
<1>5. ToSet(t) = ToSet(s) \cup {e}
  BY <1>2, <1>3, <1>4
<1> QED
  BY <1>0, <1>1, <1>5

LEMMA ConcatIs ==
  ASSUME NEW S, NEW s \in Seq(S), NEW t \in Seq(S)
  PROVE  s \o t \in Seq(S) /\ ToSet(s \o t) = ToSet(s) \cup ToSet(t)
<1>0. PICK c : c = s \o t
  OBVIOUS
<1>1. /\ c \in Seq(S) /\ Len(c) = Len(s) + Len(t)
      /\ \A i \in 1..Len(s) + Len(t) :
           c[i] = IF i <= Len(s) THEN s[i] ELSE t[i - Len(s)]
  BY Zenon, <1>0, ConcatProperties
<1>2. Len(s) \in Nat /\ Len(t) \in Nat
  BY Zenon, LenProperties
<1>3. ASSUME NEW f \in ToSet(c) PROVE f \in ToSet(s) \cup ToSet(t)
  <2>4. PICK i \in 1..Len(c) : f = c[i]
    BY Zenon, <1>1, <1>3, MemberAt
  <2>1. i \in 1..Len(s) + Len(t) /\ f = c[i]
    BY <1>1, <2>4
  <2>2. CASE i <= Len(s)
    <3>1. i \in 1..Len(s) /\ c[i] = s[i]
      BY <1>1, <1>2, <2>2
    <3> QED
      BY Zenon, <2>1, <3>1, MembersOf
  <2>3. CASE ~(i <= Len(s))
    <3>1. i - Len(s) \in 1..Len(t)
      BY <1>2, <2>1, <2>3
    <3>2. c[i] = t[i - Len(s)]
      BY Zenon, <1>1, <2>3
    <3> QED
      BY Zenon, <2>1, <3>1, <3>2, MembersOf
  <2> QED
    BY <2>2, <2>3
<1>4. ASSUME NEW f \in ToSet(s) PROVE f \in ToSet(c)
  <2>1. PICK i \in 1..Len(s) : f = s[i]
    BY Zenon, MembersOf
  <2>2. i \in 1..Len(s) + Len(t) /\ i <= Len(s)
    BY <1>2
  <2>3. c[i] = s[i]
    BY Zenon, <1>1, <2>2
  <2> QED
    BY Zenon, <1>1, <2>1, <2>2, <2>3, MembersOf
<1>5. ASSUME NEW f \in ToSet(t) PROVE f \in ToSet(c)
  <2>1. PICK i \in 1..Len(t) : f = t[i]
    BY Zenon, MembersOf
  <2>2. PICK j \in 1..Len(s) + Len(t) : ~(j <= Len(s)) /\ j - Len(s) = i
    <3>1. i + Len(s) \in 1..Len(s) + Len(t) /\ ~(i + Len(s) <= Len(s)) /\ (i + Len(s)) - Len(s) = i
      BY <1>2
    <3> QED
      BY <3>1
  <2>3. c[j] = t[j - Len(s)]
    BY Zenon, <1>1, <2>2
  <2> QED
    BY Zenon, <1>1, <2>1, <2>2, <2>3, MembersOf
<1>6. ToSet(c) = ToSet(s) \cup ToSet(t)
  BY <1>3, <1>4, <1>5
<1> QED
  BY <1>0, <1>1, <1>6

\* Two lists that share no xid, one after the other.
LEMMA ConcatUnique ==
  ASSUME NEW s \in Seq(Entries), NEW t \in Seq(Entries), Unique(s), Unique(t),
         \A e \in ToSet(s), f \in ToSet(t) : e.xid # f.xid
  PROVE  Unique(s \o t)
<1> DEFINE c == s \o t
<1>1. /\ c \in Seq(Entries) /\ Len(c) = Len(s) + Len(t)
      /\ \A i \in 1..Len(s) + Len(t) :
           c[i] = IF i <= Len(s) THEN s[i] ELSE t[i - Len(s)]
  BY Zenon, ConcatProperties
<1>2. Len(s) \in Nat /\ Len(t) \in Nat
  BY Zenon, LenProperties
<1> HIDE DEF c
<1>3. ASSUME NEW i \in 1..Len(s) + Len(t)
      PROVE  \/ i \in 1..Len(s) /\ c[i] = s[i] /\ c[i] \in ToSet(s)
             \/ \E k \in 1..Len(t) : i = Len(s) + k /\ c[i] = t[k] /\ c[i] \in ToSet(t)
  <2>1. CASE i <= Len(s)
    <3>1. i \in 1..Len(s) /\ c[i] = s[i]
      BY <1>1, <1>2, <2>1
    <3> QED
      BY Zenon, <3>1, MembersOf
  <2>2. CASE ~(i <= Len(s))
    <3>1. i - Len(s) \in 1..Len(t) /\ i = Len(s) + (i - Len(s))
      BY <1>2, <2>2
    <3>2. c[i] = t[i - Len(s)]
      BY Zenon, <1>1, <2>2
    <3> QED
      BY Zenon, <3>1, <3>2, MembersOf
  <2> QED
    BY <2>1, <2>2
<1>4. ASSUME NEW i \in 1..Len(c), NEW j \in 1..Len(c), c[i].xid = c[j].xid
      PROVE  i = j
  <2>1. i \in 1..Len(s) + Len(t) /\ j \in 1..Len(s) + Len(t)
    BY <1>1
  <2>2. CASE i \in 1..Len(s) /\ c[i] = s[i] /\ c[i] \in ToSet(s)
    <3>1. j \in 1..Len(s) /\ c[j] = s[j]
      BY Zenon, <1>3, <1>4, <2>1, <2>2
    <3> QED
      BY Zenon, <1>4, <2>2, <3>1 DEF Unique
  <2>3. CASE \E k \in 1..Len(t) : i = Len(s) + k /\ c[i] = t[k] /\ c[i] \in ToSet(t)
    <3>1. PICK k \in 1..Len(t) : i = Len(s) + k /\ c[i] = t[k] /\ c[i] \in ToSet(t)
      BY <2>3
    <3>2. PICK m \in 1..Len(t) : j = Len(s) + m /\ c[j] = t[m]
      BY Zenon, <1>3, <1>4, <2>1, <3>1
    <3>3. k = m
      BY Zenon, <1>4, <3>1, <3>2 DEF Unique
    <3> QED
      BY Zenon, <3>1, <3>2, <3>3
  <2> QED
    BY Zenon, <1>3, <2>1, <2>2, <2>3
<1> QED
  BY Zenon, <1>4 DEF Unique, c

\* A list cut in front of its element p.
CutInto(s, b, f) ==
  /\ b \in Seq(Entries) /\ f \in Seq(Entries) /\ Unique(b) /\ Unique(f)
  /\ ToSet(s) = ToSet(b) \cup ToSet(f)
  /\ \A e \in ToSet(b), g \in ToSet(f) : e.xid # g.xid

LEMMA SplitAt ==
  ASSUME NEW s \in Seq(Entries), Unique(s), NEW p \in 1..Len(s),
         NEW b, b = SubSeq(s, 1, p - 1), NEW f, f = SubSeq(s, p, Len(s))
  PROVE  CutInto(s, b, f)
<1>1. PICK n \in Nat : n = Len(s)
  BY Zenon, LenProperties
<1>2. p \in 1..n /\ \A i \in 1..n : s[i] \in Entries
  BY Zenon, <1>1, MembersOf
<1>3. /\ b \in Seq(Entries) /\ Len(b) = p - 1
      /\ \A i \in 1..p - 1 : b[i] = s[i]
  BY <1>1, <1>2
<1>4. /\ f \in Seq(Entries) /\ Len(f) = n - p + 1
      /\ \A i \in 1..n - p + 1 : f[i] = s[p + i - 1]
  BY <1>1, <1>2
<1>5. Unique(b)
  BY <1>1, <1>2, <1>3 DEF Unique
<1>6. Unique(f)
  <2> SUFFICES ASSUME NEW i \in 1..Len(f), NEW j \in 1..Len(f), f[i].xid = f[j].xid
               PROVE  i = j
    BY DEF Unique
  <2>1. PICK k \in 1..n, m \in 1..n : k = p + i - 1 /\ m = p + j - 1 /\ f[i] = s[k] /\ f[j] = s[m]
    <3>1. p + i - 1 \in 1..n /\ p + j - 1 \in 1..n
      BY <1>2, <1>4
    <3>2. f[i] = s[p + i - 1] /\ f[j] = s[p + j - 1]
      BY <1>4
    <3> QED
      BY <3>1, <3>2
  <2>2. k = m
    BY Zenon, <1>1, <2>1 DEF Unique
  <2> QED
    BY <1>4, <2>1, <2>2
<1>7. s = b \o f
  <2>1. /\ 1 \in 1..n + 1 /\ p - 1 \in 1 - 1..n /\ n \in p - 1..n
        /\ (p - 1) + 1 = p
    BY <1>2
  <2>2. SubSeq(s, 1, p - 1) \o SubSeq(s, (p - 1) + 1, n) = SubSeq(s, 1, n)
    BY Zenon, <1>1, <2>1, ConcatAdjacentSubSeq
  <2>3. SubSeq(s, 1, n) = s
    BY Zenon, <1>1, SubSeqFull
  <2> QED
    BY Zenon, <1>1, <2>1, <2>2, <2>3
<1>8. ToSet(s) = ToSet(b) \cup ToSet(f)
  BY ZenonT(40), <1>3, <1>4, <1>7, ConcatIs
<1>9. ASSUME NEW e \in ToSet(b), NEW g \in ToSet(f), e.xid = g.xid PROVE FALSE
  <2>1. b \in Seq(Entries) /\ f \in Seq(Entries)
    BY <1>3, <1>4
  <2>2. PICK i \in 1..Len(b) : e = b[i]
    BY Zenon, <1>9, <2>1, MemberAt
  <2>3. PICK j \in 1..Len(f) : g = f[j]
    BY Zenon, <1>9, <2>1, MemberAt
  <2>4. i \in 1..p - 1 /\ i \in 1..n /\ e = s[i]
    BY <1>2, <1>3, <2>2
  <2>5. PICK k \in 1..n : k >= p /\ g = s[k]
    <3>1. p + j - 1 \in 1..n /\ p + j - 1 >= p
      BY <1>2, <1>4
    <3>2. g = s[p + j - 1]
      BY <1>4, <2>3
    <3> QED
      BY <3>1, <3>2
  <2>6. i = k
    BY Zenon, <1>1, <1>9, <2>4, <2>5 DEF Unique
  <2> QED
    BY <1>2, <2>4, <2>5, <2>6
<1> QED
  BY Zenon, <1>3, <1>4, <1>5, <1>6, <1>8, <1>9 DEF CutInto

LEMMA AppendUnique ==
  ASSUME NEW s \in Seq(Entries), Unique(s), NEW e \in Entries,
         \A f \in ToSet(s) : f.xid # e.xid
  PROVE  Unique(Append(s, e))
<1>1. PICK t : t = Append(s, e)
  OBVIOUS
<1>2. PICK n \in Nat : n = Len(s)
  BY Zenon, MembersOf
<1>3. Len(t) = n + 1 /\ t[n + 1] = e /\ \A i \in 1..n : t[i] = s[i]
  BY <1>1, <1>2, AppendProperties
<1>4. \A i \in 1..n : t[i].xid # e.xid
  BY Zenon, <1>2, <1>3, MembersOf
<1>5. \A i, j \in 1..n : t[i].xid = t[j].xid => i = j
  BY Zenon, <1>2, <1>3 DEF Unique
<1>6. \A i \in 1..Len(t) : i \in 1..n \/ i = n + 1
  BY <1>3
<1>7. Unique(t)
  BY Zenon, <1>3, <1>4, <1>5, <1>6 DEF Unique
<1> QED
  BY Zenon, <1>1, <1>7

\* What the pass leaves, entry by entry.
KeptBy(k, s, x) ==
  /\ k[0] = <<>>
  /\ \A i \in 1..Len(s) :
       k[i] = IF OutOfDate(s[i], x) THEN k[i - 1] ELSE Append(k[i - 1], s[i])

LEMMA KeptSteps ==
  ASSUME NEW s \in Seq(Entries), NEW x
  PROVE  \E k : Kept(s, x) = k[Len(s)] /\ KeptBy(k, s, x)
<1> DEFINE n == Len(s)
           S == Seq(Entries)
           Out == {e \in Entries : OutOfDate(e, x)}
           F == [q \in Nat \X S |->
                   IF q[1] \in 1..n /\ s[q[1]] \notin Out THEN Append(q[2], s[q[1]]) ELSE q[2]]
           Body(f) == [i \in 0..n |->
                   IF i = 0 THEN <<>>
                   ELSE IF OutOfDate(s[i], x) THEN f[i - 1] ELSE Append(f[i - 1], s[i])]
<1>1. n \in Nat /\ \A i \in 1..n : s[i] \in Entries
  BY Zenon, MembersOf
<1>2. << >> \in S
  OBVIOUS
<1>3. F \in [Nat \X S -> S]
  <2> HIDE DEF S, n, Out
  <2> SUFFICES ASSUME NEW q \in Nat \X S
               PROVE  (IF q[1] \in 1..n /\ s[q[1]] \notin Out
                         THEN Append(q[2], s[q[1]]) ELSE q[2]) \in S
    OBVIOUS
  <2>1. q[2] \in S
    OBVIOUS
  <2>2. ASSUME q[1] \in 1..n PROVE Append(q[2], s[q[1]]) \in S
    BY Zenon, <1>1, <2>1, <2>2, AppendedIs DEF S
  <2> QED
    BY <2>1, <2>2
<1>4. PICK f \in [0..n -> S] : StepsTo(n, f, <<>>, F)
  <2> HIDE DEF S, F, n
  <2> QED
    BY Zenon, <1>1, <1>2, <1>3, FiniteRecursion
<1>5. ASSUME NEW i \in 1..n
      PROVE  f[i] = IF OutOfDate(s[i], x) THEN f[i - 1] ELSE Append(f[i - 1], s[i])
  <2> HIDE DEF S, n
  <2>1. f[i] = F[<<i, f[i - 1]>>]
    BY <1>4 DEF StepsTo
  <2>2. i \in Nat /\ i - 1 \in 0..n
    BY <1>1
  <2>3. <<i, f[i - 1]>> \in Nat \X S
    BY <1>4, <2>2
  <2>4. f[i] = IF i \in 1..n /\ s[i] \notin Out THEN Append(f[i - 1], s[i]) ELSE f[i - 1]
    BY <2>1, <2>3
  <2>5. s[i] \in Out <=> OutOfDate(s[i], x)
    BY Zenon, <1>1
  <2> QED
    BY <2>4, <2>5
<1>6. f[0] = <<>>
  BY <1>4 DEF StepsTo
<1>7. f = Body(f)
  <2> HIDE DEF S, n
  <2>1. ASSUME NEW i \in 0..n
        PROVE  f[i] = IF i = 0 THEN <<>>
                      ELSE IF OutOfDate(s[i], x) THEN f[i - 1] ELSE Append(f[i - 1], s[i])
    <3>1. CASE i = 0
      BY Zenon, <1>6, <3>1
    <3>2. CASE i # 0
      <4>1. i \in 1..n
        BY <1>1, <3>2
      <4> QED
        BY Zenon, <1>5, <3>2, <4>1
    <3> QED
      BY <3>1, <3>2
  <2> QED
    BY Zenon, <2>1
<1>8. Kept(s, x) = (CHOOSE g : g = Body(g))[n]
  BY DEF Kept
<1> DEFINE kept == CHOOSE g : g = Body(g)
<1>9. kept = Body(kept)
  <2> HIDE DEF Body
  <2> QED
    BY Zenon, <1>7
<1>10. kept[0] = <<>>
  <2> HIDE DEF kept
  <2>1. 0 \in 0..n
    BY <1>1
  <2> QED
    BY Zenon, <1>9, <2>1
<1>11. ASSUME NEW i \in 1..n
       PROVE  kept[i] = IF OutOfDate(s[i], x) THEN kept[i - 1] ELSE Append(kept[i - 1], s[i])
  <2> HIDE DEF kept
  <2>1. i \in 0..n /\ i # 0
    BY <1>1
  <2> QED
    BY Zenon, <1>9, <2>1
<1> QED
  <2> HIDE DEF kept
  <2> QED
    BY Zenon, <1>8, <1>10, <1>11 DEF KeptBy, kept

\* The pass of checkduplicate_and_update leaves the entries that are not out of
\* date, and none twice.
LEMMA KeptIs ==
  ASSUME NEW s \in Seq(Entries), Unique(s), NEW x
  PROVE  /\ Kept(s, x) \in Seq(Entries) /\ Unique(Kept(s, x))
         /\ ToSet(Kept(s, x)) = {e \in ToSet(s) : ~OutOfDate(e, x)}
<1>1. PICK k : Kept(s, x) = k[Len(s)] /\ KeptBy(k, s, x)
  BY KeptSteps
<1>2. PICK n \in Nat : n = Len(s)
  BY Zenon, MembersOf
<1>3. \A i \in 1..n : s[i] \in Entries /\ s[i] \in ToSet(s)
  BY Zenon, <1>2, MembersOf
<1> DEFINE From1(i) == {e \in Entries : \E j \in 1..i : e = s[j] /\ ~OutOfDate(e, x)}
           Good(i) == k[i] \in Seq(Entries) /\ Unique(k[i]) /\ ToSet(k[i]) = From1(i)
           P == {i \in Nat : i <= n => Good(i)}
<1>4. 0 \in P
  <2>1. k[0] = << >> /\ << >> \in Seq(Entries) /\ Unique(<< >>)
    BY <1>1 DEF KeptBy, Unique
  <2>2. ToSet(<< >>) = {}
    BY DEF ToSet
  <2>3. From1(0) = {}
    OBVIOUS
  <2> HIDE DEF From1
  <2>4. Good(0)
    BY Zenon, <2>1, <2>2, <2>3
  <2> QED
    BY <2>4
<1>5. ASSUME NEW i \in Nat, i \in P PROVE i + 1 \in P
  <2> SUFFICES ASSUME i + 1 <= n PROVE Good(i + 1)
    OBVIOUS
  <2>1. PICK m \in 1..n : m = i + 1 /\ m - 1 = i
    OBVIOUS
  <2>2. Good(i)
    <3>1. i <= n
      BY <1>2
    <3> QED
      BY <1>5, <3>1
  <2>3. PICK a : a = k[i]
    OBVIOUS
  <2>4. a \in Seq(Entries) /\ Unique(a) /\ ToSet(a) = From1(i)
    BY Zenon, <2>2, <2>3
  <2>5. k[m] = IF OutOfDate(s[m], x) THEN a ELSE Append(a, s[m])
    BY Zenon, <1>1, <1>2, <2>1, <2>3 DEF KeptBy
  <2>6. \A e : e \in From1(i + 1) <=> e \in From1(i) \/ (e = s[m] /\ ~OutOfDate(e, x))
    <3>1. \A j : j \in 1..i + 1 <=> j \in 1..i \/ j = m
      BY <2>1
    <3>2. s[m] \in Entries
      BY Zenon, <1>3
    <3> QED
      BY Zenon, <3>1, <3>2
  <2> HIDE DEF From1
  <2>7. CASE OutOfDate(s[m], x)
    <3>1. k[m] = a
      BY <2>5, <2>7
    <3>2. From1(i + 1) = From1(i)
      BY Zenon, <2>6, <2>7
    <3> QED
      BY Zenon, <2>1, <2>4, <3>1, <3>2
  <2>8. CASE ~OutOfDate(s[m], x)
    <3>1. k[m] = Append(a, s[m])
      BY <2>5, <2>8
    <3>2. s[m] \in Entries
      BY Zenon, <1>3
    <3>0. a \in Seq(Entries)
      BY <2>4
    <3>3. Append(a, s[m]) \in Seq(Entries) /\ ToSet(Append(a, s[m])) = ToSet(a) \cup {s[m]}
      BY ZenonT(40), <3>0, <3>2, AppendedIs
    <3>4. From1(i + 1) = ToSet(a) \cup {s[m]}
      BY Zenon, <2>4, <2>6, <2>8
    <3>5. \A e \in ToSet(a) : e.xid # s[m].xid
      <4> SUFFICES ASSUME NEW e \in ToSet(a), e.xid = s[m].xid PROVE FALSE
        OBVIOUS
      <4>1. PICK j \in 1..i : e = s[j]
        BY Zenon, <2>4 DEF From1
      <4>2. j \in 1..n /\ j # m
        BY <1>2, <2>1
      <4> QED
        BY Zenon, <1>2, <4>1, <4>2 DEF Unique
    <3>6. Unique(Append(a, s[m]))
      BY Zenon, <2>4, <3>2, <3>5, AppendUnique
    <3> QED
      BY Zenon, <2>1, <3>1, <3>3, <3>4, <3>6
  <2> QED
    BY <2>7, <2>8
<1>6. Good(n)
  <2>1. Nat \subseteq P
    <3> HIDE DEF P
    <3> QED
      BY Zenon, <1>4, <1>5, SetInduction
  <2>2. n <= n
    OBVIOUS
  <2>3. n \in P
    <3> HIDE DEF P
    <3> QED
      BY Zenon, <2>1
  <2> QED
    BY Zenon, <2>2, <2>3
<1>7. From1(n) = {e \in ToSet(s) : ~OutOfDate(e, x)}
  <2>1. ASSUME NEW e \in ToSet(s) PROVE \E j \in 1..n : e = s[j]
    BY Zenon, <1>2, <2>1, MemberAt
  <2> QED
    BY Zenon, <1>3, <2>1
<1> HIDE DEF From1
<1> QED
  BY Zenon, <1>1, <1>2, <1>6, <1>7

-----------------------------------------------------------------------------
(* The invariant.                                                          *)

\* What the server was told to forget, the client has reported.
ClientInv ==
  /\ WindowInv
  /\ xid \in 1..MaxXid + 1 /\ calls \subseteq Xids /\ stale \subseteq Xids
  /\ hdr \in [Xids -> 0..MaxXid] /\ mark \in 0..MaxXid
  /\ \A x \in Xids : 1..hdr[x] \subseteq reported
  /\ 1..mark \subseteq reported

\* A connection that is not dead is in conns_ of the listener, or in the hands
\* of the accept thread.
ConnInv ==
  /\ chan \in 0..MaxConns /\ made \in 0..chan /\ stamp \in [Conns -> Nat]
  /\ dead \subseteq 1..made /\ listed \subseteq 1..made /\ latest \in 0..made
  /\ apc \in {"select", "gc", "drop"} /\ ahead \subseteq listed
  /\ apc = "select" => ahead = {}
  /\ apc = "drop" => victim \in listed \cap dead
  /\ apc # "select" => made >= 1 /\ made \notin listed
  /\ server \in {"up", "closing", "gone", "aborted"}
  /\ server # "up" /\ server # "aborted" => apc = "select"
  /\ server = "gone" => listed = {}
  /\ server = "aborted" => apc = "select" /\ dead = 1..made
  /\ server # "aborted" =>
       \A k \in 1..made \ dead : k \in listed \/ (k = made /\ apc # "select")
  /\ leaked \in [Conns -> Nat] /\ \A k \in Conns : k > made => leaked[k] = 0

\* What a worker is, from the job on, if there are m connections.
Pcs == {"check", "run", "pick", "send"}
BusyIn(m) == [pc : Pcs, xid : Xids, conn : 1..m, b1 : BOOLEAN]
Busy == BusyIn(made)

\* A worker has a connection in conns_ to fall back on.
WorkInv ==
  /\ jobs \subseteq Xids \X (1..made)
  /\ wk \in [Workers -> Busy \cup {IdleWorker}]
  /\ \A w \in Workers : wk[w] # IdleWorker => latest # NoConn
  /\ server \in {"gone", "aborted"} =>
       jobs = {} /\ \A w \in Workers : wk[w] = IdleWorker

\* A call is sent once on a connection: a request is not received while a job
\* has it.
SentInv ==
  /\ at \in [Xids -> Conns \cup {NoConn}] /\ \A x \in Xids : at[x] <= chan
  /\ reqs \subseteq Xids \X Conns /\ answers \subseteq Xids
  /\ \A m \in reqs \cup jobs : m[2] <= at[m[1]]
  /\ reqs \cap jobs = {}

RefInv ==
  /\ refno \in [Conns -> Nat] /\ deleted \subseteq dead
  /\ RefsExact

BufInv ==
  /\ list \in Seq(Entries) /\ buf \in [Xids -> {"none", "held", "freed"}]
  /\ BuffersOwned /\ SentIfWaited
  /\ server = "gone" => list = <<>>

IInv == ClientInv /\ ConnInv /\ WorkInv /\ SentInv /\ RefInv /\ BufInv

-----------------------------------------------------------------------------
(* The connections.                                                        *)

\* Ahead of the proofs below: who a step of a worker is about.
LEMMA BusyIs ==
  ASSUME WorkInv, NEW w \in Workers, wk[w] # IdleWorker
  PROVE  /\ wk[w] \in Busy /\ wk[w].xid \in Xids /\ wk[w].conn \in 1..made
         /\ latest # NoConn
<1>1. wk[w] \in Busy /\ latest # NoConn
  BY Zenon DEF WorkInv
<1>2. wk[w].xid \in Xids /\ wk[w].conn \in 1..made
  BY Zenon, <1>1 DEF Busy, BusyIn
<1> QED
  BY Zenon, <1>1, <1>2

LEMMA ConnStep ==
  ASSUME IInv, Next
  PROVE  ConnInv'
<1> USE DispatchAssumption DEF IInv, Conns, NoConn
<1>u. ASSUME UNCHANGED <<chan, made, stamp, dead, leaked, listed, latest, apc, ahead, victim, server>>
      PROVE  ConnInv'
  BY <1>u DEF ConnInv
<1>1. CASE Issue
  BY <1>u, <1>1 DEF Issue, connVars, accVars
<1>2. CASE Connect
  BY <1>2 DEF Connect, ConnInv, connVars, accVars
<1>3. ASSUME NEW x \in Xids, Transmit(x) \/ GotReply(x) \/ EndCall(x) PROVE ConnInv'
  BY <1>u, <1>3 DEF Transmit, GotReply, EndCall, connVars, accVars
<1>4. ASSUME NEW k \in Conns, ConnDies(k) PROVE ConnInv'
  BY <1>4 DEF ConnDies, ConnInv, cliVars, accVars
<1>5. CASE Accept
  <2>1. PICK t \in IF made = 0 THEN {0} ELSE {stamp[made], stamp[made] + 1} :
          stamp' = [stamp EXCEPT ![made + 1] = t]
    BY <1>5 DEF Accept
  <2>2. stamp' \in [Conns -> Nat]
    <3>1. made = 0 \/ stamp[made] \in Nat
      BY DEF ConnInv
    <3>2. t \in Nat
      BY <2>1, <3>1
    <3> QED
      BY <2>1, <3>2 DEF ConnInv
  <2> QED
    BY <1>5, <2>2 DEF Accept, ConnInv, cliVars
<1>6. CASE GcDrop
  <2>1. CASE Abort
    BY <1>6, <2>1 DEF GcDrop, Abort, ConnInv, cliVars
  <2>2. CASE /\ ahead' \in SUBSET (listed \ {victim})
             /\ victim' = NoConn /\ apc' = "gc"
             /\ UNCHANGED <<server, dead, reqs, jobs, wk>>
    BY <1>6, <2>2 DEF GcDrop, ConnInv, cliVars
  <2> QED
    BY <1>6, <2>1, <2>2 DEF GcDrop
<1>7. CASE GcEnd
  BY <1>7 DEF GcEnd, ConnInv, cliVars, connVars
<1>8. ASSUME NEW k \in ahead, GcTest(k) PROVE ConnInv'
  BY <1>8 DEF GcTest, Collectable, ConnInv, cliVars, connVars
<1>9. ASSUME NEW x \in Xids, NEW k \in Conns, GotRequest(x, k) PROVE ConnInv'
  BY <1>u, <1>9 DEF GotRequest, cliVars, accVars
<1>10. ASSUME NEW w \in Workers, NEW j \in jobs, TakeJob(w, j) PROVE ConnInv'
  <2>1. j[2] \in 1..made
    BY DEF WorkInv
  <2>2. /\ latest' = latest \/ latest' = j[2]
        /\ UNCHANGED <<chan, made, stamp, dead, leaked, listed, apc, ahead, victim, server>>
    BY <1>10 DEF TakeJob, cliVars, accVars
  <2>3. latest' \in 0..made'
    BY <2>1, <2>2 DEF ConnInv
  <2> QED
    BY Zenon, <2>2, <2>3 DEF ConnInv
<1>16. ASSUME NEW w \in Workers, NEW j \in jobs, NoHandler(w, j) PROVE ConnInv'
  BY <1>u, <1>16 DEF NoHandler, cliVars, accVars
<1>17. ASSUME NEW w \in Workers, NEW j \in jobs, OldInstance(w, j) PROVE ConnInv'
  <2>1. PICK d : d = j[2] /\ d \in 1..made /\ leaked' = [leaked EXCEPT ![d] = @ + 1]
    BY <1>17 DEF OldInstance, WorkInv
  <2>2. d \in Conns /\ ~(d > made) /\ made \in Nat
    BY <2>1 DEF ConnInv
  <2>3. leaked' \in [Conns -> Nat] /\ \A k \in Conns : k > made => leaked'[k] = 0
    BY <2>1, <2>2 DEF ConnInv
  <2>4. UNCHANGED <<chan, made, stamp, dead, listed, latest, apc, ahead, victim, server>>
    BY <1>17 DEF OldInstance, cliVars, accVars
  <2> QED
    BY <2>3, <2>4 DEF ConnInv
<1>11. ASSUME NEW w \in Workers,
              \/ Forgotten(w) \/ Duplicate(w) \/ InProgress(w) \/ NewRequest(w)
              \/ AddReply(w) \/ PickConn(w) \/ SendReply(w)
       PROVE  ConnInv'
  BY <1>u, <1>11 DEF Forgotten, Duplicate, InProgress, NewRequest, AddReply, PickConn,
                     SendReply, cliVars, connVars, accVars
<1>12. ASSUME NEW w \in Workers, AddReplyAsserts(w) PROVE ConnInv'
  BY <1>12 DEF AddReplyAsserts, Abort, ConnInv, cliVars
<1>13. CASE Stop
  BY <1>13 DEF Stop, ConnInv, cliVars, connVars, accVars
<1>14. ASSUME NEW k \in listed, CloseOne(k) PROVE ConnInv'
  BY <1>14 DEF CloseOne, Closed, ConnInv, cliVars
<1>15. CASE FreeReplyWindow
  BY <1>15 DEF FreeReplyWindow, ConnInv, cliVars, connVars, accVars
<1> QED
  BY <1>1, <1>2, <1>3, <1>4, <1>5, <1>6, <1>7, <1>8, <1>9, <1>10, <1>11, <1>12, <1>13,
     <1>14, <1>15, <1>16, <1>17 DEF Next, ClientNext, ServerNext, WorkerNext

-----------------------------------------------------------------------------
(* The client, and what the server was told to forget.                     *)

LEMMA NewMarkIs ==
  ASSUME ClientInv, NEW x \in Xids
  PROVE  NewMark(x) \in 0..MaxXid /\ 1..NewMark(x) \subseteq reported
<1>1. NewMark(x) = mark \/ NewMark(x) = hdr[x]
  BY DEF NewMark
<1>2. mark \in 0..MaxXid /\ hdr[x] \in 0..MaxXid
  BY DEF ClientInv
<1>3. 1..mark \subseteq reported /\ 1..hdr[x] \subseteq reported
  BY DEF ClientInv
<1> QED
  BY Zenon, <1>1, <1>2, <1>3

\* xid_rep of a request is the front of the window when it is made.
LEMMA FrontIs ==
  ASSUME WindowInv
  PROVE  Head(window) \in 0..MaxXid /\ 1..Head(window) \subseteq reported
<1>1. window \in Seq(0..MaxXid) /\ window # <<>> /\ 1..Head(window) \subseteq reported
  BY Zenon DEF WindowInv, WindowIsExact
<1>2. Head(window) \in 0..MaxXid
  BY Zenon, <1>1, HeadTailProperties
<1> QED
  BY Zenon, <1>1, <1>2

\* What a step of a worker does to the mark.
LEMMA MarkIs ==
  ASSUME WorkInv, NEW w \in Workers, WorkerNext(w)
  PROVE  \/ mark' = mark
         \/ \E x \in Xids : mark' = NewMark(x)
<1>1. ASSUME NEW j \in jobs, NoHandler(w, j) \/ OldInstance(w, j) \/ TakeJob(w, j)
      PROVE  mark' = mark
  BY <1>1 DEF NoHandler, OldInstance, TakeJob, winVars
<1>2. ASSUME AddReply(w) \/ AddReplyAsserts(w) \/ PickConn(w) \/ SendReply(w)
      PROVE  mark' = mark
  BY <1>2 DEF AddReply, AddReplyAsserts, PickConn, SendReply, winVars
<1>3. ASSUME Forgotten(w) \/ Duplicate(w) \/ InProgress(w) \/ NewRequest(w)
      PROVE  \E x \in Xids : mark' = NewMark(x)
  <2>1. wk[w].pc = "check" /\ mark' = NewMark(wk[w].xid)
    BY <1>3 DEF Forgotten, Duplicate, InProgress, NewRequest, Pass
  <2>2. wk[w] # IdleWorker
    BY <2>1 DEF IdleWorker
  <2> QED
    BY Zenon, <2>1, <2>2, BusyIs
<1> QED
  BY Zenon, <1>1, <1>2, <1>3 DEF WorkerNext

LEMMA ClientStep ==
  ASSUME IInv, Next
  PROVE  ClientInv'
<1> USE WindowAssumption DEF IInv, Xids
<1>a. /\ xid \in 1..MaxXid + 1 /\ calls \subseteq Xids /\ stale \subseteq Xids
      /\ hdr \in [Xids -> 0..MaxXid] /\ mark \in 0..MaxXid
      /\ \A x \in Xids : 1..hdr[x] \subseteq reported
      /\ 1..mark \subseteq reported
  BY DEF ClientInv
<1>u. ASSUME UNCHANGED cliVars, UNCHANGED mark \/ (\E x \in Xids : mark' = NewMark(x))
      PROVE  ClientInv'
  <2>1. WindowInv'
    BY <1>u DEF ClientInv, WindowInv, WindowIsExact, cliVars
  <2>2. mark' \in 0..MaxXid /\ 1..mark' \subseteq reported
    <3>1. CASE UNCHANGED mark
      BY <1>a, <3>1
    <3>2. CASE \E x \in Xids : mark' = NewMark(x)
      BY Zenon, <3>2, NewMarkIs
    <3> QED
      BY <1>u, <3>1, <3>2
  <2> QED
    BY <1>a, <1>u, <2>1, <2>2 DEF ClientInv, cliVars
<1>1. CASE Issue
  <2>1. /\ xid \in Xids /\ calls' = calls \cup {xid} /\ xid' = xid + 1
        /\ hdr' = [hdr EXCEPT ![xid] = Head(window)]
        /\ stale' \subseteq stale \cup {xid} /\ UNCHANGED <<window, reported, mark>>
    BY <1>1 DEF Issue, winVars
  <2>2. Head(window) \in 0..MaxXid /\ 1..Head(window) \subseteq reported
    BY FrontIs DEF ClientInv
  <2>3. WindowInv'
    BY <2>1 DEF ClientInv, WindowInv, WindowIsExact
  <2>4. PICK h \in 0..MaxXid : h = Head(window) /\ 1..h \subseteq reported
    BY <2>2
  <2>5. hdr' = [hdr EXCEPT ![xid] = h]
    BY Zenon, <2>1, <2>4
  <2>6. hdr' \in [Xids -> 0..MaxXid] /\ \A x \in Xids : hdr'[x] = h \/ hdr'[x] = hdr[x]
    BY <1>a, <2>1, <2>4, <2>5
  <2>7. \A x \in Xids : 1..hdr'[x] \subseteq reported
    BY Zenon, <1>a, <2>4, <2>6
  <2>8. xid' \in 1..MaxXid + 1 /\ calls' \subseteq Xids /\ stale' \subseteq Xids
    BY <1>a, <2>1
  <2> QED
    BY Zenon, <1>a, <2>1, <2>3, <2>6, <2>7, <2>8 DEF ClientInv
<1>2. CASE Connect
  <2>1. UNCHANGED <<window, reported, xid, calls, hdr, stale, mark>>
    BY <1>2 DEF Connect, winVars
  <2> QED
    BY <2>1 DEF ClientInv, WindowInv, WindowIsExact
<1>3. ASSUME NEW x \in Xids, Transmit(x) PROVE ClientInv'
  <2>1. UNCHANGED <<window, reported, xid, calls, hdr, stale, mark>>
    BY <1>3 DEF Transmit, winVars
  <2> QED
    BY <2>1 DEF ClientInv, WindowInv, WindowIsExact
<1>4. ASSUME NEW x \in Xids, GotReply(x) \/ EndCall(x) PROVE ClientInv'
  <2>1. /\ UpdateXidRep(x) /\ UNCHANGED <<xid, hdr, stale, mark>>
        /\ calls' = calls \/ calls' = calls \ {x}
    BY <1>4 DEF GotReply, EndCall, winVars
  <2>2. WindowInv'
    BY Zenon, <2>1, UpdateXidRepKeeps DEF ClientInv, IInv
  <2>3. reported' = reported \cup {x}
    BY <2>1 DEF UpdateXidRep
  <2> QED
    BY <1>a, <2>1, <2>2, <2>3 DEF ClientInv
<1>5. ASSUME NEW k \in Conns, ConnDies(k) PROVE ClientInv'
  BY <1>u, <1>5 DEF ConnDies, winVars
<1>6. CASE Accept
  BY <1>u, <1>6 DEF Accept, winVars
<1>7. CASE GcDrop
  BY <1>u, <1>7 DEF GcDrop, winVars
<1>8. CASE GcEnd
  BY <1>u, <1>8 DEF GcEnd, winVars
<1>9. ASSUME NEW k \in ahead, GcTest(k) PROVE ClientInv'
  BY <1>u, <1>9 DEF GcTest, winVars
<1>10. ASSUME NEW x \in Xids, NEW k \in Conns, GotRequest(x, k) PROVE ClientInv'
  BY <1>u, <1>10 DEF GotRequest, winVars
<1>11. ASSUME NEW w \in Workers, WorkerNext(w) PROVE ClientInv'
  <2>1. UNCHANGED cliVars
    BY <1>11 DEF WorkerNext, NoHandler, OldInstance, TakeJob, Forgotten, Duplicate, InProgress,
                 NewRequest, AddReply, AddReplyAsserts, PickConn, SendReply
  <2>2. UNCHANGED mark \/ \E x \in Xids : mark' = NewMark(x)
    BY Zenon, <1>11, MarkIs DEF IInv
  <2> QED
    BY Zenon, <1>u, <2>1, <2>2
<1>12. CASE Stop
  BY <1>u, <1>12 DEF Stop, winVars
<1>13. ASSUME NEW k \in listed, CloseOne(k) PROVE ClientInv'
  BY <1>u, <1>13 DEF CloseOne, winVars
<1>14. CASE FreeReplyWindow
  BY <1>u, <1>14 DEF FreeReplyWindow
<1> QED
  BY <1>1, <1>2, <1>3, <1>4, <1>5, <1>6, <1>7, <1>8, <1>9, <1>10, <1>11, <1>12, <1>13,
     <1>14 DEF Next, ClientNext, ServerNext

-----------------------------------------------------------------------------
(* The workers.                                                            *)

LEMMA BusyGrows ==
  ASSUME NEW m \in Nat, NEW n \in Nat, m <= n
  PROVE  BusyIn(m) \subseteq BusyIn(n)
<1>1. 1..m \subseteq 1..n
  OBVIOUS
<1> QED
  BY Zenon, <1>1 DEF BusyIn

\* A worker that goes on.
LEMMA GoesOn ==
  ASSUME NEW m, NEW r \in BusyIn(m)
  PROVE  \A pc \in Pcs :
           /\ [r EXCEPT !.pc = pc] \in BusyIn(m)
           /\ [r EXCEPT !.pc = pc, !.b1 = TRUE] \in BusyIn(m)
           /\ \A k \in 1..m : [r EXCEPT !.pc = pc, !.conn = k] \in BusyIn(m)
<1> SUFFICES ASSUME NEW pc \in Pcs
             PROVE  /\ [r EXCEPT !.pc = pc] \in BusyIn(m)
                    /\ [r EXCEPT !.pc = pc, !.b1 = TRUE] \in BusyIn(m)
                    /\ \A k \in 1..m : [r EXCEPT !.pc = pc, !.conn = k] \in BusyIn(m)
  BY Zenon
<1>1. TRUE \in BOOLEAN
  OBVIOUS
<1>2. [r EXCEPT !.pc = pc] \in BusyIn(m)
  BY Zenon DEF BusyIn
<1>3. [r EXCEPT !.pc = pc, !.b1 = TRUE] \in BusyIn(m)
  BY Zenon, <1>1 DEF BusyIn
<1>4. ASSUME NEW k \in 1..m PROVE [r EXCEPT !.pc = pc, !.conn = k] \in BusyIn(m)
  BY Zenon DEF BusyIn
<1> QED
  BY Zenon, <1>2, <1>3, <1>4

LEMMA BusyNotIdle ==
  ASSUME NEW m, NEW r \in BusyIn(m)
  PROVE  r # IdleWorker
<1>1. r.pc \in {"check", "run", "pick", "send"}
  BY Zenon DEF BusyIn, Pcs
<1> QED
  BY <1>1 DEF IdleWorker

\* A step of a worker that has a connection leaves it busy, or idle.
LEMMA BusySteps ==
  ASSUME WorkInv, ConnInv, NEW w \in Workers,
         \/ Forgotten(w) \/ Duplicate(w) \/ InProgress(w) \/ NewRequest(w)
         \/ AddReply(w) \/ PickConn(w) \/ SendReply(w)
  PROVE  /\ wk[w] # IdleWorker
         /\ \E r \in Busy \cup {IdleWorker} : wk' = [wk EXCEPT ![w] = r]
<1> USE DEF Busy
<1>1. wk[w] # IdleWorker
  BY DEF Forgotten, Duplicate, InProgress, NewRequest, AddReply, PickConn, SendReply, IdleWorker
<1>2. PICK r : r = wk[w] /\ r \in Busy /\ r.conn \in 1..made /\ latest # NoConn
  BY Zenon, <1>1, BusyIs
<1>3. latest \in 1..made
  BY <1>2 DEF ConnInv, NoConn
<1>4. "send" \in Pcs /\ "run" \in Pcs /\ "pick" \in Pcs
  BY DEF Pcs
<1>5. CASE Forgotten(w) \/ NewRequest(w)
  <2>1. wk' = [wk EXCEPT ![w] = [r EXCEPT !.pc = "send"]]
        \/ wk' = [wk EXCEPT ![w] = [r EXCEPT !.pc = "run"]]
    BY <1>2, <1>5 DEF Forgotten, NewRequest, Goes
  <2>2. [r EXCEPT !.pc = "send"] \in Busy /\ [r EXCEPT !.pc = "run"] \in Busy
    BY Zenon, <1>2, <1>4, GoesOn
  <2> QED
    BY Zenon, <1>1, <2>1, <2>2
<1>6. CASE Duplicate(w) \/ AddReply(w)
  <2>1. wk' = [wk EXCEPT ![w] = [r EXCEPT !.pc = "send", !.b1 = TRUE]]
        \/ wk' = [wk EXCEPT ![w] = [r EXCEPT !.pc = "pick", !.b1 = TRUE]]
    BY <1>2, <1>6 DEF Duplicate, AddReply
  <2>2. /\ [r EXCEPT !.pc = "send", !.b1 = TRUE] \in Busy
        /\ [r EXCEPT !.pc = "pick", !.b1 = TRUE] \in Busy
    BY Zenon, <1>2, <1>4, GoesOn
  <2> QED
    BY Zenon, <1>1, <2>1, <2>2
<1>7. CASE PickConn(w)
  <2>1. wk' = [wk EXCEPT ![w] = [r EXCEPT !.pc = "send"]]
        \/ wk' = [wk EXCEPT ![w] = [r EXCEPT !.pc = "send", !.conn = latest]]
    BY <1>2, <1>7 DEF PickConn, Goes
  <2>2. /\ [r EXCEPT !.pc = "send"] \in Busy
        /\ [r EXCEPT !.pc = "send", !.conn = latest] \in Busy
    BY Zenon, <1>2, <1>3, <1>4, GoesOn
  <2> QED
    BY Zenon, <1>1, <2>1, <2>2
<1>8. CASE InProgress(w) \/ SendReply(w)
  <2>1. wk' = [wk EXCEPT ![w] = IdleWorker]
    BY Zenon, <1>8 DEF InProgress, SendReply, Leave
  <2> QED
    BY Zenon, <1>1, <2>1
<1> QED
  BY Zenon, <1>5, <1>6, <1>7, <1>8

LEMMA TakeJobIs ==
  ASSUME WorkInv, NEW w \in Workers, NEW j \in jobs, TakeJob(w, j)
  PROVE  /\ j \in Xids \X (1..made) /\ j[2] \in 1..made /\ latest' # NoConn
         /\ latest' = latest \/ latest' = j[2]
         /\ [pc |-> "check", xid |-> j[1], conn |-> j[2], b1 |-> FALSE] \in Busy
         /\ wk' = [wk EXCEPT ![w] =
                     [pc |-> "check", xid |-> j[1], conn |-> j[2], b1 |-> FALSE]]
<1>1. j \in Xids \X (1..made) /\ j[1] \in Xids /\ j[2] \in 1..made
  BY DEF WorkInv
<1>2. [pc |-> "check", xid |-> j[1], conn |-> j[2], b1 |-> FALSE] \in Busy
  BY <1>1 DEF Busy, BusyIn, Pcs
<1>3. latest' # NoConn /\ (latest' = latest \/ latest' = j[2])
  BY <1>1 DEF TakeJob, NoConn
<1>4. wk' = [wk EXCEPT ![w] =
               [pc |-> "check", xid |-> j[1], conn |-> j[2], b1 |-> FALSE]]
  BY Zenon DEF TakeJob
<1> QED
  BY Zenon, <1>1, <1>2, <1>3, <1>4

LEMMA WorkStep ==
  ASSUME IInv, Next
  PROVE  WorkInv'
<1> USE DispatchAssumption DEF IInv
<1>a. WorkInv /\ ConnInv /\ made \in Nat
  BY DEF ConnInv
<1>u. ASSUME UNCHANGED <<jobs, wk, latest, made>>, server' = server \/ server' = "closing"
      PROVE  WorkInv'
  BY <1>u DEF WorkInv, Busy
<1>1. CASE Issue
  BY <1>u, <1>1 DEF Issue, connVars
<1>2. CASE Connect
  BY <1>u, <1>2 DEF Connect, connVars
<1>3. ASSUME NEW x \in Xids, Transmit(x) \/ GotReply(x) \/ EndCall(x) PROVE WorkInv'
  BY <1>u, <1>3 DEF Transmit, GotReply, EndCall, connVars
<1>4. ASSUME NEW k \in Conns, ConnDies(k) PROVE WorkInv'
  BY <1>u, <1>4 DEF ConnDies
<1>5. CASE Accept
  <2>1. PICK m \in Nat : m = made /\ made' = m + 1
    BY <1>5, <1>a DEF Accept
  <2>2. Busy \subseteq Busy'
    <3>1. m <= m + 1 /\ m + 1 \in Nat
      OBVIOUS
    <3>2. BusyIn(m) \subseteq BusyIn(m + 1)
      BY Zenon, <3>1, BusyGrows
    <3>3. Busy = BusyIn(m) /\ Busy' = BusyIn(m + 1)
      BY Zenon, <2>1 DEF Busy, BusyIn
    <3> QED
      BY Zenon, <3>2, <3>3
  <2>3. 1..made \subseteq 1..made'
    BY <2>1
  <2>4. UNCHANGED <<jobs, wk, latest, server>>
    BY <1>5 DEF Accept
  <2>5. jobs' \subseteq Xids \X (1..made')
    BY <2>3, <2>4 DEF WorkInv
  <2>6. wk' \in [Workers -> Busy' \cup {IdleWorker}]
    BY <2>2, <2>4 DEF WorkInv
  <2> QED
    BY Zenon, <2>4, <2>5, <2>6 DEF WorkInv
<1>6. CASE GcDrop
  <2>1. CASE Abort
    BY <1>6, <2>1 DEF GcDrop, Abort, WorkInv
  <2>2. CASE UNCHANGED <<server, dead, reqs, jobs, wk>>
    BY <1>u, <1>6, <2>2 DEF GcDrop
  <2> QED
    BY <1>6, <2>1, <2>2 DEF GcDrop
<1>7. CASE GcEnd
  BY <1>u, <1>7 DEF GcEnd, connVars
<1>8. ASSUME NEW k \in ahead, GcTest(k) PROVE WorkInv'
  BY <1>u, <1>8 DEF GcTest, connVars
<1>9. ASSUME NEW x \in Xids, NEW k \in Conns, GotRequest(x, k) PROVE WorkInv'
  <2>1. /\ jobs' = jobs \cup {<<x, k>>} /\ k \in 1..made \ dead
        /\ UNCHANGED <<wk, latest, made, server>>
    BY <1>9 DEF GotRequest
  <2>2. server # "gone" /\ server # "aborted"
    BY <2>1 DEF ConnInv
  <2>3. jobs' \subseteq Xids \X (1..made)
    BY <2>1 DEF WorkInv
  <2>4. wk \in [Workers -> Busy' \cup {IdleWorker}]
    BY Zenon, <2>1 DEF WorkInv, Busy, BusyIn
  <2> QED
    BY Zenon, <2>1, <2>2, <2>3, <2>4 DEF WorkInv
<1>10. ASSUME NEW w \in Workers, NEW j \in jobs, TakeJob(w, j) PROVE WorkInv'
  <2>1. PICK r \in Busy : wk' = [wk EXCEPT ![w] = r]
    BY Zenon, <1>10, TakeJobIs
  <2>2. /\ jobs' \subseteq jobs /\ made' = made /\ server' = server /\ latest' # NoConn
        /\ server \notin {"gone", "aborted"}
    <3>1. latest' # NoConn
      BY Zenon, <1>10, TakeJobIs
    <3> QED
      BY <1>10, <3>1 DEF TakeJob, WorkInv
  <2>3. wk' \in [Workers -> Busy \cup {IdleWorker}]
    BY <2>1 DEF WorkInv
  <2>4. Busy' = Busy
    BY Zenon, <2>2 DEF Busy, BusyIn
  <2>5. jobs' \subseteq Xids \X (1..made)
    BY <2>2 DEF WorkInv
  <2> QED
    BY Zenon, <2>2, <2>3, <2>4, <2>5 DEF WorkInv
<1>16. ASSUME NEW w \in Workers, NEW j \in jobs, NoHandler(w, j) \/ OldInstance(w, j)
       PROVE  WorkInv'
  <2>1. jobs' \subseteq jobs /\ UNCHANGED <<wk, latest, made, server>>
    BY <1>16 DEF NoHandler, OldInstance
  <2>2. Busy' = Busy
    BY Zenon, <2>1 DEF Busy, BusyIn
  <2> QED
    BY <2>1, <2>2 DEF WorkInv
<1>11. ASSUME NEW w \in Workers,
              \/ Forgotten(w) \/ Duplicate(w) \/ InProgress(w) \/ NewRequest(w)
              \/ AddReply(w) \/ PickConn(w) \/ SendReply(w)
       PROVE  WorkInv'
  <2>1. PICK r \in Busy \cup {IdleWorker} : wk' = [wk EXCEPT ![w] = r]
    BY Zenon, <1>11, BusySteps
  <2>2. wk[w] # IdleWorker
    BY Zenon, <1>11, BusySteps
  <2>3. UNCHANGED <<jobs, latest, made, server>>
    BY <1>11 DEF Forgotten, Duplicate, InProgress, NewRequest, AddReply, PickConn,
                 SendReply, connVars
  <2>4. latest # NoConn /\ server \notin {"gone", "aborted"}
    BY <2>2 DEF WorkInv
  <2>5. wk' \in [Workers -> Busy \cup {IdleWorker}]
    BY <2>1 DEF WorkInv
  <2>6. Busy' = Busy
    BY Zenon, <2>3 DEF Busy, BusyIn
  <2>7. jobs \subseteq Xids \X (1..made)
    BY Zenon DEF WorkInv
  <2> QED
    BY Zenon, <2>3, <2>4, <2>5, <2>6, <2>7 DEF WorkInv
<1>12. ASSUME NEW w \in Workers, AddReplyAsserts(w) PROVE WorkInv'
  BY <1>12 DEF AddReplyAsserts, Abort, WorkInv
<1>13. CASE Stop
  BY <1>u, <1>13 DEF Stop, connVars
<1>14. ASSUME NEW k \in listed, CloseOne(k) PROVE WorkInv'
  BY <1>u, <1>14 DEF CloseOne
<1>15. CASE FreeReplyWindow
  <2>1. jobs = {} /\ server' = "gone" /\ UNCHANGED <<jobs, wk, latest, made>>
    BY <1>15 DEF FreeReplyWindow, connVars
  <2>2. ASSUME NEW w \in Workers PROVE wk[w] = IdleWorker
    <3>1. wk[w].pc = "idle" /\ wk[w] \in Busy \cup {IdleWorker}
      BY <1>15 DEF FreeReplyWindow, WorkInv
    <3>2. ASSUME wk[w] \in Busy PROVE FALSE
      <4>1. wk[w].pc \in {"check", "run", "pick", "send"}
        BY Zenon, <3>2 DEF Busy, BusyIn, Pcs
      <4> QED
        BY <3>1, <4>1
    <3> QED
      BY <3>1, <3>2
  <2>3. Busy' = Busy
    BY Zenon, <2>1 DEF Busy, BusyIn
  <2> QED
    BY <2>1, <2>2, <2>3 DEF WorkInv
<1> QED
  BY <1>1, <1>2, <1>3, <1>4, <1>5, <1>6, <1>7, <1>8, <1>9, <1>10, <1>11, <1>12, <1>13,
     <1>14, <1>15, <1>16 DEF Next, ClientNext, ServerNext, WorkerNext

-----------------------------------------------------------------------------
(* The network.                                                            *)

LEMMA SentStep ==
  ASSUME IInv, Next
  PROVE  SentInv'
<1> USE DispatchAssumption DEF IInv, Conns, NoConn
<1>a. chan \in 0..MaxConns
  BY DEF ConnInv
<1>u. ASSUME UNCHANGED <<at, chan>>, reqs' \subseteq reqs, jobs' \subseteq jobs,
             answers' \subseteq answers
      PROVE  SentInv'
  BY <1>u DEF SentInv
<1>1. CASE Issue
  BY <1>u, <1>1 DEF Issue, netVars
<1>2. CASE Connect
  <2>1. /\ chan' = chan + 1 /\ answers' = {} /\ UNCHANGED <<at, reqs, jobs>>
    BY <1>2 DEF Connect
  <2>2. \A x \in Xids : at[x] \in Int
    BY DEF SentInv
  <2>3. \A x \in Xids : at[x] <= chan + 1
    BY <1>a, <2>2 DEF SentInv
  <2> QED
    BY <2>1, <2>3 DEF SentInv
<1>3. ASSUME NEW x \in Xids, Transmit(x) PROVE SentInv'
  <2>1. /\ at[x] < chan /\ at' = [at EXCEPT ![x] = chan]
        /\ reqs' \subseteq reqs \cup {<<x, chan>>} /\ UNCHANGED <<chan, jobs, answers>>
    BY <1>3 DEF Transmit
  <2>2. \A y \in Xids : at[y] \in 0..MaxConns /\ at[y] <= chan
    BY DEF SentInv
  <2>3. chan \in Conns
    BY <1>a, <2>1, <2>2
  <2>4. at' \in [Xids -> Conns \cup {NoConn}]
    BY <2>1, <2>3 DEF SentInv
  <2>5. \A y \in Xids : at'[y] <= chan /\ at[y] <= at'[y] /\ at'[y] \in Int
    BY <1>a, <2>1, <2>2 DEF SentInv
  <2>6. reqs' \subseteq Xids \X Conns
    BY <2>1, <2>3 DEF SentInv
  <2>7. jobs \subseteq Xids \X (1..made) /\ made \in Nat
    BY DEF WorkInv, ConnInv
  <2>8. ASSUME NEW m \in reqs' \cup jobs PROVE m[2] <= at'[m[1]]
    <3>1. CASE m = <<x, chan>>
      BY <1>a, <2>1, <3>1 DEF SentInv
    <3>2. CASE m \in reqs \cup jobs
      <4>1. m[1] \in Xids /\ m[2] \in Int /\ m[2] <= at[m[1]] /\ at[m[1]] \in Int
        BY <2>2, <2>7, <3>2 DEF SentInv
      <4> QED
        BY <2>5, <4>1
    <3> QED
      BY <2>1, <2>8, <3>1, <3>2
  <2>9. <<x, chan>> \notin jobs
    <3> SUFFICES ASSUME <<x, chan>> \in jobs PROVE FALSE
      OBVIOUS
    <3>1. PICK m \in jobs : m = <<x, chan>>
      OBVIOUS
    <3>2. m[2] <= at[m[1]]
      BY DEF SentInv
    <3> QED
      BY <1>a, <2>1, <2>2, <3>1, <3>2
  <2>10. reqs' \cap jobs = {}
    BY <2>1, <2>9 DEF SentInv
  <2> QED
    BY <2>1, <2>4, <2>5, <2>6, <2>8, <2>10 DEF SentInv
<1>4. ASSUME NEW x \in Xids, GotReply(x) \/ EndCall(x) PROVE SentInv'
  BY <1>u, <1>4 DEF GotReply, EndCall, netVars
<1>5. ASSUME NEW k \in Conns, ConnDies(k) PROVE SentInv'
  BY <1>u, <1>5 DEF ConnDies, cliVars
<1>6. CASE Accept
  BY <1>u, <1>6 DEF Accept, cliVars, netVars
<1>7. CASE GcDrop
  BY <1>u, <1>7 DEF GcDrop, Abort, cliVars
<1>8. CASE GcEnd
  BY <1>u, <1>8 DEF GcEnd, cliVars, netVars
<1>9. ASSUME NEW k \in ahead, GcTest(k) PROVE SentInv'
  BY <1>u, <1>9 DEF GcTest, cliVars, netVars
<1>10. ASSUME NEW x \in Xids, NEW k \in Conns, GotRequest(x, k) PROVE SentInv'
  <2>1. /\ <<x, k>> \in reqs /\ reqs' = reqs \ {<<x, k>>} /\ jobs' = jobs \cup {<<x, k>>}
        /\ UNCHANGED <<at, chan, answers>>
    BY <1>10 DEF GotRequest, cliVars
  <2> QED
    BY <2>1 DEF SentInv
<1>11. ASSUME NEW w \in Workers, NEW j \in jobs, TakeJob(w, j) PROVE SentInv'
  BY <1>u, <1>11 DEF TakeJob, cliVars, netVars
<1>17. ASSUME NEW w \in Workers, NEW j \in jobs, NoHandler(w, j) PROVE SentInv'
  BY <1>u, <1>17 DEF NoHandler, cliVars, netVars
<1>18. ASSUME NEW w \in Workers, NEW j \in jobs, OldInstance(w, j) PROVE SentInv'
  <2>1. j[1] \in Xids
    BY DEF WorkInv
  <2>2. /\ answers' \subseteq Xids /\ jobs' \subseteq jobs
        /\ UNCHANGED <<at, chan, reqs>>
    BY <1>18, <2>1 DEF OldInstance, Sent, SentInv, cliVars
  <2> QED
    BY <2>2 DEF SentInv
<1>12. ASSUME NEW w \in Workers,
              \/ Forgotten(w) \/ Duplicate(w) \/ InProgress(w) \/ NewRequest(w)
              \/ AddReply(w) \/ AddReplyAsserts(w) \/ PickConn(w)
       PROVE  SentInv'
  BY <1>u, <1>12 DEF Forgotten, Duplicate, InProgress, NewRequest, AddReply, PickConn,
                     AddReplyAsserts, Abort, cliVars, netVars
<1>13. ASSUME NEW w \in Workers, SendReply(w) PROVE SentInv'
  <2>1. wk[w].pc = "send"
    BY <1>13 DEF SendReply
  <2>2. wk[w] # IdleWorker
    BY <2>1 DEF IdleWorker
  <2>3. wk[w].xid \in Xids
    BY Zenon, <2>2, BusyIs DEF IInv
  <2>4. answers' \subseteq Xids /\ UNCHANGED <<at, chan, reqs, jobs>>
    BY <1>13, <2>3 DEF SendReply, Sent, SentInv, cliVars
  <2> QED
    BY <2>4 DEF SentInv
<1>14. CASE Stop
  BY <1>u, <1>14 DEF Stop, cliVars, netVars
<1>15. ASSUME NEW k \in listed, CloseOne(k) PROVE SentInv'
  BY <1>u, <1>15 DEF CloseOne, cliVars, netVars
<1>16. CASE FreeReplyWindow
  BY <1>u, <1>16 DEF FreeReplyWindow, cliVars, netVars
<1> QED
  BY <1>1, <1>2, <1>3, <1>4, <1>5, <1>6, <1>7, <1>8, <1>9, <1>10, <1>11, <1>12, <1>13,
     <1>14, <1>15, <1>16, <1>17, <1>18 DEF Next, ClientNext, ServerNext, WorkerNext

-----------------------------------------------------------------------------
(* The reply window.                                                       *)

LEMMA PlaceIs ==
  ASSUME list \in Seq(Entries), NEW x
  PROVE  \/ Place(x) = 0 /\ \A e \in ToSet(list) : e.xid # x
         \/ Place(x) # 0 /\ Place(x) \in 1..Len(list) /\ list[Place(x)].xid = x
<1> DEFINE I == {i \in 1..Len(list) : list[i].xid = x}
<1>1. Place(x) = IF I # {} THEN Min(I) ELSE 0
  BY Zenon DEF Place, SelectInSeq
<1>2. CASE I = {}
  <2>1. Place(x) = 0
    BY Zenon, <1>1, <1>2
  <2>2. ASSUME NEW e \in ToSet(list), e.xid = x PROVE FALSE
    <3>1. PICK i \in 1..Len(list) : e = list[i]
      BY Zenon, <2>2, MemberAt
    <3> QED
      BY Zenon, <1>2, <2>2, <3>1
  <2> QED
    BY Zenon, <2>1, <2>2
<1>3. CASE I # {}
  <2>1. Place(x) = Min(I)
    BY Zenon, <1>1, <1>3
  <2>2. I \subseteq Nat
    OBVIOUS
  <2>3. Min(I) \in I
    <3> HIDE DEF I
    <3> QED
      BY Zenon, <1>3, <2>2, MinOf
  <2>4. \A i \in I : i # 0
    OBVIOUS
  <2> QED
    BY Zenon, <2>1, <2>3, <2>4
<1> QED
  BY Zenon, <1>2, <1>3

\* Each reply is kept once, and held as long as it is kept.
Owned(s, b) ==
  /\ Unique(s)
  /\ \A y \in Xids : b[y] = "held" <=> \E e \in ToSet(s) : e.xid = y /\ e.done

LEMMA OwnedIs ==
  ASSUME NEW s \in Seq(Entries), NEW b
  PROVE  Owned(s, b) <=>
           /\ \A i, j \in DOMAIN s : s[i].xid = s[j].xid => i = j
           /\ \A y \in Xids : b[y] = "held" <=> \E e \in ToSet(s) : e.xid = y /\ e.done
<1>1. DOMAIN s = 1..Len(s)
  BY Zenon, MembersOf
<1> QED
  BY Zenon, <1>1 DEF Owned, Unique

\* What the pass comes by, and what it leaves behind itself: together they have
\* the replies of the list, and share no xid.
Splits(b, r) ==
  /\ b \in Seq(Entries) /\ r \in Seq(Entries) /\ Unique(b) /\ Unique(r)
  /\ \A e \in ToSet(b), f \in ToSet(r) : e.xid # f.xid
  /\ \A e \in Entries : e.done => (e \in ToSet(list) <=> e \in ToSet(b) \/ e \in ToSet(r))

LEMMA BeforeFound ==
  ASSUME list \in Seq(Entries), Unique(list), NEW x, Place(x) # 0
  PROVE  Splits(Before(x), From(x))
<1>1. PICK p : p = Place(x)
  OBVIOUS
<1>2. PICK s : s = list
  OBVIOUS
<1>3. s \in Seq(Entries) /\ Unique(s)
  BY Zenon, <1>2
<1>4. p \in 1..Len(s)
  BY Zenon, <1>1, <1>2, PlaceIs
<1>5. PICK b : b = SubSeq(s, 1, p - 1)
  OBVIOUS
<1>6. PICK r : r = SubSeq(s, p, Len(s))
  OBVIOUS
<1>7. From(x) = r /\ Before(x) = b
  BY Zenon, <1>1, <1>2, <1>5, <1>6 DEF From, Before
<1>8. CutInto(s, b, r)
  BY Zenon, <1>3, <1>4, <1>5, <1>6, SplitAt
<1> QED
  BY Zenon, <1>2, <1>7, <1>8 DEF Splits, CutInto

LEMMA BeforeNew ==
  ASSUME list \in Seq(Entries), Unique(list), NEW x \in Xids, Place(x) = 0
  PROVE  Splits(Before(x), <<[xid |-> x, done |-> FALSE]>>)
<1>1. PICK new : new = [xid |-> x, done |-> FALSE]
  OBVIOUS
<1>2. new.xid = x /\ ~new.done
  BY <1>1
<1>3. new \in Entries
  <2>1. FALSE \in BOOLEAN
    OBVIOUS
  <2> QED
    BY Zenon, <1>1, <2>1 DEF Entries
<1>4. PICK r : r = <<new>>
  OBVIOUS
<1>5. r \in Seq(Entries)
  BY <1>3, <1>4
<1>6. Len(r) = 1 /\ r[1] = new /\ 1 \in 1..Len(r)
  BY <1>4
<1>7. new \in ToSet(r)
  BY Zenon, <1>5, <1>6, MembersOf
<1>8. ASSUME NEW e \in ToSet(r) PROVE e = new
  <2>1. PICK i \in 1..Len(r) : e = r[i]
    BY ZenonT(40), <1>5, <1>8, MemberAt
  <2>2. i = 1
    BY <1>6
  <2> QED
    BY Zenon, <1>6, <2>1, <2>2
<1>9. Unique(r)
  BY <1>6 DEF Unique
<1>10. Before(x) = list /\ \A e \in ToSet(list) : e.xid # x
  BY Zenon, PlaceIs DEF Before
<1>11. Splits(list, r)
  BY Zenon, <1>2, <1>5, <1>7, <1>8, <1>9, <1>10 DEF Splits
<1> QED
  BY Zenon, <1>1, <1>4, <1>10, <1>11

LEMMA XidIs ==
  ASSUME NEW y \in Xids
  PROVE  y \in Nat /\ y >= 1
  BY WindowAssumption DEF Xids

LEMMA EntryIs ==
  ASSUME NEW e \in Entries
  PROVE  e.xid \in Xids
  BY Zenon DEF Entries

LEMMA PassIs ==
  ASSUME ClientInv, BufInv, NEW x \in Xids, NEW r, Pass(x, r),
         \/ Place(x) # 0 /\ r = From(x)
         \/ Place(x) = 0 /\ r = <<[xid |-> x, done |-> FALSE]>>
  PROVE  /\ list' \in Seq(Entries) /\ buf' \in [Xids -> {"none", "held", "freed"}]
         /\ BuffersOwned'
         /\ \A y \in Xids : y \notin reported => buf'[y] = buf[y]
<1>1. PICK s : s = list
  OBVIOUS
<1>2. s \in Seq(Entries) /\ buf \in [Xids -> {"none", "held", "freed"}]
  BY Zenon, <1>1 DEF BufInv
<1>3. Unique(s) /\ \A y \in Xids : buf[y] = "held" <=> \E e \in ToSet(s) : e.xid = y /\ e.done
  BY Zenon, <1>1, <1>2, OwnedIs DEF BufInv, BuffersOwned, Owned
<1>4. PICK b : b = Before(x)
  OBVIOUS
<1>5. Splits(b, r)
  <2>1. list \in Seq(Entries) /\ Unique(list)
    BY Zenon, <1>1, <1>2, <1>3
  <2> QED
    BY Zenon, <1>4, <2>1, BeforeFound, BeforeNew
<1>6. PICK k : k = Kept(b, x)
  OBVIOUS
<1>7. /\ k \in Seq(Entries) /\ Unique(k)
      /\ \A e : e \in ToSet(k) <=> e \in ToSet(b) /\ ~OutOfDate(e, x)
  <2>1. /\ k \in Seq(Entries) /\ Unique(k)
        /\ ToSet(k) = {e \in ToSet(b) : ~OutOfDate(e, x)}
    BY Zenon, <1>5, <1>6, KeptIs DEF Splits
  <2> QED
    BY Zenon, <2>1
<1>8. PICK t : t = k \o r
  OBVIOUS
<1>9. /\ t \in Seq(Entries) /\ Unique(t)
      /\ \A e : e \in ToSet(t) <=> e \in ToSet(k) \/ e \in ToSet(r)
  <2>1. k \in Seq(Entries) /\ r \in Seq(Entries) /\ Unique(k) /\ Unique(r)
    BY Zenon, <1>5, <1>7 DEF Splits
  <2>2. t \in Seq(Entries) /\ ToSet(t) = ToSet(k) \cup ToSet(r)
    BY ZenonT(40), <1>8, <2>1, ConcatIs
  <2>3. \A e \in ToSet(k), f \in ToSet(r) : e.xid # f.xid
    BY Zenon, <1>5, <1>7 DEF Splits
  <2>4. Unique(t)
    BY Zenon, <1>8, <2>1, <2>3, ConcatUnique
  <2> QED
    BY Zenon, <2>2, <2>4
<1> DEFINE F == {e.xid : e \in {f \in ToSet(b) : OutOfDate(f, x) /\ f.done}}
<1>10. list' = t /\ buf' = [y \in Xids |-> IF y \in F THEN "freed" ELSE buf[y]]
  BY Zenon, <1>4, <1>6, <1>8 DEF Pass, Freed
<1>11. \A y : y \in F <=> \E e \in ToSet(b) : OutOfDate(e, x) /\ e.done /\ y = e.xid
  BY Zenon
<1> HIDE DEF F
<1>12. \A y \in Xids : /\ y \in F => buf'[y] = "freed"
                       /\ y \notin F => buf'[y] = buf[y]
  BY Zenon, <1>10
<1>13. buf' \in [Xids -> {"none", "held", "freed"}]
  BY <1>2, <1>10
\* What was freed, the client has reported.
<1>14. \A y \in F : y \in reported
  <2>1. ASSUME NEW e \in ToSet(b), OutOfDate(e, x) PROVE e.xid \in reported
    <3>1. e \in Entries
      BY Zenon, <1>5, <2>1, MembersOf DEF Splits
    <3>2. e.xid \in Nat /\ e.xid >= 1
      BY Zenon, <3>1, EntryIs, XidIs
    <3>3. NewMark(x) \in Nat /\ 1..NewMark(x) \subseteq reported
      BY NewMarkIs
    <3>4. e.xid < NewMark(x)
      BY Zenon, <2>1 DEF OutOfDate
    <3>5. e.xid \in 1..NewMark(x)
      BY <3>2, <3>3, <3>4
    <3> QED
      BY Zenon, <3>3, <3>5
  <2> QED
    BY Zenon, <1>11, <2>1
<1>15. Owned(t, buf')
  <2>1. ASSUME NEW y \in Xids, buf'[y] = "held"
        PROVE  \E e \in ToSet(t) : e.xid = y /\ e.done
    <3>1. y \notin F
      BY <1>12, <2>1
    <3>2. PICK e \in ToSet(s) : e.xid = y /\ e.done
      BY Zenon, <1>3, <1>12, <2>1, <3>1
    <3>3. e \in Entries
      BY Zenon, <1>2, <3>2, MembersOf
    <3>4. e \in ToSet(b) \/ e \in ToSet(r)
      BY Zenon, <1>1, <1>5, <3>2, <3>3 DEF Splits
    <3>5. e \in ToSet(t)
      BY Zenon, <1>7, <1>9, <1>11, <3>1, <3>2, <3>4
    <3> QED
      BY Zenon, <3>2, <3>5
  <2>2. ASSUME NEW y \in Xids, NEW e \in ToSet(t), e.xid = y, e.done
        PROVE  buf'[y] = "held"
    <3>1. e \in Entries
      BY Zenon, <1>9, <2>2, MembersOf
    <3>2. e \in ToSet(b) \/ e \in ToSet(r)
      BY Zenon, <1>7, <1>9, <2>2
    <3>3. e \in ToSet(s)
      BY Zenon, <1>1, <1>5, <2>2, <3>1, <3>2 DEF Splits
    <3>4. buf[y] = "held"
      BY Zenon, <1>3, <2>2, <3>3
    <3>5. ASSUME y \in F PROVE FALSE
      <4>1. PICK f \in ToSet(b) : OutOfDate(f, x) /\ f.done /\ y = f.xid
        BY Zenon, <1>11, <3>5
      <4>2. e \notin ToSet(r)
        BY Zenon, <1>5, <2>2, <4>1 DEF Splits
      <4>3. e \in ToSet(b) /\ ~OutOfDate(e, x)
        BY Zenon, <1>7, <1>9, <2>2, <4>2
      <4>4. e.xid = f.xid
        BY Zenon, <2>2, <4>1
      <4> QED
        BY Zenon, <4>1, <4>3, <4>4 DEF OutOfDate
    <3> QED
      BY Zenon, <1>12, <3>4, <3>5
  <2> QED
    BY Zenon, <1>9, <2>1, <2>2 DEF Owned
<1>16. BuffersOwned'
  <2>1. PICK h : h = buf'
    OBVIOUS
  <2>2. Owned(t, h) /\ DOMAIN t = 1..Len(t)
    BY Zenon, <1>9, <1>15, <2>1, MembersOf
  <2>3. /\ \A i, j \in DOMAIN t : t[i].xid = t[j].xid => i = j
        /\ \A y \in Xids : h[y] = "held" <=> \E e \in ToSet(t) : e.xid = y /\ e.done
    BY Zenon, <2>2 DEF Owned, Unique
  <2>4. list' = t /\ buf' = h
    BY Zenon, <1>10, <2>1
  <2> QED
    BY <2>3, <2>4 DEF BuffersOwned
<1> QED
  BY Zenon, <1>9, <1>10, <1>12, <1>13, <1>14, <1>16

LEMMA Marked ==
  ASSUME NEW r \in Entries
  PROVE  /\ [r EXCEPT !.done = TRUE] \in Entries
         /\ [r EXCEPT !.done = TRUE].xid = r.xid /\ [r EXCEPT !.done = TRUE].done
<1>1. TRUE \in BOOLEAN
  OBVIOUS
<1>2. [r EXCEPT !.done = TRUE] \in Entries
  BY Zenon, <1>1 DEF Entries
<1>3. [r EXCEPT !.done = TRUE].xid = r.xid /\ [r EXCEPT !.done = TRUE].done
  BY DEF Entries
<1> QED
  BY Zenon, <1>2, <1>3

LEMMA ReplacedIs ==
  ASSUME NEW s \in Seq(Entries), NEW p \in 1..Len(s), NEW d \in Entries,
         NEW t, t = [s EXCEPT ![p] = d]
  PROVE  /\ t \in Seq(Entries) /\ Len(t) = Len(s)
         /\ t[p] = d /\ \A i \in 1..Len(s) : i # p => t[i] = s[i]
<1>1. /\ [s EXCEPT ![p] = d] \in Seq(Entries) /\ Len([s EXCEPT ![p] = d]) = Len(s)
      /\ \A i \in 1..Len(s) : [s EXCEPT ![p] = d][i] = IF i = p THEN d ELSE s[i]
  BY ExceptSeq
<1> QED
  BY Zenon, <1>1

\* add_reply marks one entry done.
LEMMA ReplyAdded ==
  ASSUME NEW s \in Seq(Entries), Unique(s), NEW p \in 1..Len(s),
         NEW d \in Entries, d.xid = s[p].xid, d.done,
         NEW t \in Seq(Entries), Len(t) = Len(s),
         t[p] = d, \A i \in 1..Len(s) : i # p => t[i] = s[i]
  PROVE  /\ Unique(t) /\ d \in ToSet(t)
         /\ \A e : e.xid # d.xid => (e \in ToSet(t) <=> e \in ToSet(s))
<1>1. \A i \in 1..Len(s) : t[i].xid = s[i].xid
  BY Zenon
<1>2. Unique(t)
  BY Zenon, <1>1 DEF Unique
<1>3. d \in ToSet(t)
  BY Zenon, MembersOf
<1>4. ASSUME NEW e \in ToSet(t), e.xid # d.xid PROVE e \in ToSet(s)
  <2>1. PICK i \in 1..Len(t) : e = t[i]
    BY SMTT(30), <1>4, MembersOf
  <2>2. i # p /\ i \in 1..Len(s)
    BY Zenon, <1>4, <2>1
  <2>3. e = s[i]
    BY Zenon, <2>1, <2>2
  <2> QED
    BY Zenon, <2>2, <2>3, MembersOf
<1>5. ASSUME NEW e \in ToSet(s), e.xid # d.xid PROVE e \in ToSet(t)
  <2>1. PICK i \in 1..Len(s) : e = s[i]
    BY <1>5, MembersOf
  <2>2. i # p /\ i \in 1..Len(t)
    BY Zenon, <1>5, <2>1
  <2>3. e = t[i]
    BY Zenon, <2>1, <2>2
  <2> QED
    BY Zenon, <2>2, <2>3, MembersOf
<1> QED
  BY Zenon, <1>2, <1>3, <1>4, <1>5

\* A worker of another step, and one that is not about to send.
LEMMA Others ==
  ASSUME WorkInv, NEW w \in Workers, NEW r, wk' = [wk EXCEPT ![w] = r]
  PROVE  wk'[w] = r /\ \A v \in Workers : v # w => wk'[v] = wk[v]
<1>1. w \in DOMAIN wk /\ \A v \in Workers : v \in DOMAIN wk
  BY DEF WorkInv
<1> QED
  BY Zenon, <1>1

LEMMA SendsXid ==
  ASSUME WorkInv, NEW w \in Workers, wk[w].b1
  PROVE  wk[w].xid \in Xids
<1>1. wk[w] # IdleWorker
  BY DEF IdleWorker
<1> QED
  BY Zenon, <1>1, BusyIs

\* SentIfWaited goes on if no held buffer is taken from a caller that waits.
LEMMA SentKeeps ==
  ASSUME WorkInv, SentIfWaited, reported \subseteq reported',
         \A y \in Xids : y \notin reported /\ buf[y] = "held" => buf'[y] = "held",
         \A v \in Workers : wk'[v].b1 =>
            \/ wk[v].b1 /\ wk'[v].xid = wk[v].xid
            \/ wk'[v].xid \notin reported => buf'[wk'[v].xid] = "held"
  PROVE  SentIfWaited'
<1> SUFFICES ASSUME NEW v \in Workers, wk'[v].b1, wk'[v].xid \notin reported'
             PROVE  buf'[wk'[v].xid] = "held"
  BY DEF SentIfWaited
<1>1. wk'[v].xid \notin reported
  BY Zenon
<1>2. CASE wk[v].b1 /\ wk'[v].xid = wk[v].xid
  <2>1. wk[v].xid \in Xids
    BY Zenon, <1>2, SendsXid
  <2>2. buf[wk[v].xid] = "held"
    BY Zenon, <1>1, <1>2 DEF SentIfWaited
  <2> QED
    BY Zenon, <1>1, <1>2, <2>1, <2>2
<1> QED
  BY Zenon, <1>1, <1>2

LEMMA DoneIsHeld ==
  ASSUME BufInv, NEW x \in Xids, Place(x) # 0, list[Place(x)].done
  PROVE  buf[x] = "held"
<1>1. PICK p : p = Place(x)
  OBVIOUS
<1>2. list \in Seq(Entries) /\ BuffersOwned
  BY DEF BufInv
<1>3. p \in 1..Len(list) /\ list[p].xid = x /\ list[p].done
  BY Zenon, <1>1, <1>2, PlaceIs
<1>4. list[p] \in ToSet(list)
  BY Zenon, <1>2, <1>3, MembersOf
<1> QED
  BY Zenon, <1>2, <1>3, <1>4 DEF BuffersOwned

\* A step that passes over the list.
LEMMA PassStep ==
  ASSUME IInv, NEW w \in Workers, Duplicate(w) \/ InProgress(w) \/ NewRequest(w)
  PROVE  BufInv'
<1> USE DEF IInv
<1>1. wk[w] # IdleWorker
  BY DEF Duplicate, InProgress, NewRequest, IdleWorker
<1>2. PICK x \in Xids : x = wk[w].xid
  BY Zenon, <1>1, BusyIs
<1>3. PICK r : /\ Pass(x, r)
               /\ \/ Place(x) # 0 /\ r = From(x)
                  \/ Place(x) = 0 /\ r = <<[xid |-> x, done |-> FALSE]>>
  BY Zenon, <1>2 DEF Duplicate, InProgress, NewRequest
<1>4. /\ list' \in Seq(Entries) /\ buf' \in [Xids -> {"none", "held", "freed"}]
      /\ BuffersOwned'
      /\ \A y \in Xids : y \notin reported => buf'[y] = buf[y]
  BY Zenon, <1>3, PassIs
<1>5. UNCHANGED <<reported, server>>
  BY DEF Duplicate, InProgress, NewRequest, cliVars
<1>6. PICK q : q = wk[w] /\ q \in Busy
  BY Zenon, <1>1, BusyIs
<1>7. \/ wk' = [wk EXCEPT ![w] = [q EXCEPT !.pc = "send", !.b1 = TRUE]]
         /\ Place(x) # 0 /\ list[Place(x)].done
      \/ wk' = [wk EXCEPT ![w] = IdleWorker]
      \/ wk' = [wk EXCEPT ![w] = [q EXCEPT !.pc = "run"]]
  BY Zenon, <1>2, <1>6 DEF Duplicate, InProgress, NewRequest, Leave, Goes
<1>8. /\ [q EXCEPT !.pc = "send", !.b1 = TRUE].xid = q.xid
      /\ [q EXCEPT !.pc = "run"].xid = q.xid
      /\ [q EXCEPT !.pc = "run"].b1 = q.b1
      /\ ~IdleWorker.b1
  BY <1>6 DEF Busy, BusyIn, IdleWorker
<1>9. ASSUME NEW v \in Workers, wk'[v].b1
      PROVE  \/ wk[v].b1 /\ wk'[v].xid = wk[v].xid
             \/ wk'[v].xid \notin reported => buf'[wk'[v].xid] = "held"
  <2>1. CASE v # w
    <3>1. wk'[v] = wk[v]
      BY Zenon, <1>7, <2>1, Others
    <3> QED
      BY Zenon, <1>9, <3>1
  <2>2. CASE v = w /\ wk' = [wk EXCEPT ![w] = [q EXCEPT !.pc = "send", !.b1 = TRUE]]
             /\ Place(x) # 0 /\ list[Place(x)].done
    <3>0. wk'[w] = [q EXCEPT !.pc = "send", !.b1 = TRUE]
      BY Zenon, <2>2, Others
    <3>1. wk'[v].xid = x
      BY Zenon, <1>2, <1>6, <1>8, <2>2, <3>0
    <3>2. buf[x] = "held"
      BY Zenon, <2>2, DoneIsHeld
    <3> QED
      BY Zenon, <1>4, <3>1, <3>2
  <2>3. CASE v = w /\ wk' = [wk EXCEPT ![w] = IdleWorker]
    <3>1. wk'[v] = IdleWorker
      BY Zenon, <2>3, Others
    <3> QED
      BY Zenon, <1>8, <1>9, <3>1
  <2>4. CASE v = w /\ wk' = [wk EXCEPT ![w] = [q EXCEPT !.pc = "run"]]
    <3>1. wk'[v] = [q EXCEPT !.pc = "run"]
      BY Zenon, <2>4, Others
    <3> QED
      BY Zenon, <1>6, <1>8, <1>9, <2>4, <3>1
  <2> QED
    BY Zenon, <1>7, <2>1, <2>2, <2>3, <2>4
<1>10. SentIfWaited'
  <2>1. SentIfWaited /\ reported \subseteq reported' /\ WorkInv
    BY <1>5 DEF BufInv
  <2>2. \A y \in Xids : y \notin reported /\ buf[y] = "held" => buf'[y] = "held"
    BY Zenon, <1>4
  <2> QED
    BY Zenon, <1>9, <2>1, <2>2, SentKeeps
<1>11. server' # "gone"
  BY <1>1, <1>5 DEF WorkInv
<1> QED
  BY Zenon, <1>4, <1>10, <1>11 DEF BufInv

LEMMA AddReplyStep ==
  ASSUME IInv, NEW w \in Workers, AddReply(w)
  PROVE  BufInv'
<1> USE DEF IInv
<1>1. wk[w] # IdleWorker
  BY DEF AddReply, IdleWorker
<1>2. PICK x \in Xids : x = wk[w].xid
  BY Zenon, <1>1, BusyIs
<1>3. PICK q : q = wk[w] /\ q \in Busy
  BY Zenon, <1>1, BusyIs
<1>4. PICK s : s = list
  OBVIOUS
<1>5. PICK p : p = Place(x)
  OBVIOUS
<1>6. PICK t : t = list'
  OBVIOUS
<1>7. s \in Seq(Entries) /\ buf \in [Xids -> {"none", "held", "freed"}] /\ BuffersOwned /\ SentIfWaited
  BY Zenon, <1>4 DEF BufInv
<1>8. /\ p # 0 /\ t = [s EXCEPT ![p].done = TRUE] /\ buf' = [buf EXCEPT ![x] = "held"]
      /\ wk' = [wk EXCEPT ![w] = [q EXCEPT !.pc = "pick", !.b1 = TRUE]]
      /\ UNCHANGED <<reported, server>>
  BY <1>2, <1>3, <1>4, <1>5, <1>6 DEF AddReply, cliVars
<1>9. p \in 1..Len(s) /\ s[p].xid = x
  BY Zenon, <1>4, <1>5, <1>7, <1>8, PlaceIs
<1>10. Unique(s) /\ \A y \in Xids : buf[y] = "held" <=> \E e \in ToSet(s) : e.xid = y /\ e.done
  BY Zenon, <1>4, <1>7, OwnedIs DEF BuffersOwned, Owned
<1>11. s[p] \in Entries
  BY Zenon, <1>7, <1>9, MembersOf
<1>12. PICK d : d = [s[p] EXCEPT !.done = TRUE]
  OBVIOUS
<1>13. d \in Entries /\ d.xid = s[p].xid /\ d.done
  BY Zenon, <1>11, <1>12, Marked
<1>14. t = [s EXCEPT ![p] = d]
  BY Zenon, <1>8, <1>12
<1>15. t \in Seq(Entries) /\ Len(t) = Len(s) /\ t[p] = d /\ \A i \in 1..Len(s) : i # p => t[i] = s[i]
  <2>1. s \in Seq(Entries)
    BY <1>7
  <2>2. p \in 1..Len(s)
    BY <1>9
  <2>3. d \in Entries
    BY <1>13
  <2> QED
    BY <1>14, <2>1, <2>2, <2>3, ReplacedIs
<1>16. /\ Unique(t) /\ d \in ToSet(t)
       /\ \A e : e.xid # d.xid => (e \in ToSet(t) <=> e \in ToSet(s))
  <2>1. s \in Seq(Entries) /\ t \in Seq(Entries) /\ Unique(s)
    BY <1>7, <1>10, <1>15
  <2>2. p \in 1..Len(s)
    BY <1>9
  <2>3. d \in Entries
    BY <1>13
  <2> QED
    BY <1>13, <1>15, <2>1, <2>2, <2>3, ReplyAdded
<1>17. PICK h : h = buf'
  OBVIOUS
<1>18. /\ h \in [Xids -> {"none", "held", "freed"}]
       /\ h[x] = "held" /\ \A y \in Xids : y # x => h[y] = buf[y]
  BY <1>7, <1>8, <1>17
<1>19. \A y \in Xids : h[y] = "held" <=> \E e \in ToSet(t) : e.xid = y /\ e.done
  <2>1. ASSUME NEW y \in Xids, y = x
        PROVE  h[y] = "held" <=> \E e \in ToSet(t) : e.xid = y /\ e.done
    BY Zenon, <1>9, <1>13, <1>16, <1>18, <2>1
  <2>2. ASSUME NEW y \in Xids, y # x
        PROVE  h[y] = "held" <=> \E e \in ToSet(t) : e.xid = y /\ e.done
    BY ZenonT(40), <1>9, <1>10, <1>13, <1>16, <1>18, <2>2
  <2> QED
    BY Zenon, <2>1, <2>2
<1>20. BuffersOwned'
  <2>1. Unique(t) /\ DOMAIN t = 1..Len(t)
    BY Zenon, <1>15, <1>16, MembersOf
  <2>2. list' = t /\ buf' = h
    BY Zenon, <1>6, <1>17
  <2> QED
    BY Zenon, <1>19, <2>1, <2>2 DEF BuffersOwned, Unique
<1>21. SentIfWaited'
  <2>1. SentIfWaited /\ reported \subseteq reported' /\ WorkInv
    BY <1>8 DEF BufInv
  <2>2. \A y \in Xids : y \notin reported /\ buf[y] = "held" => buf'[y] = "held"
    BY Zenon, <1>17, <1>18
  <2>3. [q EXCEPT !.pc = "pick", !.b1 = TRUE].xid = q.xid
    BY <1>3 DEF Busy, BusyIn
  <2>4. wk'[w].xid = x /\ \A v \in Workers : v # w => wk'[v] = wk[v]
    BY Zenon, <1>2, <1>3, <1>8, <2>3, Others
  <2>5. \A v \in Workers : wk'[v].b1 =>
          \/ wk[v].b1 /\ wk'[v].xid = wk[v].xid
          \/ wk'[v].xid \notin reported => buf'[wk'[v].xid] = "held"
    BY Zenon, <1>17, <1>18, <2>4
  <2> QED
    BY Zenon, <2>1, <2>2, <2>5, SentKeeps
<1>22. server' # "gone"
  BY <1>1, <1>8 DEF WorkInv
<1> QED
  BY Zenon, <1>6, <1>15, <1>17, <1>18, <1>20, <1>21, <1>22 DEF BufInv

\* A step that leaves the list and the buffers alone, and sends nothing.
LEMMA BufSame ==
  ASSUME WorkInv, BufInv, UNCHANGED <<list, buf>>, reported \subseteq reported',
         \A v \in Workers : wk'[v].b1 => wk[v].b1 /\ wk'[v].xid = wk[v].xid,
         server' = "gone" => server = "gone"
  PROVE  BufInv'
<1>1. SentIfWaited'
  <2>1. SentIfWaited
    BY DEF BufInv
  <2>2. \A y \in Xids : y \notin reported /\ buf[y] = "held" => buf'[y] = "held"
    BY Zenon
  <2> QED
    BY Zenon, <2>1, <2>2, SentKeeps
<1>2. BuffersOwned'
  BY DEF BufInv, BuffersOwned
<1> QED
  BY Zenon, <1>1, <1>2 DEF BufInv

LEMMA FreeStep ==
  ASSUME IInv, FreeReplyWindow
  PROVE  BufInv'
<1> USE DEF IInv
<1>1. PICK s : s = list
  OBVIOUS
<1>2. s \in Seq(Entries) /\ buf \in [Xids -> {"none", "held", "freed"}] /\ BuffersOwned
  BY Zenon, <1>1 DEF BufInv
<1> DEFINE F == {e.xid : e \in {f \in ToSet(s) : f.done}}
<1>3. list' = <<>> /\ buf' = [y \in Xids |-> IF y \in F THEN "freed" ELSE buf[y]]
  BY Zenon, <1>1 DEF FreeReplyWindow, Freed
<1>4. \A y : y \in F <=> \E e \in ToSet(s) : e.done /\ y = e.xid
  BY Zenon
<1> HIDE DEF F
<1>5. buf' \in [Xids -> {"none", "held", "freed"}] /\ << >> \in Seq(Entries)
  BY <1>2, <1>3
<1>6. ASSUME NEW y \in Xids PROVE buf'[y] # "held"
  <2>1. CASE y \in F
    BY <1>3, <2>1
  <2>2. CASE y \notin F
    <3>1. buf[y] # "held"
      BY Zenon, <1>1, <1>2, <1>4, <2>2 DEF BuffersOwned
    <3> QED
      BY <1>3, <2>2, <3>1
  <2> QED
    BY <2>1, <2>2
<1>7. BuffersOwned'
  <2>1. DOMAIN << >> = {} /\ ToSet(<< >>) = {}
    BY DEF ToSet
  <2> QED
    BY Zenon, <1>3, <1>6, <2>1 DEF BuffersOwned
<1>8. SentIfWaited'
  <2> SUFFICES ASSUME NEW v \in Workers, wk'[v].b1 PROVE FALSE
    BY DEF SentIfWaited
  <2>1. wk' = wk /\ wk[v].pc = "idle"
    BY DEF FreeReplyWindow
  <2>2. wk[v] \in Busy => wk[v].pc # "idle"
    <3>1. wk[v] \in Busy => wk[v].pc \in {"check", "run", "pick", "send"}
      BY Zenon DEF Busy, BusyIn, Pcs
    <3> QED
      BY <3>1
  <2>3. wk[v] = IdleWorker
    BY Zenon, <2>1, <2>2 DEF WorkInv
  <2> QED
    BY <2>1, <2>3 DEF IdleWorker
<1> QED
  BY Zenon, <1>3, <1>5, <1>7, <1>8 DEF BufInv

LEMMA BufStep ==
  ASSUME IInv, Next
  PROVE  BufInv'
<1> USE DEF IInv
<1>u. ASSUME UNCHANGED <<list, buf, wk>>, reported \subseteq reported',
             server' = server \/ server' = "closing" \/ server' = "aborted"
      PROVE  BufInv'
  <2>1. server' = "gone" => server = "gone"
    BY <1>u
  <2> QED
    BY Zenon, <1>u, <2>1, BufSame
<1>a. ASSUME UNCHANGED <<list, buf, reported>>, Abort PROVE BufInv'
  <2>1. \A v \in Workers : ~wk'[v].b1
    BY <1>a DEF Abort, IdleWorker
  <2>2. server' # "gone"
    BY <1>a DEF Abort
  <2> QED
    BY Zenon, <1>a, <2>1, <2>2, BufSame
<1>1. CASE Issue
  BY <1>u, <1>1 DEF Issue, winVars
<1>2. CASE Connect
  BY <1>u, <1>2 DEF Connect, winVars
<1>3. ASSUME NEW x \in Xids, Transmit(x) \/ GotReply(x) \/ EndCall(x) PROVE BufInv'
  BY <1>u, <1>3 DEF Transmit, GotReply, EndCall, UpdateXidRep, winVars
<1>4. ASSUME NEW k \in Conns, ConnDies(k) PROVE BufInv'
  BY <1>u, <1>4 DEF ConnDies, cliVars, winVars
<1>5. CASE Accept
  BY <1>u, <1>5 DEF Accept, cliVars, winVars
<1>6. CASE GcDrop
  <2>1. UNCHANGED <<list, buf, reported>>
    BY <1>6 DEF GcDrop, cliVars, winVars
  <2>2. Abort \/ UNCHANGED <<wk, server>>
    BY <1>6 DEF GcDrop
  <2> QED
    BY Zenon, <1>u, <1>a, <2>1, <2>2
<1>7. CASE GcEnd
  BY <1>u, <1>7 DEF GcEnd, cliVars, winVars
<1>8. ASSUME NEW k \in ahead, GcTest(k) PROVE BufInv'
  BY <1>u, <1>8 DEF GcTest, cliVars, winVars
<1>9. ASSUME NEW x \in Xids, NEW k \in Conns, GotRequest(x, k) PROVE BufInv'
  BY <1>u, <1>9 DEF GotRequest, cliVars, winVars
<1>10. ASSUME NEW w \in Workers, NEW j \in jobs, TakeJob(w, j) PROVE BufInv'
  <2>1. UNCHANGED <<list, buf, reported, server>>
    BY <1>10 DEF TakeJob, cliVars, winVars
  <2>2. PICK r : r = [pc |-> "check", xid |-> j[1], conn |-> j[2], b1 |-> FALSE]
    OBVIOUS
  <2>3. ~r.b1
    BY <2>2
  <2>4. wk' = [wk EXCEPT ![w] = r]
    BY Zenon, <1>10, <2>2, TakeJobIs
  <2>5. \A v \in Workers : wk'[v].b1 => wk[v].b1 /\ wk'[v].xid = wk[v].xid
    BY Zenon, <2>3, <2>4, Others
  <2> QED
    BY Zenon, <2>1, <2>5, BufSame
<1>18. ASSUME NEW w \in Workers, NEW j \in jobs, NoHandler(w, j) \/ OldInstance(w, j)
       PROVE  BufInv'
  BY <1>u, <1>18 DEF NoHandler, OldInstance, cliVars, winVars
<1>11. ASSUME NEW w \in Workers, Forgotten(w) \/ PickConn(w) \/ SendReply(w) PROVE BufInv'
  <2>1. UNCHANGED <<list, buf, reported, server>>
    BY <1>11 DEF Forgotten, PickConn, SendReply, cliVars, winVars
  <2>2. PICK q : q = wk[w] /\ q \in Busy
    BY Zenon, <1>11, BusySteps, BusyIs
  <2>3. \/ wk' = [wk EXCEPT ![w] = [q EXCEPT !.pc = "send"]]
        \/ wk' = [wk EXCEPT ![w] = [q EXCEPT !.pc = "send", !.conn = latest]]
        \/ wk' = [wk EXCEPT ![w] = IdleWorker]
    BY Zenon, <1>11, <2>2 DEF Forgotten, PickConn, SendReply, Goes, Leave
  <2>4. PICK r : /\ r = [q EXCEPT !.pc = "send"] \/ r = IdleWorker
                    \/ r = [q EXCEPT !.pc = "send", !.conn = latest]
                 /\ wk' = [wk EXCEPT ![w] = r]
    BY Zenon, <2>3
  <2>5. r.b1 => wk[w].b1 /\ r.xid = wk[w].xid
    <3>1. /\ [q EXCEPT !.pc = "send"].b1 = q.b1 /\ [q EXCEPT !.pc = "send"].xid = q.xid
          /\ [q EXCEPT !.pc = "send", !.conn = latest].b1 = q.b1
          /\ [q EXCEPT !.pc = "send", !.conn = latest].xid = q.xid
      BY <2>2 DEF Busy, BusyIn
    <3>2. ~IdleWorker.b1
      BY DEF IdleWorker
    <3> QED
      BY Zenon, <2>2, <2>4, <3>1, <3>2
  <2>6. \A v \in Workers : wk'[v].b1 => wk[v].b1 /\ wk'[v].xid = wk[v].xid
    BY Zenon, <2>4, <2>5, Others
  <2> QED
    BY Zenon, <2>1, <2>6, BufSame
<1>12. ASSUME NEW w \in Workers, Duplicate(w) \/ InProgress(w) \/ NewRequest(w) PROVE BufInv'
  BY Zenon, <1>12, PassStep
<1>13. ASSUME NEW w \in Workers, AddReply(w) PROVE BufInv'
  BY Zenon, <1>13, AddReplyStep
<1>14. ASSUME NEW w \in Workers, AddReplyAsserts(w) PROVE BufInv'
  BY <1>a, <1>14 DEF AddReplyAsserts, cliVars, winVars
<1>15. CASE Stop
  BY <1>u, <1>15 DEF Stop, cliVars, winVars
<1>16. ASSUME NEW k \in listed, CloseOne(k) PROVE BufInv'
  BY <1>u, <1>16 DEF CloseOne, cliVars, winVars
<1>17. CASE FreeReplyWindow
  BY Zenon, <1>17, FreeStep
<1> QED
  BY <1>1, <1>2, <1>3, <1>4, <1>5, <1>6, <1>7, <1>8, <1>9, <1>10, <1>11, <1>12, <1>13,
     <1>14, <1>15, <1>16, <1>17, <1>18 DEF Next, ClientNext, ServerNext, WorkerNext

-----------------------------------------------------------------------------
(* The references.                                                         *)

JobsOn(js, k)    == Cardinality({j \in js : j[2] = k})
WorkersOn(f, k)  == Cardinality({w \in Workers : f[w].conn = k})

LEMMA Counted ==
  ASSUME NEW S, IsFiniteSet(S), NEW x
  PROVE  /\ Cardinality(S) \in Nat
         /\ x \notin S => IsFiniteSet(S \cup {x}) /\ Cardinality(S \cup {x}) = Cardinality(S) + 1
         /\ x \in S => /\ IsFiniteSet(S \ {x}) /\ Cardinality(S \ {x}) = Cardinality(S) - 1
                       /\ Cardinality(S) >= 1
<1>1. Cardinality(S) \in Nat
  BY Zenon, FS_CardinalityType
<1>2. x \notin S => IsFiniteSet(S \cup {x}) /\ Cardinality(S \cup {x}) = Cardinality(S) + 1
  BY Zenon, FS_AddElement
<1>3. ASSUME x \in S
      PROVE  /\ IsFiniteSet(S \ {x}) /\ Cardinality(S \ {x}) = Cardinality(S) - 1
             /\ Cardinality(S) >= 1
  <2>1. IsFiniteSet(S \ {x}) /\ Cardinality(S \ {x}) = Cardinality(S) - 1
    BY Zenon, <1>3, FS_RemoveElement
  <2>2. Cardinality(S \ {x}) \in Nat
    BY Zenon, <2>1, FS_CardinalityType
  <2> QED
    BY <1>1, <2>1, <2>2
<1> QED
  BY Zenon, <1>1, <1>2, <1>3

LEMMA JobsFinite ==
  ASSUME NEW m \in Nat, NEW js, js \subseteq Xids \X (1..m)
  PROVE  \A k : IsFiniteSet({j \in js : j[2] = k}) /\ JobsOn(js, k) \in Nat
<1>1. IsFiniteSet(Xids) /\ IsFiniteSet(1..m)
  BY WindowAssumption, FS_Interval DEF Xids
<1>2. IsFiniteSet(Xids \X (1..m))
  BY Zenon, <1>1, FS_Product
<1>3. IsFiniteSet(js)
  BY Zenon, <1>2, FS_Subset
<1>4. ASSUME NEW k PROVE IsFiniteSet({j \in js : j[2] = k}) /\ JobsOn(js, k) \in Nat
  <2>1. {j \in js : j[2] = k} \subseteq js
    OBVIOUS
  <2>2. IsFiniteSet({j \in js : j[2] = k})
    BY Zenon, <1>3, <2>1, FS_Subset
  <2> QED
    BY Zenon, <2>2, FS_CardinalityType DEF JobsOn
<1> QED
  BY Zenon, <1>4

LEMMA JobAdded ==
  ASSUME NEW m \in Nat, NEW js, js \subseteq Xids \X (1..m), NEW j, j \notin js, NEW k
  PROVE  JobsOn(js \cup {j}, k) = JobsOn(js, k) + Count(j[2] = k)
<1> DEFINE S == {i \in js : i[2] = k}
<1>1. IsFiniteSet(S) /\ JobsOn(js, k) \in Nat
  BY Zenon, JobsFinite
<1>2. CASE j[2] = k
  <2>1. {i \in js \cup {j} : i[2] = k} = S \cup {j} /\ j \notin S
    BY <1>2
  <2>2. Cardinality(S \cup {j}) = Cardinality(S) + 1
    BY Zenon, <1>1, <2>1, Counted
  <2> QED
    BY Zenon, <1>2, <2>1, <2>2 DEF JobsOn, Count
<1>3. CASE j[2] # k
  <2>1. {i \in js \cup {j} : i[2] = k} = S
    BY <1>3
  <2>2. JobsOn(js \cup {j}, k) = JobsOn(js, k)
    BY Zenon, <2>1 DEF JobsOn
  <2> QED
    BY <1>1, <1>3, <2>2 DEF Count
<1> QED
  BY <1>2, <1>3

LEMMA JobTaken ==
  ASSUME NEW m \in Nat, NEW js, js \subseteq Xids \X (1..m), NEW j \in js, NEW k
  PROVE  /\ JobsOn(js \ {j}, k) = JobsOn(js, k) - Count(j[2] = k)
         /\ j[2] = k => JobsOn(js, k) >= 1
<1> DEFINE S == {i \in js : i[2] = k}
<1>1. IsFiniteSet(S) /\ JobsOn(js, k) \in Nat
  BY Zenon, JobsFinite
<1>2. CASE j[2] = k
  <2>1. {i \in js \ {j} : i[2] = k} = S \ {j} /\ j \in S
    BY <1>2
  <2>2. Cardinality(S \ {j}) = Cardinality(S) - 1 /\ Cardinality(S) >= 1
    BY Zenon, <1>1, <2>1, Counted
  <2> QED
    BY Zenon, <1>2, <2>1, <2>2 DEF JobsOn, Count
<1>3. CASE j[2] # k
  <2>1. {i \in js \ {j} : i[2] = k} = S
    BY <1>3
  <2>2. JobsOn(js \ {j}, k) = JobsOn(js, k)
    BY Zenon, <2>1 DEF JobsOn
  <2> QED
    BY <1>1, <1>3, <2>2 DEF Count
<1> QED
  BY <1>2, <1>3

LEMMA WorkersFinite ==
  ASSUME NEW f, NEW k
  PROVE  IsFiniteSet({w \in Workers : f[w].conn = k}) /\ WorkersOn(f, k) \in Nat
<1>1. {w \in Workers : f[w].conn = k} \subseteq Workers
  OBVIOUS
<1>2. IsFiniteSet({w \in Workers : f[w].conn = k})
  BY Zenon, <1>1, FS_Subset, DispatchAssumption
<1> QED
  BY Zenon, <1>2, FS_CardinalityType DEF WorkersOn

\* A worker that goes from one connection to another.
OnlyMoves(f, g, w) == \A v \in Workers : v # w => g[v].conn = f[v].conn
Moved(f, g, w, k) ==
  WorkersOn(g, k) = (WorkersOn(f, k) + Count(g[w].conn = k)) - Count(f[w].conn = k)

LEMMA WorkerMoved ==
  ASSUME NEW f, NEW g, NEW w \in Workers, OnlyMoves(f, g, w), NEW k
  PROVE  Moved(f, g, w, k)
<1> USE DEF OnlyMoves, Moved
<1>a. PICK a, b : a = f[w].conn /\ b = g[w].conn
  OBVIOUS
<1> DEFINE S == {v \in Workers : f[v].conn = k}
           T == {v \in Workers : g[v].conn = k}
<1>1. /\ IsFiniteSet(S) /\ WorkersOn(f, k) \in Nat /\ WorkersOn(f, k) = Cardinality(S)
      /\ WorkersOn(g, k) = Cardinality(T)
  BY Zenon, WorkersFinite DEF WorkersOn
<1>2. CASE a = k /\ b = k
  <2>1. T = S /\ w \in S
    BY <1>a, <1>2
  <2>2. Cardinality(S) >= 1
    BY Zenon, <1>1, <2>1, Counted
  <2>3. WorkersOn(g, k) = WorkersOn(f, k)
    BY Zenon, <1>1, <2>1
  <2> QED
    BY <1>1, <1>a, <1>2, <2>2, <2>3 DEF Count
<1>3. CASE a = k /\ b # k
  <2>1. T = S \ {w} /\ w \in S
    BY <1>a, <1>3
  <2>2. Cardinality(S \ {w}) = Cardinality(S) - 1 /\ Cardinality(S) >= 1
    BY Zenon, <1>1, <2>1, Counted
  <2>3. WorkersOn(g, k) = WorkersOn(f, k) - 1 /\ WorkersOn(f, k) >= 1
    BY Zenon, <1>1, <2>1, <2>2
  <2> QED
    BY <1>1, <1>a, <1>3, <2>3 DEF Count
<1>4. CASE a # k /\ b = k
  <2>1. T = S \cup {w} /\ w \notin S
    BY <1>a, <1>4
  <2>2. Cardinality(S \cup {w}) = Cardinality(S) + 1
    BY Zenon, <1>1, <2>1, Counted
  <2>3. WorkersOn(g, k) = WorkersOn(f, k) + 1
    BY Zenon, <1>1, <2>1, <2>2
  <2> QED
    BY <1>1, <1>a, <1>4, <2>3 DEF Count
<1>5. CASE a # k /\ b # k
  <2>1. T = S
    BY <1>a, <1>5
  <2>2. WorkersOn(g, k) = WorkersOn(f, k)
    BY Zenon, <1>1, <2>1
  <2> QED
    BY <1>1, <1>a, <1>5, <2>2 DEF Count
<1> QED
  BY <1>2, <1>3, <1>4, <1>5

LEMMA WorkersSame ==
  ASSUME NEW f, NEW g, \A v \in Workers : g[v].conn = f[v].conn, NEW k
  PROVE  WorkersOn(g, k) = WorkersOn(f, k)
<1>1. {v \in Workers : g[v].conn = k} = {v \in Workers : f[v].conn = k}
  OBVIOUS
<1> QED
  BY Zenon, <1>1 DEF WorkersOn

LEMMA MadeConns ==
  ASSUME ConnInv, NEW k \in 1..made
  PROVE  k \in Conns /\ k \in 0..made /\ k # NoConn
BY DispatchAssumption DEF ConnInv, Conns, NoConn

\* Holders, before and after a step.
HoldersOf(L, n, a, l, js, f, g, k) ==
  Count(k \in L) + Count(k = n /\ a # "select") + Count(k = l) + JobsOn(js, k) + WorkersOn(f, k)
    + g[k]

LEMMA HoldersIs ==
  ASSUME WorkInv, ConnInv, NEW k \in Conns
  PROVE  /\ Owed(k) = HoldersOf(listed, made, apc, latest, jobs, wk, leaked, k)
         /\ JobsOn(jobs, k) \in Nat /\ WorkersOn(wk, k) \in Nat /\ leaked[k] \in Nat /\ Owed(k) \in Nat
<1>1. Owed(k) = HoldersOf(listed, made, apc, latest, jobs, wk, leaked, k)
  BY Zenon DEF Owed, Holders, HoldersOf, JobsOn, WorkersOn
<1>2. JobsOn(jobs, k) \in Nat
  <2>1. made \in Nat /\ jobs \subseteq Xids \X (1..made)
    BY DEF ConnInv, WorkInv
  <2> QED
    BY Zenon, <2>1, JobsFinite
<1>3. WorkersOn(wk, k) \in Nat /\ leaked[k] \in Nat
  BY Zenon, WorkersFinite DEF ConnInv
<1>4. HoldersOf(listed, made, apc, latest, jobs, wk, leaked, k) \in Nat
  BY <1>2, <1>3 DEF HoldersOf, Count
<1> QED
  BY Zenon, <1>1, <1>2, <1>3, <1>4

LEMMA HoldersThen ==
  ASSUME WorkInv', ConnInv', NEW k \in Conns
  PROVE  /\ Owed(k)' = HoldersOf(listed', made', apc', latest', jobs', wk', leaked', k)
         /\ JobsOn(jobs', k) \in Nat /\ WorkersOn(wk', k) \in Nat /\ leaked'[k] \in Nat /\ Owed(k)' \in Nat
<1>1. Owed(k)' = HoldersOf(listed', made', apc', latest', jobs', wk', leaked', k)
  BY Zenon DEF Owed, Holders, HoldersOf, JobsOn, WorkersOn
<1>2. JobsOn(jobs', k) \in Nat
  <2>1. PICK m, js : m = made' /\ js = jobs'
    OBVIOUS
  <2>2. m \in Nat /\ js \subseteq Xids \X (1..m)
    BY <2>1 DEF ConnInv, WorkInv
  <2>3. JobsOn(js, k) \in Nat
    BY Zenon, <2>2, JobsFinite
  <2> QED
    BY Zenon, <2>1, <2>3
<1>3. WorkersOn(wk', k) \in Nat /\ leaked'[k] \in Nat
  <2>1. PICK f : f = wk'
    OBVIOUS
  <2>2. WorkersOn(f, k) \in Nat
    BY Zenon, WorkersFinite
  <2>3. leaked'[k] \in Nat
    BY Zenon DEF ConnInv
  <2> QED
    BY Zenon, <2>1, <2>2, <2>3
<1>4. HoldersOf(listed', made', apc', latest', jobs', wk', leaked', k) \in Nat
  BY <1>2, <1>3 DEF HoldersOf, Count
<1> QED
  BY Zenon, <1>1, <1>2, <1>3, <1>4

\* The listener or its accept thread holds what is not dead.
LEMMA LiveHeld ==
  ASSUME ConnInv, WorkInv, server # "aborted", NEW k \in 1..made \ dead
  PROVE  Owed(k) >= 1
<1>1. k \in listed \/ (k = made /\ apc # "select")
  BY DEF ConnInv
<1>2. Owed(k) = HoldersOf(listed, made, apc, latest, jobs, wk, leaked, k)
      /\ JobsOn(jobs, k) \in Nat /\ WorkersOn(wk, k) \in Nat /\ leaked[k] \in Nat
  BY Zenon, HoldersIs, MadeConns
<1> QED
  BY <1>1, <1>2 DEF HoldersOf, Count

LEMMA LiveHeldThen ==
  ASSUME ConnInv', WorkInv', server' # "aborted", NEW k, k \in 1..made' \ dead'
  PROVE  Owed(k)' >= 1
<1>0. k \in Conns
  BY DispatchAssumption DEF ConnInv, Conns
<1>1. k \in listed' \/ (k = made' /\ apc' # "select")
  BY DEF ConnInv
<1>2. Owed(k)' = HoldersOf(listed', made', apc', latest', jobs', wk', leaked', k)
      /\ JobsOn(jobs', k) \in Nat /\ WorkersOn(wk', k) \in Nat /\ leaked'[k] \in Nat
  BY Zenon, <1>0, HoldersThen
<1> QED
  BY <1>1, <1>2 DEF HoldersOf, Count

\* The references, if p gains one and d loses one, and K is dead then.
RefsMove(p, d, K) ==
  /\ refno' \in [Conns -> Int]
  /\ \A k \in Conns : refno'[k] = (refno[k] + Count(k = p)) - Count(k = d)
  /\ \A k : k \in deleted' <=> k \in deleted \/ (k = d /\ d # NoConn /\ refno[d] = 1 /\ d \in K)

\* The holders.
HoldersMove(p, d) ==
  \A k \in 1..made : Owed(k)' = (Owed(k) + Count(k = p)) - Count(k = d)

\* A step in which p gains a holder and a reference, and d loses one of each.
LEMMA RefBy ==
  ASSUME IInv, ConnInv', WorkInv', server # "aborted", server' # "aborted",
         made' = made, dead \subseteq dead',
         NEW p, NEW d, d \in 0..made, p # d \/ p = NoConn,
         RefsMove(p, d, dead'), HoldersMove(p, d), p # NoConn => Owed(p) >= 1
  PROVE  RefInv'
<1> USE DEF IInv, RefsMove, HoldersMove
<1>1. ASSUME NEW k \in 1..made
      PROVE  /\ k \in Conns /\ refno[k] \in Nat /\ Owed(k) \in Nat /\ Owed(k)' \in Nat
             /\ refno[k] = Owed(k) /\ (k \in deleted <=> Owed(k) = 0)
  <2>1. k \in Conns /\ refno[k] \in Nat
    <3>1. made \in Nat /\ made <= MaxConns
      BY DispatchAssumption DEF ConnInv
    <3>2. k \in Conns
      BY <3>1, DispatchAssumption DEF Conns
    <3>3. refno \in [Conns -> Nat]
      BY Zenon DEF RefInv
    <3> QED
      BY <3>2, <3>3
  <2>2. Owed(k) \in Nat /\ Owed(k)' \in Nat
    BY Zenon, HoldersIs, HoldersThen, MadeConns
  <2>3. refno[k] = Owed(k) /\ (k \in deleted <=> Owed(k) = 0)
    BY Zenon DEF RefInv, RefsExact
  <2> QED
    BY Zenon, <2>1, <2>2, <2>3
<1>2. ASSUME NEW k \in 1..made PROVE refno'[k] = Owed(k)'
  BY <1>1
<1>3. ASSUME NEW k \in 1..made PROVE k \in deleted' <=> Owed(k)' = 0
  <2>1. CASE k # d
    <3>1. Owed(k)' = Owed(k) + Count(k = p) /\ (k \in deleted' <=> k \in deleted)
      BY <1>1, <2>1 DEF Count
    <3>2. k = p => Owed(k) >= 1
      BY DEF NoConn
    <3> QED
      BY <1>1, <3>1, <3>2 DEF Count
  <2>2. CASE k = d
    <3>1. Owed(k)' = Owed(k) - 1
      BY <1>1, <2>2 DEF Count, NoConn
    <3>2. k \notin deleted
      BY <1>1, <3>1
    <3>3. k \in deleted' <=> refno[k] = 1 /\ k \in dead'
      BY <2>2, <3>2 DEF NoConn
    <3>4. k \notin dead' => Owed(k)' >= 1
      <4>1. k \in 1..made'
        BY Zenon
      <4> QED
        BY Zenon, <4>1, LiveHeldThen
    <3> QED
      BY <1>1, <3>1, <3>3, <3>4
  <2> QED
    BY <2>1, <2>2
<1>4. refno' \in [Conns -> Nat]
  <2>1. ASSUME NEW k \in Conns PROVE refno'[k] \in Nat
    <3>1. CASE k \in 1..made
      BY <1>1, <1>2, <3>1
    <3>2. CASE k \notin 1..made
      <4>1. k # d
        BY <3>2 DEF Conns
      <4> QED
        BY <4>1 DEF Count, RefInv
    <3> QED
      BY <3>1, <3>2
  <2> QED
    BY <2>1
<1>5. deleted' \subseteq dead'
  BY DEF RefInv
<1>6. RefsExact'
  <2>1. \A k \in 1..made' : refno'[k] = Owed(k)' /\ (k \in deleted' <=> Owed(k)' = 0)
    BY Zenon, <1>2, <1>3
  <2> QED
    BY Zenon, <2>1 DEF RefsExact
<1> QED
  BY Zenon, <1>4, <1>5, <1>6 DEF RefInv

\* A step in which the holders and the references are the same.
LEMMA RefSame ==
  ASSUME IInv, ConnInv', WorkInv', UNCHANGED <<refno, deleted, leaked, made, listed, latest, jobs>>,
         apc' = "select" <=> apc = "select", dead \subseteq dead',
         \A v \in Workers : wk'[v].conn = wk[v].conn, server' # "aborted" => server # "aborted"
  PROVE  RefInv'
<1> USE DEF IInv
<1>1. refno' \in [Conns -> Nat] /\ deleted' \subseteq dead'
  BY DEF RefInv
<1>2. ASSUME NEW k \in 1..made PROVE Owed(k)' = Owed(k)
  <2>1. PICK f : f = wk'
    OBVIOUS
  <2>2. WorkersOn(f, k) = WorkersOn(wk, k)
    <3>1. \A v \in Workers : f[v].conn = wk[v].conn
      BY Zenon, <2>1
    <3> QED
      BY Zenon, <3>1, WorkersSame
  <2>3. Count(k = made' /\ apc' # "select") = Count(k = made /\ apc # "select")
    BY DEF Count
  <2>4. HoldersOf(listed', made', apc', latest', jobs', wk', leaked', k)
          = HoldersOf(listed, made, apc, latest, jobs, wk, leaked, k)
    BY Zenon, <2>1, <2>2, <2>3 DEF HoldersOf
  <2>5. Owed(k)' = HoldersOf(listed', made', apc', latest', jobs', wk', leaked', k)
    BY Zenon, HoldersThen, MadeConns
  <2>6. Owed(k) = HoldersOf(listed, made, apc, latest, jobs, wk, leaked, k)
    BY Zenon, HoldersIs, MadeConns
  <2> QED
    BY Zenon, <2>4, <2>5, <2>6
<1>3. RefsExact'
  <2>1. ASSUME server' # "aborted"
        PROVE  \A k \in 1..made' : refno'[k] = Owed(k)' /\ (k \in deleted' <=> Owed(k)' = 0)
    BY Zenon, <1>2, <2>1 DEF RefInv, RefsExact
  <2> QED
    BY Zenon, <2>1 DEF RefsExact
<1> QED
  BY Zenon, <1>1, <1>3 DEF RefInv

\* Decref of one that has a holder, in a step in which that holder goes.
LEMMA DecrefIs ==
  ASSUME IInv, NEW d \in Conns, NEW K, Decref(d, K)
  PROVE  RefsMove(NoConn, d, K)
<1>1. refno \in [Conns -> Nat]
  BY DEF IInv, RefInv
<1>2. refno' \in [Conns -> Int] /\ \A k \in Conns : refno'[k] = IF k = d THEN refno[k] - 1 ELSE refno[k]
  BY <1>1 DEF Decref
<1>3. \A k \in Conns : refno'[k] = (refno[k] + Count(k = NoConn)) - Count(k = d)
  BY <1>1, <1>2 DEF Count, Conns, NoConn
<1>4. d # NoConn
  BY DEF Conns, NoConn
<1>5. \A k : k \in deleted' <=> k \in deleted \/ (k = d /\ d # NoConn /\ refno[d] = 1 /\ d \in K)
  BY <1>4 DEF Decref
<1> QED
  BY Zenon, <1>2, <1>3, <1>5 DEF RefsMove

LEMMA RefAborted ==
  ASSUME server' = "aborted", refno' \in [Conns -> Nat], deleted' \subseteq dead'
  PROVE  RefInv'
BY DEF RefInv, RefsExact

LEMMA DropRef ==
  ASSUME IInv, GcDrop, ConnInv', WorkInv'
  PROVE  RefInv'
<1> USE DEF IInv
<1>1. /\ victim \in listed /\ victim \in 1..made /\ server # "aborted" /\ made' = made
      /\ leaked' = leaked /\ latest' = latest /\ Decref(victim, dead) /\ listed' = listed \ {victim}
  BY DEF GcDrop, ConnInv
<1>2. victim \in Conns /\ victim \in 0..made
  BY Zenon, <1>1, MadeConns
<1>3. CASE Abort
  <2>1. server' = "aborted" /\ dead' = 1..made
    BY <1>3 DEF Abort
  <2>2. refno[victim] >= 1
    <3>1. refno[victim] = Owed(victim)
      BY Zenon, <1>1 DEF RefInv, RefsExact
    <3>2. Owed(victim) = HoldersOf(listed, made, apc, latest, jobs, wk, leaked, victim)
          /\ JobsOn(jobs, victim) \in Nat /\ WorkersOn(wk, victim) \in Nat /\ leaked[victim] \in Nat
      BY Zenon, <1>2, HoldersIs
    <3> QED
      BY <1>1, <3>1, <3>2 DEF HoldersOf, Count
  <2>3. refno \in [Conns -> Nat] /\ deleted \subseteq 1..made
    BY DEF RefInv, ConnInv
  <2>4. refno' \in [Conns -> Nat] /\ deleted' \subseteq dead'
    BY <1>1, <1>2, <2>1, <2>2, <2>3 DEF Decref
  <2> QED
    BY Zenon, <2>1, <2>4, RefAborted
<1>4. CASE apc' = "gc" /\ UNCHANGED <<server, dead, reqs, jobs, wk>>
  <2>1. RefsMove(NoConn, victim, dead')
    BY Zenon, <1>1, <1>2, <1>4, DecrefIs
  <2>2. ASSUME NEW k \in 1..made
        PROVE  Owed(k)' = (Owed(k) + Count(k = NoConn)) - Count(k = victim)
    <3>1. /\ Owed(k) = HoldersOf(listed, made, apc, latest, jobs, wk, leaked, k)
          /\ JobsOn(jobs, k) \in Nat /\ WorkersOn(wk, k) \in Nat /\ leaked[k] \in Nat
          /\ Owed(k)' = HoldersOf(listed', made', apc', latest', jobs', wk', leaked', k)
      BY Zenon, HoldersIs, HoldersThen, MadeConns
    <3>2. Owed(k)' = HoldersOf(listed \ {victim}, made, "gc", latest, jobs, wk, leaked, k)
      BY Zenon, <1>1, <1>4, <3>1
    <3>3. apc = "drop"
      BY DEF GcDrop
    <3> QED
      BY <1>1, <3>1, <3>2, <3>3 DEF HoldersOf, Count, NoConn
  <2>3. server' # "aborted" /\ dead \subseteq dead'
    BY <1>1, <1>4
  <2>4. HoldersMove(NoConn, victim)
    BY Zenon, <2>2 DEF HoldersMove
  <2> QED
    BY Zenon, <1>1, <1>2, <2>1, <2>3, <2>4, RefBy
<1> QED
  BY <1>3, <1>4 DEF GcDrop

LEMMA CloseRef ==
  ASSUME IInv, NEW d \in listed, CloseOne(d), ConnInv', WorkInv'
  PROVE  RefInv'
<1> USE DEF IInv
<1>1. /\ d \in 1..made /\ server # "aborted" /\ server' # "aborted"
      /\ Decref(d, dead') /\ listed' = listed \ {d} /\ dead \subseteq dead'
      /\ UNCHANGED <<made, leaked, latest, apc, jobs, wk>>
  BY DEF CloseOne, ConnInv, accVars, Closed
<1>2. d \in Conns /\ d \in 0..made
  BY Zenon, <1>1, MadeConns
<1>3. RefsMove(NoConn, d, dead')
  <2>1. PICK K : K = dead'
    OBVIOUS
  <2>2. Decref(d, K)
    BY Zenon, <1>1, <2>1
  <2> QED
    BY Zenon, <1>2, <2>1, <2>2, DecrefIs
<1>4. ASSUME NEW k \in 1..made
      PROVE  Owed(k)' = (Owed(k) + Count(k = NoConn)) - Count(k = d)
  <2>1. /\ Owed(k) = HoldersOf(listed, made, apc, latest, jobs, wk, leaked, k)
        /\ JobsOn(jobs, k) \in Nat /\ WorkersOn(wk, k) \in Nat /\ leaked[k] \in Nat
        /\ Owed(k)' = HoldersOf(listed', made', apc', latest', jobs', wk', leaked', k)
    BY Zenon, HoldersIs, HoldersThen, MadeConns
  <2>2. Owed(k)' = HoldersOf(listed \ {d}, made, apc, latest, jobs, wk, leaked, k)
    BY Zenon, <1>1, <2>1
  <2> QED
    BY <1>1, <2>1, <2>2 DEF HoldersOf, Count, NoConn
<1>5. HoldersMove(NoConn, d)
  BY Zenon, <1>4 DEF HoldersMove
<1> QED
  BY Zenon, <1>1, <1>2, <1>3, <1>5, RefBy

\* What was put into conns_ is what the accept thread held.
LEMMA ListedRef ==
  ASSUME IInv, GcEnd, ConnInv', WorkInv'
  PROVE  RefInv'
<1> USE DEF IInv
<1>1. /\ UNCHANGED <<refno, deleted, leaked, dead, made, latest, jobs, wk, server>>
      /\ listed' = listed \cup {made} /\ made \notin listed /\ apc = "gc" /\ apc' = "select"
  BY DEF GcEnd, ConnInv, connVars
<1>2. server # "aborted" /\ server' # "aborted"
  BY <1>1 DEF ConnInv
<1>3. ASSUME NEW k \in 1..made PROVE Owed(k)' = Owed(k)
  <2>1. /\ Owed(k) = HoldersOf(listed, made, apc, latest, jobs, wk, leaked, k)
        /\ JobsOn(jobs, k) \in Nat /\ WorkersOn(wk, k) \in Nat /\ leaked[k] \in Nat
        /\ Owed(k)' = HoldersOf(listed', made', apc', latest', jobs', wk', leaked', k)
    BY Zenon, HoldersIs, HoldersThen, MadeConns
  <2>2. Owed(k)' = HoldersOf(listed \cup {made}, made, "select", latest, jobs, wk, leaked, k)
        /\ Owed(k) = HoldersOf(listed, made, "gc", latest, jobs, wk, leaked, k)
    BY Zenon, <1>1, <2>1
  <2> QED
    BY <1>1, <2>1, <2>2 DEF HoldersOf, Count
<1>4. /\ \A k \in 1..made' : refno'[k] = Owed(k)' /\ (k \in deleted' <=> Owed(k)' = 0)
      /\ refno' \in [Conns -> Nat] /\ deleted' \subseteq dead'
  <2>1. refno \in [Conns -> Nat] /\ deleted \subseteq dead
    BY DEF RefInv
  <2>2. \A k \in 1..made : refno[k] = Owed(k) /\ (k \in deleted <=> Owed(k) = 0)
    BY Zenon, <1>2 DEF RefInv, RefsExact
  <2> QED
    BY Zenon, <1>1, <1>3, <2>1, <2>2
<1> QED
  BY Zenon, <1>4 DEF RefInv, RefsExact

\* A worker lets go of a and takes b.
LEMMA WorkerHolds ==
  ASSUME IInv, ConnInv', WorkInv', UNCHANGED <<made, leaked, listed, apc, latest, jobs>>,
         NEW w \in Workers, NEW r, NEW a, NEW b, wk[w].conn = a, r.conn = b,
         wk' = [wk EXCEPT ![w] = r]
  PROVE  HoldersMove(b, a)
<1> USE DEF IInv
<1>1. PICK g : g = wk' /\ g[w].conn = b /\ OnlyMoves(wk, g, w)
  BY DEF WorkInv, OnlyMoves
<1>2. ASSUME NEW k \in 1..made
      PROVE  Owed(k)' = (Owed(k) + Count(k = b)) - Count(k = a)
  <2>1. WorkersOn(g, k) = (WorkersOn(wk, k) + Count(b = k)) - Count(a = k)
    <3>1. Moved(wk, g, w, k)
      BY Zenon, <1>1, WorkerMoved
    <3> QED
      BY Zenon, <1>1, <3>1 DEF Moved
  <2>2. /\ Owed(k) = HoldersOf(listed, made, apc, latest, jobs, wk, leaked, k)
        /\ JobsOn(jobs, k) \in Nat /\ WorkersOn(wk, k) \in Nat /\ leaked[k] \in Nat
    BY Zenon, HoldersIs, MadeConns
  <2>3. Owed(k)' = HoldersOf(listed', made', apc', latest', jobs', wk', leaked', k)
        /\ WorkersOn(wk', k) \in Nat /\ leaked'[k] \in Nat
    BY Zenon, HoldersThen, MadeConns
  <2>4. Owed(k)' = HoldersOf(listed, made, apc, latest, jobs, g, leaked, k)
        /\ WorkersOn(g, k) \in Nat
    BY Zenon, <1>1, <2>3
  <2> QED
    BY <2>1, <2>2, <2>4 DEF HoldersOf, Count
<1> QED
  BY Zenon, <1>2 DEF HoldersMove

LEMMA LeaveRef ==
  ASSUME IInv, NEW w \in Workers, InProgress(w) \/ SendReply(w), ConnInv', WorkInv'
  PROVE  RefInv'
<1> USE DEF IInv
<1>1. PICK d : d = wk[w].conn
  OBVIOUS
<1>2. wk[w] # IdleWorker
  BY Zenon, BusySteps
<1>3. d \in 1..made
  BY Zenon, <1>1, <1>2, BusyIs
<1>4. d \in Conns /\ d \in 0..made
  BY Zenon, <1>3, MadeConns
<1>5. /\ UNCHANGED <<made, leaked, listed, apc, latest, jobs, server, dead>>
      /\ Decref(d, dead) /\ wk' = [wk EXCEPT ![w] = IdleWorker]
  BY <1>1 DEF InProgress, SendReply, Leave, accVars
<1>6. RefsMove(NoConn, d, dead)
  BY Zenon, <1>4, <1>5, DecrefIs
<1>7. HoldersMove(NoConn, d)
  <2>1. IdleWorker.conn = NoConn
    BY DEF IdleWorker
  <2> QED
    BY Zenon, <1>1, <1>5, <2>1, WorkerHolds
<1>8. server # "aborted"
  BY <1>2 DEF WorkInv
<1>9. RefsMove(NoConn, d, dead') /\ made' = made /\ dead \subseteq dead' /\ server' # "aborted"
  BY Zenon, <1>5, <1>6, <1>8
<1> QED
  BY Zenon, <1>4, <1>7, <1>8, <1>9, RefBy

LEMMA PickRef ==
  ASSUME IInv, NEW w \in Workers, PickConn(w), ConnInv', WorkInv'
  PROVE  RefInv'
<1> USE DEF IInv
<1>1. PICK q : q = wk[w] /\ q \in Busy
  BY Zenon, BusySteps, BusyIs
<1>2. q.conn \in 1..made /\ latest \in 1..made /\ server # "aborted"
  <2>1. wk[w] # IdleWorker
    BY Zenon, BusySteps
  <2>2. q.conn \in 1..made /\ latest # NoConn
    BY Zenon, <1>1, <2>1, BusyIs
  <2>3. server # "aborted"
    BY <2>1 DEF WorkInv
  <2> QED
    BY <2>2, <2>3 DEF ConnInv, NoConn
<1>3. UNCHANGED <<made, leaked, listed, apc, latest, jobs, server, dead>>
  BY DEF PickConn, accVars
<1>4. CASE ~(q.conn \in dead /\ q.conn # latest)
  <2>1. wk' = [wk EXCEPT ![w] = [q EXCEPT !.pc = "send"]] /\ UNCHANGED <<refno, deleted>>
    BY Zenon, <1>1, <1>4 DEF PickConn, Goes
  <2>2. [q EXCEPT !.pc = "send"].conn = q.conn
    BY <1>1 DEF Busy, BusyIn
  <2>3. \A v \in Workers : wk'[v].conn = wk[v].conn
    BY <1>1, <2>1, <2>2 DEF WorkInv
  <2> QED
    BY Zenon, <1>2, <1>3, <2>1, <2>3, RefSame
<1>5. CASE q.conn \in dead /\ q.conn # latest
  <2>1. PICK d : d = q.conn /\ d \in 1..made
    BY <1>2
  <2>2. /\ wk' = [wk EXCEPT ![w] = [q EXCEPT !.pc = "send", !.conn = latest]]
        /\ refno' = [refno EXCEPT ![d] = @ - 1, ![latest] = @ + 1]
        /\ deleted' = IF refno[d] = 1 THEN deleted \cup {d} ELSE deleted
    BY Zenon, <1>1, <1>5, <2>1 DEF PickConn
  <2>3. d \in Conns /\ d \in 0..made /\ d # NoConn /\ latest \in Conns /\ latest # NoConn
    BY Zenon, <1>2, <2>1, MadeConns
  <2>4. HoldersMove(latest, d)
    <3>1. [q EXCEPT !.pc = "send", !.conn = latest].conn = latest
      BY <1>1 DEF Busy, BusyIn
    <3> QED
      BY Zenon, <1>1, <1>3, <2>1, <2>2, <3>1, WorkerHolds
  <2>5. RefsMove(latest, d, dead')
    <3>1. refno \in [Conns -> Nat]
      BY DEF RefInv
    <3>2. refno' \in [Conns -> Int]
      BY <2>2, <2>3, <3>1
    <3>3. \A k \in Conns : refno'[k] = (refno[k] + Count(k = latest)) - Count(k = d)
      BY <1>5, <2>1, <2>2, <2>3, <3>1 DEF Count
    <3>4. d \in dead'
      BY <1>3, <1>5, <2>1
    <3>5. \A k : k \in deleted' <=>
                   k \in deleted \/ (k = d /\ d # NoConn /\ refno[d] = 1 /\ d \in dead')
      BY <2>2, <2>3, <3>4
    <3> QED
      BY Zenon, <3>2, <3>3, <3>5 DEF RefsMove
  <2>6. Owed(latest) >= 1
    <3>1. /\ Owed(latest) = HoldersOf(listed, made, apc, latest, jobs, wk, leaked, latest)
          /\ JobsOn(jobs, latest) \in Nat /\ WorkersOn(wk, latest) \in Nat /\ leaked[latest] \in Nat
      BY Zenon, <2>3, HoldersIs
    <3> QED
      BY <3>1 DEF HoldersOf, Count
  <2>7. latest # d /\ dead \subseteq dead' /\ server' # "aborted" /\ made' = made
    BY <1>2, <1>3, <1>5, <2>1
  <2> QED
    BY Zenon, <1>2, <2>3, <2>4, <2>5, <2>6, <2>7, RefBy
<1> QED
  BY <1>4, <1>5

\* The job that a request becomes holds the connection, which is not dead.
LEMMA GotRef ==
  ASSUME IInv, NEW x \in Xids, NEW p \in Conns, GotRequest(x, p), ConnInv', WorkInv'
  PROVE  RefInv'
<1> USE DEF IInv
<1>1. PICK j : j = <<x, p>> /\ j[2] = p
  <2>1. <<x, p>>[2] = p
    OBVIOUS
  <2> QED
    BY Zenon, <2>1
<1>2. /\ p \in 1..made \ dead /\ j \notin jobs /\ jobs' = jobs \cup {j} /\ refno' = Incref(p)
      /\ UNCHANGED <<made, dead, deleted, leaked, listed, apc, latest, wk, server>>
  BY <1>1 DEF GotRequest, SentInv, accVars
<1>3. server # "aborted" /\ made \in Nat /\ p # NoConn
  BY <1>2 DEF ConnInv, NoConn
<1>4. RefsMove(p, NoConn, dead')
  <2>1. refno \in [Conns -> Nat]
    BY DEF RefInv
  <2>2. refno' \in [Conns -> Int]
    BY <1>2, <2>1 DEF Incref
  <2>3. \A k \in Conns : refno'[k] = (refno[k] + Count(k = p)) - Count(k = NoConn)
    BY <1>2, <2>1 DEF Incref, Count, Conns, NoConn
  <2> QED
    BY <1>2, <2>2, <2>3 DEF RefsMove
<1>5. HoldersMove(p, NoConn)
  <2>1. ASSUME NEW k \in 1..made
        PROVE  Owed(k)' = (Owed(k) + Count(k = p)) - Count(k = NoConn)
    <3>1. JobsOn(jobs \cup {j}, k) = JobsOn(jobs, k) + Count(j[2] = k)
      <4>1. jobs \subseteq Xids \X (1..made)
        BY Zenon DEF WorkInv
      <4> QED
        BY <1>2, <1>3, <4>1, JobAdded
    <3>2. /\ Owed(k) = HoldersOf(listed, made, apc, latest, jobs, wk, leaked, k)
          /\ JobsOn(jobs, k) \in Nat /\ WorkersOn(wk, k) \in Nat /\ leaked[k] \in Nat
      BY Zenon, HoldersIs, MadeConns
    <3>3. Owed(k)' = HoldersOf(listed', made', apc', latest', jobs', wk', leaked', k)
      BY Zenon, HoldersThen, MadeConns
    <3>4. Owed(k)' = HoldersOf(listed, made, apc, latest, jobs \cup {j}, wk, leaked, k)
      BY Zenon, <1>2, <3>3
    <3>5. k # NoConn
      BY DEF NoConn
    <3> QED
      BY <1>1, <3>1, <3>2, <3>4, <3>5 DEF HoldersOf, Count
  <2> QED
    BY Zenon, <2>1 DEF HoldersMove
<1>6. Owed(p) >= 1
  BY Zenon, <1>2, <1>3, LiveHeld
<1>7. server' # "aborted" /\ made' = made /\ dead \subseteq dead' /\ NoConn \in 0..made /\ p # NoConn
  BY <1>2, <1>3 DEF NoConn
<1> QED
  BY Zenon, <1>3, <1>4, <1>5, <1>6, <1>7, RefBy

\* The holders when a worker takes a job, and conns_ goes from a to b.
LEMMA TakeHolds ==
  ASSUME IInv, NEW w \in Workers, NEW j \in jobs, TakeJob(w, j), ConnInv', WorkInv',
         NEW k \in 1..made
  PROVE  /\ Owed(k)' = (Owed(k) + Count(k = latest')) - Count(k = latest)
         /\ k = j[2] => Owed(k) >= 1
<1> USE DEF IInv
<1>1. UNCHANGED <<made, leaked, listed, apc>> /\ jobs' = jobs \ {j} /\ wk[w].pc = "idle"
  BY DEF TakeJob, accVars
<1>2. wk[w].conn = NoConn
  <2>1. wk[w] \in Busy \cup {IdleWorker}
    BY Zenon DEF WorkInv
  <2>2. wk[w] \in Busy => wk[w].pc \in {"check", "run", "pick", "send"}
    BY Zenon DEF Busy, BusyIn, Pcs
  <2>3. wk[w] = IdleWorker
    BY <1>1, <2>1, <2>2
  <2> QED
    BY <2>3 DEF IdleWorker
<1>3. PICK g : g = wk' /\ g[w].conn = j[2] /\ OnlyMoves(wk, g, w)
  <2>1. PICK r : r = [pc |-> "check", xid |-> j[1], conn |-> j[2], b1 |-> FALSE] /\ r.conn = j[2]
    <3>1. [pc |-> "check", xid |-> j[1], conn |-> j[2], b1 |-> FALSE].conn = j[2]
      OBVIOUS
    <3> QED
      BY Zenon, <3>1
  <2>2. wk' = [wk EXCEPT ![w] = r] /\ wk \in [Workers -> Busy \cup {IdleWorker}]
    BY Zenon, <2>1, TakeJobIs DEF WorkInv
  <2> QED
    BY <2>1, <2>2 DEF OnlyMoves
<1>4. Moved(wk, g, w, k)
  BY Zenon, <1>3, WorkerMoved
<1>5. /\ JobsOn(jobs \ {j}, k) = JobsOn(jobs, k) - Count(j[2] = k)
      /\ j[2] = k => JobsOn(jobs, k) >= 1
  <2>1. made \in Nat /\ jobs \subseteq Xids \X (1..made)
    BY DEF ConnInv, WorkInv
  <2> QED
    BY Zenon, <2>1, JobTaken
<1>6. /\ Owed(k) = HoldersOf(listed, made, apc, latest, jobs, wk, leaked, k)
      /\ JobsOn(jobs, k) \in Nat /\ WorkersOn(wk, k) \in Nat /\ leaked[k] \in Nat
  BY Zenon, HoldersIs, MadeConns
<1>7. /\ Owed(k)' = HoldersOf(listed', made', apc', latest', jobs', wk', leaked', k)
      /\ JobsOn(jobs', k) \in Nat /\ WorkersOn(wk', k) \in Nat /\ leaked'[k] \in Nat
  BY Zenon, HoldersThen, MadeConns
<1>8. PICK l : l = latest'
  OBVIOUS
<1>9. /\ Owed(k)' = HoldersOf(listed, made, apc, l, jobs \ {j}, g, leaked, k)
      /\ JobsOn(jobs \ {j}, k) \in Nat /\ WorkersOn(g, k) \in Nat
  BY Zenon, <1>1, <1>3, <1>7, <1>8
<1>10. WorkersOn(g, k) = (WorkersOn(wk, k) + Count(j[2] = k)) - Count(NoConn = k)
  BY Zenon, <1>2, <1>3, <1>4 DEF Moved
<1> HIDE DEF IInv
<1>11. HoldersOf(listed, made, apc, l, jobs \ {j}, g, leaked, k)
         = (HoldersOf(listed, made, apc, latest, jobs, wk, leaked, k) + Count(k = l)) - Count(k = latest)
  BY <1>5, <1>6, <1>9, <1>10 DEF HoldersOf, Count, NoConn
<1>12. k = j[2] => HoldersOf(listed, made, apc, latest, jobs, wk, leaked, k) >= 1
  BY <1>5, <1>6 DEF HoldersOf, Count
<1> QED
  BY Zenon, <1>6, <1>8, <1>9, <1>11, <1>12

\* A job that goes gives its reference back, or leaves it behind.
LEMMA TurnedRef ==
  ASSUME IInv, NEW w \in Workers, NEW j \in jobs, NoHandler(w, j) \/ OldInstance(w, j),
         ConnInv', WorkInv'
  PROVE  RefInv'
<1> USE DEF IInv
<1>1. PICK d : d = j[2] /\ d \in 1..made
  BY DEF WorkInv
<1>2. /\ UNCHANGED <<made, listed, apc, latest, wk, server, dead>> /\ jobs' = jobs \ {j}
      /\ server # "aborted"
  BY DEF NoHandler, OldInstance, accVars, WorkInv
<1>3. d \in Conns /\ d \in 0..made /\ d # NoConn
  BY Zenon, <1>1, MadeConns
<1>4. ASSUME NEW k \in 1..made
      PROVE  /\ Owed(k) = HoldersOf(listed, made, apc, latest, jobs, wk, leaked, k)
             /\ JobsOn(jobs, k) \in Nat /\ WorkersOn(wk, k) \in Nat /\ leaked[k] \in Nat
             /\ Owed(k)' = HoldersOf(listed, made, apc, latest, jobs \ {j}, wk, leaked', k)
             /\ JobsOn(jobs \ {j}, k) = JobsOn(jobs, k) - Count(d = k)
  <2>1. /\ Owed(k) = HoldersOf(listed, made, apc, latest, jobs, wk, leaked, k)
        /\ JobsOn(jobs, k) \in Nat /\ WorkersOn(wk, k) \in Nat /\ leaked[k] \in Nat
    BY Zenon, HoldersIs, MadeConns
  <2>2. Owed(k)' = HoldersOf(listed', made', apc', latest', jobs', wk', leaked', k)
    BY Zenon, HoldersThen, MadeConns
  <2>3. made \in Nat /\ jobs \subseteq Xids \X (1..made)
    BY DEF ConnInv, WorkInv
  <2>4. JobsOn(jobs \ {j}, k) = JobsOn(jobs, k) - Count(d = k)
    <3>1. /\ JobsOn(jobs \ {j}, k) = JobsOn(jobs, k) - Count(j[2] = k)
          /\ j[2] = k => JobsOn(jobs, k) >= 1
      BY Zenon, <2>3, JobTaken
    <3> QED
      BY <1>1, <3>1
  <2> QED
    BY Zenon, <1>2, <2>1, <2>2, <2>4
<1>5. dead \subseteq dead' /\ server' # "aborted" /\ made' = made
  BY <1>2
<1>6. CASE NoHandler(w, j)
  <2>1. leaked' = leaked /\ Decref(d, dead)
    BY Zenon, <1>1, <1>6 DEF NoHandler
  <2>2. RefsMove(NoConn, d, dead')
    BY Zenon, <1>2, <1>3, <2>1, DecrefIs
  <2>3. ASSUME NEW k \in 1..made PROVE Owed(k)' = (Owed(k) + Count(k = NoConn)) - Count(k = d)
    BY <1>4, <2>1 DEF HoldersOf, Count, NoConn
  <2>4. HoldersMove(NoConn, d)
    BY Zenon, <2>3 DEF HoldersMove
  <2> QED
    BY Zenon, <1>2, <1>3, <1>5, <2>2, <2>4, RefBy
<1>7. CASE OldInstance(w, j)
  <2>1. leaked' = [leaked EXCEPT ![d] = @ + 1] /\ UNCHANGED <<refno, deleted>>
    BY Zenon, <1>1, <1>7 DEF OldInstance
  <2>2. \A k \in Conns : leaked'[k] = leaked[k] + Count(d = k)
    BY <1>3, <2>1 DEF ConnInv, Count
  <2>3. PICK p : p = NoConn /\ p \in 0..made
    BY DEF ConnInv, NoConn
  <2>4. refno \in [Conns -> Nat]
    BY DEF RefInv
  <2>5. RefsMove(p, p, dead')
    BY <2>1, <2>3, <2>4 DEF RefsMove, Count
  <2>6. ASSUME NEW k \in 1..made PROVE Owed(k)' = (Owed(k) + Count(k = p)) - Count(k = p)
    <3>1. k \in Conns
      BY Zenon, MadeConns
    <3> QED
      BY <1>4, <2>2, <3>1 DEF HoldersOf, Count
  <2>7. HoldersMove(p, p)
    BY Zenon, <2>6 DEF HoldersMove
  <2> QED
    BY Zenon, <1>2, <1>5, <2>3, <2>5, <2>7, RefBy
<1> QED
  BY Zenon, <1>6, <1>7

LEMMA TakeRef ==
  ASSUME IInv, NEW w \in Workers, NEW j \in jobs, TakeJob(w, j), ConnInv', WorkInv'
  PROVE  RefInv'
<1> USE DEF IInv
<1>1. /\ j[2] \in 1..made /\ j[2] \in 0..made /\ j[2] \in Conns /\ j[2] # NoConn
      /\ latest \in 0..made /\ latest' \in 0..made
  <2>1. j[2] \in 1..made
    BY Zenon, TakeJobIs
  <2> QED
    BY <2>1, MadeConns, TakeJobIs DEF ConnInv
<1>2. UNCHANGED <<made, dead, server>> /\ server # "aborted"
  BY DEF TakeJob, WorkInv
<1>3. HoldersMove(latest', latest)
  BY Zenon, TakeHolds DEF HoldersMove
<1>4. refno \in [Conns -> Nat]
  BY DEF RefInv
<1>5. CASE UNCHANGED <<latest, refno, deleted>>
  <2>1. PICK p : p = NoConn
    OBVIOUS
  <2>2. HoldersMove(p, p)
    <3>1. ASSUME NEW k \in 1..made PROVE Owed(k)' = (Owed(k) + Count(k = p)) - Count(k = p)
      <4>1. Owed(k) \in Nat
        BY Zenon, HoldersIs, MadeConns
      <4>2. Owed(k)' = (Owed(k) + Count(k = latest')) - Count(k = latest)
        BY Zenon, TakeHolds
      <4> QED
        BY <1>5, <4>1, <4>2 DEF Count
    <3> QED
      BY Zenon, <3>1 DEF HoldersMove
  <2>3. RefsMove(p, p, dead')
    BY <1>4, <1>5, <2>1 DEF RefsMove, Count
  <2>4. p \in 0..made /\ p = NoConn /\ dead \subseteq dead' /\ server' # "aborted" /\ made' = made
    BY <1>1, <1>2, <2>1 DEF NoConn, ConnInv
  <2> QED
    BY Zenon, <1>2, <2>2, <2>3, <2>4, RefBy
<1>6. CASE ~UNCHANGED <<latest, refno, deleted>>
  <2>1. PICK p : p = j[2]
    OBVIOUS
  <2>2. /\ latest' = p /\ Replaces(p) /\ p # latest
        /\ p \in Conns /\ p \in 0..made /\ p # NoConn
    BY <1>1, <1>6, <2>1 DEF TakeJob, ConnInv
  <2>3. HoldersMove(p, latest)
    BY Zenon, <1>3, <2>2
  <2>4. RefsMove(p, latest, dead')
    <3>1. CASE latest = NoConn
      <4>1. refno' = Incref(p) /\ deleted' = deleted
        BY <2>2, <3>1 DEF Replaces
      <4>2. \A k \in Conns : refno'[k] = (refno[k] + Count(k = p)) - Count(k = latest)
        BY <1>4, <2>2, <3>1, <4>1 DEF Incref, Count, Conns, NoConn
      <4>3. refno' \in [Conns -> Int]
        BY <1>4, <2>2, <4>1 DEF Incref
      <4> QED
        BY <3>1, <4>1, <4>2, <4>3 DEF RefsMove
    <3>2. CASE latest # NoConn
      <4>1. latest \in Conns
        BY <1>1, <3>2, MadeConns DEF NoConn
      <4>2. /\ refno' = [refno EXCEPT ![p] = @ + 1, ![latest] = @ - 1]
            /\ deleted' = IF refno[latest] = 1 /\ latest \in dead
                            THEN deleted \cup {latest} ELSE deleted
        BY <2>2, <3>2 DEF Replaces
      <4>3. \A k \in Conns : refno'[k] = (refno[k] + Count(k = p)) - Count(k = latest)
        BY <1>4, <2>2, <4>1, <4>2 DEF Count
      <4>4. refno' \in [Conns -> Int]
        BY <1>4, <2>2, <4>1, <4>2
      <4>5. \A k : k \in deleted' <=> k \in deleted
                     \/ (k = latest /\ latest # NoConn /\ refno[latest] = 1 /\ latest \in dead')
        BY <1>2, <3>2, <4>2
      <4> QED
        BY Zenon, <4>3, <4>4, <4>5 DEF RefsMove
    <3> QED
      BY <3>1, <3>2
  <2>5. Owed(p) >= 1
    BY Zenon, <1>1, <2>1, TakeHolds
  <2>6. dead \subseteq dead' /\ server' # "aborted" /\ made' = made
    BY <1>2
  <2> QED
    BY Zenon, <1>1, <1>2, <2>2, <2>3, <2>4, <2>5, <2>6, RefBy
<1> QED
  BY <1>5, <1>6

\* Nobody has heard of a connection before it is made.
LEMMA NobodyHolds ==
  ASSUME WorkInv, ConnInv, NEW k, k = made + 1
  PROVE  JobsOn(jobs, k) = 0 /\ WorkersOn(wk, k) = 0
<1>1. made \in Nat /\ k \notin 0..made
  BY DEF ConnInv
<1>2. \A w \in Workers : wk[w].conn \in 0..made
  <2>1. ASSUME NEW w \in Workers, wk[w] # IdleWorker PROVE wk[w].conn \in 0..made
    <3>1. wk[w].conn \in 1..made
      BY Zenon, <2>1, BusyIs
    <3> QED
      BY <3>1
  <2>2. IdleWorker.conn \in 0..made
    BY <1>1 DEF IdleWorker, NoConn
  <2> QED
    BY Zenon, <2>1, <2>2
<1>3. \A j \in jobs : j[2] \in 0..made
  BY DEF WorkInv
<1>4. {j \in jobs : j[2] = k} = {} /\ {w \in Workers : wk[w].conn = k} = {}
  BY Zenon, <1>1, <1>2, <1>3
<1> QED
  BY Zenon, <1>4, FS_EmptySet DEF JobsOn, WorkersOn

LEMMA AcceptRef ==
  ASSUME IInv, Accept, ConnInv', WorkInv'
  PROVE  RefInv'
<1> USE DEF IInv
<1>1. PICK n \in Nat : n = made /\ made' = n + 1 /\ n + 1 \in Conns /\ n < MaxConns
  BY DispatchAssumption DEF Accept, ConnInv, Conns
<1>2. /\ refno' = [refno EXCEPT ![n + 1] = 1] /\ apc = "select" /\ apc' = "gc" /\ server = "up"
      /\ UNCHANGED <<dead, deleted, leaked, listed, latest, jobs, wk, server>>
  BY <1>1 DEF Accept
<1>3. /\ refno \in [Conns -> Nat] /\ deleted \subseteq dead /\ dead \subseteq 1..n
      /\ listed \subseteq 1..n /\ latest \in 0..n
  BY <1>1 DEF RefInv, ConnInv
<1>4. \A k \in 1..n : refno[k] = Owed(k) /\ (k \in deleted <=> Owed(k) = 0)
  <2>1. server # "aborted"
    BY <1>2
  <2> QED
    BY Zenon, <1>1, <2>1 DEF RefInv, RefsExact
<1>5. ASSUME NEW k \in 1..n + 1
      PROVE  /\ Owed(k) = HoldersOf(listed, n, "select", latest, jobs, wk, leaked, k)
             /\ JobsOn(jobs, k) \in Nat /\ WorkersOn(wk, k) \in Nat /\ leaked[k] \in Nat
             /\ Owed(k)' = HoldersOf(listed, n + 1, "gc", latest, jobs, wk, leaked, k)
  <2>0. k \in Conns
    BY <1>1, DispatchAssumption DEF Conns
  <2>1. /\ Owed(k) = HoldersOf(listed, made, apc, latest, jobs, wk, leaked, k)
        /\ JobsOn(jobs, k) \in Nat /\ WorkersOn(wk, k) \in Nat /\ leaked[k] \in Nat
    BY Zenon, <2>0, HoldersIs
  <2>2. Owed(k)' = HoldersOf(listed', made', apc', latest', jobs', wk', leaked', k)
    BY Zenon, <2>0, HoldersThen
  <2> QED
    BY Zenon, <1>1, <1>2, <2>1, <2>2
<1>6. ASSUME NEW k \in 1..n
      PROVE  refno'[k] = Owed(k)' /\ (k \in deleted' <=> Owed(k)' = 0)
  <2>1. Owed(k)' = Owed(k)
    BY <1>5 DEF HoldersOf, Count
  <2>2. refno'[k] = refno[k]
    BY <1>1, <1>2, <1>3
  <2> QED
    BY Zenon, <1>2, <1>4, <2>1, <2>2
<1>7. PICK k : k = n + 1
  OBVIOUS
<1>8. refno'[k] = Owed(k)' /\ (k \in deleted' <=> Owed(k)' = 0)
  <2>1. JobsOn(jobs, k) = 0 /\ WorkersOn(wk, k) = 0
    BY Zenon, <1>1, <1>7, NobodyHolds
  <2>2. k \notin listed /\ k # latest /\ k \notin deleted /\ k \in 1..n + 1
    BY <1>3, <1>7
  <2>3. Owed(k)' = HoldersOf(listed, k, "gc", latest, jobs, wk, leaked, k)
    BY <1>5, <1>7, <2>2
  <2>6. leaked[k] = 0
    BY <1>1, <1>7 DEF ConnInv
  <2>4. Owed(k)' = 1
    BY <2>1, <2>2, <2>3, <2>6 DEF HoldersOf, Count
  <2>5. refno'[k] = 1 /\ k \notin deleted'
    BY <1>1, <1>2, <1>3, <1>7, <2>2
  <2> QED
    BY <2>4, <2>5
<1>9. \A m \in 1..made' : refno'[m] = Owed(m)' /\ (m \in deleted' <=> Owed(m)' = 0)
  <2>1. \A m \in 1..made' : m \in 1..n \/ m = k
    BY <1>1, <1>7
  <2> QED
    BY Zenon, <1>6, <1>8, <2>1
<1>10. refno' \in [Conns -> Nat] /\ deleted' \subseteq dead'
  BY <1>1, <1>2, <1>3
<1> QED
  BY Zenon, <1>9, <1>10 DEF RefInv, RefsExact

LEMMA RefStep ==
  ASSUME IInv, Next
  PROVE  RefInv'
<1>c. ConnInv' /\ WorkInv'
  BY Zenon, ConnStep, WorkStep
<1>u. ASSUME UNCHANGED <<refno, deleted, leaked, made, listed, latest, jobs, wk>>,
             apc' = "select" <=> apc = "select", dead \subseteq dead',
             server' = server \/ server' = "closing" \/ server' = "gone", server' # server => server # "aborted"
      PROVE  RefInv'
  <2>1. server' # "aborted" => server # "aborted"
    BY <1>u
  <2>2. \A v \in Workers : wk'[v].conn = wk[v].conn
    BY Zenon, <1>u
  <2> QED
    BY Zenon, <1>c, <1>u, <2>1, <2>2, RefSame
<1>1. CASE Issue
  BY <1>u, <1>1 DEF Issue, connVars, accVars
<1>2. CASE Connect
  BY <1>u, <1>2 DEF Connect, connVars, accVars
<1>3. ASSUME NEW x \in Xids, Transmit(x) \/ GotReply(x) \/ EndCall(x) PROVE RefInv'
  BY <1>u, <1>3 DEF Transmit, GotReply, EndCall, connVars, accVars
<1>4. ASSUME NEW k \in Conns, ConnDies(k) PROVE RefInv'
  BY <1>u, <1>4 DEF ConnDies, accVars
<1>5. CASE Accept
  BY Zenon, <1>5, <1>c, AcceptRef
<1>6. CASE GcDrop
  BY Zenon, <1>6, <1>c, DropRef
<1>7. CASE GcEnd
  BY Zenon, <1>7, <1>c, ListedRef
<1>8. ASSUME NEW k \in ahead, GcTest(k) PROVE RefInv'
  BY <1>u, <1>8 DEF GcTest, connVars
<1>9. ASSUME NEW x \in Xids, NEW k \in Conns, GotRequest(x, k) PROVE RefInv'
  BY Zenon, <1>9, <1>c, GotRef
<1>10. ASSUME NEW w \in Workers, NEW j \in jobs, TakeJob(w, j) PROVE RefInv'
  BY Zenon, <1>10, <1>c, TakeRef
<1>18. ASSUME NEW w \in Workers, NEW j \in jobs, NoHandler(w, j) \/ OldInstance(w, j)
       PROVE  RefInv'
  BY Zenon, <1>18, <1>c, TurnedRef
<1>11. ASSUME NEW w \in Workers, Forgotten(w) \/ Duplicate(w) \/ NewRequest(w) \/ AddReply(w)
       PROVE  RefInv'
  <2>1. UNCHANGED <<refno, deleted, leaked, made, dead, listed, apc, latest, jobs, server>>
    BY <1>11 DEF Forgotten, Duplicate, NewRequest, AddReply, connVars, accVars
  <2>2. PICK q : q = wk[w] /\ q \in Busy
    BY Zenon, <1>11, BusySteps, BusyIs DEF IInv
  <2>3. \/ wk' = [wk EXCEPT ![w] = [q EXCEPT !.pc = "send"]]
        \/ wk' = [wk EXCEPT ![w] = [q EXCEPT !.pc = "run"]]
        \/ wk' = [wk EXCEPT ![w] = [q EXCEPT !.pc = "send", !.b1 = TRUE]]
        \/ wk' = [wk EXCEPT ![w] = [q EXCEPT !.pc = "pick", !.b1 = TRUE]]
    BY Zenon, <1>11, <2>2 DEF Forgotten, Duplicate, NewRequest, AddReply, Goes
  <2>4. /\ [q EXCEPT !.pc = "send"].conn = q.conn
        /\ [q EXCEPT !.pc = "run"].conn = q.conn
        /\ [q EXCEPT !.pc = "send", !.b1 = TRUE].conn = q.conn
        /\ [q EXCEPT !.pc = "pick", !.b1 = TRUE].conn = q.conn
    BY <2>2 DEF Busy, BusyIn
  <2>5. PICK r : wk' = [wk EXCEPT ![w] = r] /\ r.conn = q.conn
    BY Zenon, <2>3, <2>4
  <2>6. \A v \in Workers : wk'[v].conn = wk[v].conn
    BY <2>2, <2>5 DEF IInv, WorkInv
  <2> QED
    BY Zenon, <1>c, <2>1, <2>6, RefSame
<1>12. ASSUME NEW w \in Workers, InProgress(w) \/ SendReply(w) PROVE RefInv'
  BY Zenon, <1>12, <1>c, LeaveRef
<1>13. ASSUME NEW w \in Workers, PickConn(w) PROVE RefInv'
  BY Zenon, <1>13, <1>c, PickRef
<1>14. ASSUME NEW w \in Workers, AddReplyAsserts(w) PROVE RefInv'
  <2>1. server' = "aborted" /\ refno' = refno /\ deleted' = deleted /\ dead' = 1..made
    BY <1>14 DEF AddReplyAsserts, Abort
  <2>2. refno' \in [Conns -> Nat] /\ deleted' \subseteq dead'
    BY <2>1 DEF IInv, RefInv, ConnInv
  <2> QED
    BY Zenon, <2>1, <2>2, RefAborted
<1>15. CASE Stop
  BY <1>u, <1>15 DEF Stop, connVars, accVars
<1>16. ASSUME NEW k \in listed, CloseOne(k) PROVE RefInv'
  BY Zenon, <1>16, <1>c, CloseRef
<1>17. CASE FreeReplyWindow
  BY <1>u, <1>17 DEF FreeReplyWindow, connVars, accVars
<1> QED
  BY Zenon, <1>1, <1>2, <1>3, <1>4, <1>5, <1>6, <1>7, <1>8, <1>9, <1>10, <1>11, <1>12, <1>13,
     <1>14, <1>15, <1>16, <1>17, <1>18 DEF Next, ClientNext, ServerNext, WorkerNext

-----------------------------------------------------------------------------
(* The theorems.                                                           *)

LEMMA InitWindow ==
  ASSUME EmptyWindow
  PROVE  WindowInv
<1>1. window = <<0>> /\ reported = {} /\ Len(window) = 1 /\ window[1] = 0 /\ Head(window) = 0
  BY DEF EmptyWindow
<1>2. window \in Seq(0..MaxXid) /\ window # <<>>
  BY <1>1, WindowAssumption
<1>3. {window[i] : i \in 2..Len(window)} = {} /\ {y \in reported : y > Head(window)} = {}
  BY <1>1
<1>4. 1..Head(window) = {}
  BY <1>1
<1>5. \A i, j \in 1..Len(window) : i < j => window[i] <= window[j]
  BY <1>1
<1>6. WindowIsExact
  BY Zenon, <1>1, <1>3, <1>4, <1>5 DEF WindowIsExact
<1>7. reported \subseteq Xids
  BY <1>1
<1> QED
  BY Zenon, <1>2, <1>6, <1>7 DEF WindowInv

LEMMA InitInv ==
  ASSUME Init
  PROVE  IInv
<1> USE WindowAssumption, DispatchAssumption
<1>1. ClientInv
  <2>1. WindowInv
    BY Zenon, InitWindow DEF Init
  <2>2. /\ xid \in 1..MaxXid + 1 /\ calls \subseteq Xids /\ stale \subseteq Xids
        /\ hdr \in [Xids -> 0..MaxXid] /\ mark \in 0..MaxXid
    BY DEF Init
  <2>3. \A x \in Xids : 1..hdr[x] \subseteq reported
    BY DEF Init
  <2>4. 1..mark \subseteq reported
    BY DEF Init
  <2> QED
    BY Zenon, <2>1, <2>2, <2>3, <2>4 DEF ClientInv
<1>2. ConnInv
  BY DEF Init, ConnInv, NoConn, Conns
<1>3. WorkInv
  BY DEF Init, WorkInv
<1>4. SentInv
  BY DEF Init, SentInv, NoConn
<1>5. RefInv
  BY DEF Init, RefInv, RefsExact, Conns
<1>6. BufInv
  <2>1. list = <<>> /\ list \in Seq(Entries) /\ DOMAIN list = {} /\ ToSet(list) = {}
    BY DEF Init, ToSet
  <2>2. buf = [x \in Xids |-> "none"] /\ buf \in [Xids -> {"none", "held", "freed"}]
    BY DEF Init
  <2>3. BuffersOwned
    BY <2>1, <2>2 DEF BuffersOwned
  <2>4. SentIfWaited
    BY DEF Init, SentIfWaited, IdleWorker
  <2> QED
    BY Zenon, <2>1, <2>2, <2>3, <2>4 DEF BufInv
<1> QED
  BY Zenon, <1>1, <1>2, <1>3, <1>4, <1>5, <1>6 DEF IInv

LEMMA StutterInv ==
  ASSUME IInv, UNCHANGED vars
  PROVE  IInv'
<1> USE DEF IInv, vars, cliVars, netVars, connVars, accVars, winVars
<1>1. ClientInv'
  BY DEF ClientInv, WindowInv, WindowIsExact
<1>2. ConnInv'
  BY DEF ConnInv
<1>3. WorkInv'
  BY DEF WorkInv, Busy
<1>4. SentInv'
  BY DEF SentInv
<1>5. RefInv'
  BY Zenon, <1>2, <1>3, RefSame
<1>6. BufInv'
  BY DEF BufInv, BuffersOwned, SentIfWaited
<1> QED
  BY Zenon, <1>1, <1>2, <1>3, <1>4, <1>5, <1>6

LEMMA StepInv ==
  ASSUME IInv, [Next]_vars
  PROVE  IInv'
<1>1. CASE Next
  BY Zenon, <1>1, ClientStep, ConnStep, WorkStep, SentStep, RefStep, BufStep DEF IInv
<1> QED
  BY <1>1, StutterInv

\* The inductive invariant, of which the theorems below are consequences.
THEOREM DispatchInvariant == Spec => []IInv
<1>1. Init => IInv
  BY InitInv
<1>2. IInv /\ [Next]_vars => IInv'
  BY StepInv
<1> QED
  BY <1>1, <1>2, PTL DEF Spec

\* Every variable keeps its type: no reference goes below zero, and nobody
\* points to a connection that was never made.
THEOREM DispatchTypeCorrect == Spec => []TypeOK
<1>1. IInv => TypeOK
  <2> SUFFICES ASSUME IInv PROVE TypeOK
    OBVIOUS
  <2> USE DEF IInv
  <2>1. /\ xid \in 1..MaxXid + 1 /\ calls \subseteq Xids /\ stale \subseteq Xids /\ hdr \in [Xids -> 0..MaxXid]
        /\ mark \in 0..MaxXid
    BY DEF ClientInv
  <2>2. /\ chan \in 0..MaxConns /\ made \in 0..chan /\ stamp \in [Conns -> Nat]
        /\ dead \subseteq 1..made /\ listed \subseteq 1..made /\ latest \in 0..made
        /\ apc \in {"select", "gc", "drop"} /\ ahead \subseteq listed
        /\ server \in {"up", "closing", "gone", "aborted"} /\ leaked \in [Conns -> Nat]
    BY DEF ConnInv
  <2>3. /\ at \in [Xids -> Conns \cup {NoConn}] /\ reqs \subseteq Xids \X Conns
        /\ answers \subseteq Xids
    BY DEF SentInv
  <2>4. refno \in [Conns -> Nat] /\ deleted \subseteq dead
    BY DEF RefInv
  <2>5. /\ jobs \subseteq Xids \X (1..made)
        /\ wk \in [Workers ->
                    [pc : {"check", "run", "pick", "send"},
                     xid : Xids, conn : 1..made, b1 : BOOLEAN] \cup {IdleWorker}]
    BY Zenon DEF WorkInv, Busy, BusyIn, Pcs
  <2>6. buf \in [Xids -> {"none", "held", "freed"}] /\ \A i \in DOMAIN list : list[i].xid \in Xids
    <3>1. list \in Seq(Entries) /\ buf \in [Xids -> {"none", "held", "freed"}]
      BY DEF BufInv
    <3>2. \A i \in DOMAIN list : list[i] \in Entries
      BY <3>1
    <3> QED
      BY Zenon, <3>1, <3>2 DEF Entries
  <2> QED
    BY Zenon, <2>1, <2>2, <2>3, <2>4, <2>5, <2>6 DEF TypeOK
<1> QED
  BY <1>1, DispatchInvariant, PTL

\* The window of the client is exact, however replies, ends of calls and
\* repeats of both are mixed: the server is never told to drop a reply that a
\* caller waits for.
THEOREM WindowIsExactHolds == Spec => []WindowIsExact
<1>1. IInv => WindowIsExact
  BY Zenon DEF IInv, ClientInv, WindowInv
<1> QED
  BY <1>1, DispatchInvariant, PTL

\* refno_ is the number of those who point to a connection and of the requests
\* for an earlier instance answered on it, and a connection is deleted when
\* there is neither, at every moment of the life of the server.
THEOREM RefsExactHolds == Spec => []RefsExact
<1>1. IInv => RefsExact
  BY Zenon DEF IInv, RefInv
<1> QED
  BY <1>1, DispatchInvariant, PTL

\* Every buffer that is held has its entry in reply_window_, and no xid has two
\* entries: no buffer is freed twice and none is lost.
THEOREM BuffersOwnedHolds == Spec => []BuffersOwned
<1>1. IInv => BuffersOwned
  BY Zenon DEF IInv, BufInv
<1> QED
  BY <1>1, DispatchInvariant, PTL

\* The buffer that dispatch sends after it has unlocked reply_window_m_ is still
\* there while the caller waits for the answer.
THEOREM SentIfWaitedHolds == Spec => []SentIfWaited
<1>1. IInv => SentIfWaited
  BY Zenon DEF IInv, BufInv
<1> QED
  BY <1>1, DispatchInvariant, PTL

\* ~rpcs leaves no buffer; of the connections it leaves the one in conns_, and
\* those on which a request for an earlier instance was answered.
THEOREM CleanExitHolds == Spec => []CleanExit
<1>1. IInv => CleanExit
  <2> SUFFICES ASSUME IInv, server = "gone"
               PROVE  /\ \A x \in Xids : buf[x] # "held"
                      /\ 1..made \ deleted = {k \in 1..made : k = latest \/ leaked[k] > 0}
    BY DEF CleanExit
  <2> USE DEF IInv
  <2>1. \A x \in Xids : buf[x] # "held"
    <3>1. list = <<>> /\ BuffersOwned
      BY Zenon DEF BufInv
    <3>2. ToSet(list) = {}
      BY <3>1 DEF ToSet
    <3> QED
      BY Zenon, <3>1, <3>2 DEF BuffersOwned
  <2>2. ASSUME NEW k \in 1..made PROVE k \notin deleted <=> k = latest \/ leaked[k] > 0
    <3>1. k \in deleted <=> Owed(k) = 0
      BY DEF RefInv, RefsExact
    <3>2. listed = {} /\ apc = "select"
      BY DEF ConnInv
    <3>3. jobs = {} /\ \A w \in Workers : wk[w] = IdleWorker
      BY DEF WorkInv
    <3>4. {j \in jobs : j[2] = k} = {} /\ {w \in Workers : wk[w].conn = k} = {}
      BY <3>3 DEF IdleWorker, NoConn
    <3>5. JobsOn(jobs, k) = 0 /\ WorkersOn(wk, k) = 0
      BY Zenon, <3>4, FS_EmptySet DEF JobsOn, WorkersOn
    <3>6. Owed(k) = HoldersOf(listed, made, apc, latest, jobs, wk, leaked, k) /\ leaked[k] \in Nat
      BY Zenon, HoldersIs, MadeConns
    <3> QED
      BY <3>1, <3>2, <3>5, <3>6 DEF HoldersOf, Count
  <2> QED
    BY <2>1, <2>2
<1> QED
  BY <1>1, DispatchInvariant, PTL

-----------------------------------------------------------------------------
(* A handler runs once, however connections, workers and repeats are mixed.  *)

\* dispatch runs no handler for x any more: the xid is out of date, or the
\* window has it, or the server has ended.
Stopped(x) ==
  \/ x < mark
  \/ \E e \in ToSet(list) : e.xid = x
  \/ server \in {"gone", "aborted"}

\* A worker leaves checkduplicate_and_update with NEW and calls the handler.
HandlerStarts(x) ==
  \E w \in Workers : wk[w].pc # "run" /\ wk'[w].pc = "run" /\ wk'[w].xid = x

\* What a step may not do: start the handler of a call again, or forget that
\* it has run.
OnceStep ==
  \A x \in Xids :
    /\ Stopped(x) => Stopped(x)' /\ ~HandlerStarts(x)
    /\ HandlerStarts(x) => Stopped(x)'

\* What a pass leaves: all that is not out of date, and the entry of a new
\* request.
Leaves(x) ==
  /\ \A e \in ToSet(list) : ~OutOfDate(e, x) => e \in ToSet(list')
  /\ Place(x) = 0 => [xid |-> x, done |-> FALSE] \in ToSet(list')

LEMMA PassLeaves ==
  ASSUME list \in Seq(Entries), Unique(list), NEW x \in Xids, NEW r, Pass(x, r),
         \/ Place(x) # 0 /\ r = From(x)
         \/ Place(x) = 0 /\ r = <<[xid |-> x, done |-> FALSE]>>
  PROVE  Leaves(x)
<1>1. PICK b : b = Before(x)
  OBVIOUS
<1>2. Splits(b, r)
  BY Zenon, <1>1, BeforeFound, BeforeNew
<1>3. \A e \in ToSet(list) : e \in ToSet(b) \/ e \in ToSet(r)
  <2>1. CASE Place(x) = 0
    <3>1. b = list
      BY Zenon, <1>1, <2>1 DEF Before
    <3> QED
      BY Zenon, <3>1
  <2>2. CASE Place(x) # 0
    <3>1. PICK p : p = Place(x)
      OBVIOUS
    <3>2. p \in 1..Len(list)
      BY Zenon, <2>2, <3>1, PlaceIs
    <3>3. b = SubSeq(list, 1, p - 1) /\ r = SubSeq(list, p, Len(list))
      BY Zenon, <1>1, <2>2, <3>1 DEF Before, From
    <3>4. CutInto(list, b, r)
      BY Zenon, <3>2, <3>3, SplitAt
    <3> QED
      BY Zenon, <3>4 DEF CutInto
  <2> QED
    BY Zenon, <2>1, <2>2
<1>4. PICK k : k = Kept(b, x)
  OBVIOUS
<1>5. k \in Seq(Entries) /\ ToSet(k) = {e \in ToSet(b) : ~OutOfDate(e, x)}
  BY Zenon, <1>2, <1>4, KeptIs DEF Splits
<1>6. list' = k \o r
  BY Zenon, <1>1, <1>4 DEF Pass
<1>7. ToSet(list') = ToSet(k) \cup ToSet(r)
  <2>1. r \in Seq(Entries)
    BY Zenon, <1>2 DEF Splits
  <2> QED
    BY ZenonT(40), <1>5, <1>6, <2>1, ConcatIs
<1>8. \A e \in ToSet(list) : ~OutOfDate(e, x) => e \in ToSet(list')
  BY Zenon, <1>3, <1>5, <1>7
<1>9. ASSUME Place(x) = 0 PROVE [xid |-> x, done |-> FALSE] \in ToSet(list')
  <2>1. PICK new : new = [xid |-> x, done |-> FALSE]
    OBVIOUS
  <2>2. r \in Seq(Entries)
    BY Zenon, <1>2 DEF Splits
  <2>3. r = <<new>>
    BY Zenon, <1>9, <2>1
  <2>4. 1 \in 1..Len(r) /\ r[1] = new
    BY <2>3
  <2>5. new \in ToSet(r)
    BY Zenon, <2>2, <2>4, MembersOf
  <2> QED
    BY Zenon, <1>7, <2>1, <2>5
<1> QED
  BY Zenon, <1>8, <1>9 DEF Leaves

\* The list that a worker finds has each xid once.
LEMMA ListIs ==
  ASSUME BufInv
  PROVE  list \in Seq(Entries) /\ Unique(list)
<1>1. list \in Seq(Entries) /\ BuffersOwned
  BY Zenon DEF BufInv
<1> QED
  BY Zenon, <1>1, OwnedIs DEF BuffersOwned, Owned

LEMMA WorkerPasses ==
  ASSUME IInv, NEW w \in Workers, Duplicate(w) \/ InProgress(w) \/ NewRequest(w)
  PROVE  \E x \in Xids : x = wk[w].xid /\ mark' = NewMark(x) /\ Leaves(x)
<1>1. wk[w] # IdleWorker
  BY DEF Duplicate, InProgress, NewRequest, IdleWorker
<1>2. PICK x \in Xids : x = wk[w].xid
  BY Zenon, <1>1, BusyIs DEF IInv
<1>3. PICK r : /\ Pass(x, r)
               /\ \/ Place(x) # 0 /\ r = From(x)
                  \/ Place(x) = 0 /\ r = <<[xid |-> x, done |-> FALSE]>>
  BY Zenon, <1>2 DEF Duplicate, InProgress, NewRequest
<1>4. Leaves(x)
  BY Zenon, <1>3, ListIs, PassLeaves DEF IInv
<1>5. mark' = NewMark(x)
  BY Zenon, <1>3 DEF Pass
<1> QED
  BY Zenon, <1>2, <1>4, <1>5

\* The mark only grows.
LEMMA MarkGrows ==
  ASSUME IInv, Next
  PROVE  mark <= mark'
<1>1. mark \in 0..MaxXid /\ hdr \in [Xids -> 0..MaxXid] /\ WorkInv
  BY Zenon DEF IInv, ClientInv
<1>2. mark' = mark => mark <= mark'
  BY <1>1
<1>3. ASSUME NEW w \in Workers, WorkerNext(w) PROVE mark <= mark'
  <2>1. ASSUME NEW x \in Xids, mark' = NewMark(x) PROVE mark <= mark'
    <3>1. hdr[x] \in 0..MaxXid
      BY Zenon, <1>1
    <3> QED
      BY <1>1, <2>1, <3>1 DEF NewMark
  <2> QED
    BY Zenon, <1>1, <1>2, <1>3, <2>1, MarkIs
<1>4. ASSUME ClientNext PROVE mark' = mark
  BY <1>4 DEF ClientNext, Issue, Connect, Transmit, GotReply, EndCall, winVars
<1>5. ASSUME NEW k, ConnDies(k) \/ GcTest(k) \/ CloseOne(k) PROVE mark' = mark
  BY <1>5 DEF ConnDies, GcTest, CloseOne, winVars
<1>6. ASSUME NEW x, NEW k, GotRequest(x, k) PROVE mark' = mark
  BY <1>6 DEF GotRequest, winVars
<1>7. ASSUME Accept \/ GcDrop \/ GcEnd \/ Stop \/ FreeReplyWindow PROVE mark' = mark
  BY <1>7 DEF Accept, GcDrop, GcEnd, Stop, FreeReplyWindow, winVars
<1> QED
  BY Zenon, <1>2, <1>3, <1>4, <1>5, <1>6, <1>7 DEF Next, ServerNext

\* What has ended stays so.
LEMMA EndedStays ==
  ASSUME IInv, Next, server \in {"gone", "aborted"}
  PROVE  server' \in {"gone", "aborted"}
<1>1. jobs = {} /\ \A w \in Workers : wk[w] = IdleWorker
  BY Zenon DEF IInv, WorkInv
<1>2. apc = "select"
  BY DEF IInv, ConnInv
<1>3. CASE ClientNext
  BY <1>3 DEF ClientNext, Issue, Connect, Transmit, GotReply, EndCall
<1>4. ASSUME NEW k, ConnDies(k) \/ GcTest(k) PROVE server' = server
  BY <1>4 DEF ConnDies, GcTest
<1>5. ASSUME NEW x, NEW k, GotRequest(x, k) PROVE server' = server
  BY <1>5 DEF GotRequest
<1>6. ~Accept /\ ~GcDrop /\ ~GcEnd /\ ~Stop /\ ~FreeReplyWindow /\ \A k \in listed : ~CloseOne(k)
  BY <1>2 DEF Accept, GcDrop, GcEnd, Stop, FreeReplyWindow, CloseOne
<1>7. ASSUME NEW w \in Workers, WorkerNext(w) PROVE FALSE
  <2>1. wk[w].pc = "idle"
    BY <1>1 DEF IdleWorker
  <2>2. \A j \in jobs : ~NoHandler(w, j) /\ ~OldInstance(w, j) /\ ~TakeJob(w, j)
    BY Zenon, <1>1
  <2> QED
    BY <1>7, <2>1, <2>2 DEF WorkerNext, Forgotten, Duplicate, InProgress, NewRequest, AddReply,
                            AddReplyAsserts, PickConn, SendReply
<1> QED
  BY Zenon, <1>3, <1>4, <1>5, <1>6, <1>7 DEF Next, ServerNext

\* Who takes an entry out of the list: a pass, or the end of the server.
LEMMA ListChanges ==
  ASSUME Next
  PROVE  \/ list' = list
         \/ server' = "gone"
         \/ \E w \in Workers :
              AddReply(w) \/ Duplicate(w) \/ InProgress(w) \/ NewRequest(w)
<1>1. ASSUME ClientNext PROVE list' = list
  BY <1>1 DEF ClientNext, Issue, Connect, Transmit, GotReply, EndCall, winVars
<1>2. ASSUME NEW k, ConnDies(k) \/ GcTest(k) \/ CloseOne(k) PROVE list' = list
  BY <1>2 DEF ConnDies, GcTest, CloseOne, winVars
<1>3. ASSUME NEW x, NEW k, GotRequest(x, k) PROVE list' = list
  BY <1>3 DEF GotRequest, winVars
<1>4. ASSUME Accept \/ GcDrop \/ GcEnd \/ Stop PROVE list' = list
  BY <1>4 DEF Accept, GcDrop, GcEnd, Stop, winVars
<1>5. ASSUME FreeReplyWindow PROVE server' = "gone"
  BY <1>5 DEF FreeReplyWindow
<1>6. ASSUME NEW w, NEW j, NoHandler(w, j) \/ OldInstance(w, j) \/ TakeJob(w, j)
      PROVE  list' = list
  BY <1>6 DEF NoHandler, OldInstance, TakeJob, winVars
<1>7. ASSUME NEW w, Forgotten(w) \/ AddReplyAsserts(w) \/ PickConn(w) \/ SendReply(w)
      PROVE  list' = list
  BY <1>7 DEF Forgotten, AddReplyAsserts, PickConn, SendReply, winVars
<1> QED
  BY Zenon, <1>1, <1>2, <1>3, <1>4, <1>5, <1>6, <1>7 DEF Next, ServerNext, WorkerNext

\* add_reply leaves every xid where it is.
LEMMA ReplyKeepsXids ==
  ASSUME IInv, NEW w \in Workers, AddReply(w), NEW e \in ToSet(list)
  PROVE  \E f \in ToSet(list') : f.xid = e.xid
<1>1. PICK s : s = list
  OBVIOUS
<1>2. s \in Seq(Entries) /\ Unique(s)
  BY Zenon, <1>1, ListIs DEF IInv
<1>3. PICK p : p = Place(wk[w].xid)
  OBVIOUS
<1>4. p # 0
  BY <1>3 DEF AddReply
<1>5. p \in 1..Len(s)
  BY Zenon, <1>1, <1>2, <1>3, <1>4, PlaceIs
<1>6. s[p] \in Entries
  BY Zenon, <1>2, <1>5, MembersOf
<1>7. PICK d : d = [s[p] EXCEPT !.done = TRUE]
  OBVIOUS
<1>8. d \in Entries /\ d.xid = s[p].xid /\ d.done
  BY Zenon, <1>6, <1>7, Marked
<1>9. PICK t : t = [s EXCEPT ![p] = d]
  OBVIOUS
<1>10. list' = t
  <2>1. list' = [s EXCEPT ![p].done = TRUE]
    BY Zenon, <1>1, <1>3 DEF AddReply
  <2> QED
    BY Zenon, <1>7, <1>9, <2>1
<1>11. t \in Seq(Entries) /\ Len(t) = Len(s) /\ t[p] = d /\ \A i \in 1..Len(s) : i # p => t[i] = s[i]
  <2>1. s \in Seq(Entries)
    BY <1>2
  <2>2. d \in Entries
    BY <1>8
  <2> QED
    BY <1>5, <1>9, <2>1, <2>2, ReplacedIs
<1>12. d \in ToSet(t) /\ \A f : f.xid # d.xid => (f \in ToSet(t) <=> f \in ToSet(s))
  <2>1. s \in Seq(Entries) /\ Unique(s) /\ t \in Seq(Entries)
    BY <1>2, <1>11
  <2>2. d \in Entries
    BY <1>8
  <2> QED
    BY <1>5, <1>8, <1>11, <2>1, <2>2, ReplyAdded
<1> QED
  BY Zenon, <1>1, <1>10, <1>12

\* dispatch forgets a call only when its xid is out of date.
LEMMA StoppedStays ==
  ASSUME IInv, Next, NEW x \in Xids, Stopped(x)
  PROVE  Stopped(x)'
<1>0. x \in Nat /\ mark \in Nat /\ mark' \in Nat /\ mark <= mark'
  <2>1. x \in Nat
    BY Zenon, XidIs
  <2>2. mark \in 0..MaxXid /\ mark' \in 0..MaxXid
    BY Zenon, ClientStep DEF IInv, ClientInv
  <2> QED
    BY <2>1, <2>2, MarkGrows
<1>1. CASE x < mark
  <2>1. x < mark'
    BY <1>0, <1>1
  <2> QED
    BY Zenon, <2>1 DEF Stopped
<1>2. CASE server \in {"gone", "aborted"}
  BY Zenon, <1>2, EndedStays DEF Stopped
<1>3. ASSUME NEW e \in ToSet(list), e.xid = x PROVE Stopped(x)'
  <2>1. CASE list' = list
    BY Zenon, <1>3, <2>1 DEF Stopped
  <2>2. CASE server' = "gone"
    BY <2>2 DEF Stopped
  <2>3. ASSUME NEW w \in Workers, AddReply(w) PROVE Stopped(x)'
    BY Zenon, <1>3, <2>3, ReplyKeepsXids DEF Stopped
  <2>4. ASSUME NEW w \in Workers, Duplicate(w) \/ InProgress(w) \/ NewRequest(w)
        PROVE  Stopped(x)'
    <3>1. PICK y \in Xids : mark' = NewMark(y) /\ Leaves(y)
      BY Zenon, <2>4, WorkerPasses
    <3>2. CASE OutOfDate(e, y)
      <4>1. x < mark'
        BY Zenon, <1>3, <3>1, <3>2 DEF OutOfDate
      <4> QED
        BY Zenon, <4>1 DEF Stopped
    <3>3. CASE ~OutOfDate(e, y)
      <4>1. e \in ToSet(list')
        BY Zenon, <3>1, <3>3 DEF Leaves
      <4> QED
        BY Zenon, <1>3, <4>1 DEF Stopped
    <3> QED
      BY Zenon, <3>2, <3>3
  <2> QED
    BY Zenon, <2>1, <2>2, <2>3, <2>4, ListChanges
<1> QED
  BY Zenon, <1>1, <1>2, <1>3 DEF Stopped

\* A handler starts when checkduplicate_and_update says NEW.
LEMMA StartsNew ==
  ASSUME IInv, Next, NEW w \in Workers, wk[w].pc # "run", wk'[w].pc = "run"
  PROVE  NewRequest(w) /\ wk'[w].xid = wk[w].xid
<1> USE DEF IInv
<1>1. ~UNCHANGED wk
  BY Zenon
<1>2. wk' # [u \in Workers |-> IdleWorker]
  BY DEF IdleWorker
<1>3. PICK v \in Workers : WorkerNext(v)
  <2>1. ASSUME ClientNext PROVE UNCHANGED wk
    BY <2>1 DEF ClientNext, Issue, Connect, Transmit, GotReply, EndCall
  <2>2. ASSUME NEW k, ConnDies(k) \/ GcTest(k) \/ CloseOne(k) PROVE UNCHANGED wk
    BY <2>2 DEF ConnDies, GcTest, CloseOne
  <2>3. ASSUME NEW x, NEW k, GotRequest(x, k) PROVE UNCHANGED wk
    BY <2>3 DEF GotRequest
  <2>4. ASSUME Accept \/ GcEnd \/ Stop \/ FreeReplyWindow PROVE UNCHANGED wk
    BY <2>4 DEF Accept, GcEnd, Stop, FreeReplyWindow
  <2>5. ASSUME GcDrop PROVE UNCHANGED wk \/ wk' = [u \in Workers |-> IdleWorker]
    BY Zenon, <2>5 DEF GcDrop, Abort
  <2> QED
    BY Zenon, <1>1, <1>2, <2>1, <2>2, <2>3, <2>4, <2>5 DEF Next, ServerNext
<1>4. ~AddReplyAsserts(v)
  BY Zenon, <1>2 DEF AddReplyAsserts, Abort
<1>5. \A u \in Workers : wk[u] \in Busy \cup {IdleWorker}
  BY DEF WorkInv
<1>6. ASSUME NEW r, wk' = [wk EXCEPT ![v] = r] PROVE v = w /\ r.pc = "run"
  <2>1. wk'[v] = r /\ \A u \in Workers : u # v => wk'[u] = wk[u]
    BY Zenon, <1>6, Others
  <2> QED
    BY Zenon, <2>1
<1>7. ASSUME NEW j \in jobs, TakeJob(v, j) PROVE FALSE
  <2>1. wk' = [wk EXCEPT ![v] = [pc |-> "check", xid |-> j[1], conn |-> j[2], b1 |-> FALSE]]
    BY Zenon, <1>7 DEF TakeJob
  <2>2. [pc |-> "check", xid |-> j[1], conn |-> j[2], b1 |-> FALSE].pc # "run"
    OBVIOUS
  <2> QED
    BY Zenon, <1>6, <2>1, <2>2
<1>15. ASSUME NEW j, NoHandler(v, j) \/ OldInstance(v, j) PROVE UNCHANGED wk
  BY <1>15 DEF NoHandler, OldInstance
<1>8. ASSUME InProgress(v) \/ SendReply(v) PROVE FALSE
  <2>1. wk' = [wk EXCEPT ![v] = IdleWorker]
    BY Zenon, <1>8 DEF InProgress, SendReply, Leave
  <2>2. IdleWorker.pc # "run"
    BY DEF IdleWorker
  <2> QED
    BY Zenon, <1>6, <2>1, <2>2
<1>9. ASSUME Forgotten(v) \/ Duplicate(v) \/ AddReply(v) \/ PickConn(v) PROVE FALSE
  <2>1. wk[v] # IdleWorker
    BY <1>9 DEF Forgotten, Duplicate, AddReply, PickConn, IdleWorker
  <2>2. PICK q : q = wk[v] /\ q \in Busy
    BY Zenon, <2>1, BusyIs
  <2>3. \/ wk' = [wk EXCEPT ![v] = [q EXCEPT !.pc = "send"]]
        \/ wk' = [wk EXCEPT ![v] = [q EXCEPT !.pc = "send", !.b1 = TRUE]]
        \/ wk' = [wk EXCEPT ![v] = [q EXCEPT !.pc = "pick", !.b1 = TRUE]]
        \/ wk' = [wk EXCEPT ![v] = [q EXCEPT !.pc = "send", !.conn = latest]]
    BY <1>9, <2>2 DEF Forgotten, Duplicate, AddReply, PickConn, Goes
  <2>4. /\ [q EXCEPT !.pc = "send"].pc # "run"
        /\ [q EXCEPT !.pc = "send", !.b1 = TRUE].pc # "run"
        /\ [q EXCEPT !.pc = "pick", !.b1 = TRUE].pc # "run"
        /\ [q EXCEPT !.pc = "send", !.conn = latest].pc # "run"
    BY <2>2 DEF Busy, BusyIn
  <2> QED
    BY Zenon, <1>6, <2>3, <2>4
<1>10. NewRequest(v)
  BY Zenon, <1>1, <1>3, <1>4, <1>7, <1>8, <1>9, <1>15 DEF WorkerNext
<1>11. PICK q : q = wk[v] /\ q \in Busy
  <2>1. wk[v] # IdleWorker
    BY <1>10 DEF NewRequest, IdleWorker
  <2> QED
    BY Zenon, <2>1, BusyIs
<1>12. wk' = [wk EXCEPT ![v] = [q EXCEPT !.pc = "run"]]
  BY Zenon, <1>10, <1>11 DEF NewRequest, Goes
<1>13. [q EXCEPT !.pc = "run"].xid = q.xid
  BY <1>11 DEF Busy, BusyIn
<1>14. v = w /\ wk'[v] = [q EXCEPT !.pc = "run"]
  BY Zenon, <1>6, <1>12, Others
<1> QED
  BY Zenon, <1>10, <1>11, <1>13, <1>14

\* The handler of a call is started once: a request that comes again, on
\* another connection or to another worker, while the handler runs, after it
\* has replied or when the reply is forgotten, is never NEW.
THEOREM HandlerStartsOnce == Spec => [][OnceStep]_vars
<1>1. IInv /\ Next => OnceStep
  <2> SUFFICES ASSUME IInv, Next, NEW x \in Xids
               PROVE  /\ Stopped(x) => Stopped(x)' /\ ~HandlerStarts(x)
                      /\ HandlerStarts(x) => Stopped(x)'
    BY Zenon DEF OnceStep
  <2>1. ASSUME HandlerStarts(x) PROVE ~Stopped(x) /\ Stopped(x)'
    <3>1. PICK w \in Workers : NewRequest(w) /\ wk[w].xid = x
      BY Zenon, <2>1, StartsNew DEF HandlerStarts
    <3>2. x >= NewMark(x) /\ Place(x) = 0
      BY Zenon, <3>1 DEF NewRequest
    <3>3. \A e \in ToSet(list) : e.xid # x
      BY Zenon, <3>2, ListIs, PlaceIs DEF IInv
    <3>4. ~(x < mark)
      <4>1. x \in Nat
        BY Zenon, XidIs
      <4>2. mark \in 0..MaxXid /\ hdr[x] \in 0..MaxXid
        BY DEF IInv, ClientInv
      <4> QED
        BY <3>2, <4>1, <4>2 DEF NewMark
    <3>5. server \notin {"gone", "aborted"}
      <4>1. wk[w] # IdleWorker
        BY <3>1 DEF NewRequest, IdleWorker
      <4> QED
        BY Zenon, <4>1 DEF IInv, WorkInv
    <3>6. [xid |-> x, done |-> FALSE] \in ToSet(list')
      BY Zenon, <3>1, <3>2, WorkerPasses DEF Leaves
    <3>7. [xid |-> x, done |-> FALSE].xid = x
      OBVIOUS
    <3> QED
      BY Zenon, <3>3, <3>4, <3>5, <3>6, <3>7 DEF Stopped
  <2> QED
    BY Zenon, <2>1, StoppedStays
<1>2. IInv /\ [Next]_vars => [OnceStep]_vars
  BY Zenon, <1>1
<1> QED
  BY <1>2, DispatchInvariant, PTL DEF Spec

=============================================================================

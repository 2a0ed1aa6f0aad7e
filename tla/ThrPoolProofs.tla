---------------------------- MODULE ThrPoolProofs ----------------------------
(***************************************************************************)
(* Proofs about ThrPool, for any number of workers, jobs and places in the *)
(* queue, and for both values of blockadd: its types, that every job is    *)
(* accounted for, that no wakeup is lost, and that ~ThrPool returns with   *)
(* nothing left to do.                                                     *)
(***************************************************************************)
EXTENDS ThrPool, FiniteSetTheorems, SequenceTheorems, TLAPS

Items  == Jobs \cup {Pill}
AddPc  == {"idle", "wait", "woken", "more", "true", "false"}
WorkPc == {"take", "wait", "woken", "run", "gone"}

\* pthread_cond_signal leaves all as it is when nobody waits, and else wakes
\* one who does.
LEMMA Signalled ==
  ASSUME NEW T, NEW V, "woken" \in V, NEW st \in [T -> V], NEW st2 \in Signal(st)
  PROVE  /\ st2 \in [T -> V]
         /\ \A t \in T : st2[t] = st[t] \/ (st[t] = "wait" /\ st2[t] = "woken")
         /\ \/ st2 = st /\ \A t \in T : st[t] # "wait"
            \/ \E t \in T : st[t] = "wait" /\ st2 = [st EXCEPT ![t] = "woken"]
<1> DEFINE waiting == {t \in DOMAIN st : st[t] = "wait"}
<1>1. CASE waiting = {}
  <2>1. st2 = st /\ \A t \in T : st[t] # "wait"
    BY <1>1 DEF Signal
  <2> QED  BY <2>1
<1>2. CASE waiting # {}
  <2>1. st2 \in {[st EXCEPT ![t] = "woken"] : t \in waiting}
    BY <1>2 DEF Signal
  <2>2. PICK t \in T : st[t] = "wait" /\ st2 = [st EXCEPT ![t] = "woken"]
    BY <2>1
  <2> QED  BY <2>2
<1> QED  BY <1>1, <1>2

\* The same of non_empty_c_, where the workers wait.
LEMMA WorkerSignalled ==
  ASSUME wk \in [Workers -> WorkPc], wk' \in Signal(wk)
  PROVE  /\ wk' \in [Workers -> WorkPc]
         /\ \A t \in Workers : wk'[t] = wk[t] \/ (wk[t] = "wait" /\ wk'[t] = "woken")
         /\ \/ wk' = wk /\ \A t \in Workers : wk[t] # "wait"
            \/ \E t \in Workers : wk[t] = "wait" /\ wk' = [wk EXCEPT ![t] = "woken"]
<1>1. PICK st, st2 : st = wk /\ st2 = wk'
  OBVIOUS
<1>2. "woken" \in WorkPc
  BY DEF WorkPc
<1>3. /\ st2 \in [Workers -> WorkPc]
      /\ \A t \in Workers : st2[t] = st[t] \/ (st[t] = "wait" /\ st2[t] = "woken")
      /\ \/ st2 = st /\ \A t \in Workers : st[t] # "wait"
         \/ \E t \in Workers : st[t] = "wait" /\ st2 = [st EXCEPT ![t] = "woken"]
  BY <1>1, <1>2, Signalled
<1> QED  BY <1>1, <1>3

\* The same of has_space_c_, where the threads in enq wait.
LEMMA AdderSignalled ==
  ASSUME add \in [Adders -> AddPc], add' \in Signal(add)
  PROVE  /\ add' \in [Adders -> AddPc]
         /\ \A t \in Adders : add'[t] = add[t] \/ (add[t] = "wait" /\ add'[t] = "woken")
         /\ \/ add' = add /\ \A t \in Adders : add[t] # "wait"
            \/ \E t \in Adders : add[t] = "wait" /\ add' = [add EXCEPT ![t] = "woken"]
<1>1. PICK st, st2 : st = add /\ st2 = add'
  OBVIOUS
<1>2. "woken" \in AddPc
  BY DEF AddPc
<1>3. /\ st2 \in [Adders -> AddPc]
      /\ \A t \in Adders : st2[t] = st[t] \/ (st[t] = "wait" /\ st2[t] = "woken")
      /\ \/ st2 = st /\ \A t \in Adders : st[t] # "wait"
         \/ \E t \in Adders : st[t] = "wait" /\ st2 = [st EXCEPT ![t] = "woken"]
  BY <1>1, <1>2, Signalled
<1> QED  BY <1>1, <1>3

\* There are so many pills as workers, a positive number.
LEMMA PillsType == PillsToAdd \in Nat \ {0}
BY PoolAssumption, FS_CardinalityType, FS_EmptySet DEF PillsToAdd

\* What a step of enq does, whoever calls it.
LEMMA EnqEffect ==
  ASSUME TypeOK, NEW a \in Adders, NEW e \in Items, NEW s \in {"true", "more"},
         Enq(a, e, s)
  PROVE  /\ q' = Append(q, e) /\ accepted' = Append(accepted, e)
         /\ q' \in Seq(Items) /\ accepted' \in Seq(Items) /\ taken' = taken
         /\ add' = [add EXCEPT ![a] = s] /\ add' \in [Adders -> AddPc]
         /\ wk' \in Signal(wk) /\ wk' \in [Workers -> WorkPc]
         /\ \A w \in Workers : (wk'[w] = "gone") <=> (wk[w] = "gone")
<1>1. /\ q \in Seq(Items) /\ accepted \in Seq(Items)
      /\ add \in [Adders -> AddPc] /\ wk \in [Workers -> WorkPc]
  BY DEF TypeOK, Items, AddPc, WorkPc
<1>2. /\ q' = Append(q, e) /\ accepted' = Append(accepted, e) /\ taken' = taken
      /\ add' = [add EXCEPT ![a] = s] /\ wk' \in Signal(wk)
  BY DEF Enq, Pushed, NonEmptySignal
<1>3. /\ wk' \in [Workers -> WorkPc]
      /\ \A w \in Workers : wk'[w] = wk[w] \/ (wk[w] = "wait" /\ wk'[w] = "woken")
  BY <1>1, <1>2, WorkerSignalled
<1>4. add' \in [Adders -> AddPc]
  BY <1>1, <1>2 DEF AddPc
<1> QED  BY <1>1, <1>2, <1>3, <1>4

\* What a step of deq does.
LEMMA DeqEffect ==
  ASSUME TypeOK, NEW w \in Workers, Deq(w)
  PROVE  /\ q # << >> /\ Head(q) \in Items
         /\ q' = Tail(q) /\ taken' = Append(taken, Head(q))
         /\ q' \in Seq(Items) /\ taken' \in Seq(Items) /\ accepted' = accepted
         /\ add' \in [Adders -> AddPc]
         /\ \A a \in Adders : \/ add'[a] = add[a]
                              \/ add[a] = "wait" /\ add'[a] = "woken"
         /\ wk' \in [Workers -> WorkPc]
<1>1. /\ q \in Seq(Items) /\ taken \in Seq(Items)
      /\ add \in [Adders -> AddPc] /\ wk \in [Workers -> WorkPc]
  BY DEF TypeOK, Items, AddPc, WorkPc
<1>2. /\ q # << >> /\ q' = Tail(q) /\ taken' = Append(taken, Head(q))
      /\ accepted' = accepted
      /\ wk' = [wk EXCEPT ![w] = IF Head(q) = Pill THEN "gone" ELSE "run"]
      /\ add' \in Signal(add) \/ add' = add
  BY DEF Deq, HasSpaceSignal
<1>3. Head(q) \in Items /\ q' \in Seq(Items)
  BY <1>1, <1>2, HeadTailProperties
<1>4. /\ add' \in [Adders -> AddPc]
      /\ \A a \in Adders : \/ add'[a] = add[a]
                           \/ add[a] = "wait" /\ add'[a] = "woken"
  <2>1. CASE add' \in Signal(add)
    BY <1>1, <2>1, AdderSignalled
  <2>2. CASE add' = add
    BY <1>1, <2>2
  <2> QED  BY <1>2, <2>1, <2>2
<1>5. wk' \in [Workers -> WorkPc]
  BY <1>1, <1>2 DEF WorkPc
<1> QED  BY <1>1, <1>2, <1>3, <1>4, <1>5

-----------------------------------------------------------------------------
(* Types.                                                                  *)

\* The initial states satisfy the types.
LEMMA InitTypeOK == ASSUME Init PROVE TypeOK
<1>1. Cardinality(Workers) \in Nat
  BY PillsType DEF PillsToAdd
<1>2. << >> \in Seq(Jobs \cup {Pill})
  OBVIOUS
<1> QED  BY <1>1, <1>2 DEF Init, TypeOK

\* Each step keeps the types.
LEMMA NextTypeOK == ASSUME TypeOK, [Next]_vars PROVE TypeOK'
<1> USE DEF Items, AddPc, WorkPc
<1>1. ASSUME NEW j \in Jobs, AddJob(j) PROVE TypeOK'
  <2>1. Enq(j, j, "true") /\ j \in Adders /\ j \in Items /\ pills' = pills
    BY <1>1 DEF AddJob, Adders
  <2>2. blockadd' = blockadd /\ job' = job
    BY <2>1 DEF Enq
  <2> QED  BY <2>1, <2>2, EnqEffect DEF TypeOK
<1>2. ASSUME NEW j \in Jobs, AddJobWaits(j) \/ AddJobFails(j) PROVE TypeOK'
  <2>1. j \in Adders
    BY DEF Adders
  <2> QED  BY <1>2, <2>1 DEF AddJobWaits, AddJobFails, EnqWaits, TypeOK
<1>3. ASSUME NEW w \in Workers, Deq(w) PROVE TypeOK'
  <2>1. /\ blockadd' = blockadd /\ pills' = pills
        /\ job' = [job EXCEPT ![w] = Head(q)]
    BY <1>3 DEF Deq
  <2> QED  BY <1>3, <2>1, DeqEffect DEF TypeOK
<1>4. ASSUME NEW w \in Workers, DeqWaits(w) \/ RunJob(w) PROVE TypeOK'
  BY <1>4 DEF DeqWaits, RunJob, TypeOK
<1>5. CASE AddPill
  <2>1. /\ Enq(Destructor, Pill, "more") /\ pills' = pills + 1
        /\ pills < PillsToAdd /\ Destructor \in Adders /\ Pill \in Items
    BY <1>5 DEF AddPill, Destroying, Adders
  <2>2. blockadd' = blockadd /\ job' = job
    BY <2>1 DEF Enq
  <2>3. pills' \in 0..Cardinality(Workers)
    BY <2>1, PillsType DEF TypeOK, PillsToAdd
  <2> QED  BY <2>1, <2>2, <2>3, EnqEffect DEF TypeOK
<1>6. CASE AddPillWaits \/ Join
  <2>1. Destructor \in Adders
    BY DEF Adders
  <2> QED  BY <1>6, <2>1 DEF AddPillWaits, Join, EnqWaits, TypeOK
<1>7. CASE SpuriousWakeup
  BY <1>7 DEF SpuriousWakeup, TypeOK
<1>8. CASE UNCHANGED vars
  BY <1>8 DEF vars, TypeOK
<1> QED
  BY <1>1, <1>2, <1>3, <1>4, <1>5, <1>6, <1>7, <1>8
  DEF Next, AddNext, WorkerNext, DestructorNext

\* Every variable keeps its type.
THEOREM PoolTypeCorrect == Spec => []TypeOK
BY InitTypeOK, NextTypeOK, PTL DEF Spec

-----------------------------------------------------------------------------
(* Every job is accounted for.                                             *)

\* A step that leaves the queue and its histories alone, and tells no adder
\* that its job was taken, keeps the accounts.
LEMMA AccountedStays ==
  ASSUME Accounted, UNCHANGED <<q, accepted, taken>>,
         \A j \in Jobs : add'[j] = "true" <=> add[j] = "true"
  PROVE  Accounted'
BY DEF Accounted

\* What goes in at one end of the queue comes after what was taken.
LEMMA AppendAccounted ==
  ASSUME NEW t \in Seq(Items), NEW r \in Seq(Items), NEW e \in Items
  PROVE  Append(t \o r, e) = t \o Append(r, e)
<1> DEFINE u == Append(t \o r, e)
           v == t \o Append(r, e)
<1>1. /\ t \o r \in Seq(Items) /\ Len(t \o r) = Len(t) + Len(r)
      /\ \A i \in 1..Len(t) + Len(r) :
           (t \o r)[i] = IF i <= Len(t) THEN t[i] ELSE r[i - Len(t)]
  BY ConcatProperties
<1>2. /\ Append(r, e) \in Seq(Items) /\ Len(Append(r, e)) = Len(r) + 1
      /\ \A i \in 1..Len(r) : Append(r, e)[i] = r[i]
      /\ Append(r, e)[Len(r) + 1] = e
  OBVIOUS
<1>3. /\ u \in Seq(Items) /\ Len(u) = Len(t) + Len(r) + 1
      /\ \A i \in 1..Len(t) + Len(r) : u[i] = (t \o r)[i]
      /\ u[Len(t) + Len(r) + 1] = e
  BY <1>1
<1>4. Len(t) \in Nat /\ Len(r) \in Nat
  BY LenProperties
<1>5. /\ v \in Seq(Items) /\ Len(v) = Len(t) + Len(r) + 1
      /\ \A i \in 1..Len(t) + Len(r) + 1 :
           v[i] = IF i <= Len(t) THEN t[i] ELSE Append(r, e)[i - Len(t)]
  <2>1. PICK z : z = Append(r, e)
    OBVIOUS
  <2>2. z \in Seq(Items) /\ Len(z) = Len(r) + 1
    BY <1>2, <2>1
  <2>3. /\ t \o z \in Seq(Items) /\ Len(t \o z) = Len(t) + Len(z)
        /\ \A i \in 1..Len(t) + Len(z) :
             (t \o z)[i] = IF i <= Len(t) THEN t[i] ELSE z[i - Len(t)]
    BY <2>2, ConcatProperties
  <2>4. Len(t) + Len(z) = Len(t) + Len(r) + 1
    BY <1>4, <2>2
  <2> QED  BY <2>1, <2>3, <2>4
<1>6. \A i \in 1..Len(u) : u[i] = v[i]
  BY <1>1, <1>2, <1>3, <1>4, <1>5
<1> HIDE DEF u, v
<1>7. u = v
  BY <1>3, <1>5, <1>6, SeqEqual
<1> QED  BY <1>7 DEF u, v

\* What is taken is the first that is left.
LEMMA TailAccounted ==
  ASSUME NEW t \in Seq(Items), NEW r \in Seq(Items), r # << >>
  PROVE  t \o r = Append(t, Head(r)) \o Tail(r)
<1> DEFINE u == t \o r
           v == Append(t, Head(r)) \o Tail(r)
<1>1. /\ u \in Seq(Items) /\ Len(u) = Len(t) + Len(r)
      /\ \A i \in 1..Len(t) + Len(r) :
           u[i] = IF i <= Len(t) THEN t[i] ELSE r[i - Len(t)]
  BY ConcatProperties
<1>2. /\ Head(r) = r[1] /\ Head(r) \in Items
      /\ Tail(r) \in Seq(Items) /\ Len(Tail(r)) = Len(r) - 1
      /\ \A i \in 1..Len(r) - 1 : Tail(r)[i] = r[i + 1]
  BY HeadTailProperties
<1>3. /\ Append(t, Head(r)) \in Seq(Items) /\ Len(Append(t, Head(r))) = Len(t) + 1
      /\ \A i \in 1..Len(t) : Append(t, Head(r))[i] = t[i]
      /\ Append(t, Head(r))[Len(t) + 1] = r[1]
  BY <1>2
<1>4. Len(t) \in Nat /\ Len(r) \in Nat \ {0}
  BY LenProperties, EmptySeq
<1>5. /\ v \in Seq(Items) /\ Len(v) = Len(t) + Len(r)
      /\ \A i \in 1..Len(t) + Len(r) :
           v[i] = IF i <= Len(t) + 1 THEN Append(t, Head(r))[i]
                                     ELSE Tail(r)[i - (Len(t) + 1)]
  BY <1>2, <1>3, <1>4, ConcatProperties
<1>6. \A i \in 1..Len(u) : u[i] = v[i]
  <2> SUFFICES ASSUME NEW i \in 1..Len(t) + Len(r) PROVE u[i] = v[i]
    BY <1>1
  <2>1. CASE i <= Len(t)
    BY <1>1, <1>3, <1>4, <1>5, <2>1
  <2>2. CASE i = Len(t) + 1
    BY <1>1, <1>3, <1>4, <1>5, <2>2
  <2>3. CASE i > Len(t) + 1
    <3>1. i - (Len(t) + 1) \in 1..Len(r) - 1
      BY <1>4, <2>3
    <3>2. Tail(r)[i - (Len(t) + 1)] = r[i - Len(t)]
      BY <1>2, <1>4, <3>1
    <3> QED  BY <1>1, <1>4, <1>5, <2>3, <3>2
  <2> QED  BY <1>4, <2>1, <2>2, <2>3
<1> HIDE DEF u, v
<1>7. u = v
  BY <1>1, <1>5, <1>6, SeqEqual
<1> QED  BY <1>7 DEF u, v

\* A step of enq puts down what it takes in, and for whom.
LEMMA EnqAccounted ==
  ASSUME TypeOK, Accounted,
         \/ \E j \in Jobs : AddJob(j)
         \/ AddPill
  PROVE  Accounted'
<1>1. PICK a \in Adders, e \in Items, s \in {"true", "more"} :
        /\ Enq(a, e, s)
        /\ \/ a \in Jobs /\ e = a /\ s = "true"
           \/ a = Destructor /\ e = Pill /\ s = "more"
  BY DEF AddJob, AddPill, Adders, Items
<1>2. /\ q' = Append(q, e) /\ accepted' = Append(accepted, e) /\ taken' = taken
      /\ add' = [add EXCEPT ![a] = s]
  BY <1>1, EnqEffect
<1>3. /\ q \in Seq(Items) /\ taken \in Seq(Items) /\ accepted \in Seq(Items)
      /\ add \in [Adders -> AddPc]
  BY DEF TypeOK, Items, AddPc
<1>4. accepted' = taken' \o q'
  BY <1>2, <1>3, AppendAccounted DEF Accounted
<1>5. ASSUME NEW j \in Jobs
      PROVE  add'[j] = "true" <=> \E i \in DOMAIN accepted' : accepted'[i] = j
  <2>1. /\ Len(accepted) \in Nat /\ Len(accepted') = Len(accepted) + 1
        /\ DOMAIN accepted = 1..Len(accepted)
        /\ DOMAIN accepted' = 1..Len(accepted) + 1
        /\ \A i \in 1..Len(accepted) : accepted'[i] = accepted[i]
        /\ accepted'[Len(accepted) + 1] = e
    BY <1>2, <1>3
  <2>2. (\E i \in DOMAIN accepted' : accepted'[i] = j)
          <=> e = j \/ \E i \in DOMAIN accepted : accepted[i] = j
    BY <2>1
  <2>3. add'[j] = "true" <=> add[j] = "true" \/ e = j
    BY <1>1, <1>2, <1>3, PoolAssumption DEF Adders
  <2> QED  BY <2>2, <2>3 DEF Accounted
<1> QED  BY <1>4, <1>5 DEF Accounted

\* A step of deq moves the first of the queue to the end of what was taken.
LEMMA DeqAccounted ==
  ASSUME TypeOK, Accounted, NEW w \in Workers, Deq(w)
  PROVE  Accounted'
<1>1. /\ q # << >> /\ q' = Tail(q) /\ taken' = Append(taken, Head(q))
      /\ accepted' = accepted
      /\ \A a \in Adders : add'[a] = add[a] \/ (add[a] = "wait" /\ add'[a] = "woken")
  BY DeqEffect
<1>2. q \in Seq(Items) /\ taken \in Seq(Items)
  BY DEF TypeOK, Items
<1>3. accepted' = taken' \o q'
  BY <1>1, <1>2, TailAccounted DEF Accounted
<1>4. \A j \in Jobs : add'[j] = "true" <=> add[j] = "true"
  BY <1>1 DEF Adders
<1>5. \A j \in Jobs :
        add'[j] = "true" <=> \E i \in DOMAIN accepted' : accepted'[i] = j
  BY <1>1, <1>4 DEF Accounted
<1> QED  BY <1>3, <1>5 DEF Accounted

\* What enq took in is what deq gives out, in the same order and each once,
\* and addJob tells its caller the truth.
THEOREM AccountedHolds == Spec => []Accounted
<1>1. Init => Accounted
  <2> SUFFICES ASSUME Init PROVE Accounted
    OBVIOUS
  <2>1. accepted = taken \o q
    BY ConcatEmptySeq, EmptySeq DEF Init
  <2>2. \A j \in Jobs : add[j] # "true"
    BY DEF Init, Adders
  <2>3. DOMAIN accepted = {}
    BY DEF Init
  <2> QED  BY <2>1, <2>2, <2>3 DEF Accounted
<1>2. TypeOK /\ Accounted /\ [Next]_vars => Accounted'
  <2> SUFFICES ASSUME TypeOK, Accounted, [Next]_vars PROVE Accounted'
    OBVIOUS
  <2>1. CASE AddPill \/ \E j \in Jobs : AddJob(j)
    BY <2>1, EnqAccounted
  <2>2. ASSUME NEW w \in Workers, Deq(w) PROVE Accounted'
    BY <2>2, DeqAccounted
  <2>3. ASSUME NEW j \in Jobs, AddJobWaits(j) \/ AddJobFails(j) PROVE Accounted'
    <3>1. add[j] # "true"
      BY <2>3 DEF AddJobWaits, AddJobFails, Adding
    <3>2. UNCHANGED <<q, accepted, taken>>
      BY <2>3 DEF AddJobWaits, AddJobFails, EnqWaits
    <3>3. \A k \in Jobs : add'[k] = "true" <=> add[k] = "true"
      BY <2>3, <3>1 DEF AddJobWaits, AddJobFails, EnqWaits, TypeOK, Adders
    <3> QED  BY <3>2, <3>3, AccountedStays
  <2>4. CASE AddPillWaits \/ Join
    <3>1. UNCHANGED <<q, accepted, taken>>
      BY <2>4 DEF AddPillWaits, Join, EnqWaits
    <3>2. \A k \in Jobs : add'[k] = "true" <=> add[k] = "true"
      BY <2>4, PoolAssumption
      DEF AddPillWaits, Join, EnqWaits, TypeOK, Adders
    <3> QED  BY <3>1, <3>2, AccountedStays
  <2>5. CASE SpuriousWakeup
    <3>1. UNCHANGED <<q, accepted, taken>>
      BY <2>5 DEF SpuriousWakeup
    <3>2. \A k \in Jobs : add'[k] = "true" <=> add[k] = "true"
      BY <2>5 DEF SpuriousWakeup, TypeOK, Adders
    <3> QED  BY <3>1, <3>2, AccountedStays
  <2>6. ASSUME NEW w \in Workers, DeqWaits(w) \/ RunJob(w) PROVE Accounted'
    <3>1. UNCHANGED <<q, accepted, taken, add>>
      BY <2>6 DEF DeqWaits, RunJob
    <3> QED  BY <3>1, AccountedStays
  <2>7. CASE UNCHANGED vars
    <3>1. UNCHANGED <<q, accepted, taken, add>>
      BY <2>7 DEF vars
    <3> QED  BY <3>1, AccountedStays
  <2> QED
    BY <2>1, <2>2, <2>3, <2>4, <2>5, <2>6, <2>7
    DEF Next, AddNext, WorkerNext, DestructorNext
<1> QED  BY <1>1, <1>2, PoolTypeCorrect, PTL DEF Spec

-----------------------------------------------------------------------------
(* No wakeup is lost.                                                      *)

OnTheWay  == {w \in Workers : wk[w] \in {"take", "woken"}}
WokenAdds == {a \in Adders : add[a] = "woken"}

\* The two halves of NoLostWakeup.
JobsAreMet   == (\E w \in Workers : wk[w] = "wait") =>
                  Len(q) <= Cardinality(OnTheWay)
PlacesAreMet == (\E a \in Adders : add[a] = "wait") =>
                  MaxQueue - Len(q) <= Cardinality(WokenAdds)

\* There may be more jobs than could ever be added, but only so many threads
\* have come to add one.
Entered       == {a \in Adders : add[a] # "idle"}
EnteredFinite == IsFiniteSet(Entered)

\* The sets counted are finite, before a step and after it.
LEMMA FiniteCounts ==
  ASSUME EnteredFinite, EnteredFinite'
  PROVE  /\ IsFiniteSet(OnTheWay) /\ Cardinality(OnTheWay) \in Nat
         /\ IsFiniteSet(OnTheWay') /\ Cardinality(OnTheWay') \in Nat
         /\ IsFiniteSet(WokenAdds) /\ Cardinality(WokenAdds) \in Nat
         /\ IsFiniteSet(WokenAdds') /\ Cardinality(WokenAdds') \in Nat
<1>1. /\ OnTheWay \in SUBSET Workers /\ WokenAdds \in SUBSET Entered
      /\ OnTheWay' \in SUBSET Workers /\ WokenAdds' \in SUBSET Entered'
  BY DEF OnTheWay, WokenAdds, Entered
<1>2. IsFiniteSet(Workers) /\ IsFiniteSet(Entered) /\ IsFiniteSet(Entered')
  BY PoolAssumption DEF EnteredFinite
<1>3. /\ IsFiniteSet(OnTheWay) /\ IsFiniteSet(WokenAdds)
      /\ IsFiniteSet(OnTheWay') /\ IsFiniteSet(WokenAdds')
  BY <1>1, <1>2, FS_Subset
<1> QED  BY <1>3, FS_CardinalityType

\* The queue has a length, and its bound is a number.
LEMMA QueueLength ==
  ASSUME TypeOK
  PROVE  Len(q) \in Nat /\ MaxQueue \in Nat
<1>1. q \in Seq(Items)
  BY DEF TypeOK, Items
<1> QED  BY <1>1, LenProperties, PoolAssumption

\* A larger set counts as much or more.
LEMMA Counts ==
  ASSUME NEW S, NEW T, NEW x, IsFiniteSet(S), IsFiniteSet(T)
  PROVE  /\ S \subseteq T => Cardinality(S) <= Cardinality(T)
         /\ S \subseteq T \cup {x} => Cardinality(S) <= Cardinality(T) + 1
         /\ x \notin S /\ S \cup {x} \subseteq T
              => Cardinality(S) + 1 <= Cardinality(T)
<1>1. \A A, B : IsFiniteSet(B) /\ A \subseteq B => Cardinality(A) <= Cardinality(B)
  BY FS_Subset
<1>2. Cardinality(S) \in Nat /\ Cardinality(T) \in Nat
  BY FS_CardinalityType
<1>3. /\ IsFiniteSet(T \cup {x})
      /\ Cardinality(T \cup {x})
           = IF x \in T THEN Cardinality(T) ELSE Cardinality(T) + 1
  BY FS_AddElement
<1>4. x \notin S => Cardinality(S \cup {x}) = Cardinality(S) + 1
  BY FS_AddElement
<1>5. Cardinality(T \cup {x}) <= Cardinality(T) + 1
  BY <1>2, <1>3
<1>6. Cardinality(T \cup {x}) \in Nat
  BY <1>3, FS_CardinalityType
<1> QED  BY <1>1, <1>2, <1>3, <1>4, <1>5, <1>6

\* One thread at a time comes to add a job.
LEMMA NextEntered ==
  ASSUME TypeOK, EnteredFinite, [Next]_vars
  PROVE  EnteredFinite'
<1>1. \E a \in Adders : Entered' \subseteq Entered \cup {a}
  <2>1. ASSUME NEW a \in Adders, NEW s, add' = [add EXCEPT ![a] = s]
        PROVE  Entered' \subseteq Entered \cup {a}
    BY <2>1 DEF TypeOK, Entered
  <2>2. ASSUME add' = add
        PROVE  Entered' \subseteq Entered
    BY <2>2 DEF Entered
  <2>3. ASSUME NEW w \in Workers, Deq(w)
        PROVE  Entered' \subseteq Entered
    BY <2>3, DeqEffect DEF Entered
  <2>4. Destructor \in Adders /\ Jobs \subseteq Adders
    BY DEF Adders
  <2> QED
    BY <2>1, <2>2, <2>3, <2>4
    DEF Next, AddNext, WorkerNext, DestructorNext, vars, AddJob, AddJobWaits,
        AddJobFails, AddPill, AddPillWaits, Join, SpuriousWakeup, DeqWaits,
        RunJob, Enq, EnqWaits
<1>2. PICK a \in Adders : Entered' \subseteq Entered \cup {a}
  BY <1>1
<1>3. IsFiniteSet(Entered \cup {a})
  BY FS_AddElement DEF EnteredFinite
<1> QED  BY <1>2, <1>3, FS_Subset DEF EnteredFinite

\* A step of enq brings one job and wakes one worker, and takes one place with
\* one thread that had perhaps been woken for it.
LEMMA EnqMet ==
  ASSUME TypeOK, JobsAreMet, PlacesAreMet, EnteredFinite, EnteredFinite',
         NEW a \in Adders, NEW e \in Items, NEW s \in {"true", "more"},
         Enq(a, e, s)
  PROVE  JobsAreMet' /\ PlacesAreMet'
<1>1. /\ q \in Seq(Items) /\ add \in [Adders -> AddPc]
      /\ wk \in [Workers -> WorkPc]
  BY DEF TypeOK, Items, AddPc, WorkPc
<1>2. /\ q' = Append(q, e) /\ add' = [add EXCEPT ![a] = s]
      /\ wk' \in Signal(wk)
  BY EnqEffect
<1>3. Len(q') = Len(q) + 1 /\ Len(q) \in Nat
  BY <1>1, <1>2
<1>4. /\ Cardinality(OnTheWay) \in Nat /\ Cardinality(OnTheWay') \in Nat
      /\ Cardinality(WokenAdds) \in Nat /\ Cardinality(WokenAdds') \in Nat
      /\ IsFiniteSet(OnTheWay) /\ IsFiniteSet(OnTheWay')
      /\ IsFiniteSet(WokenAdds) /\ IsFiniteSet(WokenAdds')
      /\ MaxQueue \in Nat
  BY FiniteCounts, QueueLength
<1>5. JobsAreMet'
  <2>1. CASE wk' = wk /\ \A w \in Workers : wk[w] # "wait"
    BY <2>1 DEF JobsAreMet
  <2>2. CASE \E w \in Workers : wk[w] = "wait" /\ wk' = [wk EXCEPT ![w] = "woken"]
    <3>1. PICK w \in Workers : wk[w] = "wait" /\ wk' = [wk EXCEPT ![w] = "woken"]
      BY <2>2
    <3>2. w \notin OnTheWay /\ OnTheWay \cup {w} \subseteq OnTheWay'
      BY <1>1, <3>1 DEF OnTheWay
    <3>3. Cardinality(OnTheWay) + 1 <= Cardinality(OnTheWay')
      BY <1>4, <3>2, Counts
    <3> QED  BY <1>3, <1>4, <3>1, <3>3 DEF JobsAreMet
  <2> QED  BY <1>1, <1>2, <2>1, <2>2, WorkerSignalled
<1>6. PlacesAreMet'
  <2>1. WokenAdds \subseteq WokenAdds' \cup {a}
    BY <1>1, <1>2 DEF WokenAdds
  <2>2. Cardinality(WokenAdds) <= Cardinality(WokenAdds') + 1
    BY <1>4, <2>1, Counts
  <2>3. \A b \in Adders : add'[b] = "wait" => add[b] = "wait"
    BY <1>1, <1>2
  <2> QED  BY <1>3, <1>4, <2>2, <2>3 DEF PlacesAreMet
<1> QED  BY <1>5, <1>6

\* A step of deq takes one job with one worker, and wakes one thread for the
\* place.
LEMMA DeqMet ==
  ASSUME TypeOK, JobsAreMet, PlacesAreMet, EnteredFinite, EnteredFinite',
         NEW w \in Workers, Deq(w)
  PROVE  JobsAreMet' /\ PlacesAreMet'
<1>1. /\ q \in Seq(Items) /\ add \in [Adders -> AddPc]
      /\ wk \in [Workers -> WorkPc]
  BY DEF TypeOK, Items, AddPc, WorkPc
<1>2. /\ q # << >> /\ q' = Tail(q)
      /\ wk' = [wk EXCEPT ![w] = IF Head(q) = Pill THEN "gone" ELSE "run"]
      /\ add' \in (IF Len(q) - 1 < MaxQueue THEN Signal(add) ELSE {add})
  BY DEF Deq, HasSpaceSignal
<1>3. Len(q') = Len(q) - 1 /\ Len(q) \in Nat /\ Len(q') \in Nat
  BY <1>1, <1>2, HeadTailProperties, LenProperties, EmptySeq
<1>4. /\ Cardinality(OnTheWay) \in Nat /\ Cardinality(OnTheWay') \in Nat
      /\ Cardinality(WokenAdds) \in Nat /\ Cardinality(WokenAdds') \in Nat
      /\ IsFiniteSet(OnTheWay) /\ IsFiniteSet(OnTheWay')
      /\ IsFiniteSet(WokenAdds) /\ IsFiniteSet(WokenAdds')
      /\ MaxQueue \in Nat
  BY FiniteCounts, QueueLength
<1>5. JobsAreMet'
  <2>1. OnTheWay \subseteq OnTheWay' \cup {w}
    BY <1>1, <1>2 DEF OnTheWay
  <2>2. Cardinality(OnTheWay) <= Cardinality(OnTheWay') + 1
    BY <1>4, <2>1, Counts
  <2>3. \A v \in Workers : wk'[v] = "wait" => wk[v] = "wait"
    BY <1>1, <1>2
  <2> QED  BY <1>3, <1>4, <2>2, <2>3 DEF JobsAreMet
<1>6. PlacesAreMet'
  <2>1. CASE ~(Len(q) - 1 < MaxQueue)
    BY <1>3, <1>4, <2>1 DEF PlacesAreMet
  <2>2. CASE add' = add /\ \A a \in Adders : add[a] # "wait"
    BY <2>2 DEF PlacesAreMet
  <2>3. CASE \E a \in Adders : add[a] = "wait" /\ add' = [add EXCEPT ![a] = "woken"]
    <3>1. PICK a \in Adders : add[a] = "wait" /\ add' = [add EXCEPT ![a] = "woken"]
      BY <2>3
    <3>2. a \notin WokenAdds /\ WokenAdds \cup {a} \subseteq WokenAdds'
      BY <1>1, <3>1 DEF WokenAdds
    <3>3. Cardinality(WokenAdds) + 1 <= Cardinality(WokenAdds')
      BY <1>4, <3>2, Counts
    <3> QED  BY <1>3, <1>4, <3>1, <3>3 DEF PlacesAreMet
  <2> QED  BY <1>1, <1>2, <2>1, <2>2, <2>3, AdderSignalled
<1> QED  BY <1>5, <1>6

\* A worker that goes to sleep has seen the queue empty, one that has run its
\* job is on its way again.
LEMMA WorkerMet ==
  ASSUME TypeOK, JobsAreMet, PlacesAreMet, EnteredFinite, EnteredFinite',
         UNCHANGED <<q, add>>, NEW w \in Workers,
         \/ q = << >>
         \/ wk' = [wk EXCEPT ![w] = "take"] \/ wk' = [wk EXCEPT ![w] = "woken"]
         \/ wk' = wk
  PROVE  JobsAreMet' /\ PlacesAreMet'
<1>1. PlacesAreMet'
  BY DEF PlacesAreMet, WokenAdds
<1>2. /\ Cardinality(OnTheWay) \in Nat /\ Cardinality(OnTheWay') \in Nat
      /\ IsFiniteSet(OnTheWay) /\ IsFiniteSet(OnTheWay')
  BY FiniteCounts
<1>3. Len(q) \in Nat /\ Len(q') = Len(q)
  BY QueueLength
<1>4. CASE q = << >>
  BY <1>1, <1>2, <1>4 DEF JobsAreMet
<1>5. CASE \/ wk' = [wk EXCEPT ![w] = "take"] \/ wk' = [wk EXCEPT ![w] = "woken"]
           \/ wk' = wk
  <2>1. /\ OnTheWay \subseteq OnTheWay'
        /\ \A v \in Workers : wk'[v] = "wait" => wk[v] = "wait"
    BY <1>5 DEF OnTheWay, TypeOK
  <2>2. Cardinality(OnTheWay) <= Cardinality(OnTheWay')
    BY <1>2, <2>1, Counts
  <2> QED  BY <1>1, <1>2, <1>3, <2>1, <2>2 DEF JobsAreMet
<1> QED  BY <1>4, <1>5

\* A thread that leaves enq or sleeps in it has seen the queue full; others
\* were not woken for a place.
LEMMA AdderMet ==
  ASSUME TypeOK, JobsAreMet, PlacesAreMet, EnteredFinite, EnteredFinite',
         UNCHANGED <<q, wk>>, NEW a \in Adders, NEW s,
         add' = [add EXCEPT ![a] = s],
         ~HasSpace \/ (add[a] # "woken" /\ s # "wait")
  PROVE  JobsAreMet' /\ PlacesAreMet'
<1>1. JobsAreMet'
  BY DEF JobsAreMet, OnTheWay
<1>2. /\ Cardinality(WokenAdds) \in Nat /\ Cardinality(WokenAdds') \in Nat
      /\ IsFiniteSet(WokenAdds) /\ IsFiniteSet(WokenAdds')
      /\ MaxQueue \in Nat /\ Len(q) \in Nat /\ Len(q') = Len(q)
  BY FiniteCounts, QueueLength
<1>3. CASE ~HasSpace
  BY <1>1, <1>2, <1>3 DEF PlacesAreMet, HasSpace
<1>4. CASE add[a] # "woken" /\ s # "wait"
  <2>1. /\ WokenAdds \subseteq WokenAdds'
        /\ \A b \in Adders : add'[b] = "wait" => add[b] = "wait"
    BY <1>4 DEF WokenAdds, TypeOK
  <2>2. Cardinality(WokenAdds) <= Cardinality(WokenAdds')
    BY <1>2, <2>1, Counts
  <2> QED  BY <1>1, <1>2, <2>1, <2>2 DEF PlacesAreMet
<1> QED  BY <1>3, <1>4

\* No signal is lost: while a worker sleeps as many others are on their way as
\* there are jobs, and the same of the threads in enq and the free places.
THEOREM NoLostWakeupHolds == Spec => []NoLostWakeup
<1> DEFINE Met == EnteredFinite /\ JobsAreMet /\ PlacesAreMet
<1>1. Init => Met
  <2> SUFFICES ASSUME Init PROVE Met
    OBVIOUS
  <2>1. Entered = {}
    BY DEF Init, Entered
  <2> QED  BY <2>1, FS_EmptySet DEF Init, EnteredFinite, JobsAreMet, PlacesAreMet
<1>2. TypeOK /\ Met /\ [Next]_vars => Met'
  <2> SUFFICES ASSUME TypeOK, Met, [Next]_vars PROVE JobsAreMet' /\ PlacesAreMet'
    BY NextEntered
  <2>1. EnteredFinite /\ EnteredFinite' /\ JobsAreMet /\ PlacesAreMet
    BY NextEntered
  <2> HIDE DEF Met
  <2>2. Destructor \in Adders /\ Pill \in Items
        /\ \A j \in Jobs : j \in Adders /\ j \in Items
    BY DEF Adders, Items
  <2>3. ASSUME NEW j \in Jobs, AddJob(j) PROVE JobsAreMet' /\ PlacesAreMet'
    <3>1. Enq(j, j, "true")
      BY <2>3 DEF AddJob
    <3> QED  BY <2>1, <2>2, <3>1, EnqMet
  <2>4. CASE AddPill
    <3>1. Enq(Destructor, Pill, "more")
      BY <2>4 DEF AddPill
    <3> QED  BY <2>1, <2>2, <3>1, EnqMet
  <2>5. ASSUME NEW w \in Workers, Deq(w) PROVE JobsAreMet' /\ PlacesAreMet'
    BY <2>1, <2>5, DeqMet
  <2>6. ASSUME NEW w \in Workers, DeqWaits(w) \/ RunJob(w)
        PROVE  JobsAreMet' /\ PlacesAreMet'
    BY <2>1, <2>6, WorkerMet DEF DeqWaits, RunJob
  <2>7. ASSUME NEW j \in Jobs, AddJobWaits(j) \/ AddJobFails(j)
        PROVE  JobsAreMet' /\ PlacesAreMet'
    <3>1. \E s : /\ add' = [add EXCEPT ![j] = s] /\ ~HasSpace
                 /\ UNCHANGED <<q, wk>>
      BY <2>7 DEF AddJobWaits, AddJobFails, EnqWaits
    <3> QED  BY <2>1, <2>2, <3>1, AdderMet
  <2>8. CASE AddPillWaits \/ Join
    <3>1. \E s : /\ add' = [add EXCEPT ![Destructor] = s]
                 /\ ~HasSpace \/ (add[Destructor] # "woken" /\ s # "wait")
                 /\ UNCHANGED <<q, wk>>
      BY <2>8 DEF AddPillWaits, Join, EnqWaits
    <3> QED  BY <2>1, <2>2, <3>1, AdderMet
  <2>9. CASE SpuriousWakeup
    <3>1. ASSUME NEW a \in Adders, add[a] = "wait",
                 add' = [add EXCEPT ![a] = "woken"], UNCHANGED <<q, wk>>
          PROVE  JobsAreMet' /\ PlacesAreMet'
      BY <2>1, <3>1, AdderMet
    <3>2. ASSUME NEW w \in Workers, wk' = [wk EXCEPT ![w] = "woken"],
                 UNCHANGED <<q, add>>
          PROVE  JobsAreMet' /\ PlacesAreMet'
      BY <2>1, <3>2, WorkerMet
    <3> QED  BY <2>9, <3>1, <3>2 DEF SpuriousWakeup
  <2>10. CASE UNCHANGED vars
    <3>1. UNCHANGED <<q, add, wk>>
      BY <2>10 DEF vars
    <3> QED
      BY <2>1, <3>1 DEF JobsAreMet, PlacesAreMet, OnTheWay, WokenAdds
  <2> QED
    BY <2>3, <2>4, <2>5, <2>6, <2>7, <2>8, <2>9, <2>10
    DEF Next, AddNext, WorkerNext, DestructorNext
<1>3. Met => NoLostWakeup
  BY DEF NoLostWakeup, JobsAreMet, PlacesAreMet, OnTheWay, WokenAdds
<1> HIDE DEF Met
<1> QED  BY <1>1, <1>2, <1>3, PoolTypeCorrect, PTL DEF Spec

-----------------------------------------------------------------------------
(* ~ThrPool leaves nothing behind.                                         *)

Jobless == Len(accepted) - pills
Gone    == {w \in Workers : wk[w] = "gone"}

\* No thread is in addJob once ~ThrPool has begun, and pills are its alone.
DestructorAlone ==
  /\ add[Destructor] # "idle" => Quiet
  /\ pills > 0 => add[Destructor] # "idle"

\* The pills are what was put in the queue last.
PillsLast ==
  /\ pills <= Len(accepted)
  /\ \A i \in 1..Len(accepted) : accepted[i] = Pill <=> i > Jobless

\* Each pill that was taken ended one worker.
GoneTookPills ==
  Cardinality(Gone) = IF Len(taken) <= Jobless THEN 0 ELSE Len(taken) - Jobless

\* The destructor has returned only after it has joined all workers.
Joined == add[Destructor] = "true" => AllGone /\ pills = PillsToAdd

ShutdownInv == DestructorAlone /\ PillsLast /\ GoneTookPills /\ Joined

\* The lengths are numbers, and no more was taken than put in.
LEMMA Lengths ==
  ASSUME TypeOK, Accounted
  PROVE  /\ Len(q) \in Nat /\ Len(taken) \in Nat /\ Len(accepted) \in Nat
         /\ pills \in Nat
         /\ Len(accepted) = Len(taken) + Len(q)
         /\ \A i \in 1..Len(q) : accepted[Len(taken) + i] = q[i]
<1>1. q \in Seq(Items) /\ taken \in Seq(Items) /\ accepted \in Seq(Items)
  BY DEF TypeOK, Items
<1>2. Len(q) \in Nat /\ Len(taken) \in Nat /\ Len(accepted) \in Nat
  BY <1>1, LenProperties
<1>3. /\ Len(accepted) = Len(taken) + Len(q)
      /\ \A i \in 1..Len(taken) + Len(q) :
           accepted[i] = IF i <= Len(taken) THEN taken[i] ELSE q[i - Len(taken)]
  BY <1>1, ConcatProperties DEF Accounted
<1>4. ASSUME NEW i \in 1..Len(q)
      PROVE  accepted[Len(taken) + i] = q[i]
  BY <1>2, <1>3
<1>5. pills \in Nat
  BY PillsType DEF TypeOK, PillsToAdd
<1> QED  BY <1>2, <1>3, <1>4, <1>5

\* A step of addJob that adds comes before ~ThrPool.
LEMMA AddJobShutdown ==
  ASSUME TypeOK, Accounted, ShutdownInv, NEW j \in Jobs, AddJob(j)
  PROVE  ShutdownInv'
<1>1. /\ Enq(j, j, "true") /\ j \in Adders /\ j \in Items /\ pills' = pills
      /\ Adding(j) /\ j # Destructor /\ j # Pill /\ Destructor \in Adders
  BY PoolAssumption DEF AddJob, Adders, Items
<1>2. /\ accepted' = Append(accepted, j) /\ taken' = taken
      /\ add' = [add EXCEPT ![j] = "true"]
      /\ \A w \in Workers : (wk'[w] = "gone") <=> (wk[w] = "gone")
  BY <1>1, EnqEffect
<1>3. add[Destructor] = "idle" /\ pills = 0
  <2>1. add[Destructor] = "idle"
    BY <1>1 DEF Adding, ShutdownInv, DestructorAlone, Quiet
  <2> QED  BY <2>1, Lengths DEF ShutdownInv, DestructorAlone
<1>4. add'[Destructor] = "idle"
  BY <1>1, <1>2, <1>3 DEF TypeOK
<1>5. /\ Len(accepted') = Len(accepted) + 1
      /\ \A i \in 1..Len(accepted) : accepted'[i] = accepted[i]
      /\ accepted'[Len(accepted) + 1] = j
      /\ Len(accepted) \in Nat /\ Len(taken) \in Nat
      /\ Len(taken) <= Len(accepted)
  BY <1>2, Lengths DEF TypeOK
<1>6. DestructorAlone' /\ Joined'
  BY <1>1, <1>3, <1>4 DEF DestructorAlone, Joined
<1>7. PillsLast'
  <2>1. \A i \in 1..Len(accepted) : accepted[i] # Pill
    BY <1>3, <1>5 DEF ShutdownInv, PillsLast, Jobless
  <2> QED  BY <1>1, <1>3, <1>5, <2>1 DEF PillsLast, Jobless
<1>8. GoneTookPills'
  <2>1. Gone' = Gone
    BY <1>2 DEF Gone
  <2> QED  BY <1>1, <1>2, <1>3, <1>5, <2>1 DEF ShutdownInv, GoneTookPills, Jobless
<1> QED  BY <1>6, <1>7, <1>8 DEF ShutdownInv

\* A pill goes behind all else.
LEMMA AddPillShutdown ==
  ASSUME TypeOK, Accounted, ShutdownInv, AddPill
  PROVE  ShutdownInv'
<1>1. /\ Enq(Destructor, Pill, "more") /\ Destructor \in Adders /\ Pill \in Items
      /\ pills' = pills + 1 /\ Quiet
  BY DEF AddPill, Destroying, Adders, Items
<1>2. /\ accepted' = Append(accepted, Pill) /\ taken' = taken
      /\ add' = [add EXCEPT ![Destructor] = "more"]
      /\ \A w \in Workers : (wk'[w] = "gone") <=> (wk[w] = "gone")
  BY <1>1, EnqEffect
<1>3. /\ add'[Destructor] = "more"
      /\ \A j \in Jobs : add'[j] = add[j]
  BY <1>1, <1>2, PoolAssumption DEF TypeOK, Adders
<1>4. /\ Len(accepted') = Len(accepted) + 1
      /\ \A i \in 1..Len(accepted) : accepted'[i] = accepted[i]
      /\ accepted'[Len(accepted) + 1] = Pill
      /\ Len(accepted) \in Nat /\ Len(taken) \in Nat /\ pills \in Nat
  BY <1>2, Lengths DEF TypeOK
<1>5. Jobless' = Jobless
  <2>1. PICK m \in Nat, p \in Nat : m = Len(accepted) /\ p = pills
    BY <1>4
  <2>2. (m + 1) - (p + 1) = m - p
    OBVIOUS
  <2> QED  BY Zenon, <1>1, <1>4, <2>1, <2>2 DEF Jobless
<1>6. DestructorAlone' /\ Joined'
  BY <1>1, <1>3 DEF DestructorAlone, Joined, Quiet
<1>7. PillsLast'
  <2>1. Jobless \in 0..Len(accepted)
    BY <1>4 DEF ShutdownInv, PillsLast, Jobless
  <2>2. ASSUME NEW i \in 1..Len(accepted')
        PROVE  accepted'[i] = Pill <=> i > Jobless
    BY <1>4, <2>1 DEF ShutdownInv, PillsLast
  <2> QED  BY <1>1, <1>4, <1>5, <2>2 DEF ShutdownInv, PillsLast
<1>8. GoneTookPills'
  <2>1. Gone' = Gone
    BY <1>2 DEF Gone
  <2> QED  BY <1>2, <1>5, <2>1 DEF ShutdownInv, GoneTookPills
<1> QED  BY <1>6, <1>7, <1>8 DEF ShutdownInv

\* A worker that takes a pill is gone.
LEMMA DeqShutdown ==
  ASSUME TypeOK, Accounted, ShutdownInv, NEW w \in Workers, Deq(w)
  PROVE  ShutdownInv'
<1>1. /\ q # << >> /\ taken' = Append(taken, Head(q)) /\ accepted' = accepted
      /\ \A a \in Adders : add'[a] = add[a] \/ (add[a] = "wait" /\ add'[a] = "woken")
  BY DeqEffect
<1>2. /\ pills' = pills /\ wk[w] \in {"take", "woken"}
      /\ wk' = [wk EXCEPT ![w] = IF Head(q) = Pill THEN "gone" ELSE "run"]
  BY DEF Deq
<1>3. q \in Seq(Items) /\ taken \in Seq(Items) /\ Destructor \in Adders
      /\ \A j \in Jobs : j \in Adders
  BY DEF TypeOK, Items, Adders
<1>4. Len(taken') = Len(taken) + 1 /\ Len(q) \in Nat \ {0} /\ Head(q) = q[1]
  BY <1>1, <1>3, DeqEffect, EmptySeq
<1>5. /\ Len(taken) \in Nat /\ Len(accepted) \in Nat /\ pills \in Nat
      /\ Len(taken) + 1 \in 1..Len(accepted)
      /\ accepted[Len(taken) + 1] = Head(q)
  BY <1>4, Lengths
<1>6. add[Destructor] # "true"
  BY <1>2 DEF ShutdownInv, Joined, AllGone
<1>7. DestructorAlone' /\ Joined'
  BY <1>1, <1>2, <1>3, <1>6
  DEF ShutdownInv, DestructorAlone, Joined, Quiet
<1>8. PillsLast' /\ Jobless' = Jobless
  BY <1>1, <1>2 DEF ShutdownInv, PillsLast, Jobless
<1>9. GoneTookPills'
  <2>1. IsFiniteSet(Gone)
    BY PoolAssumption, FS_Subset DEF Gone
  <2>2. Head(q) = Pill <=> Len(taken) + 1 > Jobless
    BY <1>5 DEF ShutdownInv, PillsLast
  <2>3. Jobless \in Int
    BY <1>5 DEF Jobless
  <2>4. CASE Head(q) = Pill
    <3>1. Gone' = Gone \cup {w} /\ w \notin Gone
      BY <1>2, <2>4 DEF Gone, TypeOK
    <3>2. Cardinality(Gone') = Cardinality(Gone) + 1
      BY <2>1, <3>1, FS_AddElement
    <3> QED
      BY <1>4, <1>5, <1>8, <2>2, <2>3, <2>4, <3>2 DEF ShutdownInv, GoneTookPills
  <2>5. CASE Head(q) # Pill
    <3>1. Gone' = Gone
      BY <1>2, <2>5 DEF Gone, TypeOK
    <3> QED
      BY <1>4, <1>5, <1>8, <2>2, <2>3, <2>5, <3>1 DEF ShutdownInv, GoneTookPills
  <2> QED  BY <2>4, <2>5
<1> QED  BY <1>7, <1>8, <1>9 DEF ShutdownInv

\* The other steps move no job and end no worker; the adder they concern is
\* a thread in addJob before ~ThrPool, or the destructor in its turn.
LEMMA OtherShutdown ==
  ASSUME TypeOK, ShutdownInv, UNCHANGED <<accepted, taken, pills>>,
         \A w \in Workers : (wk'[w] = "gone") <=> (wk[w] = "gone"),
         DestructorAlone', Joined'
  PROVE  ShutdownInv'
<1>1. Gone' = Gone
  BY DEF Gone
<1> QED
  BY <1>1 DEF ShutdownInv, PillsLast, GoneTookPills, Jobless

\* Initially there are no pills.
LEMMA InitShutdown == ASSUME Init PROVE ShutdownInv
<1>1. Gone = {}
  BY DEF Init, Gone
<1>2. Destructor \in Adders
  BY DEF Adders
<1> QED
  BY <1>1, <1>2, FS_EmptySet
  DEF Init, ShutdownInv, DestructorAlone, PillsLast, GoneTookPills, Joined,
      Jobless

\* Each step keeps it.
LEMMA NextShutdown ==
  ASSUME TypeOK, Accounted, ShutdownInv, [Next]_vars
  PROVE  ShutdownInv'
<1>1. /\ add \in [Adders -> AddPc] /\ wk \in [Workers -> WorkPc]
      /\ Destructor \in Adders /\ \A j \in Jobs : j \in Adders /\ j # Destructor
  BY PoolAssumption DEF TypeOK, Adders, AddPc, WorkPc
<1>2. /\ add[Destructor] # "idle" => Quiet
      /\ pills > 0 => add[Destructor] # "idle"
      /\ add[Destructor] = "true" => AllGone /\ pills = PillsToAdd
  BY DEF ShutdownInv, DestructorAlone, Joined
<1>3. ASSUME NEW j \in Jobs, AddJob(j) PROVE ShutdownInv'
  BY <1>3, AddJobShutdown
<1>4. CASE AddPill
  BY <1>4, AddPillShutdown
<1>5. ASSUME NEW w \in Workers, Deq(w) PROVE ShutdownInv'
  BY <1>5, DeqShutdown
<1>6. ASSUME NEW j \in Jobs, AddJobWaits(j) \/ AddJobFails(j) PROVE ShutdownInv'
  <2>1. /\ UNCHANGED <<accepted, taken, pills, wk>> /\ Adding(j)
        /\ \E s : add' = [add EXCEPT ![j] = s]
    BY <1>6 DEF AddJobWaits, AddJobFails, EnqWaits
  <2>2. add[Destructor] = "idle"
    BY <1>2, <2>1 DEF Adding, Quiet
  <2>3. add'[Destructor] = "idle"
    BY <1>1, <2>1, <2>2
  <2>4. DestructorAlone' /\ Joined'
    BY <1>2, <2>1, <2>2, <2>3 DEF DestructorAlone, Joined
  <2> QED  BY <2>1, <2>4, OtherShutdown
<1>7. ASSUME NEW w \in Workers, DeqWaits(w) \/ RunJob(w) PROVE ShutdownInv'
  <2>1. UNCHANGED <<accepted, taken, pills, add>>
    BY <1>7 DEF DeqWaits, RunJob
  <2>2. \A v \in Workers : (wk'[v] = "gone") <=> (wk[v] = "gone")
    BY <1>1, <1>7 DEF DeqWaits, RunJob
  <2>3. DestructorAlone' /\ Joined'
    BY <1>2, <2>1, <2>2 DEF DestructorAlone, Joined, Quiet, AllGone
  <2> QED  BY <2>1, <2>2, <2>3, OtherShutdown
<1>8. CASE AddPillWaits \/ Join
  <2>1. /\ UNCHANGED <<accepted, taken, pills, wk>> /\ Quiet
        /\ \/ add' = [add EXCEPT ![Destructor] = "wait"]
           \/ /\ add' = [add EXCEPT ![Destructor] = "true"]
              /\ AllGone /\ pills = PillsToAdd
    BY <1>2, <1>8 DEF AddPillWaits, Destroying, EnqWaits, Join
  <2>2. add'[Destructor] # "idle" /\ Quiet'
    BY <1>1, <2>1 DEF Quiet
  <2>3. Joined'
    BY <1>1, <2>1 DEF Joined, AllGone
  <2> QED  BY <2>1, <2>2, <2>3, OtherShutdown DEF DestructorAlone
<1>9. CASE SpuriousWakeup
  <2>1. /\ UNCHANGED <<accepted, taken, pills>>
        /\ \A w \in Workers : wk'[w] = wk[w] \/ (wk[w] = "wait" /\ wk'[w] = "woken")
        /\ \A a \in Adders : add'[a] = add[a] \/ (add[a] = "wait" /\ add'[a] = "woken")
    BY <1>1, <1>9 DEF SpuriousWakeup
  <2>2. DestructorAlone' /\ Joined'
    BY <1>1, <1>2, <2>1 DEF DestructorAlone, Joined, Quiet, AllGone
  <2> QED  BY <2>1, <2>2, OtherShutdown
<1>10. CASE UNCHANGED vars
  <2>1. UNCHANGED <<accepted, taken, pills, wk, add>>
    BY <1>10 DEF vars
  <2>2. DestructorAlone' /\ Joined'
    BY <1>2, <2>1 DEF DestructorAlone, Joined, Quiet, AllGone
  <2> QED  BY <2>1, <2>2, OtherShutdown
<1> QED
  BY <1>3, <1>4, <1>5, <1>6, <1>7, <1>8, <1>9, <1>10
  DEF Next, AddNext, WorkerNext, DestructorNext

\* When ~ThrPool returns every worker is gone, and each job that was accepted
\* has been taken: nothing is left in the queue.
THEOREM ShutdownCompleteHolds == Spec => []ShutdownComplete
<1>1. TypeOK /\ Accounted /\ ShutdownInv => ShutdownComplete
  <2> SUFFICES ASSUME TypeOK, Accounted, ShutdownInv, add[Destructor] = "true"
               PROVE  /\ \A w \in Workers : wk[w] = "gone"
                      /\ \A j \in Jobs : add[j] = "true" => j \in Range(taken)
                      /\ q = << >>
    BY DEF ShutdownComplete
  <2>1. AllGone /\ pills = PillsToAdd
    BY DEF ShutdownInv, Joined
  <2>2. Cardinality(Gone) = PillsToAdd
    <3>1. Gone = Workers
      BY <2>1 DEF Gone, AllGone
    <3> QED  BY <3>1 DEF PillsToAdd
  <2>3. Len(q) = 0
    BY <2>1, <2>2, PillsType, Lengths DEF ShutdownInv, GoneTookPills, Jobless
  <2>4. q = << >>
    BY <2>3, EmptySeq DEF TypeOK
  <2>5. accepted = taken
    BY <2>4, ConcatEmptySeq DEF Accounted, TypeOK
  <2>6. \A j \in Jobs : add[j] = "true" => j \in Range(taken)
    BY <2>5 DEF Accounted, Range
  <2> QED  BY <2>1, <2>4, <2>6 DEF AllGone
<1> QED
  BY <1>1, InitShutdown, NextShutdown, PoolTypeCorrect, AccountedHolds, PTL
  DEF Spec

=============================================================================

--------------------------- MODULE LockServerProofs ---------------------------
(***************************************************************************)
(* Proofs about LockServer: type correctness and mutual exclusion, for any *)
(* number of clients, threads, workers and locks.                          *)
(***************************************************************************)
EXTENDS LockServer, TLAPS

\* The initial states satisfy the types.
LEMMA InitTypeOK == ASSUME Init PROVE TypeOK
<1>1. << >> \in Seq(Threads)  OBVIOUS
<1> QED  BY <1>1 DEF Init, TypeOK, NoCall, WorkerPc

\* The fields of a job at a worker that is not idle have their types.
LEMMA ServedTypes ==
  ASSUME TypeOK, CallsServedOnce, NEW w \in Workers, wk[w].pc # "idle"
  PROVE  /\ wk[w].thr \in Threads
         /\ call[wk[w].thr] \in Call
         /\ Op(w) \in {"acquire", "release"}
         /\ Lock(w) \in Locks
         /\ Client(w) \in Clients
         /\ call[wk[w].thr] = [op |-> Op(w), lock |-> Lock(w)]
<1>1. wk[w].thr \in Threads /\ call[wk[w].thr] # NoCall
  BY DEF CallsServedOnce
<1>2. call[wk[w].thr] \in Call
  BY <1>1 DEF TypeOK
<1>3. ClientOf[wk[w].thr] \in Clients
  BY <1>1, LockAssumption
<1> QED  BY <1>1, <1>2, <1>3 DEF Call, Op, Lock, Client

\* Between the start of a handler and its end a worker stays with its thread,
\* and nothing else in the process changes but the lock table.
KeepsThreads ==
  /\ UNCHANGED <<call, held, dead, jobs>>
  /\ wk' \in [Workers -> [pc : WorkerPc, thr : Threads \cup {NoThread}]]
  /\ \A v \in Workers : /\ wk'[v].thr = wk[v].thr
                        /\ (wk'[v].pc = "idle") <=> (wk[v].pc = "idle")

\* What a step inside a handler does to the workers: it may move its own
\* worker on and wake others, and only its own worker comes to reply.
LEMMA HandlerStep ==
  ASSUME TypeOK, NEW w \in Workers,
         Acquire(w) \/ Release(w) \/ SpuriousWakeup(w)
  PROVE  /\ KeepsThreads
         /\ \A v \in Workers : v # w =>
              ((wk'[v].pc = "reply") <=> (wk[v].pc = "reply"))
<1>1. wk \in [Workers -> [pc : WorkerPc, thr : Threads \cup {NoThread}]]
  BY DEF TypeOK
<1>2. CASE Acquire(w)
  <2>1. PICK p \in {"wait", "reply"} : wk' = [wk EXCEPT ![w].pc = p]
    BY <1>2 DEF Acquire
  <2>2. wk[w].pc \in {"enter", "woken"}
    BY <1>2 DEF Acquire
  <2> QED
    BY <1>1, <1>2, <2>1, <2>2 DEF Acquire, KeepsThreads, WorkerPc, appVars
<1>3. CASE SpuriousWakeup(w)
  BY <1>1, <1>3 DEF SpuriousWakeup, KeepsThreads, WorkerPc, appVars
<1>4. CASE Release(w)
  <2>1. wk[w].pc = "enter" /\ UNCHANGED <<call, held, dead, jobs>>
    BY <1>4 DEF Release, appVars
  <2>2. CASE wk' = [wk EXCEPT ![w].pc = "reply"]
    BY <1>1, <2>1, <2>2 DEF KeepsThreads, WorkerPc
  <2>3. CASE \E S \in SignalledBy(Lock(w)) :
               wk' = [v \in Workers |->
                        IF v = w THEN [wk[v] EXCEPT !.pc = "reply"]
                        ELSE IF v \in S THEN [wk[v] EXCEPT !.pc = "woken"]
                        ELSE wk[v]]
    <3>1. PICK S \in SignalledBy(Lock(w)) :
               wk' = [v \in Workers |->
                        IF v = w THEN [wk[v] EXCEPT !.pc = "reply"]
                        ELSE IF v \in S THEN [wk[v] EXCEPT !.pc = "woken"]
                        ELSE wk[v]]
      BY <2>3
    <3>2. \A v \in S : wk[v].pc = "wait"
      BY DEF SignalledBy, WaitingFor
    <3>3. \A v \in Workers :
            /\ wk'[v] \in [pc : WorkerPc, thr : Threads \cup {NoThread}]
            /\ wk'[v].thr = wk[v].thr
            /\ (wk'[v].pc = "idle") <=> (wk[v].pc = "idle")
            /\ v # w => ((wk'[v].pc = "reply") <=> (wk[v].pc = "reply"))
      BY <1>1, <2>1, <3>1, <3>2 DEF WorkerPc
    <3>4. wk' \in [Workers -> [pc : WorkerPc, thr : Threads \cup {NoThread}]]
      BY <3>1, <3>3
    <3> QED  BY <2>1, <3>3, <3>4 DEF KeepsThreads
  <2> QED  BY <1>4, <2>2, <2>3 DEF Release
<1> QED  BY <1>2, <1>3, <1>4

\* Each action keeps the types.
LEMMA NextTypeOK ==
  ASSUME TypeOK, CallsServedOnce, [Next]_vars
  PROVE  TypeOK'
<1> USE DEF TypeOK
<1>1. ASSUME NEW t \in Threads, NEW l \in Locks,
             CallAcquire(t, l) \/ CallRelease(t, l) \/ CallStrayRelease(t, l)
      PROVE  TypeOK'
  <2>1. PICK op \in {"acquire", "release"} : Send(t, op, l)
    BY <1>1 DEF CallAcquire, CallRelease, CallStrayRelease
  <2>2. held' \in [Threads -> SUBSET Locks]
    BY <1>1 DEF CallAcquire, CallRelease, CallStrayRelease
  <2>3. jobs' \in Seq(Threads)
    BY <2>1 DEF Send, Queued
  <2>4. call' \in [Threads -> Call \cup {NoCall}]
    <3>1. [op |-> op, lock |-> l] \in Call
      BY DEF Call
    <3> QED  BY <2>1, <3>1 DEF Send
  <2> QED  BY <2>1, <2>2, <2>3, <2>4 DEF Send, lockVars
<1>2. ASSUME NEW c \in Clients, ClientDies(c)
      PROVE  TypeOK'
  BY <1>2 DEF ClientDies, poolVars, lockVars
<1>3. ASSUME NEW w \in Workers, Take(w)
      PROVE  TypeOK'
  <2>1. Head(jobs) \in Threads /\ Tail(jobs) \in Seq(Threads)
    BY <1>3 DEF Take
  <2> QED  BY <1>3, <2>1 DEF Take, appVars, lockVars, WorkerPc
<1>4. ASSUME NEW w \in Workers, Acquire(w)
      PROVE  TypeOK'
  <2>1. Client(w) \in Clients
    BY <1>4, ServedTypes DEF Acquire
  <2>2. state' \in [Locks -> {"absent", "free", "locked"}]
        /\ owner' \in [Locks -> Clients \cup {NoClient}]
    BY <1>4, <2>1 DEF Acquire, Grant, lockVars
  <2> QED  BY <1>4, <2>2, HandlerStep DEF KeepsThreads
<1>5. ASSUME NEW w \in Workers, Release(w)
      PROVE  TypeOK'
  <2>1. state' \in [Locks -> {"absent", "free", "locked"}] /\ owner' = owner
    BY <1>5 DEF Release
  <2> QED  BY <1>5, <2>1, HandlerStep DEF KeepsThreads
<1>6. ASSUME NEW w \in Workers, Reply(w)
      PROVE  TypeOK'
  <2>1. wk[w].thr \in Threads /\ Lock(w) \in Locks
    BY <1>6, ServedTypes DEF Reply
  <2> QED  BY <1>6, <2>1 DEF Reply, lockVars, WorkerPc
<1>7. ASSUME NEW w \in Workers, SpuriousWakeup(w)
      PROVE  TypeOK'
  BY <1>7, HandlerStep DEF KeepsThreads, SpuriousWakeup, lockVars
<1>8. CASE UNCHANGED vars
  BY <1>8 DEF vars, appVars, poolVars, lockVars
<1> QED
  BY <1>1, <1>2, <1>3, <1>4, <1>5, <1>6, <1>7, <1>8 DEF Next, WorkerNext

-----------------------------------------------------------------------------
(* A call is served once.                                                  *)

\* The calls stay where they are when no worker takes or finishes one.
LEMMA KeepsThreadsServedOnce ==
  ASSUME CallsServedOnce, KeepsThreads
  PROVE  CallsServedOnce'
<1> QED  BY DEF CallsServedOnce, KeepsThreads, Serving

\* A thread that makes a new call has none in the queue or at a worker.
LEMMA SendServedOnce ==
  ASSUME TypeOK, CallsServedOnce, NEW t \in Threads, NEW l \in Locks,
         NEW op \in {"acquire", "release"}, Ready(t), Send(t, op, l)
  PROVE  CallsServedOnce'
<1>1. /\ jobs \in Seq(Threads) /\ jobs' = Append(jobs, t)
      /\ wk' = wk
      /\ call' = [call EXCEPT ![t] = [op |-> op, lock |-> l]]
      /\ call \in [Threads -> Call \cup {NoCall}]
  BY DEF Send, Queued, TypeOK
<1>2. \A w \in Workers : ~Serving(w, t)
  BY DEF Ready, CallsServedOnce, Serving
<1>3. \A i \in 1..Len(jobs) : jobs[i] # t
  BY DEF Ready, CallsServedOnce
<1>4. [op |-> op, lock |-> l] # NoCall
  BY DEF NoCall
<1>5. /\ Len(jobs') = Len(jobs) + 1 /\ Len(jobs) \in Nat
      /\ jobs'[Len(jobs) + 1] = t
      /\ \A i \in 1..Len(jobs) : jobs'[i] = jobs[i] /\ jobs[i] \in Threads
  BY <1>1
<1>6. \A w \in Workers : wk'[w].pc # "idle" =>
        /\ wk'[w].thr \in Threads /\ call'[wk'[w].thr] # NoCall
        /\ \A v \in Workers : Serving(v, wk[w].thr)' => v = w
  BY <1>1, <1>2, <1>4 DEF CallsServedOnce, Serving
<1>7. ASSUME NEW i \in 1..Len(jobs')
      PROVE  /\ call'[jobs'[i]] # NoCall
             /\ \A w \in Workers : ~Serving(w, jobs[i])'
             /\ \A j \in 1..Len(jobs') : jobs'[j] = jobs'[i] => j = i
  <2>1. CASE i \in 1..Len(jobs)
    BY <1>1, <1>3, <1>4, <1>5, <2>1 DEF CallsServedOnce, Serving
  <2>2. CASE i = Len(jobs) + 1
    BY <1>1, <1>2, <1>3, <1>4, <1>5, <2>2 DEF CallsServedOnce, Serving
  <2> QED  BY <1>5, <2>1, <2>2
<1> QED  BY <1>6, <1>7 DEF CallsServedOnce

\* A worker takes the first job.
LEMMA TakeServedOnce ==
  ASSUME TypeOK, CallsServedOnce, NEW w \in Workers, Take(w)
  PROVE  CallsServedOnce'
<1>1. /\ jobs \in Seq(Threads) /\ jobs # << >>
      /\ jobs' = Tail(jobs) /\ call' = call
      /\ wk' = [wk EXCEPT ![w] = [pc |-> "enter", thr |-> jobs[1]]]
      /\ wk \in [Workers -> [pc : WorkerPc, thr : Threads \cup {NoThread}]]
  BY DEF Take, TypeOK, appVars
<1>2. /\ Len(jobs) \in Nat \ {0} /\ Len(jobs') = Len(jobs) - 1
      /\ \A i \in 1..Len(jobs') : jobs'[i] = jobs[i + 1]
  BY <1>1
<1>3. /\ jobs[1] \in Threads /\ call[jobs[1]] # NoCall
      /\ \A v \in Workers : ~Serving(v, jobs[1])
      /\ \A j \in 1..Len(jobs) : jobs[j] = jobs[1] => j = 1
  BY <1>1, <1>2 DEF CallsServedOnce
<1>4. \A v \in Workers : wk'[v].pc # "idle" =>
        /\ wk'[v].thr \in Threads /\ call'[wk'[v].thr] # NoCall
        /\ \A u \in Workers : Serving(u, wk[v].thr)' => u = v
  BY <1>1, <1>3 DEF CallsServedOnce, Serving
<1>5. ASSUME NEW i \in 1..Len(jobs')
      PROVE  /\ call'[jobs'[i]] # NoCall
             /\ \A v \in Workers : ~Serving(v, jobs[i])'
             /\ \A j \in 1..Len(jobs') : jobs'[j] = jobs'[i] => j = i
  <2>1. i + 1 \in 1..Len(jobs) /\ jobs'[i] = jobs[i + 1]
    BY <1>2
  <2>2. jobs[i + 1] # jobs[1]
    BY <1>2, <1>3, <2>1
  <2>3. \A v \in Workers : ~Serving(v, jobs[i])'
    BY <1>1, <2>1, <2>2 DEF CallsServedOnce, Serving
  <2>4. \A j \in 1..Len(jobs') : jobs'[j] = jobs'[i] => j = i
    BY <1>2, <2>1 DEF CallsServedOnce
  <2> QED  BY <1>1, <2>1, <2>3, <2>4 DEF CallsServedOnce
<1> QED  BY <1>4, <1>5 DEF CallsServedOnce

\* A worker answers: no other worker has that call, and it is not queued.
LEMMA ReplyServedOnce ==
  ASSUME TypeOK, CallsServedOnce, NEW w \in Workers, Reply(w)
  PROVE  CallsServedOnce'
<1>1. /\ wk[w].pc = "reply" /\ jobs' = jobs
      /\ wk' = [wk EXCEPT ![w] = [pc |-> "idle", thr |-> NoThread]]
      /\ call' = [call EXCEPT ![wk[w].thr] = NoCall]
      /\ wk \in [Workers -> [pc : WorkerPc, thr : Threads \cup {NoThread}]]
      /\ call \in [Threads -> Call \cup {NoCall}]
      /\ jobs \in Seq(Threads)
  BY DEF Reply, TypeOK
<1>2. /\ wk[w].thr \in Threads
      /\ \A v \in Workers : Serving(v, wk[w].thr) => v = w
      /\ \A i \in 1..Len(jobs) : jobs[i] # wk[w].thr
  BY <1>1 DEF CallsServedOnce, Serving
<1>3. \A v \in Workers : wk'[v].pc # "idle" =>
        /\ v # w /\ wk'[v] = wk[v] /\ wk[v].thr # wk[w].thr
  BY <1>1, <1>2 DEF Serving
<1>4. \A i \in 1..Len(jobs) : jobs[i] \in Threads
  BY <1>1
<1> QED  BY <1>1, <1>2, <1>3, <1>4 DEF CallsServedOnce, Serving

\* Each action keeps the queue and the workers in order.
LEMMA NextServedOnce ==
  ASSUME TypeOK, CallsServedOnce, [Next]_vars
  PROVE  CallsServedOnce'
<1>1. ASSUME NEW t \in Threads, NEW l \in Locks,
             CallAcquire(t, l) \/ CallRelease(t, l) \/ CallStrayRelease(t, l)
      PROVE  CallsServedOnce'
  <2>1. Ready(t) /\ \E op \in {"acquire", "release"} : Send(t, op, l)
    BY <1>1 DEF CallAcquire, CallRelease, CallStrayRelease
  <2> QED  BY <2>1, SendServedOnce
<1>2. ASSUME NEW c \in Clients, ClientDies(c)
      PROVE  CallsServedOnce'
  BY <1>2 DEF ClientDies, poolVars, CallsServedOnce, Serving
<1>3. ASSUME NEW w \in Workers, WorkerNext(w) \/ SpuriousWakeup(w)
      PROVE  CallsServedOnce'
  BY <1>3, TakeServedOnce, HandlerStep, KeepsThreadsServedOnce, ReplyServedOnce
  DEF WorkerNext
<1>4. CASE UNCHANGED vars
  BY <1>4 DEF vars, appVars, poolVars, CallsServedOnce, Serving
<1> QED  BY <1>1, <1>2, <1>3, <1>4 DEF Next

-----------------------------------------------------------------------------
(* Who has a lock, and who is releasing one.                               *)

LockParts == ReleasedIsNotHeld /\ ReleaseIsMine /\ MutualExclusion

\* A step that gives nobody a lock or a release, except a release to a thread
\* alone on its client, and leaves the table alone keeps all three parts.
LEMMA NothingTaken ==
  ASSUME LockParts, UNCHANGED lockVars, dead \subseteq dead',
         \A t \in Threads, l \in Locks :
           /\ HasLock(t, l)' => HasLock(t, l)
           /\ Releasing(t, l)' => /\ Releasing(t, l) \/ Alone(t)
                                  /\ l \notin held'[t]
  PROVE  LockParts'
<1>1. ReleasedIsNotHeld'
  BY DEF ReleasedIsNotHeld
<1>2. MutualExclusion'
  BY DEF LockParts, MutualExclusion, lockVars
<1>3. ReleaseIsMine'
  <2> SUFFICES ASSUME NEW t \in Threads, NEW l \in Locks,
                      Releasing(t, l)', ClientOf[t] \notin dead', ~Alone(t)
               PROVE  /\ state'[l] = "locked" /\ owner'[l] = ClientOf[t]
                      /\ \A u \in Threads :
                           /\ ~HasLock(u, l)'
                           /\ Releasing(u, l)' /\ ClientOf[u] = ClientOf[t]
                                => u = t
    BY DEF ReleaseIsMine, Alone
  <2>1. Releasing(t, l) /\ ClientOf[t] \notin dead
    OBVIOUS
  <2>2. /\ state[l] = "locked" /\ owner[l] = ClientOf[t]
        /\ \A u \in Threads :
             /\ ~HasLock(u, l)
             /\ Releasing(u, l) /\ ClientOf[u] = ClientOf[t] => u = t
    BY <2>1 DEF LockParts, ReleaseIsMine
  <2>3. \A u \in Threads : ClientOf[u] = ClientOf[t] /\ Alone(u) => u = t
    BY DEF Alone
  <2> QED  BY <2>2, <2>3 DEF lockVars
<1> QED  BY <1>1, <1>2, <1>3 DEF LockParts

\* What a new call does to who has a lock and who is releasing one.
LEMMA SendEffect ==
  ASSUME TypeOK, CallsServedOnce, NEW t \in Threads, NEW l \in Locks,
         NEW op \in {"acquire", "release"}, Ready(t), Send(t, op, l)
  PROVE  \A u \in Threads, m \in Locks :
           /\ Granted(u, m)' <=> Granted(u, m)
           /\ u # t => (Releasing(u, m)' <=> Releasing(u, m))
           /\ Releasing(t, m)' => op = "release" /\ m = l
           /\ ~Releasing(t, m)
<1>1. /\ wk' = wk
      /\ call' = [call EXCEPT ![t] = [op |-> op, lock |-> l]]
      /\ call \in [Threads -> Call \cup {NoCall}]
      /\ call[t] = NoCall
  BY DEF Send, TypeOK, Ready
<1>2. \A w \in Workers : ~(wk[w].thr = t /\ wk[w].pc = "reply")
  BY <1>1 DEF CallsServedOnce
<1>3. \A u \in Threads, m \in Locks : Granted(u, m)' <=> Granted(u, m)
  BY <1>1, <1>2 DEF Granted
<1>4. \A u \in Threads, m \in Locks :
        u # t => (Releasing(u, m)' <=> Releasing(u, m))
  BY <1>1 DEF Releasing
<1>5. \A m \in Locks : Releasing(t, m)' => op = "release" /\ m = l
  BY <1>1 DEF Releasing
<1>6. \A m \in Locks : ~Releasing(t, m)
  BY <1>1 DEF Releasing, NoCall
<1> QED  BY <1>3, <1>4, <1>5, <1>6

\* A call to acquire, or a stray release by a thread alone on its client.
LEMMA CallParts ==
  ASSUME TypeOK, CallsServedOnce, LockParts, NEW t \in Threads, NEW l \in Locks,
         CallAcquire(t, l) \/ CallStrayRelease(t, l)
  PROVE  LockParts'
<1>1. PICK op \in {"acquire", "release"} :
        /\ Ready(t) /\ Send(t, op, l) /\ held' = held
        /\ op = "release" => l \notin held[t] /\ Alone(t)
  BY DEF CallAcquire, CallStrayRelease
<1>2. UNCHANGED lockVars /\ dead' = dead
  BY <1>1 DEF Send
<1>3. \A u \in Threads, m \in Locks :
        /\ Granted(u, m)' <=> Granted(u, m)
        /\ u # t => (Releasing(u, m)' <=> Releasing(u, m))
        /\ Releasing(t, m)' => op = "release" /\ m = l
  BY <1>1, SendEffect
<1>4. \A u \in Threads, m \in Locks : HasLock(u, m)' => HasLock(u, m)
  BY <1>1, <1>2, <1>3 DEF HasLock
<1>5. \A u \in Threads, m \in Locks :
        Releasing(u, m)' => /\ Releasing(u, m) \/ Alone(u)
                            /\ m \notin held'[u]
  BY <1>1, <1>3 DEF LockParts, ReleasedIsNotHeld
<1> QED  BY <1>2, <1>4, <1>5, NothingTaken

\* A call to release what the thread holds: it was alone in holding it.
LEMMA CallReleaseParts ==
  ASSUME TypeOK, CallsServedOnce, LockParts, NEW t \in Threads, NEW l \in Locks,
         CallRelease(t, l)
  PROVE  LockParts'
<1>1. /\ Ready(t) /\ Send(t, "release", l) /\ l \in held[t]
      /\ held' = [held EXCEPT ![t] = held[t] \ {l}]
      /\ held \in [Threads -> SUBSET Locks]
  BY DEF CallRelease, TypeOK
<1>2. UNCHANGED <<state, owner, dead>> /\ ClientOf[t] \notin dead
      /\ call[t] = NoCall
  BY <1>1 DEF Send, lockVars, Ready
<1>3. \A u \in Threads, m \in Locks :
        /\ Granted(u, m)' <=> Granted(u, m)
        /\ u # t => (Releasing(u, m)' <=> Releasing(u, m))
        /\ Releasing(t, m)' => m = l
  BY <1>1, SendEffect
<1>4. HasLock(t, l) /\ \A m \in Locks : ~Granted(t, m)
  BY <1>1, <1>2 DEF HasLock, Granted, NoCall
<1>5. /\ state[l] = "locked" /\ owner[l] = ClientOf[t]
      /\ \A u \in Threads : HasLock(u, l) => u = t
  BY <1>4 DEF LockParts, MutualExclusion
<1>6. \A u \in Threads, m \in Locks :
        HasLock(u, m)' => HasLock(u, m) /\ ~(u = t /\ m = l)
  BY <1>1, <1>2, <1>3, <1>4 DEF HasLock
<1>7. ReleasedIsNotHeld'
  BY <1>1, <1>3 DEF LockParts, ReleasedIsNotHeld
<1>8. MutualExclusion'
  BY <1>2, <1>6 DEF LockParts, MutualExclusion
<1>9. ReleaseIsMine'
  <2> SUFFICES ASSUME NEW u \in Threads, NEW m \in Locks,
                      Releasing(u, m)', ClientOf[u] \notin dead', ~Alone(u)
               PROVE  /\ state'[m] = "locked" /\ owner'[m] = ClientOf[u]
                      /\ \A v \in Threads :
                           /\ ~HasLock(v, m)'
                           /\ Releasing(v, m)' /\ ClientOf[v] = ClientOf[u]
                                => v = u
    BY DEF ReleaseIsMine, Alone
  <2>1. CASE u = t
    <3>1. m = l
      BY <1>3, <2>1
    <3>2. \A v \in Threads : Releasing(v, l)' /\ ClientOf[v] = ClientOf[t]
                               => v = t
      <4> SUFFICES ASSUME NEW v \in Threads, v # t, Releasing(v, l),
                          ClientOf[v] = ClientOf[t]
                   PROVE  FALSE
        BY <1>3
      <4>1. ~Alone(v)
        BY DEF Alone
      <4> QED  BY <1>2, <1>4, <4>1 DEF LockParts, ReleaseIsMine
    <3> QED  BY <1>2, <1>5, <1>6, <2>1, <3>1, <3>2
  <2>2. CASE u # t
    <3>1. Releasing(u, m) /\ ClientOf[u] \notin dead
      BY <1>2, <1>3, <2>2
    <3>2. /\ state[m] = "locked" /\ owner[m] = ClientOf[u]
          /\ \A v \in Threads :
               /\ ~HasLock(v, m)
               /\ Releasing(v, m) /\ ClientOf[v] = ClientOf[u] => v = u
      BY <3>1 DEF LockParts, ReleaseIsMine
    <3>3. m # l
      BY <1>4, <3>2
    <3> QED  BY <1>2, <1>3, <1>6, <3>2, <3>3
  <2> QED  BY <2>1, <2>2
<1> QED  BY <1>7, <1>8, <1>9 DEF LockParts

\* A client that dies: its threads hold nothing any more.
LEMMA DiesParts ==
  ASSUME LockParts, NEW c \in Clients, ClientDies(c)
  PROVE  LockParts'
<1>1. /\ UNCHANGED <<call, wk, lockVars>> /\ dead' = dead \cup {c}
      /\ held' = [t \in Threads |-> IF ClientOf[t] = c THEN {} ELSE held[t]]
  BY DEF ClientDies, poolVars
<1>2. \A t \in Threads, l \in Locks :
        /\ HasLock(t, l)' => HasLock(t, l)
        /\ Releasing(t, l)' => Releasing(t, l)
        /\ l \in held'[t] => l \in held[t]
  BY <1>1 DEF HasLock, Granted, Releasing
<1>3. \A t \in Threads, l \in Locks : Releasing(t, l)' => l \notin held'[t]
  BY <1>2 DEF LockParts, ReleasedIsNotHeld
<1> QED  BY <1>1, <1>2, <1>3, NothingTaken

\* A job that comes to a worker, or a waiter that is woken.
LEMMA TakeParts ==
  ASSUME TypeOK, LockParts, NEW w \in Workers, Take(w) \/ SpuriousWakeup(w)
  PROVE  LockParts'
<1>1. /\ UNCHANGED <<call, held, dead, lockVars>>
      /\ \A v \in Workers :
           /\ (wk'[v].pc = "reply") <=> (wk[v].pc = "reply")
           /\ wk[v].pc = "reply" => wk'[v].thr = wk[v].thr
  BY DEF Take, SpuriousWakeup, TypeOK, appVars
<1>2. \A t \in Threads, l \in Locks :
        /\ HasLock(t, l)' => HasLock(t, l)
        /\ Releasing(t, l)' => Releasing(t, l)
  BY <1>1 DEF HasLock, Granted, Releasing
<1>3. \A t \in Threads, l \in Locks : Releasing(t, l)' => l \notin held'[t]
  BY <1>1, <1>2 DEF LockParts, ReleasedIsNotHeld
<1> QED  BY <1>1, <1>2, <1>3, NothingTaken

\* The worker of an acquire finds the lock free and gets it for its thread.
LEMMA AcquireParts ==
  ASSUME TypeOK, CallsServedOnce, LockParts, NEW w \in Workers, Acquire(w)
  PROVE  LockParts'
<1> DEFINE t == wk[w].thr
           l == Lock(w)
<1>1. /\ t \in Threads /\ l \in Locks
      /\ call[t] = [op |-> "acquire", lock |-> l]
      /\ Client(w) = ClientOf[t]
  BY ServedTypes DEF Acquire, Client
<1>2. /\ UNCHANGED <<call, held, dead>>
      /\ \A v \in Workers :
           /\ wk'[v].thr = wk[v].thr
           /\ v # w => ((wk'[v].pc = "reply") <=> (wk[v].pc = "reply"))
  BY HandlerStep DEF KeepsThreads
<1>3. \A u \in Threads, m \in Locks :
        Releasing(u, m)' => Releasing(u, m) /\ m \notin held'[u]
  <2>1. \A u \in Threads, m \in Locks : Releasing(u, m) => u # t
    BY <1>1 DEF Releasing
  <2>2. \A u \in Threads, m \in Locks : Releasing(u, m)' => u # t
    BY <1>1, <1>2 DEF Releasing
  <2> QED  BY <1>2, <2>1, <2>2 DEF Releasing, LockParts, ReleasedIsNotHeld
<1>4. CASE MustWait(w)
  <2>1. UNCHANGED lockVars /\ wk' = [wk EXCEPT ![w].pc = "wait"]
    BY <1>4 DEF Acquire
  <2>2. wk'[w].pc # "reply"
    BY <2>1 DEF TypeOK
  <2>3. \A u \in Threads, m \in Locks : HasLock(u, m)' => HasLock(u, m)
    BY <1>2, <2>2 DEF HasLock, Granted
  <2> QED  BY <1>2, <1>3, <2>1, <2>3, NothingTaken
<1>5. CASE ~MustWait(w)
  <2>1. /\ state' = [state EXCEPT ![l] = "locked"]
        /\ owner' = [owner EXCEPT ![l] = ClientOf[t]]
        /\ state \in [Locks -> {"absent", "free", "locked"}]
        /\ owner \in [Locks -> Clients \cup {NoClient}]
        /\ state[l] # "locked"
    BY <1>1, <1>5 DEF Acquire, Grant, MustWait, TypeOK
  <2>2. /\ state'[l] = "locked" /\ owner'[l] = ClientOf[t]
        /\ \A m \in Locks : m # l => state'[m] = state[m] /\ owner'[m] = owner[m]
    BY <1>1, <2>1
  <2>3. \A u \in Threads, m \in Locks :
          HasLock(u, m)' => HasLock(u, m) \/ (u = t /\ m = l)
    BY <1>1, <1>2 DEF HasLock, Granted
  <2>4. \A u \in Threads : ~HasLock(u, l)
    BY <1>1, <2>1 DEF LockParts, MutualExclusion
  <2>5. \A u \in Threads : Releasing(u, l) /\ ClientOf[u] \notin dead => Alone(u)
    BY <1>1, <2>1 DEF LockParts, ReleaseIsMine
  <2>6. MutualExclusion'
    <3> SUFFICES ASSUME NEW u \in Threads, NEW m \in Locks, HasLock(u, m)'
                 PROVE  /\ state'[m] = "locked" /\ owner'[m] = ClientOf[u]
                        /\ \A v \in Threads : HasLock(v, m)' => v = u
      BY DEF MutualExclusion
    <3>1. CASE m = l
      BY <2>2, <2>3, <2>4, <3>1
    <3>2. CASE m # l
      BY <2>2, <2>3, <3>2 DEF LockParts, MutualExclusion
    <3> QED  BY <3>1, <3>2
  <2>7. ReleasedIsNotHeld'
    BY <1>3 DEF ReleasedIsNotHeld
  <2>8. ReleaseIsMine'
    <3> SUFFICES ASSUME NEW u \in Threads, NEW m \in Locks,
                        Releasing(u, m)', ClientOf[u] \notin dead', ~Alone(u)
                 PROVE  /\ state'[m] = "locked" /\ owner'[m] = ClientOf[u]
                        /\ \A v \in Threads :
                             /\ ~HasLock(v, m)'
                             /\ Releasing(v, m)' /\ ClientOf[v] = ClientOf[u]
                                  => v = u
      BY DEF ReleaseIsMine, Alone
    <3>1. Releasing(u, m) /\ ClientOf[u] \notin dead
      BY <1>2, <1>3
    <3>2. m # l
      BY <2>5, <3>1
    <3> QED
      BY <1>3, <2>2, <2>3, <3>1, <3>2 DEF LockParts, ReleaseIsMine
  <2> QED  BY <2>6, <2>7, <2>8 DEF LockParts
<1> QED  BY <1>4, <1>5

\* The worker of a release: if its client is the owner, nobody had the lock
\* and nobody who shares the client was releasing it too.
LEMMA ReleaseParts ==
  ASSUME TypeOK, CallsServedOnce, LockParts, NEW w \in Workers, Release(w)
  PROVE  LockParts'
<1> DEFINE t == wk[w].thr
           l == Lock(w)
<1>1. /\ t \in Threads /\ l \in Locks
      /\ call[t] = [op |-> "release", lock |-> l]
      /\ Client(w) = ClientOf[t]
  BY ServedTypes DEF Release, Client
<1>2. /\ UNCHANGED <<call, held, dead>> /\ owner' = owner
      /\ \A v \in Workers :
           /\ wk'[v].thr = wk[v].thr
           /\ v # w => ((wk'[v].pc = "reply") <=> (wk[v].pc = "reply"))
  BY HandlerStep DEF KeepsThreads, Release
<1>3. Releasing(t, l)
  <2>1. \A v \in Workers : wk[v].thr = t /\ wk[v].pc = "reply" => v = w
    BY DEF CallsServedOnce, Serving, Release
  <2> QED  BY <1>1, <2>1 DEF Releasing, Release
<1>4. wk'[w].pc = "reply"
  <2>1. CASE wk' = [wk EXCEPT ![w].pc = "reply"]
    BY <2>1 DEF TypeOK
  <2>2. CASE \E S \in SignalledBy(Lock(w)) :
               wk' = [v \in Workers |->
                        IF v = w THEN [wk[v] EXCEPT !.pc = "reply"]
                        ELSE IF v \in S THEN [wk[v] EXCEPT !.pc = "woken"]
                        ELSE wk[v]]
    <3>1. wk'[w] = [wk[w] EXCEPT !.pc = "reply"]
      BY <2>2
    <3> QED  BY <3>1 DEF TypeOK
  <2> QED  BY <2>1, <2>2 DEF Release
<1>5. \A u \in Threads, m \in Locks :
        /\ HasLock(u, m)' => HasLock(u, m)
        /\ Releasing(u, m)' => Releasing(u, m) /\ u # t
  <2>1. \A u \in Threads, m \in Locks : Granted(u, m)' => Granted(u, m)
    BY <1>1, <1>2 DEF Granted
  <2>2. \A u \in Threads, m \in Locks :
          Releasing(u, m)' => Releasing(u, m) /\ u # t
    BY <1>2, <1>3, <1>4 DEF Releasing
  <2> QED  BY <1>2, <2>1, <2>2 DEF HasLock
<1>6. \A u \in Threads, m \in Locks : Releasing(u, m)' => m \notin held'[u]
  BY <1>2, <1>5 DEF LockParts, ReleasedIsNotHeld
<1>7. CASE ~IsOwner(w)
  <2>1. UNCHANGED lockVars
    BY <1>2, <1>7 DEF Release, lockVars
  <2> QED  BY <1>2, <1>5, <1>6, <2>1, NothingTaken
<1>8. CASE IsOwner(w)
  <2>1. /\ owner[l] = ClientOf[t]
        /\ \A m \in Locks : m # l => state'[m] = state[m]
    BY <1>1, <1>8 DEF Release, IsOwner, TypeOK
  <2>2. \A u \in Threads : ~HasLock(u, l)
    <3> SUFFICES ASSUME NEW u \in Threads, HasLock(u, l)
                 PROVE  FALSE
      OBVIOUS
    <3>1. ClientOf[u] = ClientOf[t] /\ ClientOf[t] \notin dead
      BY <2>1, <1>1 DEF LockParts, MutualExclusion, HasLock
    <3>2. CASE Alone(t)
      <4>1. u = t
        BY <3>1, <3>2 DEF Alone
      <4>2. l \notin held[t]
        BY <1>1, <1>3 DEF LockParts, ReleasedIsNotHeld
      <4> QED  BY <1>1, <4>1, <4>2 DEF HasLock, Granted
    <3>3. CASE ~Alone(t)
      BY <1>1, <1>3, <3>1, <3>3 DEF LockParts, ReleaseIsMine
    <3> QED  BY <3>2, <3>3
  <2>3. MutualExclusion'
    <3> SUFFICES ASSUME NEW u \in Threads, NEW m \in Locks, HasLock(u, m)'
                 PROVE  /\ state'[m] = "locked" /\ owner'[m] = ClientOf[u]
                        /\ \A v \in Threads : HasLock(v, m)' => v = u
      BY DEF MutualExclusion
    <3>1. HasLock(u, m) /\ m # l
      BY <1>5, <2>2
    <3> QED  BY <1>2, <1>5, <2>1, <3>1 DEF LockParts, MutualExclusion
  <2>4. ReleaseIsMine'
    <3> SUFFICES ASSUME NEW u \in Threads, NEW m \in Locks,
                        Releasing(u, m)', ClientOf[u] \notin dead', ~Alone(u)
                 PROVE  /\ state'[m] = "locked" /\ owner'[m] = ClientOf[u]
                        /\ \A v \in Threads :
                             /\ ~HasLock(v, m)'
                             /\ Releasing(v, m)' /\ ClientOf[v] = ClientOf[u]
                                  => v = u
      BY DEF ReleaseIsMine, Alone
    <3>1. Releasing(u, m) /\ u # t /\ ClientOf[u] \notin dead
      BY <1>2, <1>5
    <3>2. /\ state[m] = "locked" /\ owner[m] = ClientOf[u]
          /\ \A v \in Threads :
               /\ ~HasLock(v, m)
               /\ Releasing(v, m) /\ ClientOf[v] = ClientOf[u] => v = u
      BY <3>1 DEF LockParts, ReleaseIsMine
    <3>3. m # l
      BY <1>1, <1>3, <2>1, <3>1, <3>2
    <3> QED  BY <1>2, <1>5, <2>1, <3>2, <3>3
  <2>5. ReleasedIsNotHeld'
    BY <1>6 DEF ReleasedIsNotHeld
  <2> QED  BY <2>3, <2>4, <2>5 DEF LockParts
<1> QED  BY <1>7, <1>8

\* A reply: what was granted is now held.
LEMMA ReplyParts ==
  ASSUME TypeOK, CallsServedOnce, LockParts, NEW w \in Workers, Reply(w)
  PROVE  LockParts'
<1> DEFINE t == wk[w].thr
           l == Lock(w)
<1>1. /\ t \in Threads /\ l \in Locks
      /\ call[t] = [op |-> Op(w), lock |-> l]
      /\ wk[w].pc = "reply"
  BY ServedTypes DEF Reply
<1>2. /\ UNCHANGED <<dead, lockVars>>
      /\ wk' = [wk EXCEPT ![w] = [pc |-> "idle", thr |-> NoThread]]
      /\ call' = [call EXCEPT ![t] = NoCall]
      /\ held' = IF Op(w) = "acquire" /\ ClientOf[t] \notin dead
                   THEN [held EXCEPT ![t] = held[t] \cup {l}] ELSE held
  BY DEF Reply
<1>3. /\ wk \in [Workers -> [pc : WorkerPc, thr : Threads \cup {NoThread}]]
      /\ call \in [Threads -> Call \cup {NoCall}]
      /\ held \in [Threads -> SUBSET Locks]
  BY DEF TypeOK
<1>4. \A v \in Workers : wk'[v].pc = "reply" => v # w /\ wk'[v] = wk[v]
  BY <1>2, <1>3
<1>5. call'[t] = NoCall /\ \A u \in Threads : u # t => call'[u] = call[u]
  BY <1>1, <1>2, <1>3
<1>6. \A u \in Threads, m \in Locks : Granted(u, m)' => Granted(u, m)
  BY <1>4, <1>5 DEF Granted, NoCall
<1>7. \A u \in Threads, m \in Locks :
        m \in held'[u] =>
          \/ m \in held[u]
          \/ u = t /\ m = l /\ Op(w) = "acquire"
  BY <1>1, <1>2, <1>3
<1>8. \A u \in Threads, m \in Locks : HasLock(u, m)' => HasLock(u, m)
  <2>1. Op(w) = "acquire" => Granted(t, l)
    BY <1>1 DEF Granted
  <2> QED  BY <1>2, <1>6, <1>7, <2>1 DEF HasLock
<1>9. \A u \in Threads, m \in Locks :
        Releasing(u, m)' => Releasing(u, m) /\ m \notin held'[u]
  <2>1. \A u \in Threads, m \in Locks : Releasing(u, m)' => u # t
    BY <1>5 DEF Releasing, NoCall
  <2>2. ASSUME NEW u \in Threads, NEW m \in Locks, Releasing(u, m)'
        PROVE  Releasing(u, m)
    <3>1. u # t /\ call[u] = [op |-> "release", lock |-> m]
      BY <1>5, <2>1, <2>2 DEF Releasing
    <3>2. \A v \in Workers : v # w => wk'[v] = wk[v]
      BY <1>2, <1>3
    <3> QED  BY <2>2, <3>1, <3>2 DEF Releasing
  <2> QED  BY <1>7, <2>1, <2>2 DEF LockParts, ReleasedIsNotHeld
<1> QED  BY <1>2, <1>8, <1>9, NothingTaken

-----------------------------------------------------------------------------
\* Initially no thread has a call or a lock.
LEMMA InitLockInv == ASSUME Init PROVE LockInv
<1>1. TypeOK
  BY InitTypeOK
<1>2. CallsServedOnce
  BY DEF Init, CallsServedOnce, Serving
<1>3. \A t \in Threads, l \in Locks : ~Releasing(t, l) /\ ~HasLock(t, l)
  BY DEF Init, Releasing, HasLock, Granted, NoCall
<1> QED
  BY <1>1, <1>2, <1>3
  DEF LockInv, ReleasedIsNotHeld, ReleaseIsMine, MutualExclusion

\* Each step keeps the inductive invariant.
LEMMA NextLockInv == ASSUME LockInv, [Next]_vars PROVE LockInv'
<1>1. TypeOK /\ CallsServedOnce /\ LockParts
  BY DEF LockInv, LockParts
<1>2. TypeOK' /\ CallsServedOnce'
  BY <1>1, NextTypeOK, NextServedOnce
<1>3. LockParts'
  <2>1. ASSUME NEW t \in Threads, NEW l \in Locks,
               CallAcquire(t, l) \/ CallRelease(t, l) \/ CallStrayRelease(t, l)
        PROVE  LockParts'
    BY <1>1, <2>1, CallParts, CallReleaseParts
  <2>2. ASSUME NEW c \in Clients, ClientDies(c)
        PROVE  LockParts'
    BY <1>1, <2>2, DiesParts
  <2>3. ASSUME NEW w \in Workers, WorkerNext(w) \/ SpuriousWakeup(w)
        PROVE  LockParts'
    BY <1>1, <2>3, TakeParts, AcquireParts, ReleaseParts, ReplyParts
    DEF WorkerNext
  <2>4. CASE UNCHANGED vars
    BY <1>1, <2>4
    DEF vars, appVars, poolVars, lockVars, LockParts, ReleasedIsNotHeld,
        ReleaseIsMine, MutualExclusion, Releasing, HasLock, Granted, Alone
  <2> QED  BY <2>1, <2>2, <2>3, <2>4 DEF Next
<1> QED  BY <1>2, <1>3 DEF LockInv, LockParts

\* The inductive invariant holds in every reachable state: calls are served
\* once, and a release on its way is of a lock nobody has.
THEOREM LockInvariant == Spec => []LockInv
<1>1. Init => LockInv
  BY InitLockInv
<1>2. LockInv /\ [Next]_vars => LockInv'
  BY NextLockInv
<1> QED  BY <1>1, <1>2, PTL DEF Spec

\* lock_server never lets two threads have the same lock, and its table names
\* the client of the one that has it.
THEOREM MutualExclusionHolds == Spec => []MutualExclusion
<1>1. LockInv => MutualExclusion
  BY DEF LockInv
<1> QED  BY <1>1, LockInvariant, PTL

\* Every variable keeps its type.
THEOREM LockTypeCorrect == Spec => []TypeOK
<1>1. LockInv => TypeOK
  BY DEF LockInv
<1> QED  BY <1>1, LockInvariant, PTL

-----------------------------------------------------------------------------
(* No lock is lost.                                                        *)

\* NoLeak with the release that is not executed yet: this is what each step
\* keeps.
LockKept ==
  \A l \in Locks : state[l] = "locked" =>
    \/ owner[l] \in dead
    \/ \E t \in Threads : /\ ClientOf[t] = owner[l]
                          /\ HasLock(t, l) \/ Releasing(t, l)

\* A step that leaves the table alone need only leave the thread that has the
\* lock, or gives it back, something of the two.
LEMMA KeptByThreads ==
  ASSUME LockKept, UNCHANGED lockVars, dead \subseteq dead',
         \A t \in Threads, l \in Locks :
           /\ state[l] = "locked" /\ owner[l] = ClientOf[t]
           /\ HasLock(t, l) \/ Releasing(t, l)
           => HasLock(t, l)' \/ Releasing(t, l)' \/ ClientOf[t] \in dead'
  PROVE  LockKept'
<1> SUFFICES ASSUME NEW l \in Locks, state'[l] = "locked", owner'[l] \notin dead'
             PROVE  \E t \in Threads : /\ ClientOf[t] = owner'[l]
                                       /\ HasLock(t, l)' \/ Releasing(t, l)'
  BY DEF LockKept
<1>1. state[l] = "locked" /\ owner'[l] = owner[l] /\ owner[l] \notin dead
  BY DEF lockVars
<1>2. PICK t \in Threads : /\ ClientOf[t] = owner[l]
                           /\ HasLock(t, l) \/ Releasing(t, l)
  BY <1>1 DEF LockKept
<1> QED  BY <1>1, <1>2

\* A call begins: a lock that is given back goes from held to the release.
LEMMA CallKept ==
  ASSUME TypeOK, CallsServedOnce, LockKept, NEW t \in Threads, NEW l \in Locks,
         CallAcquire(t, l) \/ CallRelease(t, l) \/ CallStrayRelease(t, l)
  PROVE  LockKept'
<1>1. PICK op \in {"acquire", "release"} :
        /\ Ready(t) /\ Send(t, op, l)
        /\ \/ held' = held
           \/ op = "release" /\ held' = [held EXCEPT ![t] = held[t] \ {l}]
  BY DEF CallAcquire, CallRelease, CallStrayRelease
<1>2. UNCHANGED lockVars /\ dead' = dead /\ wk' = wk
  BY <1>1 DEF Send
<1>3. \A u \in Threads, m \in Locks :
        /\ Granted(u, m)' <=> Granted(u, m)
        /\ u # t => (Releasing(u, m)' <=> Releasing(u, m))
        /\ ~Releasing(t, m)
  BY <1>1, SendEffect
<1>4. \A u \in Threads, m \in Locks :
        m \in held[u] => m \in held'[u] \/ (u = t /\ m = l /\ op = "release")
  BY <1>1 DEF TypeOK
<1>5. op = "release" => Releasing(t, l)'
  <2>1. call'[t] = [op |-> op, lock |-> l]
    BY <1>1 DEF Send, TypeOK
  <2>2. \A w \in Workers : ~(wk[w].thr = t /\ wk[w].pc = "reply")
    BY <1>1 DEF CallsServedOnce, Ready
  <2> QED  BY <1>2, <2>1, <2>2 DEF Releasing
<1>6. \A u \in Threads, m \in Locks :
        HasLock(u, m) \/ Releasing(u, m) => HasLock(u, m)' \/ Releasing(u, m)'
  BY <1>2, <1>3, <1>4, <1>5 DEF HasLock
<1> QED  BY <1>2, <1>6, KeptByThreads

\* A client that dies takes its locks along: their owner is dead then.
LEMMA DiesKept ==
  ASSUME LockKept, NEW c \in Clients, ClientDies(c)
  PROVE  LockKept'
<1>1. /\ UNCHANGED <<call, wk, lockVars>> /\ dead' = dead \cup {c}
      /\ held' = [t \in Threads |-> IF ClientOf[t] = c THEN {} ELSE held[t]]
  BY DEF ClientDies, poolVars
<1>2. \A t \in Threads, l \in Locks :
        HasLock(t, l) \/ Releasing(t, l)
          => HasLock(t, l)' \/ Releasing(t, l)' \/ ClientOf[t] \in dead'
  BY <1>1 DEF HasLock, Granted, Releasing
<1> QED  BY <1>1, <1>2, KeptByThreads

\* A job that comes to a worker, or a waiter that is woken.
LEMMA TakeKept ==
  ASSUME TypeOK, LockKept, NEW w \in Workers, Take(w) \/ SpuriousWakeup(w)
  PROVE  LockKept'
<1>1. /\ UNCHANGED <<call, held, dead, lockVars>>
      /\ \A v \in Workers :
           /\ (wk'[v].pc = "reply") <=> (wk[v].pc = "reply")
           /\ wk[v].pc = "reply" => wk'[v].thr = wk[v].thr
  BY DEF Take, SpuriousWakeup, TypeOK, appVars
<1>2. \A t \in Threads, l \in Locks :
        /\ HasLock(t, l) => HasLock(t, l)'
        /\ Releasing(t, l) => Releasing(t, l)'
  BY <1>1 DEF HasLock, Granted, Releasing
<1> QED  BY <1>1, <1>2, KeptByThreads

\* What an acquire locks, it locks for a thread that gets it.
LEMMA AcquireKept ==
  ASSUME TypeOK, CallsServedOnce, LockKept, NEW w \in Workers, Acquire(w)
  PROVE  LockKept'
<1> DEFINE t == wk[w].thr
           l == Lock(w)
<1>1. /\ t \in Threads /\ l \in Locks
      /\ call[t] = [op |-> "acquire", lock |-> l]
      /\ Client(w) = ClientOf[t]
  BY ServedTypes DEF Acquire, Client
<1>2. /\ UNCHANGED <<call, held, dead>>
      /\ wk[w].pc # "reply"
      /\ \A v \in Workers :
           /\ wk'[v].thr = wk[v].thr
           /\ v # w => ((wk'[v].pc = "reply") <=> (wk[v].pc = "reply"))
  BY HandlerStep DEF KeepsThreads, Acquire
<1>3. \A u \in Threads, m \in Locks : HasLock(u, m) => HasLock(u, m)'
  BY <1>2 DEF HasLock, Granted
<1>4. \A u \in Threads, m \in Locks : Releasing(u, m) => Releasing(u, m)'
  <2>1. \A u \in Threads, m \in Locks : Releasing(u, m) => u # t
    BY <1>1 DEF Releasing
  <2> QED  BY <1>2, <2>1 DEF Releasing
<1>5. CASE MustWait(w)
  <2>1. UNCHANGED lockVars
    BY <1>5 DEF Acquire
  <2> QED  BY <1>2, <1>3, <1>4, <2>1, KeptByThreads
<1>6. CASE ~MustWait(w)
  <2>1. /\ state' = [state EXCEPT ![l] = "locked"]
        /\ owner' = [owner EXCEPT ![l] = ClientOf[t]]
        /\ wk' = [wk EXCEPT ![w].pc = "reply"]
    BY <1>1, <1>6 DEF Acquire, Grant
  <2>2. owner'[l] = ClientOf[t] /\ wk'[w].pc = "reply"
    BY <1>1, <2>1 DEF TypeOK
  <2>3. \A u \in Threads, m \in Locks :
          u = t /\ m = l /\ ClientOf[u] \notin dead => HasLock(u, m)'
    BY <1>1, <1>2, <2>2 DEF HasLock, Granted
  <2>4. \A m \in Locks : m # l => state'[m] = state[m] /\ owner'[m] = owner[m]
    BY <1>1, <2>1 DEF TypeOK
  <2> QED  BY <1>1, <1>2, <1>3, <1>4, <2>2, <2>3, <2>4 DEF LockKept
<1> QED  BY <1>5, <1>6

\* A release that counts frees the lock; one that does not count is not by the
\* thread the table knows of.
LEMMA ReleaseKept ==
  ASSUME TypeOK, CallsServedOnce, LockKept, NEW w \in Workers, Release(w)
  PROVE  LockKept'
<1> DEFINE t == wk[w].thr
           l == Lock(w)
<1>1. /\ t \in Threads /\ l \in Locks
      /\ call[t] = [op |-> "release", lock |-> l]
      /\ Client(w) = ClientOf[t]
  BY ServedTypes DEF Release, Client
<1>2. /\ UNCHANGED <<call, held, dead>> /\ owner' = owner
      /\ wk[w].pc # "reply"
      /\ \A v \in Workers :
           /\ wk'[v].thr = wk[v].thr
           /\ v # w => ((wk'[v].pc = "reply") <=> (wk[v].pc = "reply"))
  BY HandlerStep DEF KeepsThreads, Release
<1>3. \A u \in Threads, m \in Locks : HasLock(u, m) => HasLock(u, m)'
  BY <1>2 DEF HasLock, Granted
<1>4. \A u \in Threads, m \in Locks :
        Releasing(u, m) => Releasing(u, m)' \/ (u = t /\ m = l)
  BY <1>1, <1>2 DEF Releasing
<1>5. CASE IsOwner(w)
  <2>1. state' = [state EXCEPT ![l] = "free"]
    BY <1>5 DEF Release
  <2>2. state'[l] = "free" /\ \A m \in Locks : m # l => state'[m] = state[m]
    BY <1>1, <2>1 DEF TypeOK
  <2> QED  BY <1>2, <1>3, <1>4, <2>2 DEF LockKept
<1>6. CASE ~IsOwner(w)
  <2>1. UNCHANGED lockVars
    BY <1>2, <1>6 DEF Release, lockVars
  <2>2. ~(state[l] = "locked" /\ owner[l] = ClientOf[t])
    BY <1>1, <1>6 DEF IsOwner
  <2> QED  BY <1>2, <1>3, <1>4, <2>1, <2>2, KeptByThreads
<1> QED  BY <1>5, <1>6

\* A reply brings what was granted to the thread that holds it from then on.
LEMMA ReplyKept ==
  ASSUME TypeOK, CallsServedOnce, LockKept, NEW w \in Workers, Reply(w)
  PROVE  LockKept'
<1> DEFINE t == wk[w].thr
           l == Lock(w)
<1>1. /\ t \in Threads /\ l \in Locks
      /\ call[t] = [op |-> Op(w), lock |-> l]
      /\ wk[w].pc = "reply"
  BY ServedTypes DEF Reply
<1>2. /\ UNCHANGED <<dead, lockVars>>
      /\ wk' = [wk EXCEPT ![w] = [pc |-> "idle", thr |-> NoThread]]
      /\ call' = [call EXCEPT ![t] = NoCall]
      /\ held' = IF Op(w) = "acquire" /\ ClientOf[t] \notin dead
                   THEN [held EXCEPT ![t] = held[t] \cup {l}] ELSE held
  BY DEF Reply
<1>3. /\ wk \in [Workers -> [pc : WorkerPc, thr : Threads \cup {NoThread}]]
      /\ call \in [Threads -> Call \cup {NoCall}]
      /\ held \in [Threads -> SUBSET Locks]
  BY DEF TypeOK
<1>4. \A v \in Workers : /\ v # w => wk'[v] = wk[v]
                         /\ wk'[v].pc = "reply" => v # w
  BY <1>2, <1>3
<1>5. \A u \in Threads : u # t => call'[u] = call[u]
  BY <1>1, <1>2, <1>3
<1>6. \A u \in Threads, m \in Locks : m \in held[u] => m \in held'[u]
  BY <1>1, <1>2, <1>3
<1>7. Op(w) = "acquire" /\ ClientOf[t] \notin dead => l \in held'[t]
  BY <1>1, <1>2, <1>3
<1>8. ASSUME NEW u \in Threads, NEW m \in Locks, HasLock(u, m)
      PROVE  HasLock(u, m)'
  <2>1. CASE u = t /\ m \notin held[u]
    <3>1. call[t] = [op |-> "acquire", lock |-> m]
      BY <1>8, <2>1 DEF HasLock, Granted
    <3>2. Op(w) = "acquire" /\ m = l
      BY <1>1, <3>1
    <3> QED  BY <1>2, <1>7, <1>8, <2>1, <3>2 DEF HasLock
  <2>2. CASE u # t /\ m \notin held[u]
    <3>1. Granted(u, m)
      BY <1>8, <2>2 DEF HasLock
    <3>2. Granted(u, m)'
      BY <1>4, <1>5, <2>2, <3>1 DEF Granted
    <3> QED  BY <1>2, <1>8, <3>2 DEF HasLock
  <2>3. CASE m \in held[u]
    BY <1>2, <1>6, <1>8, <2>3 DEF HasLock
  <2> QED  BY <2>1, <2>2, <2>3
<1>9. \A u \in Threads, m \in Locks : Releasing(u, m) => Releasing(u, m)'
  <2>1. \A u \in Threads, m \in Locks : Releasing(u, m) => u # t
    BY <1>1 DEF Releasing
  <2> QED  BY <1>4, <1>5, <2>1 DEF Releasing
<1> QED  BY <1>2, <1>8, <1>9, KeptByThreads

\* lock_server loses no lock: one that is locked is at a living thread, on its
\* way to one or back from one, or its owner's process has ended.
THEOREM NoLeakHolds == Spec => []NoLeak
<1>1. Init => LockKept
  BY DEF Init, LockKept
<1>2. LockInv /\ LockKept /\ [Next]_vars => LockKept'
  <2> SUFFICES ASSUME LockInv, LockKept, [Next]_vars
               PROVE  LockKept'
    OBVIOUS
  <2>1. TypeOK /\ CallsServedOnce
    BY DEF LockInv
  <2>2. ASSUME NEW t \in Threads, NEW l \in Locks,
               CallAcquire(t, l) \/ CallRelease(t, l) \/ CallStrayRelease(t, l)
        PROVE  LockKept'
    BY <2>1, <2>2, CallKept
  <2>3. ASSUME NEW c \in Clients, ClientDies(c)
        PROVE  LockKept'
    BY <2>3, DiesKept
  <2>4. ASSUME NEW w \in Workers, WorkerNext(w) \/ SpuriousWakeup(w)
        PROVE  LockKept'
    BY <2>1, <2>4, TakeKept, AcquireKept, ReleaseKept, ReplyKept DEF WorkerNext
  <2>5. CASE UNCHANGED vars
    <3>1. UNCHANGED <<call, held, dead, wk, lockVars>>
      BY <2>5 DEF vars, appVars, poolVars
    <3>2. \A t \in Threads, l \in Locks :
            /\ HasLock(t, l) => HasLock(t, l)'
            /\ Releasing(t, l) => Releasing(t, l)'
      BY <3>1 DEF HasLock, Granted, Releasing
    <3> QED  BY <3>1, <3>2, KeptByThreads
  <2> QED  BY <2>2, <2>3, <2>4, <2>5 DEF Next
<1>3. LockKept => NoLeak
  BY DEF LockKept, NoLeak, Releasing
<1> QED  BY <1>1, <1>2, <1>3, LockInvariant, PTL DEF Spec

=============================================================================

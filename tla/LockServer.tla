------------------------------ MODULE LockServer ------------------------------
(***************************************************************************)
(* The lock server behind the RPC library: client threads that call        *)
(* lock_client::acquire and release, the pool of dispatch threads that run *)
(* the handlers, and lock_server with its one mutex and a condition        *)
(* variable per lock.  What the library does between a call and its        *)
(* handler is taken from RemoteCall, which module Rpc implements: a call   *)
(* is executed at most once, and succeeds only if it was.                  *)
(*                                                                         *)
(* Grain.  A handler holds the mutex except inside pthread_cond_wait, so a *)
(* stretch between two waits is one step.  A thread has one call at a      *)
(* time, and a job of the pool is named by the thread that waits for it.   *)
(*                                                                         *)
(* A definition marked mutant is a wrong variant of the one after it.      *)
(***************************************************************************)
EXTENDS Integers, Sequences

CONSTANTS
  Clients,    \* lock_client objects: the clt of a request is their id()
  Threads,    \* the threads of the client processes
  ClientOf,   \* the lock_client a thread uses; several may share one
  Workers,    \* the threads of the dispatch pool: ten in rpcs::rpcs
  Locks,
  NoClient,   \* the owner of a lock that was never locked
  NoThread    \* what an idle worker works for

ASSUME LockAssumption ==
  /\ ClientOf \in [Threads -> Clients]
  /\ NoClient \notin Clients
  /\ NoThread \notin Threads

VARIABLES
  (* client processes *)
  call,      \* the call a thread waits for: none, acquire or release a lock
  held,      \* the locks a thread was granted and has not begun to release
  dead,      \* clients whose process has ended
  (* dispatch pool *)
  jobs,      \* jobq_: the threads whose calls wait for a worker
  wk,        \* what a worker does, and for which thread
  (* lock_server *)
  state,     \* "absent" from server_map, else LOCK_FREE or LOCK_LOCKED
  owner      \* owner of the entry

appVars  == <<call, held, dead>>
poolVars == <<jobs, wk>>
lockVars == <<state, owner>>
vars     == <<appVars, poolVars, lockVars>>

Call   == [op : {"acquire", "release"}, lock : Locks]
NoCall == [op |-> "none"]

\* "enter": at the start of the handler; "wait": in pthread_cond_wait;
\* "woken": back from it, with the mutex to take again; "reply": returned.
WorkerPc == {"idle", "enter", "wait", "woken", "reply"}

Init ==
  /\ call  = [t \in Threads |-> NoCall]
  /\ held  = [t \in Threads |-> {}]
  /\ dead  = {}
  /\ jobs  = << >>
  /\ wk    = [w \in Workers |-> [pc |-> "idle", thr |-> NoThread]]
  /\ state = [l \in Locks |-> "absent"]
  /\ owner = [l \in Locks |-> NoClient]

-----------------------------------------------------------------------------
(* The client threads.                                                     *)

Ready(t) == call[t] = NoCall /\ ClientOf[t] \notin dead

DroppedWhenFull(t) == IF jobs = << >> THEN <<t>> ELSE jobs          \* mutant
Queued(t)          == Append(jobs, t)

Send(t, op, l) ==
  /\ call' = [call EXCEPT ![t] = [op |-> op, lock |-> l]]
  /\ jobs' = Queued(t)
  /\ UNCHANGED <<dead, wk, lockVars>>

CallAcquire(t, l) ==
  /\ Ready(t) /\ l \notin held[t]
  /\ Send(t, "acquire", l)
  /\ UNCHANGED held

CallRelease(t, l) ==
  /\ Ready(t) /\ l \in held[t]
  /\ Send(t, "release", l)
  /\ held' = [held EXCEPT ![t] = @ \ {l}]

Alone(t) == \A u \in Threads : ClientOf[u] = ClientOf[t] => u = t

\* A thread alone on its client may release a lock it does not hold, as after
\* a release it has forgotten: lock_client does not look.
CallStrayRelease(t, l) ==
  /\ Ready(t) /\ l \notin held[t]
  /\ Alone(t)
  /\ Send(t, "release", l)
  /\ UNCHANGED held

\* A call fails (rpc timeout_failure, after two minutes): the assert of
\* lock_client ends the process.  What it has sent is still served.
ClientDies(c) ==
  /\ c \notin dead
  /\ \E t \in Threads : ClientOf[t] = c /\ call[t] # NoCall
  /\ dead' = dead \cup {c}
  /\ held' = [t \in Threads |-> IF ClientOf[t] = c THEN {} ELSE held[t]]
  /\ UNCHANGED <<call, poolVars, lockVars>>

-----------------------------------------------------------------------------
(* The workers.                                                            *)

Client(w) == ClientOf[wk[w].thr]
Op(w)     == call[wk[w].thr].op
Lock(w)   == call[wk[w].thr].lock

\* takeJob, then dispatch up to the handler.
Take(w) ==
  /\ wk[w].pc = "idle" /\ jobs # << >>
  /\ wk'   = [wk EXCEPT ![w] = [pc |-> "enter", thr |-> Head(jobs)]]
  /\ jobs' = Tail(jobs)
  /\ UNCHANGED <<appVars, lockVars>>

OwnerOfFirst(w) ==                                                  \* mutant
  /\ state' = [state EXCEPT ![Lock(w)] = "locked"]
  /\ owner' = IF state[Lock(w)] = "absent"
                THEN [owner EXCEPT ![Lock(w)] = Client(w)] ELSE owner

Grant(w) ==
  /\ state' = [state EXCEPT ![Lock(w)] = "locked"]
  /\ owner' = [owner EXCEPT ![Lock(w)] = Client(w)]

\* acquire: the loop around pthread_cond_wait tests the state again.
WaitedOnce(w) == wk[w].pc = "enter" /\ state[Lock(w)] = "locked"    \* mutant
MustWait(w)   == state[Lock(w)] = "locked"

Acquire(w) ==
  /\ wk[w].pc \in {"enter", "woken"} /\ Op(w) = "acquire"
  /\ IF MustWait(w)
       THEN /\ wk' = [wk EXCEPT ![w].pc = "wait"]
            /\ UNCHANGED lockVars
       ELSE /\ Grant(w)
            /\ wk' = [wk EXCEPT ![w].pc = "reply"]
  /\ UNCHANGED <<appVars, jobs>>

\* pthread_cond_wait may return without a signal.
SpuriousWakeup(w) ==
  /\ wk[w].pc = "wait"
  /\ wk' = [wk EXCEPT ![w].pc = "woken"]
  /\ UNCHANGED <<appVars, jobs, lockVars>>

WaitingFor(l) == {v \in Workers : wk[v].pc = "wait" /\ Lock(v) = l}

\* release: only the owner's counts, anything else is answered OK too.  The
\* signal wakes one waiter if there is any.
Anyone(w) == TRUE                                                   \* mutant
IsOwner(w) == state[Lock(w)] # "absent" /\ owner[Lock(w)] = Client(w)

NoSignal(l)     == {{}}                                             \* mutant
SignalledBy(l)  == IF WaitingFor(l) = {} THEN {{}}
                   ELSE {{v} : v \in WaitingFor(l)}

Release(w) ==
  /\ wk[w].pc = "enter" /\ Op(w) = "release"
  /\ IF IsOwner(w)
       THEN /\ state' = [state EXCEPT ![Lock(w)] = "free"]
            /\ \E S \in SignalledBy(Lock(w)) :
                 wk' = [v \in Workers |->
                          IF v = w THEN [wk[v] EXCEPT !.pc = "reply"]
                          ELSE IF v \in S THEN [wk[v] EXCEPT !.pc = "woken"]
                          ELSE wk[v]]
       ELSE /\ wk' = [wk EXCEPT ![w].pc = "reply"]
            /\ UNCHANGED state
  /\ UNCHANGED <<appVars, jobs, owner>>

\* The reply reaches the caller, if it still lives, and the worker is free.
Reply(w) ==
  LET t == wk[w].thr IN
  /\ wk[w].pc = "reply"
  /\ wk'   = [wk EXCEPT ![w] = [pc |-> "idle", thr |-> NoThread]]
  /\ call' = [call EXCEPT ![t] = NoCall]
  /\ held' = IF Op(w) = "acquire" /\ ClientOf[t] \notin dead
               THEN [held EXCEPT ![t] = @ \cup {Lock(w)}] ELSE held
  /\ UNCHANGED <<dead, jobs, lockVars>>

WorkerNext(w) == Take(w) \/ Acquire(w) \/ Release(w) \/ Reply(w)

Next ==
  \/ \E t \in Threads, l \in Locks :
       CallAcquire(t, l) \/ CallRelease(t, l) \/ CallStrayRelease(t, l)
  \/ \E c \in Clients : ClientDies(c)
  \/ \E w \in Workers : WorkerNext(w) \/ SpuriousWakeup(w)

Spec == Init /\ [][Next]_vars

\* Workers run, and a thread that holds a lock comes to release it.  Nothing
\* makes a thread ask for a lock, and nothing is assumed of spurious wakeups.
Fairness ==
  /\ \A w \in Workers : WF_vars(WorkerNext(w))
  /\ \A t \in Threads, l \in Locks : WF_vars(CallRelease(t, l))

FairSpec == Spec /\ Fairness

-----------------------------------------------------------------------------
TypeOK ==
  /\ call  \in [Threads -> Call \cup {NoCall}]
  /\ held  \in [Threads -> SUBSET Locks]
  /\ dead  \in SUBSET Clients
  /\ jobs  \in Seq(Threads)
  /\ wk    \in [Workers -> [pc : WorkerPc, thr : Threads \cup {NoThread}]]
  /\ state \in [Locks -> {"absent", "free", "locked"}]
  /\ owner \in [Locks -> Clients \cup {NoClient}]

\* The thread's acquire of l was granted and its reply is on the way.
Granted(t, l) ==
  \E w \in Workers : /\ wk[w].pc = "reply" /\ wk[w].thr = t
                     /\ call[t] = [op |-> "acquire", lock |-> l]

\* The server never grants the same lock twice (check_grant in lock_tester):
\* whoever has the lock, or has its grant on the way, is alone in that, and
\* its client is what the server has down as the owner.
HasLock(t, l) == ClientOf[t] \notin dead /\ (l \in held[t] \/ Granted(t, l))

MutualExclusion ==
  \A t \in Threads, l \in Locks : HasLock(t, l) =>
    /\ state[l] = "locked" /\ owner[l] = ClientOf[t]
    /\ \A u \in Threads : HasLock(u, l) => u = t

-----------------------------------------------------------------------------
(* Why MutualExclusion holds: it is inductive together with what follows.  *)

Serving(w, t) == wk[w].pc # "idle" /\ wk[w].thr = t

\* A call is in the queue once or at one worker, and nothing else is there.
CallsServedOnce ==
  /\ \A w \in Workers : wk[w].pc # "idle" =>
       /\ wk[w].thr \in Threads /\ call[wk[w].thr] # NoCall
       /\ \A v \in Workers : Serving(v, wk[w].thr) => v = w
  /\ \A i \in 1..Len(jobs) :
       /\ call[jobs[i]] # NoCall
       /\ \A w \in Workers : ~Serving(w, jobs[i])
       /\ \A j \in 1..Len(jobs) : jobs[j] = jobs[i] => j = i

\* The release that t calls has not been executed.
Releasing(t, l) ==
  /\ call[t] = [op |-> "release", lock |-> l]
  /\ \A w \in Workers : ~(wk[w].thr = t /\ wk[w].pc = "reply")

\* A release is of a lock that is given up.
ReleasedIsNotHeld ==
  \A t \in Threads, l \in Locks : Releasing(t, l) => l \notin held[t]

\* A thread that shares its client releases only what it had: until that is
\* executed the lock is its client's, nobody has it, and no other thread of
\* the client releases it.
ReleaseIsMine ==
  \A t \in Threads, l \in Locks :
    Releasing(t, l) /\ ClientOf[t] \notin dead /\ ~Alone(t) =>
      /\ state[l] = "locked" /\ owner[l] = ClientOf[t]
      /\ \A u \in Threads :
           /\ ~HasLock(u, l)
           /\ Releasing(u, l) /\ ClientOf[u] = ClientOf[t] => u = t

LockInv ==
  /\ TypeOK
  /\ CallsServedOnce
  /\ ReleasedIsNotHeld
  /\ ReleaseIsMine
  /\ MutualExclusion

-----------------------------------------------------------------------------
\* No lock is lost: one that is locked has a living thread that holds it, gets
\* it or is giving it back, or belonged to a process that has ended.
NoLeak ==
  \A l \in Locks : state[l] = "locked" =>
    \/ owner[l] \in dead
    \/ \E t \in Threads :
         /\ ClientOf[t] = owner[l]
         /\ HasLock(t, l) \/ call[t] = [op |-> "release", lock |-> l]

\* A release is never stuck behind acquires that wait for it: with no more
\* client threads than workers ("we cannot test more than 10 blocking rpc",
\* lock_tester) one worker is always left for it.
ReleaseServed ==
  \A t \in Threads :
    (call[t] # NoCall /\ call[t].op = "release") ~> (call[t] = NoCall)

\* No wakeup is lost: as long as all processes live, a lock that somebody
\* waits for comes to be granted.
SomeoneGetsIt ==
  \A l \in Locks :
    (\E t \in Threads : call[t] = [op |-> "acquire", lock |-> l])
      ~> (dead # {} \/ \E t \in Threads : HasLock(t, l))

=============================================================================

------------------------------- MODULE ThrPool -------------------------------
(***************************************************************************)
(* The dispatch pool: ThrPool over a fifo with one mutex and two condition *)
(* variables, the worker threads, the threads that add jobs, and ~ThrPool, *)
(* which sends one poison pill per worker and joins them all.              *)
(*                                                                         *)
(* Grain.  A step is one stretch under the mutex of the fifo, up to a wait *)
(* or the end of enq and deq.  pthread_cond_signal wakes one waiter if     *)
(* there is any; a woken thread takes the mutex again later, so another    *)
(* may come first; a wait may also end without a signal.                   *)
(*                                                                         *)
(* A definition marked mutant is a wrong variant of the one after it.      *)
(***************************************************************************)
EXTENDS Integers, Sequences, FiniteSets, Functions

CONSTANTS
  Workers,     \* th_: ten of them in rpcs
  Jobs,        \* each is added once, by a thread of its own
  MaxQueue,    \* max_ of jobq_: 100 for each worker
  Destructor,  \* the thread that runs ~ThrPool
  Pill         \* a job_t whose f is NULL

ASSUME PoolAssumption ==
  /\ IsFiniteSet(Workers) /\ Workers # {}
  /\ MaxQueue \in Nat \ {0}
  /\ Pill \notin Jobs /\ Destructor \notin Jobs

Adders == Jobs \cup {Destructor}

VARIABLES
  blockadd,   \* blockadd_, given to the constructor: FALSE in rpcs
  q,          \* q_
  add,        \* the threads in enq: "idle", "wait" on has_space_c_, "woken",
              \* and then "true" or "false", what addJob returned
  wk,         \* workers: "take", "wait" on non_empty_c_, "woken", "run", "gone"
  job,        \* what a worker runs
  pills,      \* loop counter of ~ThrPool: poison pills put in the queue
  accepted,   \* history: what enq has put in the queue, in this order
  taken       \* history: what deq has taken from it, in this order

vars == <<blockadd, q, add, wk, job, pills, accepted, taken>>

Init ==
  /\ blockadd \in BOOLEAN
  /\ q        = << >>
  /\ add      = [a \in Adders |-> "idle"]
  /\ wk       = [w \in Workers |-> "take"]
  /\ job      = [w \in Workers |-> Pill]
  /\ pills    = 0
  /\ accepted = << >>
  /\ taken    = << >>

\* The states after a pthread_cond_signal: one of the waiters is woken.
Signal(st) ==
  LET waiting == {t \in DOMAIN st : st[t] = "wait"} IN
  IF waiting = {} THEN {st}
  ELSE {[st EXCEPT ![t] = "woken"] : t \in waiting}

-----------------------------------------------------------------------------
(* fifo::enq.                                                              *)

HasSpace == Len(q) < MaxQueue

Dropped(e) == IF q = << >> THEN <<e>> ELSE q                       \* mutant
Pushed(e)  == Append(q, e)

OnlyIfItWasEmpty == IF q = << >> THEN Signal(wk) ELSE {wk}         \* mutant
NonEmptySignal   == Signal(wk)

Enq(a, e, st) ==
  /\ HasSpace
  /\ q' = Pushed(e)
  /\ accepted' = Append(accepted, e)
  /\ wk' \in NonEmptySignal
  /\ add' = [add EXCEPT ![a] = st]
  /\ UNCHANGED <<blockadd, job, taken>>

EnqWaits(a) ==
  /\ ~HasSpace
  /\ add' = [add EXCEPT ![a] = "wait"]
  /\ UNCHANGED <<blockadd, q, wk, job, pills, accepted, taken>>

\* addJob, by a thread that adds the job j.  ~ThrPool runs only "when no
\* external thread will ever use this thread pool again".
Adding(j) ==
  \/ add[j] = "woken"
  \/ add[j] = "idle" /\ add[Destructor] = "idle"

AddJob(j) ==
  /\ Adding(j)
  /\ Enq(j, j, "true")
  /\ UNCHANGED pills

AddJobWaits(j) ==
  /\ Adding(j) /\ blockadd
  /\ EnqWaits(j)

AddJobFails(j) ==
  /\ Adding(j) /\ ~blockadd /\ ~HasSpace
  /\ add' = [add EXCEPT ![j] = "false"]
  /\ UNCHANGED <<blockadd, q, wk, job, pills, accepted, taken>>

-----------------------------------------------------------------------------
(* do_worker and fifo::deq.                                                *)

WhenEmptied    == IF Len(q) = 1 THEN Signal(add) ELSE {add}        \* mutant
HasSpaceSignal == IF Len(q) - 1 < MaxQueue THEN Signal(add) ELSE {add}

Deq(w) ==
  /\ wk[w] \in {"take", "woken"} /\ q # << >>
  /\ q'     = Tail(q)
  /\ taken' = Append(taken, Head(q))
  /\ job'   = [job EXCEPT ![w] = Head(q)]
  /\ wk'    = [wk EXCEPT ![w] = IF Head(q) = Pill THEN "gone" ELSE "run"]
  /\ add' \in HasSpaceSignal
  /\ UNCHANGED <<blockadd, pills, accepted>>

DeqWaits(w) ==
  /\ wk[w] \in {"take", "woken"} /\ q = << >>
  /\ wk' = [wk EXCEPT ![w] = "wait"]
  /\ UNCHANGED <<blockadd, q, add, job, pills, accepted, taken>>

\* The job is run to its end; jobs return.
RunJob(w) ==
  /\ wk[w] = "run"
  /\ wk'  = [wk EXCEPT ![w] = "take"]
  /\ job' = [job EXCEPT ![w] = Pill]
  /\ UNCHANGED <<blockadd, q, add, pills, accepted, taken>>

-----------------------------------------------------------------------------
(* ~ThrPool, when no other thread is in addJob or will call it.            *)

Quiet == \A j \in Jobs : add[j] \in {"idle", "true", "false"}

OnePill    == 1                                                    \* mutant
OneTooMany == Cardinality(Workers) + 1                             \* mutant
PillsToAdd == Cardinality(Workers)

Destroying ==
  /\ Quiet
  /\ add[Destructor] \in {"idle", "more", "woken"}
  /\ pills < PillsToAdd

AddPill ==
  /\ Destroying
  /\ Enq(Destructor, Pill, "more")
  /\ pills' = pills + 1

AddPillWaits ==
  /\ Destroying
  /\ EnqWaits(Destructor)

NoJoin  == TRUE                                                    \* mutant
AllGone == \A w \in Workers : wk[w] = "gone"

Join ==
  /\ add[Destructor] = "more"
  /\ pills = PillsToAdd
  /\ AllGone
  /\ add' = [add EXCEPT ![Destructor] = "true"]
  /\ UNCHANGED <<blockadd, q, wk, job, pills, accepted, taken>>

-----------------------------------------------------------------------------
\* pthread_cond_wait may return without a signal.
SpuriousWakeup ==
  \/ \E a \in Adders : /\ add[a] = "wait"
                       /\ add' = [add EXCEPT ![a] = "woken"]
                       /\ UNCHANGED <<blockadd, q, wk, job, pills, accepted, taken>>
  \/ \E w \in Workers : /\ wk[w] = "wait"
                        /\ wk' = [wk EXCEPT ![w] = "woken"]
                        /\ UNCHANGED <<blockadd, q, add, job, pills, accepted, taken>>

AddNext(j) == AddJob(j) \/ AddJobWaits(j) \/ AddJobFails(j)
WorkerNext(w) == Deq(w) \/ DeqWaits(w) \/ RunJob(w)
DestructorNext == AddPill \/ AddPillWaits \/ Join

Next ==
  \/ \E j \in Jobs : AddNext(j)
  \/ \E w \in Workers : WorkerNext(w)
  \/ DestructorNext
  \/ SpuriousWakeup

Spec == Init /\ [][Next]_vars

\* Every thread of the pool, and a thread that has begun addJob or ~ThrPool,
\* goes on.  Nobody is made to begin either.
Fairness ==
  /\ \A w \in Workers : WF_vars(WorkerNext(w))
  /\ \A j \in Jobs : WF_vars(add[j] = "woken" /\ AddNext(j))
  /\ WF_vars(add[Destructor] # "idle" /\ DestructorNext)

FairSpec == Spec /\ Fairness

-----------------------------------------------------------------------------
TypeOK ==
  /\ blockadd \in BOOLEAN
  /\ q        \in Seq(Jobs \cup {Pill})
  /\ add      \in [Adders -> {"idle", "wait", "woken", "more", "true", "false"}]
  /\ wk       \in [Workers -> {"take", "wait", "woken", "run", "gone"}]
  /\ job      \in [Workers -> Jobs \cup {Pill}]
  /\ pills    \in 0..Cardinality(Workers)
  /\ accepted \in Seq(Jobs \cup {Pill})
  /\ taken    \in Seq(Jobs \cup {Pill})

\* What enq took in is what deq gives out, in the same order and each once,
\* and addJob tells its caller the truth: a job it refused is not in the queue
\* (rpcs::got_pdu keeps the PDU and its references then).
Accounted ==
  /\ accepted = taken \o q
  /\ \A j \in Jobs : add[j] = "true" <=> \E i \in DOMAIN accepted : accepted[i] = j

\* No signal is lost or taken by the wrong thread for good: while a worker
\* sleeps, there are as many others on their way to the queue as it has jobs;
\* while a thread sleeps in enq, as many others as the queue has free places.
NoLostWakeup ==
  /\ (\E w \in Workers : wk[w] = "wait") =>
       Len(q) <= Cardinality({w \in Workers : wk[w] \in {"take", "woken"}})
  /\ (\E a \in Adders : add[a] = "wait") =>
       MaxQueue - Len(q) <= Cardinality({a \in Adders : add[a] = "woken"})

\* ~ThrPool "involves waiting for current active RPC handlers to finish"
\* (rpc.cc): when it returns, every job that was accepted has been run, and no
\* worker is left.
ShutdownComplete ==
  add[Destructor] = "true" =>
    /\ \A w \in Workers : wk[w] = "gone"
    /\ \A j \in Jobs : add[j] = "true" => j \in Range(taken)
    /\ q = << >>

\* A job that was accepted is run to its end.
JobsRun ==
  \A j \in Jobs :
    add[j] = "true" ~> (j \in Range(taken) /\ \A w \in Workers : job[w] # j)

\* The poison pills reach every worker: ~ThrPool returns.
DestructorReturns ==
  (add[Destructor] # "idle") ~> (add[Destructor] = "true")

=============================================================================

------------------------------- MODULE Dispatch -------------------------------
(***************************************************************************)
(* The memory of the server: who holds a connection and when it is deleted *)
(* (connection::incref and decref, the listener's garbage collection), and *)
(* who holds the buffer of a reply and when it is freed (reply_window_).   *)
(* Several connections of one client come and go while workers dispatch    *)
(* its requests, until ~rpcs.                                              *)
(*                                                                         *)
(* The client is there for its xid_rep_window_ (module XidWindow), which   *)
(* tells the server what to free.  Module Rpc has what calls return.       *)
(*                                                                         *)
(* A definition marked mutant is a wrong variant of the one after it.      *)
(***************************************************************************)
EXTENDS XidWindow, FiniteSets

CONSTANTS
  MaxConns,    \* bound: the connections the client makes
  MaxWork,     \* bound: its calls and connections together
  Workers      \* the threads of the dispatch pool

ASSUME DispatchAssumption == MaxConns \in Nat /\ MaxWork \in Nat /\ IsFiniteSet(Workers)

Conns  == 1..MaxConns
NoConn == 0

VARIABLES
  (* the client, next to xid_rep_window_ and what it was told *)
  xid,       \* xid_: the next one
  calls,     \* the xids in calls_
  hdr,       \* the xid_rep of each call
  stale,     \* the calls whose header names an earlier instance of the server
  at,        \* the connection its request was last sent on
  chan,      \* the number of connections made; the last one is chan_
  (* the network: pairs of an xid and a connection, and xids answered on chan_ *)
  reqs, answers,
  (* the server's connections *)
  made,      \* how many were accepted
  stamp,     \* create_time_
  dead,      \* those with dead_ set
  refno, deleted,
  leaked,    \* how often dispatch returned with a reference (no variable of the code)
  listed,    \* tcpsconn::conns_
  latest,    \* rpcs::conns_ of the client, NoConn if it has none
  jobs,      \* pairs of an xid and a connection
  (* the accept thread: "select", "gc" or "drop", what its iterator has ahead,
     and the connection it stands on *)
  apc, ahead, victim,
  (* the workers, and the reply window of the client *)
  wk, mark, list,
  buf,       \* the buffer of each reply: "none", "held" or "freed"
  server     \* "up", "closing" in ~rpcs, "gone", or "aborted"

cliVars  == <<window, reported, xid, calls, hdr, stale, at, chan>>
netVars  == <<reqs, answers>>
connVars == <<made, stamp, dead, refno, deleted, leaked>>
accVars  == <<listed, apc, ahead, victim>>
winVars  == <<mark, list, buf>>
vars  == <<cliVars, netVars, connVars, accVars, latest, jobs, wk, winVars, server>>

IdleWorker == [pc |-> "idle", xid |-> 0, conn |-> NoConn, b1 |-> FALSE]

Init ==
  /\ EmptyWindow
  /\ xid = 1 /\ calls = {}
  /\ hdr = [x \in Xids |-> 0] /\ stale = {}
  /\ at = [x \in Xids |-> NoConn] /\ chan = 0
  /\ reqs = {} /\ answers = {}
  /\ made = 0 /\ stamp = [k \in Conns |-> 0] /\ dead = {}
  /\ refno = [k \in Conns |-> 0] /\ deleted = {} /\ leaked = [k \in Conns |-> 0]
  /\ listed = {} /\ apc = "select" /\ ahead = {} /\ victim = NoConn
  /\ latest = NoConn /\ jobs = {} /\ wk = [w \in Workers |-> IdleWorker]
  /\ mark = 0 /\ list = <<>> /\ buf = [x \in Xids |-> "none"]
  /\ server = "up"

-----------------------------------------------------------------------------
(* The client.                                                             *)

\* srv_nonce_ is 0 until bind() has returned, and stays what it then is: after
\* a call that names an earlier instance all do.
Issue ==
  /\ xid \in Xids /\ xid + chan <= MaxWork
  /\ calls' = calls \cup {xid}
  /\ hdr'   = [hdr EXCEPT ![xid] = Head(window)]
  /\ xid'   = xid + 1
  /\ \/ stale' = stale \cup {xid}
     \/ stale = {} /\ stale' = {}
  /\ UNCHANGED <<window, reported, at, chan, netVars, connVars, accVars, latest,
                 jobs, wk, winVars, server>>

\* get_refconn when chan_ is dead: what was in flight to the client is lost.
Connect ==
  /\ chan < MaxConns /\ xid + chan <= MaxWork
  /\ chan' = chan + 1
  /\ answers' = {}
  /\ UNCHANGED <<window, reported, xid, calls, hdr, stale, at, reqs, connVars,
                 accVars, latest, jobs, wk, winVars, server>>

\* A call sends its request once on a connection; a dead one loses it.
Transmit(x) ==
  /\ x \in calls /\ at[x] < chan
  /\ at'   = [at EXCEPT ![x] = chan]
  /\ reqs' = IF chan \in dead THEN reqs ELSE reqs \cup {<<x, chan>>}
  /\ UNCHANGED <<window, reported, xid, calls, hdr, stale, chan, answers, connVars,
                 accVars, latest, jobs, wk, winVars, server>>

\* got_pdu of rpcc, which reports the xid also if the call has ended.
GotReply(x) ==
  /\ x \in answers
  /\ answers' = answers \ {x}
  /\ UpdateXidRep(x)
  /\ UNCHANGED <<xid, calls, hdr, stale, at, chan, reqs, connVars, accVars,
                 latest, jobs, wk, winVars, server>>

\* The end of call1: answered, timed out or cancelled.
EndCall(x) ==
  /\ x \in calls
  /\ calls' = calls \ {x}
  /\ UpdateXidRep(x)
  /\ UNCHANGED <<xid, hdr, stale, at, chan, netVars, connVars, accVars,
                 latest, jobs, wk, winVars, server>>

-----------------------------------------------------------------------------
(* Connections.  Each holder of a pointer to one owns a reference to it.   *)

\* decref of k, where K is what died before it: the last holder of a dead
\* connection deletes it.
Decref(k, K) ==
  /\ refno' = [refno EXCEPT ![k] = @ - 1]
  /\ deleted' = IF refno[k] = 1 /\ k \in K THEN deleted \cup {k} ELSE deleted

ConnDies(k) ==
  /\ k \in 1..made \ dead
  /\ dead' = dead \cup {k}
  /\ reqs' = {m \in reqs : m[2] # k}
  /\ UNCHANGED <<cliVars, answers, made, stamp, refno, deleted, leaked, accVars,
                 latest, jobs, wk, winVars, server>>

\* process_accept: the new connection is read from before it is in conns_.
\* Two that are made in the same microsecond have the same create_time_.
Accept ==
  /\ server = "up" /\ apc = "select"
  /\ made < chan
  /\ made' = made + 1
  /\ \E t \in IF made = 0 THEN {0} ELSE {stamp[made], stamp[made] + 1} :
       stamp' = [stamp EXCEPT ![made + 1] = t]
  /\ refno' = [refno EXCEPT ![made + 1] = 1]
  /\ apc' = "gc" /\ ahead' = listed
  /\ UNCHANGED <<cliVars, netVars, dead, deleted, leaked, listed, victim, latest,
                 jobs, wk, winVars, server>>

\* The process ends: its sockets are closed, its threads gone.
Abort ==
  /\ server' = "aborted"
  /\ dead' = 1..made /\ reqs' = {} /\ jobs' = {}
  /\ wk' = [w \in Workers |-> IdleWorker]
  /\ apc' = "select" /\ ahead' = {} /\ victim' = NoConn

Collectable(k) == k \in dead /\ refno[k] = 1

\* What is dead stays dead, so isdead() and then ref() are one step; decref is
\* another.
GcTest(k) ==
  /\ apc = "gc" /\ k \in ahead
  /\ ahead' = ahead \ {k}
  /\ IF Collectable(k) THEN apc' = "drop" /\ victim' = k
                       ELSE UNCHANGED <<apc, victim>>
  /\ UNCHANGED <<cliVars, netVars, connVars, listed, latest, jobs, wk,
                 winVars, server>>

\* decref, and conns_.erase(i).  The loop then advances the iterator i of the
\* node that was freed: it goes on anywhere, or ends, or the process crashes.
GcDrop ==
  /\ apc = "drop"
  /\ Decref(victim, dead)
  /\ listed' = listed \ {victim}
  /\ \/ /\ ahead' \in SUBSET (listed \ {victim})
        /\ victim' = NoConn /\ apc' = "gc"
        /\ UNCHANGED <<server, dead, reqs, jobs, wk>>
     \/ Abort
  /\ UNCHANGED <<cliVars, answers, made, stamp, leaked, latest, winVars>>

GcEnd ==
  /\ apc = "gc" /\ ahead = {}
  /\ apc' = "select"
  /\ listed' = listed \cup {made}
  /\ UNCHANGED <<cliVars, netVars, connVars, ahead, victim, latest, jobs, wk,
                 winVars, server>>

Borrowed(k) == refno                                                \* mutant
Incref(k)   == [refno EXCEPT ![k] = @ + 1]

\* got_pdu of rpcs, on the poll thread: the job holds a reference.  When the
\* pool refuses the job, incref and decref cancel and the request stays.
GotRequest(x, k) ==
  /\ <<x, k>> \in reqs
  /\ k \in 1..made \ dead
  /\ reqs' = reqs \ {<<x, k>>}
  /\ jobs' = jobs \cup {<<x, k>>}
  /\ refno' = Incref(k)
  /\ UNCHANGED <<cliVars, answers, made, stamp, dead, deleted, leaked, accVars,
                 latest, wk, winVars, server>>

-----------------------------------------------------------------------------
(* dispatch, on a worker.                                                  *)

Goes(w, pc) == wk' = [wk EXCEPT ![w].pc = pc]

\* The end of dispatch.
Leave(w) == Decref(wk[w].conn, dead) /\ wk' = [wk EXCEPT ![w] = IdleWorker]

\* Under conss_m_: conns_ keeps a reference to the connection it holds, and
\* gives that of the one before back.
KeepsBoth(k) == refno' = Incref(k) /\ UNCHANGED deleted             \* mutant
Replaces(k)  ==
  IF latest = NoConn
    THEN refno' = Incref(k) /\ UNCHANGED deleted
    ELSE /\ refno' = [refno EXCEPT ![k] = @ + 1, ![latest] = @ - 1]
         /\ deleted' = IF refno[latest] = 1 /\ latest \in dead
                         THEN deleted \cup {latest} ELSE deleted

Sent(x, k) == IF k = chan /\ chan \notin dead THEN answers \cup {x} ELSE answers

\* No header, or a procedure that is not registered (yet): dispatch returns.
\* Of which requests that holds, and when, is left open.
NoHandler(w, j) ==
  /\ wk[w].pc = "idle" /\ j \in jobs /\ j[1] \notin stale
  /\ jobs' = jobs \ {j}
  /\ Decref(j[2], dead)
  /\ UNCHANGED <<cliVars, netVars, made, stamp, dead, leaked, accVars, latest,
                 wk, winVars, server>>

\* A request for an earlier instance is answered with oldsrv_failure, and
\* dispatch returns without decref.
OldInstance(w, j) ==
  /\ wk[w].pc = "idle" /\ j \in jobs /\ j[1] \in stale
  /\ jobs' = jobs \ {j}
  /\ answers' = Sent(j[1], j[2])
  /\ leaked' = [leaked EXCEPT ![j[2]] = @ + 1]
  /\ UNCHANGED <<cliVars, reqs, made, stamp, dead, refno, deleted, accVars,
                 latest, wk, winVars, server>>

\* Any other: the reference of the job becomes that of the worker.
TakeJob(w, j) ==
  LET k == j[2] IN
  /\ wk[w].pc = "idle" /\ j \in jobs /\ j[1] \notin stale
  /\ jobs' = jobs \ {j}
  /\ wk' = [wk EXCEPT ![w] =
              [pc |-> "check", xid |-> j[1], conn |-> k, b1 |-> FALSE]]
  /\ IF latest = NoConn \/ stamp[latest] < stamp[k]
       THEN latest' = k /\ Replaces(k)
       ELSE UNCHANGED <<latest, refno, deleted>>
  /\ UNCHANGED <<cliVars, netVars, made, stamp, dead, leaked, accVars, winVars,
                 server>>

\* checkduplicate_and_update, under reply_window_m_: one pass over the list,
\* which stops at the entry of the request and on the way frees and erases
\* what is out of date.
NewMark(x) == IF hdr[x] > mark THEN hdr[x] ELSE mark

Place(x) == SelectInSeq(list, LAMBDA e : e.xid = x)
Before(x) == IF Place(x) = 0 THEN list ELSE SubSeq(list, 1, Place(x) - 1)
From(x)   == IF Place(x) = 0 THEN <<>> ELSE SubSeq(list, Place(x), Len(list))

BelowXid(e, x)  == e.xid < x                                        \* mutant
OutOfDate(e, x) == e.xid < NewMark(x)

\* What the pass leaves of the entries s it comes by.
NothingErased(s, x) == s                                            \* mutant
Kept(s, x) ==
  LET kept[i \in 0..Len(s)] ==
        IF i = 0 THEN <<>>
        ELSE IF OutOfDate(s[i], x) THEN kept[i - 1] ELSE Append(kept[i - 1], s[i])
  IN  kept[Len(s)]

Freed(S) == buf' = [x \in Xids |-> IF x \in S THEN "freed" ELSE buf[x]]

\* The pass for x: what it frees, and the list it leaves.
Pass(x, rest) ==
  /\ mark' = NewMark(x)
  /\ Freed({e.xid : e \in {f \in ToSet(Before(x)) : OutOfDate(f, x) /\ f.done}})
  /\ list' = Kept(Before(x), x) \o rest

Forgotten(w) ==
  LET x == wk[w].xid IN
  /\ wk[w].pc = "check" /\ x < NewMark(x)
  /\ mark' = NewMark(x)
  /\ Goes(w, "send")
  /\ UNCHANGED <<cliVars, netVars, connVars, accVars, latest, jobs, list, buf, server>>

Duplicate(w) ==
  LET x == wk[w].xid IN
  /\ wk[w].pc = "check" /\ x >= NewMark(x)
  /\ Place(x) # 0 /\ list[Place(x)].done
  /\ Pass(x, From(x))
  /\ wk' = [wk EXCEPT ![w].pc = "send", ![w].b1 = TRUE]
  /\ UNCHANGED <<cliVars, netVars, connVars, accVars, latest, jobs, server>>

InProgress(w) ==
  LET x == wk[w].xid IN
  /\ wk[w].pc = "check" /\ x >= NewMark(x)
  /\ Place(x) # 0 /\ ~list[Place(x)].done
  /\ Pass(x, From(x))
  /\ Leave(w)
  /\ UNCHANGED <<cliVars, netVars, made, stamp, dead, leaked, accVars, latest, jobs,
                 server>>

NewRequest(w) ==
  LET x == wk[w].xid IN
  /\ wk[w].pc = "check" /\ x >= NewMark(x)
  /\ Place(x) = 0
  /\ Pass(x, <<[xid |-> x, done |-> FALSE]>>)
  /\ Goes(w, "run")
  /\ UNCHANGED <<cliVars, netVars, connVars, accVars, latest, jobs, server>>

\* The handler has returned: add_reply stores the buffer, under reply_window_m_.
AddReply(w) ==
  LET x == wk[w].xid IN
  /\ wk[w].pc = "run" /\ Place(x) # 0
  /\ list' = [list EXCEPT ![Place(x)].done = TRUE]
  /\ buf'  = [buf EXCEPT ![x] = "held"]
  /\ wk' = [wk EXCEPT ![w].pc = "pick", ![w].b1 = TRUE]
  /\ UNCHANGED <<cliVars, netVars, connVars, accVars, latest, jobs, mark, server>>

\* The entry was out of date and is gone: assert(0).
AddReplyAsserts(w) ==
  /\ wk[w].pc = "run" /\ Place(wk[w].xid) = 0
  /\ Abort
  /\ UNCHANGED <<cliVars, answers, made, stamp, refno, deleted, leaked, listed,
                 latest, winVars>>

\* Under conss_m_: the reply goes to the latest connection if that of the
\* request is dead.
PickConn(w) ==
  LET k == wk[w].conn IN
  /\ wk[w].pc = "pick"
  /\ IF k \in dead /\ k # latest
       THEN /\ wk' = [wk EXCEPT ![w].pc = "send", ![w].conn = latest]
            /\ refno' = [refno EXCEPT ![k] = @ - 1, ![latest] = @ + 1]
            /\ deleted' = IF refno[k] = 1 THEN deleted \cup {k} ELSE deleted
       ELSE Goes(w, "send") /\ UNCHANGED <<refno, deleted>>
  /\ UNCHANGED <<cliVars, netVars, made, stamp, dead, leaked, accVars, latest, jobs,
                 winVars, server>>

\* c->send(), with no lock of the window held.
SendReply(w) ==
  /\ wk[w].pc = "send"
  /\ answers' = Sent(wk[w].xid, wk[w].conn)
  /\ Leave(w)
  /\ UNCHANGED <<cliVars, reqs, made, stamp, dead, leaked, accVars, latest, jobs,
                 winVars, server>>

-----------------------------------------------------------------------------
(* ~rpcs: the listener, the pool, the reply window, in that order.         *)

\* ~tcpsconn joins the accept thread, then closes every connection in turn;
\* closeconn waits until the poll thread can call it no more.
Stop ==
  /\ server = "up" /\ apc = "select"
  /\ server' = "closing"
  /\ UNCHANGED <<cliVars, netVars, connVars, accVars, latest, jobs, wk, winVars>>

NoClose(k) == dead                                                  \* mutant
Closed(k) == dead \cup {k}

CloseOne(k) ==
  /\ server = "closing" /\ k \in listed
  /\ dead' = Closed(k)
  /\ Decref(k, dead')
  /\ listed' = listed \ {k}
  /\ UNCHANGED <<cliVars, netVars, made, stamp, leaked, apc, ahead, victim, latest,
                 jobs, wk, winVars, server>>

\* ~ThrPool returns when the jobs are done; free_reply_window.
FreeReplyWindow ==
  /\ server = "closing" /\ listed = {}
  /\ jobs = {} /\ \A w \in Workers : wk[w].pc = "idle"
  /\ server' = "gone"
  /\ Freed({e.xid : e \in {f \in ToSet(list) : f.done}})
  /\ list' = <<>>
  /\ UNCHANGED <<cliVars, netVars, connVars, accVars, latest, jobs, wk, mark>>

WorkerNext(w) ==
  \/ \E j \in jobs : NoHandler(w, j) \/ OldInstance(w, j) \/ TakeJob(w, j)
  \/ Forgotten(w) \/ Duplicate(w) \/ InProgress(w) \/ NewRequest(w)
  \/ AddReply(w) \/ AddReplyAsserts(w) \/ PickConn(w) \/ SendReply(w)

ServerNext ==
  \/ \E w \in Workers : WorkerNext(w)
  \/ \E x \in Xids, k \in Conns : GotRequest(x, k)
  \/ \E k \in Conns : ConnDies(k)
  \/ Accept \/ GcDrop \/ GcEnd \/ \E k \in ahead : GcTest(k)
  \/ Stop \/ FreeReplyWindow \/ \E k \in listed : CloseOne(k)

ClientNext ==
  Issue \/ Connect \/ \E x \in Xids : Transmit(x) \/ GotReply(x) \/ EndCall(x)

Next == ClientNext \/ ServerNext

Spec == Init /\ [][Next]_vars

-----------------------------------------------------------------------------
TypeOK ==
  /\ xid \in 1..MaxXid + 1 /\ calls \subseteq Xids /\ chan \in 0..MaxConns
  /\ hdr \in [Xids -> 0..MaxXid] /\ stale \subseteq Xids /\ at \in [Xids -> Conns \cup {NoConn}]
  /\ reqs \subseteq Xids \X Conns /\ answers \subseteq Xids
  /\ made \in 0..chan /\ stamp \in [Conns -> Nat]
  /\ refno \in [Conns -> Nat] /\ leaked \in [Conns -> Nat]
  /\ deleted \subseteq dead /\ dead \subseteq 1..made /\ listed \subseteq 1..made
  /\ latest \in 0..made /\ jobs \subseteq Xids \X (1..made)
  /\ apc \in {"select", "gc", "drop"} /\ ahead \subseteq listed
  /\ wk \in [Workers ->
                [pc : {"check", "run", "pick", "send"},
                 xid : Xids, conn : 1..made, b1 : BOOLEAN] \cup {IdleWorker}]
  /\ mark \in 0..MaxXid /\ \A i \in DOMAIN list : list[i].xid \in Xids
  /\ buf \in [Xids -> {"none", "held", "freed"}]
  /\ server \in {"up", "closing", "gone", "aborted"}

\* The accept thread holds the reference a connection is made with until it
\* has put it into conns_.
Count(b) == IF b THEN 1 ELSE 0

Holders(k) ==
  Count(k \in listed) + Count(k = made /\ apc # "select") + Count(k = latest)
    + Cardinality({j \in jobs : j[2] = k})
    + Cardinality({w \in Workers : wk[w].conn = k})

\* The references that nobody has given back yet.
Owed(k) == Holders(k) + leaked[k]

\* refno_ counts exactly who points to the connection (listener, conns_ of
\* rpcs, queued jobs, workers) and the requests for an earlier instance that
\* were answered on it, which never give theirs back.  So nobody is left with a
\* pointer to a deleted connection, and a dead one without such a request is
\* kept by nothing else: not when the garbage collection tests two conditions
\* under two mutexes and then drops, nor when a worker or conns_ moves to
\* another connection at that moment.
RefsExact ==
  server # "aborted" =>
    \A k \in 1..made :
      /\ refno[k] = Owed(k)
      /\ k \in deleted <=> Owed(k) = 0

\* The buffer of a reply belongs to the one entry of its xid in reply_window_,
\* as "free_reply_window() and checkduplicate_and_update is responsible for
\* calling free(b)" says: none is freed twice, and none is lost.
BuffersOwned ==
  /\ \A i, j \in DOMAIN list : list[i].xid = list[j].xid => i = j
  /\ \A x \in Xids :
       buf[x] = "held" <=> \E e \in ToSet(list) : e.xid = x /\ e.done

\* A reply is sent after reply_window_m_ is unlocked, for a new request and for
\* a duplicate.  Its buffer is still there unless the client has reported the
\* xid: no call is answered with freed memory while its caller waits.
SentIfWaited ==
  \A w \in Workers :
    wk[w].b1 /\ wk[w].xid \notin reported => buf[wk[w].xid] = "held"

\* When ~rpcs is through, every reply is freed, and the connections that are
\* not deleted are the one that conns_ never gives up and those on which a
\* request for an earlier instance was answered.
CleanExit ==
  server = "gone" =>
    /\ \A x \in Xids : buf[x] # "held"
    /\ 1..made \ deleted = {k \in 1..made : k = latest \/ leaked[k] > 0}

-----------------------------------------------------------------------------
(* What the code does not keep: violated.                                  *)

\* "duplicate and we still have the response" (dispatch, case DONE): what is
\* sent is there while it is sent.
ResponseThere ==
  \A w \in Workers :
    wk[w].pc = "send" /\ wk[w].b1 => buf[wk[w].xid] = "held"

\* "garbage collect all dead connections with refcount of 1" (process_accept)
\* takes the references to be those of who points to the connection; after
\* OldInstance there is one that nobody has.
NoLeak == server # "aborted" => \A k \in 1..made : refno[k] = Holders(k)

=============================================================================

--------------------------------- MODULE Rpc ---------------------------------
(***************************************************************************)
(* The RPC library: the client end point rpcc (call1, get_refconn,         *)
(* got_pdu, bind, cancel), the server end point rpcs (got_pdu, dispatch,   *)
(* checkduplicate_and_update, add_reply) and the connections between them. *)
(*                                                                         *)
(* Grain.  A step is one critical section of the code, together with the   *)
(* thread-local work around it.  A call is named by its client and its     *)
(* xid: the application thread blocked in call1 needs no other name.  The  *)
(* request header is packed once and reused by every retransmission, so a  *)
(* request in flight is the call it belongs to and its connection.         *)
(*                                                                         *)
(* Network.  A connection has two ends, which die separately and at any    *)
(* time (a lossy shutdown, a read or write error, the peer's shutdown seen *)
(* later).  What is in flight reaches an end only while that end is alive. *)
(* Requests are kept in sets: ten workers take them off one queue and race *)
(* for the reply window, so their order of arrival decides nothing.        *)
(*                                                                         *)
(* A definition marked mutant is a wrong variant of the one after it.  No  *)
(* specification uses it: put in its place, it makes a property fail.      *)
(***************************************************************************)
EXTENDS Integers, FiniteSets

CONSTANTS
  Clients,       \* the rpcc objects, each with a clt_nonce_ of its own
  PlainClients,  \* those made with retrans = false: clt_nonce_ is 0
  Workers,       \* the threads of the dispatch pool
  MaxXid,        \* bound: the calls a client issues
  MaxConns,      \* bound: the connections ever opened
  MaxInc,        \* bound: the server instances started one after the other
  MaxJobs        \* the places in the queue of the dispatch pool

ASSUME RpcAssumption ==
  /\ PlainClients \subseteq Clients
  /\ MaxXid \in Nat
  /\ MaxConns \in Nat
  /\ MaxInc \in Nat \ {0}
  /\ MaxJobs \in Nat \ {0}

Xids     == 1..MaxXid
Conns    == 1..MaxConns      \* in the order in which they are opened
NoConn   == 0                \* a NULL connection pointer
Nonces   == 0..MaxInc        \* nonce of a server instance; 0 before bind

Procs    == {"bind", "op"}
\* What call1 returns: the handler's answer, or one of the rpc_const codes
\* oldsrv_failure, atmostonce_failure, timeout_failure, cancel_failure.
Replies  == {"ok", "oldsrv", "amo"}
Results  == Replies \cup {"timeout", "cancel"}

VARIABLES
  (* rpcc *)
  xid,         \* xid_: the next xid
  bound,       \* srv_nonce_, 0 as long as bind_done_ is false
  cancelled,   \* destroy_wait_
  chan,        \* chan_
  acked,       \* the xids given to update_xid_rep, see module XidWindow
  (* the callers: one per call *)
  st,          \* "idle", then "new" and "wait" in calls_, then "returned"
  hdr,         \* the packed request header
  ch,          \* the connection the call was last sent on
  ret,         \* intret once done is true, "none" before
  val,         \* the value in the reply (for bind, the server's nonce)
  (* connections *)
  nconn,       \* number of connections opened so far
  cliDead,     \* dead_ at the client's end
  srvDead,     \* dead_ at the server's end
  reqs,        \* requests in flight
  replies,     \* replies in flight
  (* rpcs *)
  srv,         \* "up", "down", or the failed line: "noentry", "nullconn"
  inc,         \* nonce_ of the present instance
  jobs,        \* the queue of the dispatch pool
  wk,          \* what each worker is doing
  mark,        \* rereply_window_
  win,         \* reply_window_
  last,        \* conns_: the latest connection of each client
  (* requests that get no worker *)
  kept,        \* those in rpdu_ of their connection, refused by a full queue
  known,       \* procs_ has the handler of "op"
  unknown,     \* history: those dropped because procs_ had no handler
  (* history *)
  execs        \* how often a handler ran for each call

cliVars  == <<xid, bound, cancelled, chan, acked>>
callVars == <<st, hdr, ch, ret, val>>
netVars  == <<nconn, cliDead, srvDead, reqs, replies>>
srvVars  == <<srv, inc, jobs, wk, mark, win, last>>
leftVars == <<kept, known, unknown>>
vars     == <<cliVars, callVars, netVars, srvVars, leftVars, execs>>

Request == [clt : Clients, xid : Xids, conn : Conns]
Reply   == [clt : Clients, xid : Xids, conn : Conns,
            ret : Replies, val : Nonces]
Header  == [proc : Procs, nonce : Nonces, rep : 0..MaxXid]

NoHeader == [proc |-> "bind", nonce |-> 0, rep |-> 0]
IdleWorker == [pc |-> "idle"]
Job == [pc : {"check", "run", "add", "send"},
        clt : Clients, xid : Xids, conn : Conns]

Outstanding(c) == {x \in Xids : st[c][x] \in {"new", "wait"}}

\* The call is in calls_ and its done flag is false.
LateReplyTaken(c, x) == st[c][x] # "idle"                         \* mutant
Waiting(c, x) == st[c][x] \in {"new", "wait"} /\ ret[c][x] = "none"

\* n is the front of xid_rep_window_: all xids up to n were reported, n+1 not.
HighestReported(n, S) == n \in S /\ \A i \in S : i <= n            \* mutant
IsFront(n, S) == 1..n \subseteq S /\ n + 1 \notin S

EmptyWindow == [c \in Clients |-> [x \in Xids |-> "none"]]

Init ==
  /\ xid       = [c \in Clients |-> 1]
  /\ bound     = [c \in Clients |-> 0]
  /\ cancelled = [c \in Clients |-> FALSE]
  /\ chan      = [c \in Clients |-> NoConn]
  /\ acked     = [c \in Clients |-> {}]
  /\ st        = [c \in Clients |-> [x \in Xids |-> "idle"]]
  /\ hdr       = [c \in Clients |-> [x \in Xids |-> NoHeader]]
  /\ ch        = [c \in Clients |-> [x \in Xids |-> NoConn]]
  /\ ret       = [c \in Clients |-> [x \in Xids |-> "none"]]
  /\ val       = [c \in Clients |-> [x \in Xids |-> 0]]
  /\ nconn     = 0
  /\ cliDead   = {}
  /\ srvDead   = {}
  /\ reqs      = {}
  /\ replies   = {}
  /\ srv       = "up"
  /\ inc       = 1
  /\ jobs      = {}
  /\ wk        = [w \in Workers |-> IdleWorker]
  /\ mark      = [c \in Clients |-> 0]
  /\ win       = EmptyWindow
  /\ last      = [c \in Clients |-> NoConn]
  /\ kept      = {}
  /\ known     = FALSE
  /\ unknown   = {}
  /\ execs     = [c \in Clients |-> [x \in Xids |-> 0]]

-----------------------------------------------------------------------------
(* The client: rpcc.                                                       *)

\* call1 up to the header: the caller enters calls_ under m_.  Its two early
\* returns (not bound, or bound twice; cancelled) leave no trace.
Issue(c, p) ==
  /\ (p = "bind") <=> (bound[c] = 0)
  /\ ~cancelled[c]
  /\ xid[c] \in Xids
  /\ \E n \in 0..MaxXid :
       /\ IsFront(n, acked[c])
       /\ hdr' = [hdr EXCEPT ![c][xid[c]] =
                    [proc |-> p, nonce |-> bound[c], rep |-> n]]
  /\ st'  = [st EXCEPT ![c][xid[c]] = "new"]
  /\ xid' = [xid EXCEPT ![c] = @ + 1]
  /\ UNCHANGED <<bound, cancelled, chan, acked, ch, ret, val,
                 netVars, srvVars, leftVars, execs>>

\* send() on connection k; a peer that is gone never reads the request.
PutRequest(c, x, k) ==
  reqs' = IF k \in srvDead THEN reqs
          ELSE reqs \cup {[clt |-> c, xid |-> x, conn |-> k]}

\* get_refconn: the present connection if it is alive, else a new one, else
\* (connect failed) none, and then the caller keeps the connection it had.
SendOnChan(c, x) ==
  /\ chan[c] # NoConn /\ chan[c] \notin cliDead
  /\ ch' = [ch EXCEPT ![c][x] = chan[c]]
  /\ PutRequest(c, x, chan[c])
  /\ UNCHANGED <<chan, nconn>>

SendOnNewChan(c, x) ==
  /\ chan[c] = NoConn \/ chan[c] \in cliDead
  /\ srv = "up"
  /\ nconn < MaxConns
  /\ nconn' = nconn + 1
  /\ chan'  = [chan EXCEPT ![c] = nconn + 1]
  /\ ch'    = [ch EXCEPT ![c][x] = nconn + 1]
  /\ PutRequest(c, x, nconn + 1)

ConnectFails(c) ==
  /\ chan[c] = NoConn \/ chan[c] \in cliDead
  /\ chan' = [chan EXCEPT ![c] = NoConn]
  /\ UNCHANGED <<ch, nconn, reqs>>

\* The transmit branch of call1: once at first, and again after a timeout
\* that finds the connection missing or dead (never if retrans_ is false).
PlainRetransmits(c, x) ==                                         \* mutant
  \/ st[c][x] = "new"
  \/ /\ st[c][x] = "wait" /\ ret[c][x] = "none"
     /\ ch[c][x] = NoConn \/ ch[c][x] \in cliDead

MustSend(c, x) ==
  \/ st[c][x] = "new"
  \/ /\ st[c][x] = "wait" /\ ret[c][x] = "none"
     /\ c \notin PlainClients
     /\ ch[c][x] = NoConn \/ ch[c][x] \in cliDead

Transmit(c, x) ==
  /\ MustSend(c, x)
  /\ SendOnChan(c, x) \/ SendOnNewChan(c, x) \/ ConnectFails(c)
  /\ st' = [st EXCEPT ![c][x] = "wait"]
  /\ UNCHANGED <<xid, bound, cancelled, acked, hdr, ret, val,
                 cliDead, srvDead, replies, srvVars, leftVars, execs>>

\* rpcc::got_pdu, on the poll thread.
GotReply(r) ==
  /\ r \in replies
  /\ r.conn \notin cliDead
  /\ replies' = replies \ {r}
  /\ acked' = [acked EXCEPT ![r.clt] = @ \cup {r.xid}]
  /\ IF Waiting(r.clt, r.xid)
       THEN /\ ret' = [ret EXCEPT ![r.clt][r.xid] = r.ret]
            /\ val' = [val EXCEPT ![r.clt][r.xid] = r.val]
       ELSE UNCHANGED <<ret, val>>
  /\ UNCHANGED <<xid, bound, cancelled, chan, st, hdr, ch,
                 nconn, cliDead, srvDead, reqs, srvVars, leftVars, execs>>

\* The end of call1: the wait was ended by done or by the final deadline.  The
\* caller leaves calls_, reports its xid once more, and reads done only then;
\* bind() stores the server's nonce.
Return(c, x) ==
  /\ st[c][x] = "wait"
  /\ st'    = [st EXCEPT ![c][x] = "returned"]
  /\ ret'   = [ret EXCEPT ![c][x] = IF @ = "none" THEN "timeout" ELSE @]
  /\ acked' = [acked EXCEPT ![c] = @ \cup {x}]
  /\ bound' = IF hdr[c][x].proc = "bind" /\ ret[c][x] = "ok"
                THEN [bound EXCEPT ![c] = val[c][x]] ELSE bound
  /\ UNCHANGED <<xid, cancelled, chan, hdr, ch, val, netVars,
                 srvVars, leftVars, execs>>

\* cancel(): every outstanding call is made to fail, also one that has its
\* reply, and no further call is accepted.
Cancel(c) ==
  /\ Outstanding(c) # {}
  /\ ret' = [ret EXCEPT ![c] = [x \in Xids |->
               IF x \in Outstanding(c) THEN "cancel" ELSE ret[c][x]]]
  /\ cancelled' = [cancelled EXCEPT ![c] = TRUE]
  /\ UNCHANGED <<xid, bound, chan, acked, st, hdr, ch, val,
                 netVars, srvVars, leftVars, execs>>

-----------------------------------------------------------------------------
(* Connections and the server process dying.                               *)

ClientEndDies(k) ==
  /\ k \in 1..nconn \ cliDead
  /\ cliDead' = cliDead \cup {k}
  /\ replies' = {r \in replies : r.conn # k}
  /\ UNCHANGED <<cliVars, callVars, nconn, srvDead, reqs,
                 srvVars, leftVars, execs>>

ServerEndDies(k) ==
  /\ k \in 1..nconn \ srvDead
  /\ srvDead' = srvDead \cup {k}
  /\ reqs' = {m \in reqs : m.conn # k}
  /\ kept' = {m \in kept : m.conn # k}
  /\ UNCHANGED <<cliVars, callVars, nconn, cliDead, replies, srvVars,
                 known, unknown, execs>>

\* The process ends: nothing it kept survives, its connections are cut.
ServerGone(why) ==
  /\ srv'     = why
  /\ jobs'    = {}
  /\ wk'      = [w \in Workers |-> IdleWorker]
  /\ mark'    = [c \in Clients |-> 0]
  /\ win'     = EmptyWindow
  /\ last'    = [c \in Clients |-> NoConn]
  /\ reqs'    = {}
  /\ srvDead' = 1..nconn
  /\ kept'    = {}
  /\ known'   = FALSE

Crash ==
  /\ srv = "up"
  /\ ServerGone("down")
  /\ UNCHANGED <<cliVars, callVars, nconn, cliDead, replies, inc, unknown, execs>>

Restart ==
  /\ srv # "up"
  /\ inc < MaxInc
  /\ srv' = "up"
  /\ inc' = inc + 1
  /\ UNCHANGED <<cliVars, callVars, netVars,
                 jobs, wk, mark, win, last, leftVars, execs>>

-----------------------------------------------------------------------------
(* The server: rpcs.                                                       *)

\* read_cb offers a request to rpcs::got_pdu: one it has just read, or the one
\* in rpdu_ when the socket is readable once more, and meanwhile it reads none.
Offered(m) ==
  /\ srv = "up" /\ m \in reqs /\ m.conn \notin srvDead
  /\ IF m \in kept
       THEN m.conn \in cliDead \/ \E n \in reqs \ {m} : n.conn = m.conn
       ELSE \A n \in kept : n.conn # m.conn

\* The request becomes a job of the dispatch pool.
GotRequest(m) ==
  /\ Offered(m) /\ Cardinality(jobs) < MaxJobs
  /\ reqs' = reqs \ {m}
  /\ kept' = kept \ {m}
  /\ jobs' = jobs \cup {m}
  /\ UNCHANGED <<cliVars, callVars, nconn, cliDead, srvDead, replies,
                 srv, inc, wk, mark, win, last, known, unknown, execs>>

\* addObjJob finds the queue full: the request stays in rpdu_.
TakenAllTheSame(m) == reqs' = reqs \ {m} /\ UNCHANGED kept          \* mutant
StaysInRpdu(m)     == kept' = kept \cup {m} /\ UNCHANGED reqs

RequestRefused(m) ==
  /\ Offered(m) /\ Cardinality(jobs) >= MaxJobs
  /\ StaysInRpdu(m)
  /\ UNCHANGED <<cliVars, callVars, nconn, cliDead, srvDead, replies,
                 srvVars, known, unknown, execs>>

\* The program registers its handler, which the constructor of rpcs, which
\* starts the listener, does for bind only.
Register ==
  /\ srv = "up" /\ ~known
  /\ known' = TRUE
  /\ UNCHANGED <<cliVars, callVars, netVars, srvVars, kept, unknown, execs>>

\* send() of a reply on connection k: lost if either end is dead.
PutReply(c, x, k, code) ==
  replies' = IF k \in srvDead \cup cliDead THEN replies
             ELSE replies \cup {[clt |-> c, xid |-> x, conn |-> k,
                                 ret |-> code, val |-> inc]}

\* dispatch up to conns_: a request bound to an earlier instance is refused;
\* otherwise the client's latest connection is noted.  A client with nonce 0
\* goes straight to the handler.
BindRefused(m)     == hdr[m.clt][m.xid].nonce # inc                \* mutant
NeverRefused(m)    == FALSE                                       \* mutant
ForOldInstance(m)  == hdr[m.clt][m.xid].nonce \notin {0, inc}

OldSrvFailure == "oldsrv"

Refuse(w, m) ==
  /\ wk[w].pc = "idle" /\ m \in jobs
  /\ ForOldInstance(m)
  /\ jobs' = jobs \ {m}
  /\ PutReply(m.clt, m.xid, m.conn, OldSrvFailure)
  /\ UNCHANGED <<cliVars, callVars, nconn, cliDead, srvDead, reqs,
                 srv, inc, wk, mark, win, last, leftVars, execs>>

\* No handler is registered for the procedure: no reply.
HasHandler(m) == hdr[m.clt][m.xid].proc = "bind" \/ known

DispatchUnknown(w, m) ==
  /\ wk[w].pc = "idle" /\ m \in jobs
  /\ ~ForOldInstance(m) /\ ~HasHandler(m)
  /\ jobs' = jobs \ {m}
  /\ unknown' = unknown \cup {m}
  /\ UNCHANGED <<cliVars, callVars, netVars,
                 srv, inc, wk, mark, win, last, kept, known, execs>>

Dispatch(w, m) ==
  /\ wk[w].pc = "idle" /\ m \in jobs
  /\ ~ForOldInstance(m) /\ HasHandler(m)
  /\ jobs' = jobs \ {m}
  /\ wk' = [wk EXCEPT ![w] =
              [pc |-> IF m.clt \in PlainClients THEN "run" ELSE "check",
               clt |-> m.clt, xid |-> m.xid, conn |-> m.conn]]
  /\ last' = IF m.clt \notin PlainClients /\ last[m.clt] < m.conn
               THEN [last EXCEPT ![m.clt] = m.conn] ELSE last
  /\ UNCHANGED <<cliVars, callVars, netVars,
                 srv, inc, mark, win, leftVars, execs>>

\* checkduplicate_and_update: the mark is the highest xid_rep seen, and what
\* it gives is followed by dispatch (the send of a stored reply included).
NewMark(c, x) == IF hdr[c][x].rep > mark[c] THEN hdr[c][x].rep ELSE mark[c]

\* The window of c without the entries in S.
Purged(c, S) == [y \in Xids |-> IF y \in S THEN "none" ELSE win[c][y]]

UpToMark(c, x)   == {y \in Xids : y <= NewMark(c, x)}             \* mutant
BelowXid(c, x)   == {y \in Xids : y < x}                          \* mutant
OutOfDate(c, x)  == {y \in Xids : y < NewMark(c, x)}

Forgotten(w) ==
  LET c == wk[w].clt  x == wk[w].xid IN
  /\ wk[w].pc = "check"
  /\ x < NewMark(c, x)
  /\ mark' = [mark EXCEPT ![c] = NewMark(c, x)]
  /\ PutReply(c, x, wk[w].conn, "amo")
  /\ wk' = [wk EXCEPT ![w] = IdleWorker]
  /\ UNCHANGED <<cliVars, callVars, nconn, cliDead, srvDead, reqs,
                 srv, inc, jobs, win, last, leftVars, execs>>

AnyEntry(c, x) == win[c][x] # "none"                              \* mutant
HasReply(c, x) == win[c][x] = "done"

\* The list is searched and cleaned in one pass that stops at the entry of the
\* request: which out-of-date entries come before it is left open.
Duplicate(w) ==
  LET c == wk[w].clt  x == wk[w].xid IN
  /\ wk[w].pc = "check"
  /\ ~(x < NewMark(c, x))
  /\ win[c][x] # "none"
  /\ mark' = [mark EXCEPT ![c] = NewMark(c, x)]
  /\ \E S \in SUBSET OutOfDate(c, x) : win' = [win EXCEPT ![c] = Purged(c, S)]
  /\ IF HasReply(c, x) THEN PutReply(c, x, wk[w].conn, "ok")
                           ELSE UNCHANGED replies
  /\ wk' = [wk EXCEPT ![w] = IdleWorker]
  /\ UNCHANGED <<cliVars, callVars, nconn, cliDead, srvDead, reqs,
                 srv, inc, jobs, last, leftVars, execs>>

NewRequest(w) ==
  LET c == wk[w].clt  x == wk[w].xid IN
  /\ wk[w].pc = "check"
  /\ ~(x < NewMark(c, x))
  /\ win[c][x] = "none"
  /\ mark' = [mark EXCEPT ![c] = NewMark(c, x)]
  /\ win' = [win EXCEPT ![c] =
               [Purged(c, OutOfDate(c, x)) EXCEPT ![x] = "inprogress"]]
  /\ wk' = [wk EXCEPT ![w].pc = "run"]
  /\ UNCHANGED <<cliVars, callVars, netVars,
                 srv, inc, jobs, last, leftVars, execs>>

\* f->fn(req, rep): the handler runs.
RunHandler(w) ==
  LET c == wk[w].clt  x == wk[w].xid IN
  /\ wk[w].pc = "run"
  /\ execs' = [execs EXCEPT ![c][x] = @ + 1]
  /\ wk' = [wk EXCEPT ![w].pc = IF c \in PlainClients THEN "send" ELSE "add"]
  /\ UNCHANGED <<cliVars, callVars, netVars,
                 srv, inc, jobs, mark, win, last, leftVars>>

\* add_reply: the entry of the request gets the reply; assert(0) without one.
AddReply(w) ==
  LET c == wk[w].clt  x == wk[w].xid IN
  /\ wk[w].pc = "add"
  /\ win[c][x] # "none"
  /\ win' = [win EXCEPT ![c][x] = "done"]
  /\ wk' = [wk EXCEPT ![w].pc = "send"]
  /\ UNCHANGED <<cliVars, callVars, netVars,
                 srv, inc, jobs, mark, last, leftVars, execs>>

AddReplyAsserts(w) ==
  /\ wk[w].pc = "add"
  /\ win[wk[w].clt][wk[w].xid] = "none"
  /\ ServerGone("noentry")
  /\ UNCHANGED <<cliVars, callVars, nconn, cliDead, replies, inc, unknown, execs>>

\* The end of dispatch: a dead connection is replaced by the client's latest
\* one.  conns_[0] is never filled: a client with nonce 0 gets NULL there.
Relocates(w) ==
  wk[w].conn \in srvDead /\ wk[w].conn # last[wk[w].clt]

SendReply(w) ==
  LET c == wk[w].clt IN
  /\ wk[w].pc = "send"
  /\ ~(Relocates(w) /\ last[c] = NoConn)
  /\ PutReply(c, wk[w].xid, IF Relocates(w) THEN last[c] ELSE wk[w].conn, "ok")
  /\ wk' = [wk EXCEPT ![w] = IdleWorker]
  /\ UNCHANGED <<cliVars, callVars, nconn, cliDead, srvDead, reqs,
                 srv, inc, jobs, mark, win, last, leftVars, execs>>

SendReplyDereferencesNull(w) ==
  /\ wk[w].pc = "send"
  /\ Relocates(w) /\ last[wk[w].clt] = NoConn
  /\ ServerGone("nullconn")
  /\ UNCHANGED <<cliVars, callVars, nconn, cliDead, replies, inc, unknown, execs>>

-----------------------------------------------------------------------------
ClientNext ==
  \/ \E c \in Clients, p \in Procs : Issue(c, p)
  \/ \E c \in Clients, x \in Xids : Transmit(c, x) \/ Return(c, x)
  \/ \E r \in replies : GotReply(r)
  \/ \E c \in Clients : Cancel(c)

NetNext ==
  \/ \E k \in Conns : ClientEndDies(k) \/ ServerEndDies(k)
  \/ Crash
  \/ Restart

WorkerNext(w) ==
  \/ \E m \in jobs : Refuse(w, m) \/ DispatchUnknown(w, m) \/ Dispatch(w, m)
  \/ Forgotten(w) \/ Duplicate(w) \/ NewRequest(w)
  \/ RunHandler(w) \/ AddReply(w) \/ AddReplyAsserts(w)
  \/ SendReply(w) \/ SendReplyDereferencesNull(w)

Next ==
  \/ ClientNext
  \/ NetNext
  \/ \E m \in reqs : GotRequest(m) \/ RequestRefused(m)
  \/ Register
  \/ \E w \in Workers : WorkerNext(w)

Spec == Init /\ [][Next]_vars

\* The poll threads deliver what has arrived and the workers go on: no lock
\* they take is held while waiting, handlers return, and the peer of a worker's
\* send, rpcc::got_pdu on its poll thread, reads all it is sent.  Nothing is
\* assumed of failures, nor that a deadline passes, a caller is scheduled or a
\* handler is registered.
Fairness ==
  /\ WF_vars(\E m \in reqs : GotRequest(m))
  /\ WF_vars(\E r \in replies : GotReply(r))
  /\ \A w \in Workers : WF_vars(WorkerNext(w))

-----------------------------------------------------------------------------
TypeOK ==
  /\ xid       \in [Clients -> 1..MaxXid + 1]
  /\ bound     \in [Clients -> Nonces]
  /\ cancelled \in [Clients -> BOOLEAN]
  /\ chan      \in [Clients -> Conns \cup {NoConn}]
  /\ acked     \in [Clients -> SUBSET Xids]
  /\ st        \in [Clients -> [Xids -> {"idle", "new", "wait", "returned"}]]
  /\ hdr       \in [Clients -> [Xids -> Header]]
  /\ ch        \in [Clients -> [Xids -> Conns \cup {NoConn}]]
  /\ ret       \in [Clients -> [Xids -> Results \cup {"none"}]]
  /\ val       \in [Clients -> [Xids -> Nonces]]
  /\ nconn     \in 0..MaxConns
  /\ cliDead   \in SUBSET Conns
  /\ srvDead   \in SUBSET Conns
  /\ reqs      \in SUBSET Request
  /\ replies   \in SUBSET Reply
  /\ srv       \in {"up", "down", "noentry", "nullconn"}
  /\ inc       \in 1..MaxInc
  /\ jobs      \in SUBSET Request
  /\ wk        \in [Workers -> Job \cup {IdleWorker}]
  /\ mark      \in [Clients -> 0..MaxXid]
  /\ win       \in [Clients -> [Xids -> {"none", "inprogress", "done"}]]
  /\ last      \in [Clients -> Conns \cup {NoConn}]
  /\ kept      \in SUBSET Request
  /\ known     \in BOOLEAN
  /\ unknown   \in SUBSET Request
  /\ execs     \in [Clients -> [Xids -> Nat]]

\* The requests of the call anywhere between the client and its reply.
AtServer(c, x) ==
  \/ \E m \in reqs \cup jobs : m.clt = c /\ m.xid = x
  \/ \E w \in Workers : wk[w].pc # "idle" /\ wk[w].clt = c /\ wk[w].xid = x

IsOp(c, x) == st[c][x] # "idle" /\ hdr[c][x].proc = "op"

-----------------------------------------------------------------------------
(* What the library promises.                                              *)

\* The at-most-once delivery of the header comment of rpc.cc: whatever is
\* retransmitted, lost, answered late or cancelled, and whenever the server
\* restarts, the handler of a call runs at most once.  For a client with
\* clt_nonce 0 nothing at the server enforces it; it never retransmits.
AtMostOnce ==
  \A c \in Clients, x \in Xids : IsOp(c, x) => execs[c][x] <= 1

\* A call that reports success was executed: the stored reply sent for a
\* duplicate, or a late reply, is never taken for that of another call.
OkMeansExecuted ==
  \A c \in Clients, x \in Xids : ret[c][x] = "ok" => execs[c][x] >= 1

\* The front of xid_rep_window_ in a request (call1, update_xid_rep) is such
\* that the server forgets nothing it may still be asked for: a call that
\* waits for its answer is never told atmostonce_failure.
NoForgottenAnswer ==
  \A c \in Clients, x \in Xids : ret[c][x] # "amo"

\* oldsrv_failure (dispatch) is the truth: the server the client was bound to
\* is gone, and the call has been bound to it.
OldSrvTruth ==
  \A c \in Clients, x \in Xids :
    ret[c][x] = "oldsrv" => hdr[c][x].nonce \in 1..inc - 1

\* The reply window keeps what a waiting caller needs: as long as the caller
\* waits, the entry of its call is there when the handler is running, when
\* add_reply looks for it, and ever after.  So the assert(0) of add_reply can
\* fail only for a call whose caller has given up.
WaitedEntryKept ==
  \A w \in Workers :
    LET c == wk[w].clt  x == wk[w].xid IN
    /\ wk[w].pc \in {"run", "add", "send"}
    /\ c \notin PlainClients
    /\ Waiting(c, x)
    => win[c][x] = IF wk[w].pc = "send" THEN "done" ELSE "inprogress"

\* The library implements module RemoteCall.  The result of a call is decided
\* when call1 returns: until then cancel() may still replace a reply.  bind may
\* run again for each server instance, which its handler does not tell apart.
RC == INSTANCE RemoteCall WITH
        Calls   <- Clients \X Xids,
        outcome <- [k \in Clients \X Xids |->
                      CASE st[k[1]][k[2]] = "idle" -> "none"
                        [] st[k[1]][k[2]] = "returned" ->
                             IF ret[k[1]][k[2]] = "ok" THEN "ok" ELSE "failed"
                        [] OTHER -> "pending"],
        runs    <- [k \in Clients \X Xids |->
                      IF IsOp(k[1], k[2]) \/ execs[k[1]][k[2]] = 0
                        THEN execs[k[1]][k[2]] ELSE 1]

ImplementsRemoteCall == RC!RCSpec

\* A call sent once is answered, however few workers there are, however small
\* their queue is and whatever happens to other connections, unless one end of
\* its connection dies, its procedure is not registered yet when a worker looks
\* it up, or the queue is full when its request comes and nothing comes after it
\* on the connection, so that it is not offered again.  (With no connection dead
\* at a client's end no call was sent twice; for those that are, see
\* NoStrandedCall.)
Answered ==
  \A c \in Clients, x \in Xids, k \in Conns :
    LET m == [clt |-> c, xid |-> x, conn |-> k] IN
    (/\ st[c][x] = "wait" /\ ret[c][x] = "none" /\ ch[c][x] = k
     /\ c \in PlainClients \/ cliDead = {})
      ~> \/ ret[c][x] # "none" \/ k \in cliDead \cup srvDead \/ m \in unknown
         \/ [](m \in kept /\ ~\E n \in reqs \ {m} : n.conn = k)

-----------------------------------------------------------------------------
(* What it does not promise: each of these is violated.                    *)

\* add_reply finds the entry of the request it answers: its assert(0).
EntryFound == srv # "noentry"

\* dispatch finds a connection to answer on when that of the request is dead.
ConnectionFound == srv # "nullconn"

\* As long as a caller waits on a connection that is alive at both ends, its
\* request or the reply to it is somewhere on the way, if its procedure was
\* registered: dispatch answers on the latest connection to the client.
NoStrandedCall ==
  \A c \in Clients, x \in Xids :
    /\ srv = "up"
    /\ st[c][x] = "wait" /\ ret[c][x] = "none"
    /\ ch[c][x] # NoConn /\ ch[c][x] \notin cliDead \cup srvDead
    /\ ~\E m \in unknown : m.clt = c /\ m.xid = x
    => AtServer(c, x) \/ \E r \in replies : r.clt = c /\ r.xid = x

=============================================================================

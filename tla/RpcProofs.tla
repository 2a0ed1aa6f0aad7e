------------------------------ MODULE RpcProofs ------------------------------
(* Proofs about module Rpc, for every value of its constants.               *)
EXTENDS RpcInvariant, TLAPS

-----------------------------------------------------------------------------
(* Type correctness.                                                       *)

\* A worker that is not idle holds a job.
LEMMA BusyWorker ==
  ASSUME TypeOK, NEW w \in Workers, wk[w].pc # "idle"
  PROVE  /\ wk[w] \in Job
         /\ wk[w].clt \in Clients /\ wk[w].xid \in Xids /\ wk[w].conn \in Conns
<1>1. wk[w] \in Job \cup {IdleWorker}
  BY DEF TypeOK
<1>2. IdleWorker.pc = "idle"
  BY DEF IdleWorker
<1>. QED
  BY <1>1, <1>2 DEF Job

LEMMA SetPc ==
  ASSUME TypeOK, NEW w \in Workers, wk[w].pc # "idle",
         NEW p \in {"check", "run", "add", "send"}
  PROVE  [wk EXCEPT ![w].pc = p] \in [Workers -> Job \cup {IdleWorker}]
<1>1. wk[w] \in Job
  BY BusyWorker
<1>2. [wk[w] EXCEPT !.pc = p] \in Job
  BY <1>1 DEF Job
<1>. QED
  BY <1>2 DEF TypeOK

\* The mark only grows.
LEMMA NewMarkGrows ==
  ASSUME TypeOK, NEW c \in Clients, NEW x \in Xids
  PROVE  NewMark(c, x) \in Nat /\ mark[c] \in Nat /\ mark[c] <= NewMark(c, x)
<1>1. hdr[c][x] \in Header /\ mark[c] \in 0..MaxXid
  BY DEF TypeOK
<1>2. hdr[c][x].rep \in 0..MaxXid
  BY <1>1 DEF Header
<1>. QED
  BY <1>1, <1>2 DEF NewMark

LEMMA PutReplyTypeOK ==
  ASSUME TypeOK, NEW c \in Clients, NEW x \in Xids, NEW k \in Conns,
         NEW code \in Replies, PutReply(c, x, k, code)
  PROVE  replies' \in SUBSET Reply
BY RpcAssumption DEF TypeOK, PutReply, Reply, Nonces

LEMMA TypeOKInit == Init => TypeOK
<1> SUFFICES ASSUME Init PROVE TypeOK
  OBVIOUS
<1>1. known \in BOOLEAN /\ kept = {} /\ unknown = {}
  BY Zenon DEF Init
<1>2. NoHeader \in Header
  BY RpcAssumption DEF NoHeader, Header, Nonces, Procs
<1>3. EmptyWindow \in [Clients -> [Xids -> {"none", "inprogress", "done"}]]
  BY DEF EmptyWindow
<1>. QED
  BY <1>1, <1>2, <1>3, RpcAssumption DEF Init, TypeOK, Nonces, NoConn

LEMMA TypeOKNext == TypeOK /\ [Next]_vars => TypeOK'
<1> SUFFICES ASSUME TypeOK, [Next]_vars PROVE TypeOK'
  OBVIOUS
<1> USE RpcAssumption DEF cliVars, callVars, netVars, srvVars, leftVars
<1>1. ASSUME NEW c \in Clients, NEW p \in Procs, Issue(c, p)
      PROVE  TypeOK'
  <2>1. xid[c] \in Xids /\ bound[c] \in Nonces
    BY <1>1 DEF TypeOK, Issue
  <2>2. xid' \in [Clients -> 1..MaxXid + 1]
    BY <1>1, <2>1 DEF TypeOK, Issue, Xids
  <2>3. PICK n \in 0..MaxXid :
          hdr' = [hdr EXCEPT ![c][xid[c]] =
                    [proc |-> p, nonce |-> bound[c], rep |-> n]]
    BY <1>1 DEF Issue
  <2>4. [proc |-> p, nonce |-> bound[c], rep |-> n] \in Header
    BY <2>1 DEF Header
  <2>5. hdr' \in [Clients -> [Xids -> Header]]
    BY <2>1, <2>3, <2>4 DEF TypeOK
  <2>6. st' \in [Clients -> [Xids -> {"idle", "new", "wait", "returned"}]]
    BY <1>1, <2>1 DEF TypeOK, Issue
  <2>. QED
    BY <1>1, <2>2, <2>5, <2>6 DEF TypeOK, Issue
<1>2. ASSUME NEW c \in Clients, NEW x \in Xids, Transmit(c, x)
      PROVE  TypeOK'
  <2>1. /\ chan' \in [Clients -> Conns \cup {NoConn}]
        /\ ch' \in [Clients -> [Xids -> Conns \cup {NoConn}]]
        /\ nconn' \in 0..MaxConns
        /\ reqs' \in SUBSET Request
    <3>1. CASE SendOnChan(c, x)
      BY <3>1 DEF TypeOK, SendOnChan, PutRequest, Request
    <3>2. CASE SendOnNewChan(c, x)
      BY <3>2 DEF TypeOK, SendOnNewChan, PutRequest, Request, Conns
    <3>3. CASE ConnectFails(c)
      BY <3>3 DEF TypeOK, ConnectFails
    <3>. QED
      BY <1>2, <3>1, <3>2, <3>3 DEF Transmit
  <2>. QED
    BY <1>2, <2>1 DEF TypeOK, Transmit
<1>3. ASSUME NEW c \in Clients, NEW x \in Xids, Return(c, x)
      PROVE  TypeOK'
  BY <1>3 DEF TypeOK, Return, Results
<1>4. ASSUME NEW r \in replies, GotReply(r)
      PROVE  TypeOK'
  <2>1. /\ r.clt \in Clients /\ r.xid \in Xids
        /\ r.ret \in Replies /\ r.val \in Nonces
    BY DEF TypeOK, Reply
  <2>2. /\ ret' \in [Clients -> [Xids -> Results \cup {"none"}]]
        /\ val' \in [Clients -> [Xids -> Nonces]]
    <3>1. \/ UNCHANGED <<ret, val>>
          \/ /\ ret' = [ret EXCEPT ![r.clt][r.xid] = r.ret]
             /\ val' = [val EXCEPT ![r.clt][r.xid] = r.val]
      BY <1>4, Zenon DEF GotReply
    <3>2. r.ret \in Results \cup {"none"}
      BY <2>1 DEF Results
    <3>3. /\ ret \in [Clients -> [Xids -> Results \cup {"none"}]]
          /\ val \in [Clients -> [Xids -> Nonces]]
      BY DEF TypeOK
    <3>4. CASE UNCHANGED <<ret, val>>
      BY <3>3, <3>4
    <3>5. CASE /\ ret' = [ret EXCEPT ![r.clt][r.xid] = r.ret]
               /\ val' = [val EXCEPT ![r.clt][r.xid] = r.val]
      BY <2>1, <3>2, <3>3, <3>5
    <3>. QED
      BY <3>1, <3>4, <3>5
  <2>3. acked' \in [Clients -> SUBSET Xids] /\ replies' \in SUBSET Reply
    BY <1>4, <2>1 DEF TypeOK, GotReply
  <2>4. UNCHANGED <<xid, bound, cancelled, chan, st, hdr, ch,
                    nconn, cliDead, srvDead, reqs, srvVars, leftVars, execs>>
    BY <1>4 DEF GotReply
  <2>. QED
    BY <2>2, <2>3, <2>4 DEF TypeOK
<1>5. ASSUME NEW c \in Clients, Cancel(c)
      PROVE  TypeOK'
  <2>. DEFINE f == [x \in Xids |-> IF x \in Outstanding(c) THEN "cancel"
                                                         ELSE ret[c][x]]
  <2>1. ret \in [Clients -> [Xids -> Results \cup {"none"}]]
    BY DEF TypeOK
  <2>2. f \in [Xids -> Results \cup {"none"}]
    BY <2>1 DEF Results
  <2>3. ret' = [ret EXCEPT ![c] = f]
    BY <1>5 DEF Cancel
  <2>. HIDE DEF f
  <2>4. ret' \in [Clients -> [Xids -> Results \cup {"none"}]]
    BY <2>1, <2>2, <2>3
  <2>5. /\ cancelled' \in [Clients -> BOOLEAN]
        /\ UNCHANGED <<xid, bound, chan, acked, st, hdr, ch, val,
                       netVars, srvVars, leftVars, execs>>
    BY <1>5 DEF TypeOK, Cancel
  <2>. QED
    BY <2>4, <2>5 DEF TypeOK
<1>6. ASSUME NEW k \in Conns, ClientEndDies(k) \/ ServerEndDies(k)
      PROVE  TypeOK'
  <2>1. CASE ClientEndDies(k)
    BY <2>1 DEF TypeOK, ClientEndDies
  <2>2. CASE ServerEndDies(k)
    BY <2>2 DEF TypeOK, ServerEndDies
  <2>. QED
    BY <1>6, <2>1, <2>2
<1>7. ASSUME NEW why \in {"down", "noentry", "nullconn"}, ServerGone(why),
             UNCHANGED <<cliVars, callVars, nconn, cliDead, replies, inc,
                         unknown, execs>>
      PROVE  TypeOK'
  <2>1. known' \in BOOLEAN
    BY <1>7, Zenon DEF ServerGone
  <2>2. EmptyWindow \in [Clients -> [Xids -> {"none", "inprogress", "done"}]]
    BY DEF EmptyWindow
  <2>3. /\ srv' \in {"up", "down", "noentry", "nullconn"} /\ jobs' = {}
        /\ wk' \in [Workers -> Job \cup {IdleWorker}]
        /\ mark' \in [Clients -> 0..MaxXid] /\ win' = EmptyWindow
        /\ last' \in [Clients -> Conns \cup {NoConn}]
        /\ reqs' = {} /\ kept' = {} /\ srvDead' \in SUBSET Conns
    BY <1>7 DEF ServerGone, TypeOK, Conns
  <2>. QED
    BY <1>7, <2>1, <2>2, <2>3 DEF TypeOK
<1>8. CASE Restart
  BY <1>8 DEF TypeOK, Restart
<1>9. ASSUME NEW m \in reqs, GotRequest(m) \/ RequestRefused(m)
      PROVE  TypeOK'
  <2>1. m \in Request
    BY DEF TypeOK
  <2>2. CASE GotRequest(m)
    BY <2>1, <2>2 DEF TypeOK, GotRequest
  <2>3. CASE RequestRefused(m)
    BY <2>1, <2>3 DEF TypeOK, RequestRefused, StaysInRpdu
  <2>. QED
    BY <1>9, <2>2, <2>3
<1>10. ASSUME NEW w \in Workers, NEW m \in jobs, Refuse(w, m)
       PROVE  TypeOK'
  <2>1. m.clt \in Clients /\ m.xid \in Xids /\ m.conn \in Conns
    BY DEF TypeOK, Request
  <2>2. replies' \in SUBSET Reply
    BY <1>10, <2>1, PutReplyTypeOK DEF Refuse, OldSrvFailure, Replies
  <2>3. /\ jobs' = jobs \ {m}
        /\ UNCHANGED <<cliVars, callVars, nconn, cliDead, srvDead, reqs,
                       srv, inc, wk, mark, win, last, leftVars, execs>>
    BY <1>10 DEF Refuse
  <2>. QED
    BY <2>2, <2>3 DEF TypeOK
<1>11. ASSUME NEW w \in Workers, NEW m \in jobs,
              DispatchUnknown(w, m) \/ Dispatch(w, m)
       PROVE  TypeOK'
  <2>1. m \in Request /\ m.clt \in Clients /\ m.xid \in Xids /\ m.conn \in Conns
    BY DEF TypeOK, Request
  <2>2. CASE DispatchUnknown(w, m)
    BY <2>1, <2>2 DEF TypeOK, DispatchUnknown
  <2>3. CASE Dispatch(w, m)
    BY <2>1, <2>3 DEF TypeOK, Dispatch, Job
  <2>. QED
    BY <1>11, <2>2, <2>3
<1>12. ASSUME NEW w \in Workers, WorkerNext(w),
              ~\E m \in jobs :
                 Refuse(w, m) \/ DispatchUnknown(w, m) \/ Dispatch(w, m)
       PROVE  TypeOK'
  <2>. DEFINE c == wk[w].clt
              x == wk[w].xid
  <2>1. wk[w].pc # "idle"
    BY <1>12 DEF WorkerNext, Forgotten, Duplicate, NewRequest, RunHandler,
       AddReply, AddReplyAsserts, SendReply, SendReplyDereferencesNull
  <2>2. c \in Clients /\ x \in Xids /\ wk[w].conn \in Conns
    BY <2>1, BusyWorker
  <2>3. NewMark(c, x) \in 0..MaxXid
    BY <2>2 DEF NewMark, TypeOK, Header
  <2>4. ASSUME NEW S PROVE Purged(c, S) \in
                            [Xids -> {"none", "inprogress", "done"}]
    BY <2>2 DEF Purged, TypeOK
  <2>5. CASE Forgotten(w)
    <3>1. replies' \in SUBSET Reply
      BY <2>2, <2>5, PutReplyTypeOK DEF Forgotten, Replies
    <3>. QED
      BY <2>2, <2>3, <2>5, <3>1 DEF TypeOK, Forgotten
  <2>6. CASE Duplicate(w)
    <3>1. replies' \in SUBSET Reply
      BY <2>2, <2>6, PutReplyTypeOK DEF Duplicate, Replies, TypeOK
    <3>. QED
      BY <2>2, <2>3, <2>4, <2>6, <3>1 DEF TypeOK, Duplicate
  <2>7. CASE NewRequest(w)
    <3>1. wk' \in [Workers -> Job \cup {IdleWorker}]
      BY <2>1, <2>7, SetPc DEF NewRequest
    <3>2. win' \in [Clients -> [Xids -> {"none", "inprogress", "done"}]]
      BY <2>2, <2>4, <2>7 DEF TypeOK, NewRequest
    <3>. QED
      BY <2>2, <2>3, <2>7, <3>1, <3>2 DEF TypeOK, NewRequest
  <2>8. CASE RunHandler(w)
    <3>1. wk' \in [Workers -> Job \cup {IdleWorker}]
      BY <2>1, <2>8, SetPc DEF RunHandler
    <3>. QED
      BY <2>2, <2>8, <3>1 DEF TypeOK, RunHandler
  <2>9. CASE AddReply(w)
    <3>1. wk' \in [Workers -> Job \cup {IdleWorker}]
      BY <2>1, <2>9, SetPc DEF AddReply
    <3>. QED
      BY <2>2, <2>9, <3>1 DEF TypeOK, AddReply
  <2>10. CASE AddReplyAsserts(w)
    BY <1>7, <2>10 DEF AddReplyAsserts
  <2>11. CASE SendReply(w)
    <3>1. (IF Relocates(w) THEN last[c] ELSE wk[w].conn) \in Conns
      BY <2>2, <2>11 DEF SendReply, TypeOK
    <3>2. replies' \in SUBSET Reply
      BY <2>2, <2>11, <3>1, PutReplyTypeOK DEF SendReply, Replies
    <3>. QED
      BY <2>11, <3>2 DEF TypeOK, SendReply
  <2>12. CASE SendReplyDereferencesNull(w)
    BY <1>7, <2>12 DEF SendReplyDereferencesNull
  <2>. QED
    BY <1>12, <2>5, <2>6, <2>7, <2>8, <2>9, <2>10, <2>11, <2>12 DEF WorkerNext
<1>13. CASE Crash
  BY <1>7, <1>13 DEF Crash
<1>14. CASE UNCHANGED vars
  BY <1>14 DEF TypeOK, vars
<1>15. CASE Register
  BY <1>15 DEF TypeOK, Register
<1>. QED
  BY <1>1, <1>2, <1>3, <1>4, <1>5, <1>6, <1>8, <1>9, <1>10, <1>11, <1>12,
     <1>13, <1>14, <1>15 DEF Next, ClientNext, NetNext

\* Every variable of the library keeps its type: in particular a header only
\* ever names an instance that exists, and the mark stays below xid_.
THEOREM TypeCorrect == Spec => []TypeOK
<1>. QED
  BY TypeOKInit, TypeOKNext, PTL DEF Spec

-----------------------------------------------------------------------------
(* At-most-once: AtMostOnceInv is inductive.  One lemma per action, or per *)
(* group of actions that disturb the same conjuncts.                       *)

LEMMA InvInit == Init => AtMostOnceInv
<1> SUFFICES ASSUME Init PROVE AtMostOnceInv
  OBVIOUS
<1>1. TypeOK
  BY TypeOKInit
<1>2. Unsent
  BY DEF Init, Unsent, Serving, IdleWorker
<1>3. NoncesStarted
  BY RpcAssumption DEF Init, NoncesStarted, NoHeader
<1>4. GoneIsIdle /\ WorkersGuarded /\ ExecutedStopped /\ RunnerAlone
  BY DEF Init, GoneIsIdle, WorkersGuarded, ExecutedStopped, RunnerAlone, IdleWorker
<1>5. OneCopy /\ ExecutedOnce
  BY DEF Init, OneCopy, ExecutedOnce
<1>. QED
  BY <1>1, <1>2, <1>3, <1>4, <1>5 DEF AtMostOnceInv

LEMMA InvIssue ==
  ASSUME AtMostOnceInv, TypeOK', NEW c \in Clients, NEW p \in Procs, Issue(c, p)
  PROVE  AtMostOnceInv'
<1>. USE DEF AtMostOnceInv
<1>. DEFINE y == xid[c]
<1>1. y \in Xids /\ bound[c] \in Nonces /\ bound[c] <= inc
  BY DEF Issue, TypeOK, NoncesStarted
<1>2. PICK n \in 0..MaxXid :
        hdr' = [hdr EXCEPT ![c][y] =
                  [proc |-> p, nonce |-> bound[c], rep |-> n]]
  BY DEF Issue
<1>3. /\ st[c][y] = "idle" /\ execs[c][y] = 0
      /\ \A m \in reqs \cup jobs : ~(m.clt = c /\ m.xid = y)
      /\ \A w \in Workers : ~Serving(w, c, y)
  <2>1. y <= y
    BY <1>1 DEF Xids
  <2>2. st[c][y] = "idle"
    BY <1>1, <2>1, Zenon DEF Unsent
  <2>. QED
    BY <1>1, <2>2, Zenon DEF Unsent
<1>4. \A d \in Clients, z \in Xids : d # c \/ z # y => hdr'[d][z] = hdr[d][z]
  BY <1>1, <1>2 DEF TypeOK
<1>5. hdr'[c][y] = [proc |-> p, nonce |-> bound[c], rep |-> n]
  BY <1>1, <1>2 DEF TypeOK
<1>6. UNCHANGED <<bound, val, reqs, replies, srv, inc, jobs, wk, mark, win, execs>>
  BY DEF Issue, netVars, srvVars
<1>7. Unsent'
  <2>1. /\ xid' = [xid EXCEPT ![c] = y + 1]
        /\ st' = [st EXCEPT ![c][y] = "new"]
    BY DEF Issue
  <2>2. ASSUME NEW d \in Clients, NEW z \in Xids, xid'[d] <= z
        PROVE  st'[d][z] = "idle"
    <3>1. xid \in [Clients -> 1..MaxXid + 1]
      BY DEF TypeOK
    <3>2. xid'[d] = IF d = c THEN y + 1 ELSE xid[d]
      BY <2>1, <3>1
    <3>3. xid[d] <= z /\ ~(d = c /\ z = y)
      BY <1>1, <2>2, <3>1, <3>2 DEF Xids
    <3>4. st[d][z] = "idle"
      BY <3>3, Zenon DEF Unsent
    <3>. QED
      BY <1>1, <2>1, <3>3, <3>4 DEF TypeOK
  <2>3. ASSUME NEW d \in Clients, NEW z \in Xids, st'[d][z] \in {"idle", "new"}
        PROVE  st[d][z] \in {"idle", "new"}
    BY <1>1, <1>3, <2>1, <2>3 DEF TypeOK
  <2>. QED
    BY <1>6, <2>2, <2>3 DEF Unsent, Serving
<1>8. NoncesStarted'
  BY <1>1, <1>4, <1>5, <1>6 DEF NoncesStarted, Issue, Nonces
<1>9. GoneIsIdle'
  BY <1>6 DEF GoneIsIdle
<1>10. \A w \in Workers : wk[w].pc # "idle" =>
         hdr'[wk[w].clt][wk[w].xid] = hdr[wk[w].clt][wk[w].xid]
  BY <1>3, <1>4, BusyWorker DEF Serving
<1>11. WorkersGuarded'
  BY <1>6, <1>10 DEF WorkersGuarded, Stopped
<1>12. ExecutedStopped'
  BY <1>3, <1>4, <1>6 DEF ExecutedStopped, Stopped
<1>13. RunnerAlone'
  BY <1>6, <1>10 DEF RunnerAlone, Running, Once
<1>14. OneCopy'
  BY <1>6 DEF OneCopy, Running
<1>15. ExecutedOnce'
  BY <1>3, <1>4, <1>6 DEF ExecutedOnce, Once
<1>. QED
  BY <1>7, <1>8, <1>9, <1>11, <1>12, <1>13, <1>14, <1>15

LEMMA InvTransmit ==
  ASSUME AtMostOnceInv, TypeOK', NEW c \in Clients, NEW x \in Xids, Transmit(c, x)
  PROVE  AtMostOnceInv'
<1>. USE DEF AtMostOnceInv
<1>1. PICK k : reqs' \subseteq reqs \cup {[clt |-> c, xid |-> x, conn |-> k]}
  <2>1. CASE SendOnChan(c, x)
    BY <2>1 DEF SendOnChan, PutRequest
  <2>2. CASE SendOnNewChan(c, x)
    BY <2>2 DEF SendOnNewChan, PutRequest
  <2>3. CASE ConnectFails(c)
    BY <2>3 DEF ConnectFails
  <2>. QED
    BY <2>1, <2>2, <2>3 DEF Transmit
<1>. DEFINE q == [clt |-> c, xid |-> x, conn |-> k]
<1>2. UNCHANGED <<xid, bound, val, hdr, replies, srv, inc, jobs, wk, mark, win, execs>>
  BY DEF Transmit, srvVars
<1>3. st[c][x] \in {"new", "wait"} /\ st' = [st EXCEPT ![c][x] = "wait"]
  BY DEF Transmit, MustSend
<1>4. c \in PlainClients => st[c][x] = "new"
  BY DEF Transmit, MustSend
<1>5. Unsent'
  BY <1>1, <1>2, <1>3 DEF Unsent, TypeOK, Serving
<1>6. NoncesStarted' /\ GoneIsIdle' /\ WorkersGuarded' /\ ExecutedStopped'
  BY <1>2 DEF NoncesStarted, GoneIsIdle, WorkersGuarded, ExecutedStopped, Stopped
<1>7. RunnerAlone' /\ ExecutedOnce'
  BY <1>2 DEF RunnerAlone, ExecutedOnce, Running, Once
<1>8. OneCopy'
  <2>1. CASE c \in PlainClients
    <3>1. /\ execs[c][x] = 0
          /\ \A m \in reqs \cup jobs : ~(m.clt = c /\ m.xid = x)
          /\ \A w \in Workers : ~Running(w, c, x)
      BY <1>4, <2>1 DEF Unsent, Serving, Running
    <3>. QED
      BY <1>1, <1>2, <3>1 DEF OneCopy, Running
  <2>2. CASE c \notin PlainClients
    BY <1>1, <1>2, <2>2 DEF OneCopy, Running
  <2>. QED
    BY <2>1, <2>2
<1>. QED
  BY <1>5, <1>6, <1>7, <1>8

\* The steps that only take messages away, move the callers on, or fail them.
LEMMA InvCallers ==
  ASSUME AtMostOnceInv, TypeOK',
         \/ \E c \in Clients, x \in Xids : Return(c, x)
         \/ \E r \in replies : GotReply(r)
         \/ \E c \in Clients : Cancel(c)
         \/ \E k \in Conns : ClientEndDies(k) \/ ServerEndDies(k)
  PROVE  AtMostOnceInv'
<1>. USE DEF AtMostOnceInv
<1>1. UNCHANGED <<xid, hdr, srv, inc, jobs, wk, mark, win, execs>>
  BY DEF Return, GotReply, Cancel, ClientEndDies, ServerEndDies,
         netVars, srvVars, cliVars, callVars
<1>2. reqs' \subseteq reqs /\ replies' \subseteq replies
  BY DEF Return, GotReply, Cancel, ClientEndDies, ServerEndDies,
         netVars, srvVars, cliVars, callVars
<1>3. \A c \in Clients, x \in Xids :
        st'[c][x] = st[c][x] \/ (st[c][x] = "wait" /\ st'[c][x] = "returned")
  <2>1. \/ UNCHANGED st
        \/ \E c \in Clients, x \in Xids :
             st[c][x] = "wait" /\ st' = [st EXCEPT ![c][x] = "returned"]
    BY DEF Return, GotReply, Cancel, ClientEndDies, ServerEndDies, callVars
  <2>2. st \in [Clients -> [Xids -> {"idle", "new", "wait", "returned"}]]
    BY DEF TypeOK
  <2>. QED
    BY <2>1, <2>2
<1>4. Unsent'
  BY <1>1, <1>2, <1>3 DEF Unsent, Serving
<1>5. NoncesStarted'
  <2>1. \A c \in Clients, x \in Xids : val'[c][x] <= inc
    <3>1. CASE \E r \in replies : GotReply(r)
      <4>1. PICK r \in replies : GotReply(r)
        BY <3>1
      <4>2. r.clt \in Clients /\ r.xid \in Xids /\ r.val <= inc
        BY DEF TypeOK, Reply, NoncesStarted
      <4>3. val' = val \/ val' = [val EXCEPT ![r.clt][r.xid] = r.val]
        BY <4>1, Zenon DEF GotReply
      <4>4. val \in [Clients -> [Xids -> Nonces]]
        BY DEF TypeOK
      <4>5. \A c \in Clients, x \in Xids : val[c][x] <= inc
        BY DEF NoncesStarted
      <4>. QED
        BY <4>2, <4>3, <4>4, <4>5
    <3>2. CASE ~\E r \in replies : GotReply(r)
      <4>1. UNCHANGED val
        BY <3>2 DEF Return, Cancel, ClientEndDies, ServerEndDies, callVars
      <4>. QED
        BY <4>1 DEF NoncesStarted
    <3>. QED
      BY <3>1, <3>2
  <2>2. \A c \in Clients : bound'[c] <= inc
    <3>1. CASE UNCHANGED bound
      BY <3>1 DEF NoncesStarted
    <3>2. ASSUME NEW c \in Clients, NEW x \in Xids,
                 bound' = [bound EXCEPT ![c] = val[c][x]]
          PROVE  \A d \in Clients : bound'[d] <= inc
      BY <3>2 DEF NoncesStarted, TypeOK
    <3>. QED
      BY <3>1, <3>2 DEF Return, GotReply, Cancel, ClientEndDies, ServerEndDies, cliVars
  <2>. QED
    BY <1>1, <1>2, <2>1, <2>2 DEF NoncesStarted
<1>6. GoneIsIdle' /\ WorkersGuarded' /\ ExecutedStopped'
  BY <1>1 DEF GoneIsIdle, WorkersGuarded, ExecutedStopped, Stopped
<1>7. RunnerAlone' /\ ExecutedOnce'
  BY <1>1 DEF RunnerAlone, ExecutedOnce, Running, Once
<1>8. OneCopy'
  BY <1>1, <1>2 DEF OneCopy, Running
<1>. QED
  BY <1>4, <1>5, <1>6, <1>7, <1>8

\* The end of a server process, and the start of the next one.
LEMMA InvGone ==
  ASSUME AtMostOnceInv, TypeOK', NEW why \in {"down", "noentry", "nullconn"},
         ServerGone(why),
         UNCHANGED <<cliVars, callVars, nconn, cliDead, replies, inc, execs>>
  PROVE  AtMostOnceInv'
<1>. USE DEF AtMostOnceInv
<1>1. /\ reqs' = {} /\ jobs' = {} /\ srv' # "up"
      /\ \A w \in Workers : wk'[w].pc = "idle"
  BY DEF ServerGone, IdleWorker
<1>2. UNCHANGED <<xid, st, hdr, bound, val, replies, inc, execs>>
  BY DEF cliVars, callVars
<1>3. Unsent' /\ NoncesStarted'
  BY <1>1, <1>2 DEF Unsent, NoncesStarted, Serving
<1>4. GoneIsIdle' /\ WorkersGuarded' /\ ExecutedStopped'
  BY <1>1 DEF GoneIsIdle, WorkersGuarded, ExecutedStopped
<1>5. RunnerAlone' /\ OneCopy'
  BY <1>1 DEF RunnerAlone, OneCopy
<1>6. ExecutedOnce'
  BY <1>2 DEF ExecutedOnce, Once
<1>. QED
  BY <1>3, <1>4, <1>5, <1>6

LEMMA InvRestart ==
  ASSUME AtMostOnceInv, TypeOK', Restart
  PROVE  AtMostOnceInv'
<1>. USE DEF AtMostOnceInv
<1>1. /\ jobs' = {} /\ \A w \in Workers : wk'[w].pc = "idle"
      /\ inc \in Nat /\ inc' = inc + 1
  BY DEF Restart, GoneIsIdle, TypeOK
<1>2. UNCHANGED <<xid, st, hdr, bound, val, reqs, replies, jobs, wk, execs>>
  BY DEF Restart, cliVars, callVars, netVars
<1>3. Unsent' /\ OneCopy' /\ ExecutedOnce'
  BY <1>2 DEF Unsent, OneCopy, ExecutedOnce, Serving, Running, Once
<1>4. \A c \in Clients, x \in Xids : hdr[c][x].nonce \in Nat
  BY DEF TypeOK, Header, Nonces
<1>5. NoncesStarted'
  <2>1. /\ \A r \in replies : r.val \in Nat
        /\ \A c \in Clients : bound[c] \in Nat
        /\ \A c \in Clients, x \in Xids : val[c][x] \in Nat
    BY DEF TypeOK, Reply, Nonces
  <2>. QED
    BY <1>1, <1>2, <1>4, <2>1 DEF NoncesStarted
<1>6. GoneIsIdle' /\ WorkersGuarded' /\ RunnerAlone'
  BY <1>1 DEF GoneIsIdle, WorkersGuarded, RunnerAlone
<1>7. ExecutedStopped'
  BY <1>1, <1>2, <1>4 DEF ExecutedStopped, NoncesStarted
<1>. QED
  BY <1>3, <1>5, <1>6, <1>7

LEMMA InvGotRequest ==
  ASSUME AtMostOnceInv, TypeOK', NEW m \in reqs, GotRequest(m)
  PROVE  AtMostOnceInv'
<1>. USE DEF AtMostOnceInv
<1>1. UNCHANGED <<xid, st, hdr, bound, val, replies, srv, inc, wk, mark, win, execs>>
  BY DEF GotRequest, cliVars, callVars
<1>2. /\ reqs' = reqs \ {m} /\ jobs' = jobs \cup {m} /\ srv = "up"
  BY DEF GotRequest, Offered
<1>3. Unsent' /\ NoncesStarted' /\ GoneIsIdle'
  BY <1>1, <1>2 DEF Unsent, NoncesStarted, GoneIsIdle, Serving
<1>4. WorkersGuarded' /\ ExecutedStopped' /\ RunnerAlone' /\ ExecutedOnce'
  BY <1>1 DEF WorkersGuarded, ExecutedStopped, RunnerAlone, ExecutedOnce,
              Stopped, Running, Once
<1>5. OneCopy'
  BY <1>1, <1>2 DEF OneCopy, Running
<1>. QED
  BY <1>3, <1>4, <1>5

LEMMA InvRefuse ==
  ASSUME AtMostOnceInv, TypeOK', NEW w \in Workers, NEW m \in jobs,
         Refuse(w, m) \/ DispatchUnknown(w, m)
  PROVE  AtMostOnceInv'
<1>. USE DEF AtMostOnceInv
<1>1. UNCHANGED <<xid, st, hdr, bound, val, reqs, srv, inc, wk, mark, win, execs>>
  BY DEF Refuse, DispatchUnknown, cliVars, callVars, netVars
<1>2. jobs' = jobs \ {m}
  BY DEF Refuse, DispatchUnknown
<1>3. \A r \in replies' : r \in replies \/ r.val = inc
  BY DEF Refuse, DispatchUnknown, PutReply, netVars
<1>4. NoncesStarted'
  BY <1>1, <1>3 DEF NoncesStarted, TypeOK
<1>5. Unsent' /\ GoneIsIdle'
  BY <1>1, <1>2 DEF Unsent, GoneIsIdle, Serving
<1>6. WorkersGuarded' /\ ExecutedStopped' /\ RunnerAlone' /\ ExecutedOnce'
  BY <1>1 DEF WorkersGuarded, ExecutedStopped, RunnerAlone, ExecutedOnce,
              Stopped, Running, Once
<1>7. OneCopy'
  BY <1>1, <1>2 DEF OneCopy, Running
<1>. QED
  BY <1>4, <1>5, <1>6, <1>7

LEMMA InvDispatch ==
  ASSUME AtMostOnceInv, TypeOK', NEW w \in Workers, NEW m \in jobs, Dispatch(w, m)
  PROVE  AtMostOnceInv'
<1>. USE DEF AtMostOnceInv
<1>. DEFINE c == m.clt
            x == m.xid
<1>1. UNCHANGED <<xid, st, hdr, bound, val, reqs, replies, srv, inc, mark, win, execs>>
  BY DEF Dispatch, cliVars, callVars, netVars
<1>2. jobs' = jobs \ {m}
  BY DEF Dispatch
<1>3. c \in Clients /\ x \in Xids
  BY DEF TypeOK, Request
<1>4. /\ wk'[w].pc = IF c \in PlainClients THEN "run" ELSE "check"
      /\ wk'[w].clt = c /\ wk'[w].xid = x
      /\ \A v \in Workers : v # w => wk'[v] = wk[v]
  BY DEF Dispatch, TypeOK
<1>5. srv = "up"
  BY DEF GoneIsIdle
<1>6. Unsent'
  BY <1>1, <1>2, <1>4 DEF Unsent, Serving
<1>7. NoncesStarted' /\ GoneIsIdle'
  BY <1>1, <1>5 DEF NoncesStarted, GoneIsIdle
<1>8. hdr[c][x].proc = "op" => hdr[c][x].nonce = inc
  <2>1. hdr[c][x].nonce \in {0, inc}
    BY DEF Dispatch, ForOldInstance
  <2>2. hdr[c][x].proc = "op" => hdr[c][x].nonce >= 1
    BY <1>3 DEF NoncesStarted
  <2>. QED
    BY <2>1, <2>2
<1>9. WorkersGuarded'
  <2>1. \A d \in Clients, y \in Xids : Stopped(d, y)' <=> Stopped(d, y)
    BY <1>1 DEF Stopped
  <2>2. ASSUME NEW v \in Workers, v # w, wk[v].pc # "idle"
        PROVE  wk[v].clt \in Clients /\ wk[v].xid \in Xids
    BY <2>2, BusyWorker
  <2>. QED
    BY <1>1, <1>4, <1>8, <2>1, <2>2 DEF WorkersGuarded
<1>10. ExecutedStopped' /\ ExecutedOnce'
  BY <1>1 DEF ExecutedStopped, ExecutedOnce, Stopped, Once
<1>11. RunnerAlone'
  <2>1. CASE c \in PlainClients
    <3>1. /\ execs[c][x] = 0
          /\ \A v \in Workers : ~Running(v, c, x)
      BY <2>1 DEF OneCopy
    <3>. QED
      BY <1>1, <1>4, <3>1 DEF RunnerAlone, Running, Once
  <2>2. CASE c \notin PlainClients
    BY <1>1, <1>4, <2>2 DEF RunnerAlone, Running, Once
  <2>. QED
    BY <2>1, <2>2
<1>12. OneCopy'
  <2>1. c \in PlainClients =>
          \A n \in reqs \cup (jobs \ {m}) : ~(n.clt = c /\ n.xid = x)
    BY DEF OneCopy
  <2>2. c \notin PlainClients => wk'[w].pc = "check"
    BY <1>4
  <2>. QED
    BY <1>1, <1>2, <1>4, <2>1, <2>2 DEF OneCopy, Running
<1>. QED
  BY <1>6, <1>7, <1>9, <1>10, <1>11, <1>12

\* The steps that leave the worker idle and run nothing: the mark only rises,
\* and what leaves the window lies below it.
LEMMA InvWorkerDone ==
  ASSUME AtMostOnceInv, TypeOK', NEW w \in Workers,
         Forgotten(w) \/ Duplicate(w) \/ SendReply(w)
  PROVE  AtMostOnceInv'
<1>. USE DEF AtMostOnceInv
<1>. DEFINE c == wk[w].clt
            x == wk[w].xid
<1>1. UNCHANGED <<xid, st, hdr, bound, val, reqs, srv, inc, jobs, execs>>
  BY DEF Forgotten, Duplicate, SendReply, cliVars, callVars
<1>2. /\ wk'[w].pc = "idle"
      /\ \A v \in Workers : v # w => wk'[v] = wk[v]
  BY DEF Forgotten, Duplicate, SendReply, IdleWorker, TypeOK
<1>3. c \in Clients /\ x \in Xids
  BY BusyWorker DEF Forgotten, Duplicate, SendReply
<1>4. \A r \in replies' : r \in replies \/ r.val = inc
  BY DEF Forgotten, Duplicate, SendReply, PutReply
<1>5. \A d \in Clients, y \in Xids : Stopped(d, y) => Stopped(d, y)'
  <2>1. CASE SendReply(w)
    BY <2>1 DEF SendReply, Stopped
  <2>. DEFINE n == NewMark(c, x)
  <2>2. n \in Nat /\ mark[c] \in Nat /\ mark[c] <= n
    BY <1>3, NewMarkGrows
  <2>3. CASE Forgotten(w)
    <3>1. mark' = [mark EXCEPT ![c] = n] /\ UNCHANGED win
      BY <2>3 DEF Forgotten
    <3>2. \A d \in Clients : mark[d] \in Nat /\ mark'[d] \in Nat
                              /\ mark[d] <= mark'[d]
      BY <1>3, <2>2, <3>1 DEF TypeOK
    <3>. QED
      BY <3>1, <3>2 DEF Stopped, Xids
  <2>4. CASE Duplicate(w)
    <3>1. mark' = [mark EXCEPT ![c] = n]
      BY <2>4 DEF Duplicate
    <3>2. PICK S \in SUBSET OutOfDate(c, x) : win' = [win EXCEPT ![c] = Purged(c, S)]
      BY <2>4 DEF Duplicate
    <3>3. \A y \in S : y < n
      BY DEF OutOfDate
    <3>4. \A y \in Xids : win'[c][y] = IF y \in S THEN "none" ELSE win[c][y]
      BY <1>3, <3>2 DEF Purged, TypeOK
    <3>5. \A d \in Clients : d # c => win'[d] = win[d] /\ mark'[d] = mark[d]
      BY <3>1, <3>2 DEF TypeOK
    <3>6. mark'[c] = n
      BY <1>3, <3>1 DEF TypeOK
    <3>. QED
      BY <2>2, <3>3, <3>4, <3>5, <3>6 DEF Stopped, Xids
  <2>. QED
    BY <2>1, <2>3, <2>4
<1>6. Unsent' /\ GoneIsIdle' /\ OneCopy'
  BY <1>1, <1>2 DEF Unsent, GoneIsIdle, OneCopy, Serving, Running
<1>7. NoncesStarted'
  BY <1>1, <1>4 DEF NoncesStarted, TypeOK
<1>8. WorkersGuarded'
  <2>1. ASSUME NEW v \in Workers, wk'[v].pc # "idle"
        PROVE  wk'[v] = wk[v] /\ wk[v].clt \in Clients /\ wk[v].xid \in Xids
    BY <1>2, <2>1, BusyWorker
  <2>. QED
    BY <1>1, <1>5, <2>1 DEF WorkersGuarded
<1>9. ExecutedStopped'
  BY <1>1, <1>5 DEF ExecutedStopped
<1>10. RunnerAlone' /\ ExecutedOnce'
  BY <1>1, <1>2 DEF RunnerAlone, ExecutedOnce, Running, Once
<1>. QED
  BY <1>6, <1>7, <1>8, <1>9, <1>10

\* A new request: nobody else serves the call, and it was not executed, since
\* either would have left it stopped.
LEMMA InvNewRequest ==
  ASSUME AtMostOnceInv, TypeOK', NEW w \in Workers, NewRequest(w)
  PROVE  AtMostOnceInv'
<1>. USE DEF AtMostOnceInv
<1>. DEFINE c == wk[w].clt
            x == wk[w].xid
            n == NewMark(c, x)
<1>1. UNCHANGED <<xid, st, hdr, bound, val, reqs, replies, srv, inc, jobs, execs>>
  BY DEF NewRequest, cliVars, callVars, netVars
<1>2. /\ wk[w].pc = "check" /\ ~(x < n) /\ win[c][x] = "none"
      /\ c \in Clients /\ x \in Xids
  BY BusyWorker DEF NewRequest
<1>3. /\ wk'[w].pc = "run" /\ wk'[w].clt = c /\ wk'[w].xid = x
      /\ \A v \in Workers : v # w => wk'[v] = wk[v]
  <2>1. wk[w] \in Job
    BY <1>2, BusyWorker
  <2>2. wk' = [wk EXCEPT ![w].pc = "run"]
    BY DEF NewRequest
  <2>. QED
    BY <2>1, <2>2 DEF TypeOK, Job
<1>4. n \in Nat /\ mark[c] \in Nat /\ mark[c] <= n
  BY <1>2, NewMarkGrows
<1>5. ~Stopped(c, x)
  BY <1>2, <1>4 DEF Stopped, Xids
<1>6. c \notin PlainClients /\ srv = "up"
  BY <1>2 DEF WorkersGuarded, GoneIsIdle
<1>7. \A d \in Clients, y \in Xids :
        Stopped(d, y) \/ (d = c /\ y = x) => Stopped(d, y)'
  <2>1. mark' = [mark EXCEPT ![c] = n]
    BY DEF NewRequest
  <2>2. win' = [win EXCEPT ![c] =
                  [Purged(c, OutOfDate(c, x)) EXCEPT ![x] = "inprogress"]]
    BY DEF NewRequest
  <2>3. \A d \in Clients : d # c => win'[d] = win[d] /\ mark'[d] = mark[d]
    BY <2>1, <2>2 DEF TypeOK
  <2>4. mark'[c] = n
    BY <1>2, <2>1 DEF TypeOK
  <2>5. \A y \in Xids : win'[c][y] = IF y = x THEN "inprogress"
                                     ELSE IF y < n THEN "none" ELSE win[c][y]
    BY <1>2, <2>2 DEF Purged, OutOfDate, TypeOK
  <2>. QED
    BY <1>4, <2>3, <2>4, <2>5 DEF Stopped, Xids
<1>8. /\ \A v \in Workers : ~Running(v, c, x)
      /\ Once(c, x) => execs[c][x] = 0
  <2>1. \A v \in Workers : ~Running(v, c, x)
    BY <1>5, <1>6 DEF WorkersGuarded, Running
  <2>2. hdr[c][x].proc = "op" => hdr[c][x].nonce = inc
    BY <1>2 DEF WorkersGuarded
  <2>3. Once(c, x) => execs[c][x] = 0
    BY <1>2, <1>5, <1>6, <2>2 DEF ExecutedStopped, Once
  <2>. QED
    BY <2>1, <2>3
<1>9. Unsent' /\ NoncesStarted' /\ GoneIsIdle'
  BY <1>1, <1>2, <1>3, <1>6 DEF Unsent, NoncesStarted, GoneIsIdle, Serving
<1>10. WorkersGuarded'
  <2>1. ASSUME NEW v \in Workers, wk[v].pc # "idle"
        PROVE  wk[v].clt \in Clients /\ wk[v].xid \in Xids
    BY <2>1, BusyWorker
  <2>. QED
    BY <1>1, <1>2, <1>3, <1>6, <1>7, <2>1 DEF WorkersGuarded
<1>11. ExecutedStopped'
  BY <1>1, <1>7 DEF ExecutedStopped
<1>12. RunnerAlone'
  BY <1>1, <1>3, <1>8 DEF RunnerAlone, Running, Once
<1>13. OneCopy'
  BY <1>1, <1>3, <1>6 DEF OneCopy, Running
<1>14. ExecutedOnce'
  BY <1>1 DEF ExecutedOnce, Once
<1>. QED
  BY <1>9, <1>10, <1>11, <1>12, <1>13, <1>14

LEMMA InvRunHandler ==
  ASSUME AtMostOnceInv, TypeOK', NEW w \in Workers, RunHandler(w)
  PROVE  AtMostOnceInv'
<1>. USE DEF AtMostOnceInv
<1>. DEFINE c == wk[w].clt
            x == wk[w].xid
<1>1. UNCHANGED <<xid, st, hdr, bound, val, reqs, replies, srv, inc, jobs, mark, win>>
  BY DEF RunHandler, cliVars, callVars, netVars, srvVars
<1>2. wk[w].pc = "run" /\ c \in Clients /\ x \in Xids
  BY BusyWorker DEF RunHandler
<1>3. /\ wk'[w].pc = IF c \in PlainClients THEN "send" ELSE "add"
      /\ wk'[w].clt = c /\ wk'[w].xid = x
      /\ \A v \in Workers : v # w => wk'[v] = wk[v]
  <2>1. wk[w] \in Job
    BY <1>2, BusyWorker
  <2>2. wk' = [wk EXCEPT ![w].pc = IF c \in PlainClients THEN "send" ELSE "add"]
    BY DEF RunHandler
  <2>. QED
    BY <2>1, <2>2 DEF TypeOK, Job
<1>4. \A d \in Clients, y \in Xids :
        execs'[d][y] = IF d = c /\ y = x THEN execs[c][x] + 1 ELSE execs[d][y]
  BY <1>2 DEF RunHandler, TypeOK
<1>5. srv = "up"
  BY <1>2 DEF GoneIsIdle
<1>6. st[c][x] \notin {"idle", "new"}
  BY <1>2 DEF Unsent, Serving
<1>7. Unsent'
  BY <1>1, <1>3, <1>2, <1>4, <1>6 DEF Unsent, Serving
<1>8. NoncesStarted' /\ GoneIsIdle'
  BY <1>1, <1>5 DEF NoncesStarted, GoneIsIdle
<1>9. WorkersGuarded'
  BY <1>1, <1>2, <1>3 DEF WorkersGuarded, Stopped
<1>10. ExecutedStopped'
  <2>1. c \notin PlainClients => Stopped(c, x)
    BY <1>2 DEF WorkersGuarded
  <2>. QED
    BY <1>1, <1>4, <2>1 DEF ExecutedStopped, Stopped
<1>11. RunnerAlone'
  <2>1. ASSUME NEW v \in Workers, wk'[v].pc = "run"
        PROVE  /\ v # w /\ wk'[v] = wk[v] /\ ~(wk[v].clt = c /\ wk[v].xid = x)
               /\ wk[v].clt \in Clients /\ wk[v].xid \in Xids
    <3>1. v # w /\ wk'[v] = wk[v]
      BY <1>3, <2>1
    <3>. QED
      BY <1>2, <2>1, <3>1, BusyWorker DEF RunnerAlone, Running
  <2>. QED
    BY <1>1, <1>4, <2>1 DEF RunnerAlone, Running, Once
<1>12. OneCopy'
  <2>1. ASSUME NEW m \in reqs \cup jobs, m.clt \in PlainClients
        PROVE  /\ ~(m.clt = c /\ m.xid = x)
               /\ m.clt \in Clients /\ m.xid \in Xids
    BY <1>2, <2>1 DEF OneCopy, Running, TypeOK, Request
  <2>2. \A v \in Workers : wk'[v].pc = "run" => wk'[v] = wk[v]
    BY <1>3
  <2>. QED
    BY <1>1, <1>4, <2>1, <2>2 DEF OneCopy, Running
<1>13. ExecutedOnce'
  <2>1. Once(c, x) => execs[c][x] = 0
    BY <1>2 DEF RunnerAlone
  <2>. QED
    BY <1>1, <1>4, <2>1 DEF ExecutedOnce, Once
<1>. QED
  BY <1>7, <1>8, <1>9, <1>10, <1>11, <1>12, <1>13

LEMMA InvAddReply ==
  ASSUME AtMostOnceInv, TypeOK', NEW w \in Workers, AddReply(w)
  PROVE  AtMostOnceInv'
<1>. USE DEF AtMostOnceInv
<1>. DEFINE c == wk[w].clt
            x == wk[w].xid
<1>1. UNCHANGED <<xid, st, hdr, bound, val, reqs, replies, srv, inc, jobs, mark, execs>>
  BY DEF AddReply, cliVars, callVars, netVars
<1>2. wk[w].pc = "add" /\ c \in Clients /\ x \in Xids
  BY BusyWorker DEF AddReply
<1>3. /\ wk'[w].pc = "send" /\ wk'[w].clt = c /\ wk'[w].xid = x
      /\ \A v \in Workers : v # w => wk'[v] = wk[v]
  <2>1. wk[w] \in Job
    BY <1>2, BusyWorker
  <2>2. wk' = [wk EXCEPT ![w].pc = "send"]
    BY DEF AddReply
  <2>. QED
    BY <2>1, <2>2 DEF TypeOK, Job
<1>4. srv = "up"
  BY <1>2 DEF GoneIsIdle
<1>5. \A d \in Clients, y \in Xids : Stopped(d, y) => Stopped(d, y)'
  BY <1>1, <1>2 DEF AddReply, Stopped, TypeOK
<1>6. Unsent' /\ NoncesStarted' /\ GoneIsIdle'
  BY <1>1, <1>2, <1>3, <1>4 DEF Unsent, NoncesStarted, GoneIsIdle, Serving
<1>7. WorkersGuarded'
  <2>1. ASSUME NEW v \in Workers, wk[v].pc # "idle"
        PROVE  wk[v].clt \in Clients /\ wk[v].xid \in Xids
    BY <2>1, BusyWorker
  <2>. QED
    BY <1>1, <1>2, <1>3, <1>5, <2>1 DEF WorkersGuarded
<1>8. ExecutedStopped'
  BY <1>1, <1>5 DEF ExecutedStopped
<1>9. RunnerAlone' /\ OneCopy'
  BY <1>1, <1>3 DEF RunnerAlone, OneCopy, Running, Once
<1>10. ExecutedOnce'
  BY <1>1 DEF ExecutedOnce, Once
<1>. QED
  BY <1>6, <1>7, <1>8, <1>9, <1>10

\* A PDU that is refused, a handler that is registered: nothing the invariant
\* looks at changes.
LEMMA InvUnchanged ==
  ASSUME AtMostOnceInv, TypeOK',
         UNCHANGED <<cliVars, callVars, netVars, srvVars, execs>>
  PROVE  AtMostOnceInv'
<1>. USE DEF AtMostOnceInv, cliVars, callVars, netVars, srvVars
<1>1. Unsent' /\ GoneIsIdle'
  BY DEF Unsent, GoneIsIdle, Serving
<1>2. NoncesStarted'
  BY DEF NoncesStarted
<1>3. WorkersGuarded' /\ ExecutedStopped'
  BY DEF WorkersGuarded, ExecutedStopped, Stopped
<1>4. RunnerAlone' /\ OneCopy' /\ ExecutedOnce'
  BY DEF RunnerAlone, OneCopy, ExecutedOnce, Running, Once
<1>. QED
  BY <1>1, <1>2, <1>3, <1>4

LEMMA InvNext == AtMostOnceInv /\ [Next]_vars => AtMostOnceInv'
<1> SUFFICES ASSUME AtMostOnceInv, [Next]_vars PROVE AtMostOnceInv'
  OBVIOUS
<1>1. TypeOK'
  BY TypeOKNext DEF AtMostOnceInv
<1>2. CASE ClientNext
  BY <1>1, <1>2, InvIssue, InvTransmit, InvCallers DEF ClientNext
<1>3. CASE NetNext
  BY <1>1, <1>3, InvCallers, InvGone, InvRestart DEF NetNext, Crash
<1>4. ASSUME NEW m \in reqs, GotRequest(m) PROVE AtMostOnceInv'
  BY <1>1, <1>4, InvGotRequest
<1>7. ASSUME Register \/ \E m \in reqs : RequestRefused(m) PROVE AtMostOnceInv'
  <2>1. UNCHANGED <<cliVars, callVars, netVars, srvVars, execs>>
    BY <1>7 DEF Register, RequestRefused, StaysInRpdu, netVars
  <2>. QED
    BY <1>1, <2>1, InvUnchanged
<1>5. ASSUME NEW w \in Workers, WorkerNext(w) PROVE AtMostOnceInv'
  <2>1. ASSUME NEW m \in jobs,
               Refuse(w, m) \/ DispatchUnknown(w, m) \/ Dispatch(w, m)
        PROVE  AtMostOnceInv'
    BY <1>1, <2>1, InvRefuse, InvDispatch
  <2>2. CASE Forgotten(w) \/ Duplicate(w) \/ SendReply(w)
    BY <1>1, <2>2, InvWorkerDone
  <2>3. CASE NewRequest(w)
    BY <1>1, <2>3, InvNewRequest
  <2>4. CASE RunHandler(w)
    BY <1>1, <2>4, InvRunHandler
  <2>5. CASE AddReply(w)
    BY <1>1, <2>5, InvAddReply
  <2>6. CASE AddReplyAsserts(w) \/ SendReplyDereferencesNull(w)
    BY <1>1, <2>6, InvGone DEF AddReplyAsserts, SendReplyDereferencesNull
  <2>. QED
    BY <1>5, <2>1, <2>2, <2>3, <2>4, <2>5, <2>6 DEF WorkerNext
<1>6. CASE UNCHANGED vars
  BY <1>1, <1>6, InvUnchanged DEF vars
<1>. QED
  BY <1>2, <1>3, <1>4, <1>5, <1>6, <1>7 DEF Next

\* The conditions in module RpcInvariant hold in every reachable state, for
\* any number of clients, workers, connections and server instances.
THEOREM AtMostOnceInvariant == Spec => []AtMostOnceInv
<1>. QED
  BY InvInit, InvNext, PTL DEF Spec

\* No handler of an operation runs twice for one call, whatever rpcc
\* retransmits and rpcs forgets.
THEOREM AtMostOnceHolds == Spec => []AtMostOnce
<1>1. AtMostOnceInv => AtMostOnce
  BY DEF AtMostOnceInv, ExecutedOnce, AtMostOnce, Once, IsOp
<1>. QED
  BY <1>1, AtMostOnceInvariant, PTL

=============================================================================

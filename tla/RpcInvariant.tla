----------------------------- MODULE RpcInvariant -----------------------------
(***************************************************************************)
(* Why AtMostOnce holds, as an inductive invariant of module Rpc.          *)
(*                                                                         *)
(* For a client with a clt_nonce_ the reason is the server's: once a call  *)
(* was let through to its handler by the present instance, the call has an *)
(* entry in the reply window or lies below the mark, and either stops its  *)
(* duplicates; and no other instance serves it, because its header names   *)
(* one.  For a client with nonce 0 the reason is the client's: there never *)
(* is more than one copy of its request.                                   *)
(*                                                                         *)
(* AnswerInv adds why answers are true: each names what has happened to    *)
(* its call, and nothing that the server purges belongs to a waiting one.  *)
(***************************************************************************)
EXTENDS Rpc

\* The calls that run at most once.  bind of a client with a nonce is not one:
\* it carries no instance nonce, so another instance serves it again.
Once(c, x) == c \in PlainClients \/ hdr[c][x].proc = "op"

Serving(w, c, x) == wk[w].pc # "idle" /\ wk[w].clt = c /\ wk[w].xid = x
Running(w, c, x) == wk[w].pc = "run"  /\ wk[w].clt = c /\ wk[w].xid = x

\* The server will not run the call again.
Stopped(c, x) == x < mark[c] \/ win[c][x] # "none"

\* A call that has not been sent is nowhere at the server.
Unsent ==
  \A c \in Clients, x \in Xids :
    /\ xid[c] <= x => st[c][x] = "idle"
    /\ st[c][x] \in {"idle", "new"} =>
         /\ execs[c][x] = 0
         /\ \A m \in reqs \cup jobs : ~(m.clt = c /\ m.xid = x)
         /\ \A w \in Workers : ~Serving(w, c, x)

\* A nonce in a header, in a reply or at a client is that of an instance that
\* has been started; only bind has none.
NoncesStarted ==
  /\ \A r \in replies : r.val <= inc
  /\ \A c \in Clients : bound[c] <= inc
  /\ \A c \in Clients, x \in Xids :
       /\ val[c][x] <= inc
       /\ hdr[c][x].nonce <= inc
       /\ hdr[c][x].proc = "op" => hdr[c][x].nonce >= 1

\* A server that is gone has no jobs and no busy workers.
GoneIsIdle ==
  srv # "up" => jobs = {} /\ \A w \in Workers : wk[w].pc = "idle"

\* The workers of the present instance serve calls bound to it, and those past
\* checkduplicate_and_update are stopped for everybody else.
WorkersGuarded ==
  \A w \in Workers : wk[w].pc # "idle" =>
    LET c == wk[w].clt  x == wk[w].xid IN
    /\ hdr[c][x].proc = "op" => hdr[c][x].nonce = inc
    /\ c \in PlainClients => wk[w].pc \in {"run", "send"}
    /\ c \notin PlainClients /\ wk[w].pc # "check" => Stopped(c, x)

\* What the present instance has executed is stopped.
ExecutedStopped ==
  srv = "up" =>
    \A c \in Clients \ PlainClients, x \in Xids :
      hdr[c][x].proc = "op" /\ hdr[c][x].nonce = inc /\ execs[c][x] # 0
        => Stopped(c, x)

\* One worker at most is about to run the handler of a call, and if the call
\* runs at most once then it has not run.
RunnerAlone ==
  \A w \in Workers : wk[w].pc = "run" =>
    /\ Once(wk[w].clt, wk[w].xid) => execs[wk[w].clt][wk[w].xid] = 0
    /\ \A v \in Workers : Running(v, wk[w].clt, wk[w].xid) => v = w

\* There is one copy of the request of a client with nonce 0, and it has not
\* been executed.
OneCopy ==
  \A m \in reqs \cup jobs : m.clt \in PlainClients =>
    /\ execs[m.clt][m.xid] = 0
    /\ \A w \in Workers : ~Running(w, m.clt, m.xid)
    /\ \A n \in reqs \cup jobs : n.clt = m.clt /\ n.xid = m.xid => n = m
    /\ ~(m \in reqs /\ m \in jobs)

ExecutedOnce ==
  \A c \in Clients, x \in Xids : Once(c, x) => execs[c][x] <= 1

AtMostOnceInv ==
  /\ TypeOK
  /\ Unsent
  /\ NoncesStarted
  /\ GoneIsIdle
  /\ WorkersGuarded
  /\ ExecutedStopped
  /\ RunnerAlone
  /\ OneCopy
  /\ ExecutedOnce

-----------------------------------------------------------------------------
(* Answers.                                                                *)

\* What is answered was called.
AnswersOfCalls ==
  /\ \A r \in replies : st[r.clt][r.xid] # "idle"
  /\ \A c \in Clients, x \in Xids : st[c][x] = "idle" => ret[c][x] = "none"

\* A success, on its way or stored, is one of a call whose handler has run.
OkIsExecuted ==
  /\ \A r \in replies : r.ret = "ok" => execs[r.clt][r.xid] # 0
  /\ \A w \in Workers :
       wk[w].pc \in {"add", "send"} => execs[wk[w].clt][wk[w].xid] # 0
  /\ \A c \in Clients, x \in Xids :
       ret[c][x] = "ok" \/ win[c][x] = "done" => execs[c][x] # 0

\* oldsrv_failure is sent to a call that is bound to an earlier instance.
OldSrvIsOld ==
  /\ \A r \in replies :
       r.ret = "oldsrv" => hdr[r.clt][r.xid].nonce \in 1..inc - 1
  /\ OldSrvTruth

\* What update_xid_rep was told is over, and everything that a header or the
\* mark covers was told.
ReportedIsOver ==
  /\ \A c \in Clients, x \in Xids :
       x \in acked[c] => st[c][x] # "idle" /\ ~Waiting(c, x)
  /\ \A c \in Clients, x \in Xids, y \in Xids :
       y <= hdr[c][x].rep => y \in acked[c]
  /\ \A c \in Clients, y \in Xids : y <= mark[c] => y \in acked[c]

\* atmostonce_failure is sent to a call that is over.
ForgottenIsOver ==
  /\ \A r \in replies : r.ret = "amo" => r.xid \in acked[r.clt]
  /\ NoForgottenAnswer

\* Past checkduplicate_and_update, with a client that has a nonce and waits.
ServesWaiting(w) ==
  /\ wk[w].pc \in {"run", "add", "send"}
  /\ wk[w].clt \notin PlainClients
  /\ Waiting(wk[w].clt, wk[w].xid)

\* One worker at most serves a waiting caller, and the entry is there for it.
WaitingServed ==
  /\ WaitedEntryKept
  /\ \A w \in Workers, v \in Workers :
       /\ ServesWaiting(w) /\ ServesWaiting(v)
       /\ wk[v].clt = wk[w].clt /\ wk[v].xid = wk[w].xid
       => v = w

AnswerInv ==
  /\ AtMostOnceInv
  /\ AnswersOfCalls
  /\ OkIsExecuted
  /\ OldSrvIsOld
  /\ ReportedIsOver
  /\ ForgottenIsOver
  /\ WaitingServed

=============================================================================

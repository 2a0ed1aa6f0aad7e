--------------------------- MODULE RpcAnswerProofs ---------------------------
(* Proofs about the answers of module Rpc, for every value of its constants: *)
(* AnswerInv is inductive, and with it every step of the library is one of   *)
(* RemoteCall.                                                               *)
EXTENDS RpcProofs

-----------------------------------------------------------------------------
(* What the steps have in common.                                          *)

LEMMA ReplyTyped ==
  ASSUME TypeOK, NEW r \in replies
  PROVE  r.clt \in Clients /\ r.xid \in Xids /\ r.ret \in Replies
BY DEF TypeOK, Reply

LEMMA PutReplyAdds ==
  ASSUME NEW c, NEW x, NEW k, NEW code, PutReply(c, x, k, code)
  PROVE  \A r \in replies' : r \in replies \/ (r.clt = c /\ r.xid = x /\ r.ret = code)
BY DEF PutReply

\* A worker serves a call that was sent.
LEMMA ServedIsSent ==
  ASSUME AtMostOnceInv, NEW w \in Workers, wk[w].pc # "idle"
  PROVE  /\ wk[w].clt \in Clients /\ wk[w].xid \in Xids
         /\ st[wk[w].clt][wk[w].xid] \in {"wait", "returned"}
<1>1. wk[w].clt \in Clients /\ wk[w].xid \in Xids
  BY BusyWorker DEF AtMostOnceInv
<1>2. st[wk[w].clt][wk[w].xid] \notin {"idle", "new"}
  BY <1>1 DEF AtMostOnceInv, Unsent, Serving
<1>. QED
  BY <1>1, <1>2 DEF AtMostOnceInv, TypeOK

\* The new mark covers calls that are over only.
LEMMA BelowMarkIsOver ==
  ASSUME AnswerInv, NEW c \in Clients, NEW x \in Xids, NEW y \in Xids,
         y <= NewMark(c, x)
  PROVE  y \in acked[c] /\ ~Waiting(c, y)
<1>1. y <= hdr[c][x].rep \/ y <= mark[c]
  BY DEF NewMark
<1>. QED
  BY <1>1 DEF AnswerInv, ReportedIsOver

\* Nothing that a waiting caller needs has changed.
LEMMA WaitingServedKept ==
  ASSUME WaitingServed,
         \A w \in Workers : ServesWaiting(w)' =>
           /\ ServesWaiting(w)
           /\ wk'[w] = wk[w]
           /\ win'[wk[w].clt][wk[w].xid] = win[wk[w].clt][wk[w].xid]
  PROVE  WaitingServed'
BY DEF WaitingServed, WaitedEntryKept, ServesWaiting

-----------------------------------------------------------------------------
(* AnswerInv is inductive.                                                 *)

LEMMA AnswerInit == Init => AnswerInv
<1> SUFFICES ASSUME Init PROVE AnswerInv
  OBVIOUS
<1>1. AnswersOfCalls /\ OkIsExecuted /\ WaitingServed
  BY DEF Init, AnswersOfCalls, OkIsExecuted, WaitingServed, WaitedEntryKept,
         ServesWaiting, IdleWorker, EmptyWindow
<1>2. OldSrvIsOld /\ ForgottenIsOver
  BY DEF Init, OldSrvIsOld, OldSrvTruth, ForgottenIsOver, NoForgottenAnswer
<1>3. ReportedIsOver
  BY DEF Init, ReportedIsOver, NoHeader, Xids
<1>. QED
  BY <1>1, <1>2, <1>3, InvInit DEF AnswerInv

LEMMA AnswerIssue ==
  ASSUME AnswerInv, AtMostOnceInv', NEW c \in Clients, NEW p \in Procs, Issue(c, p)
  PROVE  AnswerInv'
<1>. USE DEF AnswerInv
<1>. DEFINE y == xid[c]
<1>1. y \in Xids /\ st[c][y] = "idle"
  <2>1. y \in Xids /\ y <= y
    BY DEF Issue, Xids
  <2>. QED
    BY <2>1, Zenon DEF AtMostOnceInv, Unsent
<1>2. TypeOK
  BY DEF AtMostOnceInv
<1>3. PICK n \in 0..MaxXid :
        /\ IsFront(n, acked[c])
        /\ hdr' = [hdr EXCEPT ![c][y] = [proc |-> p, nonce |-> bound[c], rep |-> n]]
  BY DEF Issue
<1>4. /\ st' = [st EXCEPT ![c][y] = "new"]
      /\ UNCHANGED <<ret, acked, replies, inc, wk, mark, win, execs>>
  BY DEF Issue, netVars, srvVars
<1>5. \A d \in Clients, z \in Xids :
        /\ st'[d][z] = IF d = c /\ z = y THEN "new" ELSE st[d][z]
        /\ d # c \/ z # y => hdr'[d][z] = hdr[d][z]
  BY <1>1, <1>2, <1>3, <1>4 DEF TypeOK
<1>6. hdr'[c][y].rep = n
  BY <1>1, <1>2, <1>3 DEF TypeOK
<1>7. AnswersOfCalls'
  BY <1>1, <1>2, <1>4, <1>5, ReplyTyped DEF AnswersOfCalls
<1>8. OkIsExecuted' /\ ForgottenIsOver'
  BY <1>4 DEF OkIsExecuted, ForgottenIsOver, NoForgottenAnswer
<1>9. OldSrvIsOld'
  <2>1. \A r \in replies : r.clt \in Clients /\ r.xid \in Xids /\ ~(r.clt = c /\ r.xid = y)
    BY <1>1, <1>2, ReplyTyped DEF AnswersOfCalls
  <2>2. ret[c][y] = "none"
    BY <1>1 DEF AnswersOfCalls
  <2>. QED
    BY <1>4, <1>5, <2>1, <2>2 DEF OldSrvIsOld, OldSrvTruth
<1>10. ReportedIsOver'
  <2>1. y \notin acked[c]
    BY <1>1 DEF ReportedIsOver
  <2>2. \A d \in Clients, z \in Xids :
          z \in acked[d] => st'[d][z] = st[d][z] /\ ~(d = c /\ z = y)
    BY <1>5, <2>1
  <2>3. \A d \in Clients, z \in Xids :
          z \in acked[d] => st'[d][z] # "idle" /\ ~Waiting(d, z)'
    BY <1>4, <2>2 DEF ReportedIsOver, Waiting
  <2>4. \A z \in Xids : z <= n => z \in acked[c]
    BY <1>3 DEF IsFront, Xids
  <2>5. \A d \in Clients, x \in Xids, z \in Xids :
          z <= hdr'[d][x].rep => z \in acked[d]
    BY <1>5, <1>6, <2>4 DEF ReportedIsOver
  <2>. QED
    BY <1>4, <2>3, <2>5 DEF ReportedIsOver
<1>11. WaitingServed'
  <2>1. ASSUME NEW w \in Workers, ServesWaiting(w)'
        PROVE  ServesWaiting(w)
    <3>1. wk[w].pc # "idle" /\ wk' = wk
      BY <1>4, <2>1 DEF ServesWaiting
    <3>2. /\ wk[w].clt \in Clients /\ wk[w].xid \in Xids
          /\ ~(wk[w].clt = c /\ wk[w].xid = y)
      BY <1>1, <3>1, ServedIsSent
    <3>. QED
      BY <1>4, <1>5, <2>1, <3>1, <3>2 DEF ServesWaiting, Waiting
  <2>. QED
    BY <1>4, <2>1, WaitingServedKept
<1>. QED
  BY <1>7, <1>8, <1>9, <1>10, <1>11

LEMMA AnswerTransmit ==
  ASSUME AnswerInv, AtMostOnceInv', NEW c \in Clients, NEW x \in Xids, Transmit(c, x)
  PROVE  AnswerInv'
<1>. USE DEF AnswerInv
<1>1. UNCHANGED <<acked, hdr, ret, replies, inc, wk, mark, win, execs>>
  BY DEF Transmit, srvVars
<1>2. \A d \in Clients, z \in Xids :
        st'[d][z] = st[d][z] \/ (st[d][z] = "new" /\ st'[d][z] = "wait")
  <2>1. st[c][x] \in {"new", "wait"} /\ st' = [st EXCEPT ![c][x] = "wait"]
    BY DEF Transmit, MustSend
  <2>. QED
    BY <2>1 DEF AtMostOnceInv, TypeOK
<1>3. \A d \in Clients, z \in Xids : Waiting(d, z)' <=> Waiting(d, z)
  BY <1>1, <1>2 DEF Waiting
<1>4. AnswersOfCalls'
  <2>1. \A r \in replies : r.clt \in Clients /\ r.xid \in Xids
    BY ReplyTyped DEF AtMostOnceInv
  <2>. QED
    BY <1>1, <1>2, <2>1 DEF AnswersOfCalls
<1>5. OkIsExecuted' /\ ForgottenIsOver' /\ OldSrvIsOld'
  BY <1>1 DEF OkIsExecuted, ForgottenIsOver, NoForgottenAnswer, OldSrvIsOld, OldSrvTruth
<1>6. ReportedIsOver'
  BY <1>1, <1>2, <1>3 DEF ReportedIsOver
<1>7. WaitingServed'
  <2>1. ASSUME NEW w \in Workers, ServesWaiting(w)'
        PROVE  ServesWaiting(w)
    <3>1. wk[w].clt \in Clients /\ wk[w].xid \in Xids
      BY <1>1, <2>1, ServedIsSent DEF ServesWaiting
    <3>. QED
      BY <1>1, <1>3, <2>1, <3>1 DEF ServesWaiting
  <2>. QED
    BY <1>1, <2>1, WaitingServedKept
<1>. QED
  BY <1>4, <1>5, <1>6, <1>7

LEMMA AnswerGotReply ==
  ASSUME AnswerInv, AtMostOnceInv', NEW r \in replies, GotReply(r)
  PROVE  AnswerInv'
<1>. USE DEF AnswerInv
<1>. DEFINE c == r.clt
            x == r.xid
<1>1. c \in Clients /\ x \in Xids /\ r.ret \in Replies
  BY ReplyTyped DEF AtMostOnceInv
<1>2. /\ UNCHANGED <<st, hdr, inc, wk, mark, win, execs>>
      /\ replies' = replies \ {r}
      /\ acked' = [acked EXCEPT ![c] = @ \cup {x}]
  BY DEF GotReply, srvVars
<1>3. IF Waiting(c, x) THEN ret' = [ret EXCEPT ![c][x] = r.ret] ELSE UNCHANGED ret
  BY DEF GotReply
<1>4. \A d \in Clients, z \in Xids :
        \/ ret'[d][z] = ret[d][z]
        \/ d = c /\ z = x /\ Waiting(c, x) /\ ret'[d][z] = r.ret
  BY <1>1, <1>3 DEF AtMostOnceInv, TypeOK
<1>5. \A d \in Clients, z \in Xids :
        /\ Waiting(d, z)' => Waiting(d, z) /\ ~(d = c /\ z = x)
        /\ z \in acked[d] => z \in acked'[d]
        /\ z \in acked'[d] => z \in acked[d] \/ (d = c /\ z = x)
  <2>1. r.ret # "none"
    BY <1>1 DEF Replies
  <2>2. ret'[c][x] # "none" \/ ~Waiting(c, x)
    BY <1>1, <1>3, <2>1 DEF AtMostOnceInv, TypeOK
  <2>3. \A d \in Clients, z \in Xids :
          Waiting(d, z)' => Waiting(d, z) /\ ~(d = c /\ z = x)
    <3>1. ASSUME NEW d \in Clients, NEW z \in Xids, Waiting(d, z)'
          PROVE  Waiting(d, z) /\ ~(d = c /\ z = x)
      <4>1. ret'[d][z] = "none" /\ st[d][z] \in {"new", "wait"}
        BY <1>2, <3>1 DEF Waiting
      <4>2. ret[d][z] = "none"
        BY <1>4, <2>1, <4>1
      <4>. QED
        BY <2>2, <4>1, <4>2 DEF Waiting
    <3>. QED
      BY <3>1
  <2>4. acked \in [Clients -> SUBSET Xids]
    BY DEF AtMostOnceInv, TypeOK
  <2>. QED
    BY <1>1, <1>2, <2>3, <2>4
<1>6. AnswersOfCalls'
  BY <1>1, <1>2, <1>4 DEF AnswersOfCalls
<1>7. OkIsExecuted'
  BY <1>1, <1>2, <1>4 DEF OkIsExecuted
<1>8. OldSrvIsOld'
  BY <1>1, <1>2, <1>4 DEF OldSrvIsOld, OldSrvTruth
<1>9. ReportedIsOver'
  <2>1. st[c][x] # "idle"
    BY DEF AnswersOfCalls
  <2>. QED
    BY <1>2, <1>5, <2>1 DEF ReportedIsOver
<1>10. ForgottenIsOver'
  <2>1. r.ret = "amo" => ~Waiting(c, x)
    BY <1>1 DEF ForgottenIsOver, ReportedIsOver
  <2>2. \A q \in replies : q.clt \in Clients /\ q.xid \in Xids
    BY ReplyTyped DEF AtMostOnceInv
  <2>. QED
    BY <1>2, <1>4, <1>5, <2>1, <2>2 DEF ForgottenIsOver, NoForgottenAnswer
<1>11. WaitingServed'
  <2>1. ASSUME NEW w \in Workers, ServesWaiting(w)'
        PROVE  ServesWaiting(w)
    <3>1. wk[w].clt \in Clients /\ wk[w].xid \in Xids
      BY <1>2, <2>1, ServedIsSent DEF ServesWaiting
    <3>. QED
      BY <1>2, <1>5, <2>1, <3>1 DEF ServesWaiting
  <2>. QED
    BY <1>2, <2>1, WaitingServedKept
<1>. QED
  BY <1>6, <1>7, <1>8, <1>9, <1>10, <1>11

LEMMA AnswerReturn ==
  ASSUME AnswerInv, AtMostOnceInv', NEW c \in Clients, NEW x \in Xids, Return(c, x)
  PROVE  AnswerInv'
<1>. USE DEF AnswerInv
<1>1. /\ UNCHANGED <<hdr, replies, inc, wk, mark, win, execs>>
      /\ st[c][x] = "wait"
      /\ st' = [st EXCEPT ![c][x] = "returned"]
      /\ ret' = [ret EXCEPT ![c][x] = IF @ = "none" THEN "timeout" ELSE @]
      /\ acked' = [acked EXCEPT ![c] = @ \cup {x}]
  BY DEF Return, netVars, srvVars
<1>2. \A d \in Clients, z \in Xids :
        /\ st'[d][z] = IF d = c /\ z = x THEN "returned" ELSE st[d][z]
        /\ \/ ret'[d][z] = ret[d][z]
           \/ d = c /\ z = x /\ ret'[d][z] = "timeout"
        /\ z \in acked'[d] <=> z \in acked[d] \/ (d = c /\ z = x)
  BY <1>1 DEF AtMostOnceInv, TypeOK
<1>3. \A d \in Clients, z \in Xids :
        Waiting(d, z)' => Waiting(d, z) /\ ~(d = c /\ z = x)
  BY <1>2 DEF Waiting
<1>4. \A r \in replies : r.clt \in Clients /\ r.xid \in Xids
  BY ReplyTyped DEF AtMostOnceInv
<1>5. AnswersOfCalls'
  BY <1>1, <1>2, <1>4 DEF AnswersOfCalls
<1>6. OkIsExecuted' /\ OldSrvIsOld'
  BY <1>1, <1>2, <1>4 DEF OkIsExecuted, OldSrvIsOld, OldSrvTruth
<1>7. ReportedIsOver'
  BY <1>1, <1>2, <1>3 DEF ReportedIsOver
<1>8. ForgottenIsOver'
  BY <1>1, <1>2, <1>4 DEF ForgottenIsOver, NoForgottenAnswer
<1>9. WaitingServed'
  <2>1. ASSUME NEW w \in Workers, ServesWaiting(w)'
        PROVE  ServesWaiting(w)
    <3>1. wk[w].clt \in Clients /\ wk[w].xid \in Xids
      BY <1>1, <2>1, ServedIsSent DEF ServesWaiting
    <3>. QED
      BY <1>1, <1>3, <2>1, <3>1 DEF ServesWaiting
  <2>. QED
    BY <1>1, <2>1, WaitingServedKept
<1>. QED
  BY <1>5, <1>6, <1>7, <1>8, <1>9

LEMMA AnswerCancel ==
  ASSUME AnswerInv, AtMostOnceInv', NEW c \in Clients, Cancel(c)
  PROVE  AnswerInv'
<1>. USE DEF AnswerInv
<1>1. UNCHANGED <<acked, st, hdr, replies, inc, wk, mark, win, execs>>
  BY DEF Cancel, netVars, srvVars
<1>2. \A d \in Clients, z \in Xids :
        \/ ret'[d][z] = ret[d][z]
        \/ st[d][z] \in {"new", "wait"} /\ ret'[d][z] = "cancel"
  <2>. DEFINE f == [x \in Xids |-> IF x \in Outstanding(c) THEN "cancel"
                                                         ELSE ret[c][x]]
  <2>1. ret' = [ret EXCEPT ![c] = f]
    BY DEF Cancel
  <2>2. \A z \in Xids : f[z] = ret[c][z] \/ (st[c][z] \in {"new", "wait"} /\ f[z] = "cancel")
    BY DEF Outstanding
  <2>. HIDE DEF f
  <2>3. \A d \in Clients : ret'[d] = IF d = c THEN f ELSE ret[d]
    BY <2>1 DEF AtMostOnceInv, TypeOK
  <2>. QED
    BY <2>2, <2>3
<1>3. \A d \in Clients, z \in Xids : Waiting(d, z)' => Waiting(d, z)
  BY <1>1, <1>2 DEF Waiting
<1>4. AnswersOfCalls'
  BY <1>1, <1>2 DEF AnswersOfCalls
<1>5. OkIsExecuted' /\ OldSrvIsOld' /\ ForgottenIsOver'
  BY <1>1, <1>2 DEF OkIsExecuted, OldSrvIsOld, OldSrvTruth, ForgottenIsOver,
     NoForgottenAnswer
<1>6. ReportedIsOver'
  BY <1>1, <1>3 DEF ReportedIsOver
<1>7. WaitingServed'
  <2>1. ASSUME NEW w \in Workers, ServesWaiting(w)'
        PROVE  ServesWaiting(w)
    <3>1. wk[w].clt \in Clients /\ wk[w].xid \in Xids
      BY <1>1, <2>1, ServedIsSent DEF ServesWaiting
    <3>. QED
      BY <1>1, <1>3, <2>1, <3>1 DEF ServesWaiting
  <2>. QED
    BY <1>1, <2>1, WaitingServedKept
<1>. QED
  BY <1>4, <1>5, <1>6, <1>7

\* The steps that only lose or move what is in flight, and stuttering.
LEMMA AnswerNet ==
  ASSUME AnswerInv, AtMostOnceInv',
         \/ \E k \in Conns : ClientEndDies(k) \/ ServerEndDies(k)
         \/ \E m \in reqs : GotRequest(m) \/ RequestRefused(m)
         \/ \E w \in Workers : \E m \in jobs : DispatchUnknown(w, m)
         \/ Register
         \/ UNCHANGED vars
  PROVE  AnswerInv'
<1>. USE DEF AnswerInv
<1>1. /\ UNCHANGED <<acked, st, hdr, ret, inc, wk, mark, win, execs>>
      /\ replies' \subseteq replies
  BY DEF ClientEndDies, ServerEndDies, GotRequest, RequestRefused, StaysInRpdu,
         DispatchUnknown, Register, vars, cliVars, callVars, netVars, srvVars
<1>2. AnswersOfCalls' /\ OkIsExecuted'
  BY <1>1 DEF AnswersOfCalls, OkIsExecuted
<1>3. OldSrvIsOld' /\ ForgottenIsOver'
  BY <1>1 DEF OldSrvIsOld, OldSrvTruth, ForgottenIsOver, NoForgottenAnswer
<1>4. ReportedIsOver'
  BY <1>1 DEF ReportedIsOver, Waiting
<1>5. WaitingServed'
  BY <1>1, WaitingServedKept DEF ServesWaiting, Waiting
<1>. QED
  BY <1>2, <1>3, <1>4, <1>5

LEMMA AnswerGone ==
  ASSUME AnswerInv, AtMostOnceInv', NEW why, ServerGone(why),
         UNCHANGED <<cliVars, callVars, nconn, cliDead, replies, inc, execs>>
  PROVE  AnswerInv'
<1>. USE DEF AnswerInv
<1>1. UNCHANGED <<acked, st, hdr, ret, replies, inc, execs>>
  BY DEF cliVars, callVars
<1>2. /\ \A w \in Workers : wk'[w].pc = "idle"
      /\ \A c \in Clients, x \in Xids : win'[c][x] = "none"
      /\ \A c \in Clients : mark'[c] = 0
  BY DEF ServerGone, IdleWorker, EmptyWindow
<1>3. AnswersOfCalls' /\ OkIsExecuted'
  BY <1>1, <1>2 DEF AnswersOfCalls, OkIsExecuted
<1>4. OldSrvIsOld' /\ ForgottenIsOver'
  BY <1>1 DEF OldSrvIsOld, OldSrvTruth, ForgottenIsOver, NoForgottenAnswer
<1>5. ReportedIsOver'
  BY <1>1, <1>2 DEF ReportedIsOver, Waiting, Xids
<1>6. WaitingServed'
  BY <1>2 DEF WaitingServed, WaitedEntryKept, ServesWaiting
<1>. QED
  BY <1>3, <1>4, <1>5, <1>6

LEMMA AnswerRestart ==
  ASSUME AnswerInv, AtMostOnceInv', Restart
  PROVE  AnswerInv'
<1>. USE DEF AnswerInv
<1>1. UNCHANGED <<acked, st, hdr, ret, replies, wk, mark, win, execs>>
  BY DEF Restart, cliVars, callVars, netVars
<1>2. inc \in Nat /\ inc' = inc + 1
  BY DEF Restart, AtMostOnceInv, TypeOK
<1>3. AnswersOfCalls' /\ OkIsExecuted' /\ ForgottenIsOver'
  BY <1>1 DEF AnswersOfCalls, OkIsExecuted, ForgottenIsOver, NoForgottenAnswer
<1>4. OldSrvIsOld'
  BY <1>1, <1>2 DEF OldSrvIsOld, OldSrvTruth
<1>5. ReportedIsOver'
  BY <1>1 DEF ReportedIsOver, Waiting
<1>6. WaitingServed'
  BY <1>1, WaitingServedKept DEF ServesWaiting, Waiting
<1>. QED
  BY <1>3, <1>4, <1>5, <1>6

LEMMA AnswerRefuse ==
  ASSUME AnswerInv, AtMostOnceInv', NEW w \in Workers, NEW m \in jobs, Refuse(w, m)
  PROVE  AnswerInv'
<1>. USE DEF AnswerInv
<1>. DEFINE c == m.clt
            x == m.xid
<1>1. UNCHANGED <<acked, st, hdr, ret, inc, wk, mark, win, execs>>
  BY DEF Refuse, cliVars, callVars
<1>2. \A r \in replies' : r \in replies \/ (r.clt = c /\ r.xid = x /\ r.ret = "oldsrv")
  BY PutReplyAdds DEF Refuse, OldSrvFailure
<1>3. c \in Clients /\ x \in Xids
  BY DEF AtMostOnceInv, TypeOK, Request
<1>4. AnswersOfCalls'
  <2>1. st[c][x] # "idle"
    BY <1>3 DEF AtMostOnceInv, Unsent
  <2>. QED
    BY <1>1, <1>2, <2>1 DEF AnswersOfCalls
<1>5. OkIsExecuted' /\ ForgottenIsOver'
  BY <1>1, <1>2 DEF OkIsExecuted, ForgottenIsOver, NoForgottenAnswer
<1>6. OldSrvIsOld'
  <2>1. hdr[c][x].nonce \in Nat /\ hdr[c][x].nonce <= inc /\ inc \in Nat
    BY <1>3 DEF AtMostOnceInv, TypeOK, Header, Nonces, NoncesStarted
  <2>2. hdr[c][x].nonce \notin {0, inc}
    BY DEF Refuse, ForOldInstance
  <2>3. hdr[c][x].nonce \in 1..inc - 1
    BY <2>1, <2>2
  <2>. QED
    BY <1>1, <1>2, <2>3 DEF OldSrvIsOld, OldSrvTruth
<1>7. ReportedIsOver' /\ WaitingServed'
  BY <1>1, WaitingServedKept DEF ReportedIsOver, ServesWaiting, Waiting
<1>. QED
  BY <1>4, <1>5, <1>6, <1>7

LEMMA AnswerDispatch ==
  ASSUME AnswerInv, AtMostOnceInv', NEW w \in Workers, NEW m \in jobs, Dispatch(w, m)
  PROVE  AnswerInv'
<1>. USE DEF AnswerInv
<1>1. UNCHANGED <<acked, st, hdr, ret, replies, inc, mark, win, execs>>
  BY DEF Dispatch, cliVars, callVars, netVars
<1>2. /\ wk'[w].pc = IF m.clt \in PlainClients THEN "run" ELSE "check"
      /\ wk'[w].clt = m.clt
      /\ \A v \in Workers : v # w => wk'[v] = wk[v]
  BY DEF Dispatch, AtMostOnceInv, TypeOK
<1>3. AnswersOfCalls' /\ OldSrvIsOld' /\ ForgottenIsOver'
  BY <1>1 DEF AnswersOfCalls, OldSrvIsOld, OldSrvTruth, ForgottenIsOver,
     NoForgottenAnswer
<1>4. OkIsExecuted'
  BY <1>1, <1>2 DEF OkIsExecuted
<1>5. ReportedIsOver'
  BY <1>1 DEF ReportedIsOver, Waiting
<1>6. WaitingServed'
  <2>1. ASSUME NEW v \in Workers, ServesWaiting(v)'
        PROVE  v # w /\ wk'[v] = wk[v] /\ ServesWaiting(v)
    BY <1>1, <1>2, <2>1 DEF ServesWaiting, Waiting
  <2>. QED
    BY <1>1, <2>1, WaitingServedKept
<1>. QED
  BY <1>3, <1>4, <1>5, <1>6

\* The mark rises to n only over calls that are over.
LEMMA MarkOfCall ==
  ASSUME AnswerInv, NEW c \in Clients, NEW x \in Xids,
         mark' = [mark EXCEPT ![c] = NewMark(c, x)],
         UNCHANGED <<acked, hdr, st, ret>>
  PROVE  ReportedIsOver'
<1>1. \A d \in Clients : mark'[d] = IF d = c THEN NewMark(c, x) ELSE mark[d]
  BY DEF AnswerInv, AtMostOnceInv, TypeOK
<1>2. \A y \in Xids : y <= NewMark(c, x) => y \in acked[c]
  BY BelowMarkIsOver
<1>. QED
  BY <1>1, <1>2 DEF AnswerInv, ReportedIsOver, Waiting

\* A purge takes nothing from a waiting call.
LEMMA PurgedIsOver ==
  ASSUME AnswerInv, NEW c \in Clients, NEW x \in Xids,
         NEW S \in SUBSET OutOfDate(c, x), NEW y \in Xids
  PROVE  /\ Purged(c, S)[y] \in {"none", win[c][y]}
         /\ Waiting(c, y) => Purged(c, S)[y] = win[c][y]
<1>1. y \in S => ~Waiting(c, y)
  <2>1. SUFFICES ASSUME y \in S PROVE ~Waiting(c, y)
    OBVIOUS
  <2>2. NewMark(c, x) \in Nat /\ y \in Nat /\ y < NewMark(c, x)
    BY <2>1, NewMarkGrows DEF OutOfDate, Xids, AnswerInv, AtMostOnceInv
  <2>. QED
    BY <2>2, BelowMarkIsOver
<1>. QED
  BY <1>1 DEF Purged

\* The steps that end a worker's call: an answer is sent, or nothing.
LEMMA AnswerWorkerDone ==
  ASSUME AnswerInv, AtMostOnceInv', NEW w \in Workers,
         Forgotten(w) \/ Duplicate(w) \/ SendReply(w)
  PROVE  AnswerInv'
<1>. USE DEF AnswerInv
<1>. DEFINE c == wk[w].clt
            x == wk[w].xid
<1>1. UNCHANGED <<acked, st, hdr, ret, inc, execs>>
  BY DEF Forgotten, Duplicate, SendReply, cliVars, callVars
<1>2. wk[w].pc # "idle" /\ c \in Clients /\ x \in Xids
  BY BusyWorker DEF Forgotten, Duplicate, SendReply, AtMostOnceInv
<1>3. /\ wk'[w].pc = "idle"
      /\ \A v \in Workers : v # w => wk'[v] = wk[v]
  BY DEF Forgotten, Duplicate, SendReply, IdleWorker, AtMostOnceInv, TypeOK
<1>4. \A r \in replies' :
        \/ r \in replies
        \/ /\ r.clt = c /\ r.xid = x
           /\ \/ r.ret = "ok" /\ execs[c][x] # 0
              \/ r.ret = "amo" /\ x \in acked[c]
  <2>1. CASE Forgotten(w)
    <3>1. x <= NewMark(c, x)
      BY <1>2, <2>1, NewMarkGrows DEF Forgotten, Xids, AtMostOnceInv
    <3>2. x \in acked[c]
      BY <1>2, <3>1, BelowMarkIsOver
    <3>. QED
      BY <2>1, <3>2, PutReplyAdds DEF Forgotten
  <2>2. CASE Duplicate(w)
    <3>1. HasReply(c, x) => execs[c][x] # 0
      BY <1>2 DEF HasReply, OkIsExecuted
    <3>. QED
      BY <2>2, <3>1, PutReplyAdds DEF Duplicate
  <2>3. CASE SendReply(w)
    <3>1. execs[c][x] # 0
      BY <2>3 DEF SendReply, OkIsExecuted
    <3>. QED
      BY <2>3, <3>1, PutReplyAdds DEF SendReply
  <2>. QED
    BY <2>1, <2>2, <2>3
<1>5. AnswersOfCalls'
  <2>1. st[c][x] # "idle"
    BY <1>2, ServedIsSent
  <2>. QED
    BY <1>1, <1>4, <2>1 DEF AnswersOfCalls
<1>6. \A d \in Clients, y \in Xids :
        /\ win'[d][y] \in {"none", win[d][y]}
        /\ Waiting(d, y) => win'[d][y] = win[d][y]
  <2>1. CASE Forgotten(w) \/ SendReply(w)
    BY <2>1 DEF Forgotten, SendReply
  <2>2. CASE Duplicate(w)
    <3>1. PICK S \in SUBSET OutOfDate(c, x) : win' = [win EXCEPT ![c] = Purged(c, S)]
      BY <2>2 DEF Duplicate
    <3>2. \A d \in Clients : win'[d] = IF d = c THEN Purged(c, S) ELSE win[d]
      BY <3>1 DEF AtMostOnceInv, TypeOK
    <3>. QED
      BY <1>2, <3>2, PurgedIsOver
  <2>. QED
    BY <2>1, <2>2
<1>7. OkIsExecuted'
  BY <1>1, <1>3, <1>4, <1>6 DEF OkIsExecuted
<1>8. OldSrvIsOld' /\ ForgottenIsOver'
  BY <1>1, <1>4 DEF OldSrvIsOld, OldSrvTruth, ForgottenIsOver, NoForgottenAnswer
<1>9. ReportedIsOver'
  <2>1. CASE Forgotten(w) \/ Duplicate(w)
    BY <1>1, <1>2, <2>1, MarkOfCall DEF Forgotten, Duplicate
  <2>2. CASE SendReply(w)
    BY <1>1, <2>2 DEF SendReply, ReportedIsOver, Waiting
  <2>. QED
    BY <2>1, <2>2
<1>10. WaitingServed'
  <2>1. ASSUME NEW v \in Workers, ServesWaiting(v)'
        PROVE  /\ wk'[v] = wk[v] /\ ServesWaiting(v)
               /\ win'[wk[v].clt][wk[v].xid] = win[wk[v].clt][wk[v].xid]
    <3>1. wk'[v] = wk[v] /\ ServesWaiting(v)
      BY <1>1, <1>3, <2>1 DEF ServesWaiting, Waiting
    <3>2. wk[v].clt \in Clients /\ wk[v].xid \in Xids
      BY <3>1, BusyWorker DEF ServesWaiting, AtMostOnceInv
    <3>. QED
      BY <1>6, <3>1, <3>2 DEF ServesWaiting
  <2>. QED
    BY <2>1, WaitingServedKept
<1>. QED
  BY <1>5, <1>7, <1>8, <1>9, <1>10

LEMMA AnswerNewRequest ==
  ASSUME AnswerInv, AtMostOnceInv', NEW w \in Workers, NewRequest(w)
  PROVE  AnswerInv'
<1>. USE DEF AnswerInv
<1>. DEFINE c == wk[w].clt
            x == wk[w].xid
<1>1. UNCHANGED <<acked, st, hdr, ret, replies, inc, execs>>
  BY DEF NewRequest, cliVars, callVars, netVars
<1>2. wk[w].pc = "check" /\ c \in Clients /\ x \in Xids /\ win[c][x] = "none"
  BY BusyWorker DEF NewRequest, AtMostOnceInv
<1>3. /\ wk'[w].pc = "run" /\ wk'[w].clt = c /\ wk'[w].xid = x
      /\ \A v \in Workers : v # w => wk'[v] = wk[v]
  <2>1. wk[w] \in Job
    BY <1>2, BusyWorker DEF AtMostOnceInv
  <2>2. wk' = [wk EXCEPT ![w].pc = "run"]
    BY DEF NewRequest
  <2>. QED
    BY <2>1, <2>2 DEF AtMostOnceInv, TypeOK, Job
<1>4. \A d \in Clients, y \in Xids :
        IF d = c /\ y = x THEN win'[d][y] = "inprogress"
        ELSE /\ win'[d][y] \in {"none", win[d][y]}
             /\ Waiting(d, y) => win'[d][y] = win[d][y]
  <2>. DEFINE S == OutOfDate(c, x)
              P == Purged(c, S)
  <2>1. win' = [win EXCEPT ![c] = [P EXCEPT ![x] = "inprogress"]]
    BY DEF NewRequest
  <2>2. \A y \in Xids : /\ P[y] \in {"none", win[c][y]}
                        /\ Waiting(c, y) => P[y] = win[c][y]
    BY <1>2, PurgedIsOver
  <2>3. DOMAIN P = Xids
    BY DEF Purged
  <2>. HIDE DEF P
  <2>4. \A d \in Clients : win'[d] = IF d = c THEN [P EXCEPT ![x] = "inprogress"]
                                              ELSE win[d]
    BY <2>1 DEF AtMostOnceInv, TypeOK
  <2>5. \A y \in Xids : [P EXCEPT ![x] = "inprogress"][y] =
                          IF y = x THEN "inprogress" ELSE P[y]
    BY <2>3
  <2>6. win'[c] = [P EXCEPT ![x] = "inprogress"]
    BY <1>2, <2>4
  <2>7. \A y \in Xids : win'[c][y] = IF y = x THEN "inprogress" ELSE P[y]
    BY <2>5, <2>6
  <2>8. \A d \in Clients : d # c => win'[d] = win[d]
    BY <2>4
  <2>9. ASSUME NEW y \in Xids
        PROVE  IF y = x THEN win'[c][y] = "inprogress"
               ELSE /\ win'[c][y] \in {"none", win[c][y]}
                    /\ Waiting(c, y) => win'[c][y] = win[c][y]
    BY <2>2, <2>7
  <2>. QED
    BY <2>8, <2>9
<1>5. AnswersOfCalls' /\ OldSrvIsOld' /\ ForgottenIsOver'
  BY <1>1 DEF AnswersOfCalls, OldSrvIsOld, OldSrvTruth, ForgottenIsOver,
     NoForgottenAnswer
<1>6. OkIsExecuted'
  BY <1>1, <1>3, <1>4 DEF OkIsExecuted
<1>7. ReportedIsOver'
  BY <1>1, <1>2, MarkOfCall DEF NewRequest
<1>8. ASSUME NEW v \in Workers, v # w, ServesWaiting(v)'
      PROVE  /\ wk'[v] = wk[v] /\ ServesWaiting(v)
             /\ ~(wk[v].clt = c /\ wk[v].xid = x)
             /\ win'[wk[v].clt][wk[v].xid] = win[wk[v].clt][wk[v].xid]
  <2>1. wk'[v] = wk[v] /\ ServesWaiting(v)
    BY <1>1, <1>3, <1>8 DEF ServesWaiting, Waiting
  <2>2. wk[v].clt \in Clients /\ wk[v].xid \in Xids
    BY <2>1, BusyWorker DEF ServesWaiting, AtMostOnceInv
  <2>3. win[wk[v].clt][wk[v].xid] # "none"
    BY <2>1 DEF ServesWaiting, WaitingServed, WaitedEntryKept
  <2>4. ~(wk[v].clt = c /\ wk[v].xid = x)
    BY <1>2, <2>3
  <2>. QED
    BY <1>4, <2>1, <2>2, <2>4 DEF ServesWaiting
<1>9. WaitingServed'
  <2>1. WaitedEntryKept'
    <3>1. ASSUME NEW v \in Workers, ServesWaiting(v)'
          PROVE  win'[wk'[v].clt][wk'[v].xid] =
                   IF wk'[v].pc = "send" THEN "done" ELSE "inprogress"
      <4>1. CASE v = w
        BY <1>2, <1>3, <1>4, <4>1
      <4>2. CASE v # w
        BY <1>8, <3>1, <4>2 DEF WaitingServed, WaitedEntryKept, ServesWaiting
      <4>. QED
        BY <4>1, <4>2
    <3>. QED
      BY <3>1 DEF WaitedEntryKept, ServesWaiting
  <2>2. \A u \in Workers, v \in Workers :
          /\ ServesWaiting(u)' /\ ServesWaiting(v)'
          /\ wk'[v].clt = wk'[u].clt /\ wk'[v].xid = wk'[u].xid
          => v = u
    BY <1>3, <1>8 DEF WaitingServed
  <2>. QED
    BY <2>1, <2>2 DEF WaitingServed
<1>. QED
  BY <1>5, <1>6, <1>7, <1>9

LEMMA AnswerRunHandler ==
  ASSUME AnswerInv, AtMostOnceInv', NEW w \in Workers, RunHandler(w)
  PROVE  AnswerInv'
<1>. USE DEF AnswerInv
<1>. DEFINE c == wk[w].clt
            x == wk[w].xid
<1>1. UNCHANGED <<acked, st, hdr, ret, replies, inc, mark, win>>
  BY DEF RunHandler, cliVars, callVars, netVars, srvVars
<1>2. wk[w].pc = "run" /\ c \in Clients /\ x \in Xids
  BY BusyWorker DEF RunHandler, AtMostOnceInv
<1>3. /\ wk'[w].pc = IF c \in PlainClients THEN "send" ELSE "add"
      /\ wk'[w].clt = c /\ wk'[w].xid = x
      /\ \A v \in Workers : v # w => wk'[v] = wk[v]
  <2>1. wk[w] \in Job
    BY <1>2, BusyWorker DEF AtMostOnceInv
  <2>2. wk' = [wk EXCEPT ![w].pc = IF c \in PlainClients THEN "send" ELSE "add"]
    BY DEF RunHandler
  <2>. QED
    BY <2>1, <2>2 DEF AtMostOnceInv, TypeOK, Job
<1>4. /\ \A d \in Clients, y \in Xids : execs[d][y] # 0 => execs'[d][y] # 0
      /\ execs'[c][x] # 0
  <2>1. \A d \in Clients, y \in Xids :
          execs[d][y] \in Nat
            /\ execs'[d][y] = IF d = c /\ y = x THEN execs[c][x] + 1 ELSE execs[d][y]
    BY <1>2 DEF RunHandler, AtMostOnceInv, TypeOK
  <2>. QED
    BY <1>2, <2>1
<1>5. AnswersOfCalls' /\ OldSrvIsOld' /\ ForgottenIsOver'
  BY <1>1 DEF AnswersOfCalls, OldSrvIsOld, OldSrvTruth, ForgottenIsOver,
     NoForgottenAnswer
<1>6. OkIsExecuted'
  <2>1. \A r \in replies : r.clt \in Clients /\ r.xid \in Xids
    BY ReplyTyped DEF AtMostOnceInv
  <2>2. ASSUME NEW v \in Workers, v # w, wk[v].pc # "idle"
        PROVE  wk[v].clt \in Clients /\ wk[v].xid \in Xids
    BY <2>2, BusyWorker DEF AtMostOnceInv
  <2>3. \A v \in Workers :
          wk'[v].pc \in {"add", "send"} => execs'[wk'[v].clt][wk'[v].xid] # 0
    BY <1>3, <1>4, <2>2 DEF OkIsExecuted
  <2>. QED
    BY <1>1, <1>4, <2>1, <2>3 DEF OkIsExecuted
<1>7. ReportedIsOver'
  BY <1>1 DEF ReportedIsOver, Waiting
<1>8. WaitingServed'
  <2>1. \A v \in Workers : /\ ServesWaiting(v)' <=> ServesWaiting(v)
                           /\ wk'[v].clt = wk[v].clt /\ wk'[v].xid = wk[v].xid
    BY <1>1, <1>2, <1>3 DEF ServesWaiting, Waiting
  <2>2. \A v \in Workers : ServesWaiting(v) => (wk'[v].pc = "send" <=> wk[v].pc = "send")
    BY <1>2, <1>3 DEF ServesWaiting
  <2>. QED
    BY <1>1, <2>1, <2>2 DEF WaitingServed, WaitedEntryKept, ServesWaiting
<1>. QED
  BY <1>5, <1>6, <1>7, <1>8

LEMMA AnswerAddReply ==
  ASSUME AnswerInv, AtMostOnceInv', NEW w \in Workers, AddReply(w)
  PROVE  AnswerInv'
<1>. USE DEF AnswerInv
<1>. DEFINE c == wk[w].clt
            x == wk[w].xid
<1>1. UNCHANGED <<acked, st, hdr, ret, replies, inc, mark, execs>>
  BY DEF AddReply, cliVars, callVars, netVars
<1>2. wk[w].pc = "add" /\ c \in Clients /\ x \in Xids
  BY BusyWorker DEF AddReply, AtMostOnceInv
<1>3. /\ wk'[w].pc = "send" /\ wk'[w].clt = c /\ wk'[w].xid = x
      /\ \A v \in Workers : v # w => wk'[v] = wk[v]
  <2>1. wk[w] \in Job
    BY <1>2, BusyWorker DEF AtMostOnceInv
  <2>2. wk' = [wk EXCEPT ![w].pc = "send"]
    BY DEF AddReply
  <2>. QED
    BY <2>1, <2>2 DEF AtMostOnceInv, TypeOK, Job
<1>4. \A d \in Clients, y \in Xids :
        win'[d][y] = IF d = c /\ y = x THEN "done" ELSE win[d][y]
  BY <1>2 DEF AddReply, AtMostOnceInv, TypeOK
<1>5. AnswersOfCalls' /\ OldSrvIsOld' /\ ForgottenIsOver'
  BY <1>1 DEF AnswersOfCalls, OldSrvIsOld, OldSrvTruth, ForgottenIsOver,
     NoForgottenAnswer
<1>6. OkIsExecuted'
  BY <1>1, <1>2, <1>3, <1>4 DEF OkIsExecuted
<1>7. ReportedIsOver'
  BY <1>1 DEF ReportedIsOver, Waiting
<1>8. \A v \in Workers : /\ ServesWaiting(v)' <=> ServesWaiting(v)
                         /\ wk'[v].clt = wk[v].clt /\ wk'[v].xid = wk[v].xid
  BY <1>1, <1>2, <1>3 DEF ServesWaiting, Waiting
<1>9. WaitedEntryKept'
  <2>1. ASSUME NEW v \in Workers, ServesWaiting(v)
        PROVE  win'[wk[v].clt][wk[v].xid] =
                 IF wk'[v].pc = "send" THEN "done" ELSE "inprogress"
    <3>1. CASE v = w
      BY <1>2, <1>3, <1>4, <3>1
    <3>2. CASE v # w
      <4>1. ~(wk[v].clt = c /\ wk[v].xid = x)
        <5>1. SUFFICES ASSUME wk[v].clt = c, wk[v].xid = x PROVE FALSE
          OBVIOUS
        <5>2. ServesWaiting(w)
          BY <1>2, <2>1, <5>1 DEF ServesWaiting
        <5>. QED
          BY <2>1, <3>2, <5>1, <5>2 DEF WaitingServed
      <4>2. wk[v].clt \in Clients /\ wk[v].xid \in Xids
        BY <2>1, BusyWorker DEF ServesWaiting, AtMostOnceInv
      <4>. QED
        BY <1>3, <1>4, <2>1, <3>2, <4>1, <4>2
           DEF WaitingServed, WaitedEntryKept, ServesWaiting
    <3>. QED
      BY <3>1, <3>2
  <2>. QED
    BY <1>8, <2>1 DEF WaitedEntryKept, ServesWaiting
<1>10. WaitingServed'
  BY <1>8, <1>9 DEF WaitingServed
<1>. QED
  BY <1>5, <1>6, <1>7, <1>10

LEMMA AnswerNext == AnswerInv /\ [Next]_vars => AnswerInv'
<1> SUFFICES ASSUME AnswerInv, [Next]_vars PROVE AnswerInv'
  OBVIOUS
<1>1. AtMostOnceInv'
  BY InvNext DEF AnswerInv
<1>2. CASE ClientNext
  BY <1>1, <1>2, AnswerIssue, AnswerTransmit, AnswerReturn, AnswerGotReply,
     AnswerCancel DEF ClientNext
<1>3. CASE NetNext
  BY <1>1, <1>3, AnswerNet, AnswerGone, AnswerRestart DEF NetNext, Crash
<1>4. CASE \/ \E m \in reqs : GotRequest(m) \/ RequestRefused(m)
           \/ Register
           \/ UNCHANGED vars
  BY <1>1, <1>4, AnswerNet
<1>5. ASSUME NEW w \in Workers, WorkerNext(w) PROVE AnswerInv'
  <2>1. ASSUME NEW m \in jobs,
               Refuse(w, m) \/ DispatchUnknown(w, m) \/ Dispatch(w, m)
        PROVE  AnswerInv'
    BY <1>1, <2>1, AnswerNet, AnswerRefuse, AnswerDispatch
  <2>2. CASE Forgotten(w) \/ Duplicate(w) \/ SendReply(w)
    BY <1>1, <2>2, AnswerWorkerDone
  <2>3. CASE NewRequest(w) \/ RunHandler(w) \/ AddReply(w)
    BY <1>1, <2>3, AnswerNewRequest, AnswerRunHandler, AnswerAddReply
  <2>4. CASE AddReplyAsserts(w) \/ SendReplyDereferencesNull(w)
    BY <1>1, <2>4, AnswerGone DEF AddReplyAsserts, SendReplyDereferencesNull
  <2>. QED
    BY <1>5, <2>1, <2>2, <2>3, <2>4 DEF WorkerNext
<1>. QED
  BY <1>2, <1>3, <1>4, <1>5 DEF Next

LEMMA AnswerInvHolds == Spec => []AnswerInv
<1>. QED
  BY AnswerInit, AnswerNext, PTL DEF Spec

-----------------------------------------------------------------------------
(* What a caller is told.                                                  *)

\* A call that rpcc reports as successful had its handler run, at whatever
\* instance, worker or retransmission.
THEOREM OkMeansExecutedHolds == Spec => []OkMeansExecuted
<1>1. AnswerInv => OkMeansExecuted
  BY DEF AnswerInv, OkIsExecuted, OkMeansExecuted, AtMostOnceInv, TypeOK
<1>. QED
  BY <1>1, AnswerInvHolds, PTL

\* A caller is told oldsrv_failure only if the instance it was bound to is gone.
THEOREM OldSrvTruthHolds == Spec => []OldSrvTruth
<1>1. AnswerInv => OldSrvTruth
  BY DEF AnswerInv, OldSrvIsOld
<1>. QED
  BY <1>1, AnswerInvHolds, PTL

\* No caller is told atmostonce_failure: what xid_rep makes checkduplicate_and_
\* update forget is over at the client.
THEOREM NoForgottenAnswerHolds == Spec => []NoForgottenAnswer
<1>1. AnswerInv => NoForgottenAnswer
  BY DEF AnswerInv, ForgottenIsOver
<1>. QED
  BY <1>1, AnswerInvHolds, PTL

\* The reply window keeps the entry of every call that is being served for a
\* caller who waits.
THEOREM WaitedEntryKeptHolds == Spec => []WaitedEntryKept
<1>1. AnswerInv => WaitedEntryKept
  BY DEF AnswerInv, WaitingServed
<1>. QED
  BY <1>1, AnswerInvHolds, PTL

-----------------------------------------------------------------------------
(* The library implements RemoteCall.  Out and Runs are what the refinement *)
(* mapping puts in the place of outcome and runs.                           *)

Out(c, x) ==
  CASE st[c][x] = "idle"     -> "none"
    [] st[c][x] = "returned" -> IF ret[c][x] = "ok" THEN "ok" ELSE "failed"
    [] OTHER                 -> "pending"

Runs(c, x) == IF IsOp(c, x) \/ execs[c][x] = 0 THEN execs[c][x] ELSE 1

OutOfAll  == [k \in Clients \X Xids |-> Out(k[1], k[2])]
RunsOfAll == [k \in Clients \X Xids |-> Runs(k[1], k[2])]

\* Before and after a step.
LEMMA OutValue ==
  ASSUME NEW c, NEW x
  PROVE  /\ Out(c, x) = IF st[c][x] = "idle" THEN "none"
                        ELSE IF st[c][x] # "returned" THEN "pending"
                        ELSE IF ret[c][x] = "ok" THEN "ok" ELSE "failed"
         /\ Out(c, x)' = IF st'[c][x] = "idle" THEN "none"
                         ELSE IF st'[c][x] # "returned" THEN "pending"
                         ELSE IF ret'[c][x] = "ok" THEN "ok" ELSE "failed"
<1>1. CASE st[c][x] = "idle"
  BY <1>1 DEF Out
<1>2. CASE st[c][x] = "returned"
  BY <1>2 DEF Out
<1>3. CASE st[c][x] \notin {"idle", "returned"}
  BY <1>3 DEF Out
<1>4. CASE st'[c][x] = "idle"
  BY <1>4 DEF Out
<1>5. CASE st'[c][x] = "returned"
  BY <1>5 DEF Out
<1>6. CASE st'[c][x] \notin {"idle", "returned"}
  BY <1>6 DEF Out
<1>. QED
  BY <1>1, <1>2, <1>3, <1>4, <1>5, <1>6

\* The abstract actions in these words.
LEMMA AbstractActions ==
  ASSUME NEW k
  PROVE  /\ RC!IssueCall(k) <=>
              /\ OutOfAll[k] = "none"
              /\ OutOfAll' = [OutOfAll EXCEPT ![k] = "pending"]
              /\ UNCHANGED RunsOfAll
         /\ RC!Execute(k) <=>
              /\ OutOfAll[k] # "none" /\ RunsOfAll[k] = 0
              /\ RunsOfAll' = [RunsOfAll EXCEPT ![k] = 1]
              /\ UNCHANGED OutOfAll
         /\ RC!Succeed(k) <=>
              /\ OutOfAll[k] = "pending" /\ RunsOfAll[k] = 1
              /\ OutOfAll' = [OutOfAll EXCEPT ![k] = "ok"]
              /\ UNCHANGED RunsOfAll
         /\ RC!Fail(k) <=>
              /\ OutOfAll[k] = "pending"
              /\ OutOfAll' = [OutOfAll EXCEPT ![k] = "failed"]
              /\ UNCHANGED RunsOfAll
BY DEF RC!IssueCall, RC!Execute, RC!Succeed, RC!Fail, OutOfAll, RunsOfAll, Out, Runs

\* A call is a pair of a client and an xid.
LEMMA AtCall ==
  ASSUME NEW c \in Clients, NEW x \in Xids
  PROVE  /\ <<c, x>> \in Clients \X Xids
         /\ OutOfAll[<<c, x>>] = Out(c, x) /\ RunsOfAll[<<c, x>>] = Runs(c, x)
BY DEF OutOfAll, RunsOfAll

\* If one call alone changes, and only its outcome, the abstract outcome is
\* that of all calls changed at this one; and likewise for what was run.
LEMMA OneOutcome ==
  ASSUME NEW c \in Clients, NEW x \in Xids,
         \A d \in Clients, y \in Xids : d # c \/ y # x => Out(d, y)' = Out(d, y)
  PROVE  OutOfAll' = [OutOfAll EXCEPT ![<<c, x>>] = Out(c, x)']
<1>1. ASSUME NEW k \in Clients \X Xids
      PROVE  Out(k[1], k[2])' = IF k = <<c, x>> THEN Out(c, x)' ELSE Out(k[1], k[2])
  <2>1. PICK d \in Clients, y \in Xids : k = <<d, y>>
    OBVIOUS
  <2>2. k[1] = d /\ k[2] = y /\ (k = <<c, x>> <=> d = c /\ y = x)
    BY <2>1
  <2>. QED
    BY <2>2
<1>2. OutOfAll' = [k \in Clients \X Xids |->
         IF k = <<c, x>> THEN Out(c, x)' ELSE Out(k[1], k[2])]
  BY <1>1 DEF OutOfAll
<1>. QED
  BY <1>2 DEF OutOfAll

LEMMA OneRun ==
  ASSUME NEW c \in Clients, NEW x \in Xids,
         \A d \in Clients, y \in Xids : d # c \/ y # x => Runs(d, y)' = Runs(d, y)
  PROVE  RunsOfAll' = [RunsOfAll EXCEPT ![<<c, x>>] = Runs(c, x)']
<1>1. ASSUME NEW k \in Clients \X Xids
      PROVE  Runs(k[1], k[2])' = IF k = <<c, x>> THEN Runs(c, x)' ELSE Runs(k[1], k[2])
  <2>1. PICK d \in Clients, y \in Xids : k = <<d, y>>
    OBVIOUS
  <2>2. k[1] = d /\ k[2] = y /\ (k = <<c, x>> <=> d = c /\ y = x)
    BY <2>1
  <2>. QED
    BY <2>2
<1>2. RunsOfAll' = [k \in Clients \X Xids |->
         IF k = <<c, x>> THEN Runs(c, x)' ELSE Runs(k[1], k[2])]
  BY <1>1 DEF RunsOfAll
<1>. QED
  BY <1>2 DEF RunsOfAll

LEMMA SameOutcomes ==
  ASSUME \A d \in Clients, y \in Xids : Out(d, y)' = Out(d, y)
  PROVE  UNCHANGED OutOfAll
BY DEF OutOfAll

LEMMA SameRuns ==
  ASSUME \A d \in Clients, y \in Xids : Runs(d, y)' = Runs(d, y)
  PROVE  UNCHANGED RunsOfAll
BY DEF RunsOfAll

LEMMA AbstractStutter ==
  ASSUME UNCHANGED <<OutOfAll, RunsOfAll>>
  PROVE  UNCHANGED RC!rcVars
BY DEF RC!rcVars, OutOfAll, RunsOfAll, Out, Runs

LEMMA ToIssue ==
  ASSUME AnswerInv, NEW c \in Clients, NEW p \in Procs, Issue(c, p)
  PROVE  \E k \in Clients \X Xids : RC!IssueCall(k)
<1>1. TypeOK
  BY DEF AnswerInv, AtMostOnceInv
<1>0. PICK x \in Xids : x = xid[c]
  BY DEF Issue
<1>2. x \in Xids /\ st[c][x] = "idle" /\ execs[c][x] = 0
  <2>1. x \in Xids /\ xid[c] <= x
    BY <1>0 DEF Issue, Xids
  <2>2. st[c][x] = "idle"
    BY <2>1, Zenon DEF AnswerInv, AtMostOnceInv, Unsent
  <2>. QED
    BY <2>1, <2>2, Zenon DEF AnswerInv, AtMostOnceInv, Unsent
<1>3. /\ UNCHANGED <<ret, execs>>
      /\ st' = [st EXCEPT ![c][x] = "new"]
      /\ \E r : hdr' = [hdr EXCEPT ![c][x] = r]
  BY <1>0 DEF Issue
<1>4. \A d \in Clients, y \in Xids :
        IF d = c /\ y = x THEN st'[d][y] = "new"
                          ELSE st'[d][y] = st[d][y] /\ hdr'[d][y] = hdr[d][y]
  BY <1>1, <1>2, <1>3 DEF TypeOK
<1>5. Out(c, x) = "none" /\ Out(c, x)' = "pending"
  BY <1>2, <1>4, OutValue
<1>6. \A d \in Clients, y \in Xids : d # c \/ y # x => Out(d, y)' = Out(d, y)
  BY <1>3, <1>4, OutValue
<1>7. \A d \in Clients, y \in Xids : Runs(d, y)' = Runs(d, y)
  BY <1>2, <1>3, <1>4 DEF Runs, IsOp
<1>8. RC!IssueCall(<<c, x>>)
  BY <1>2, <1>5, <1>6, <1>7, AtCall, OneOutcome, SameRuns, AbstractActions
<1>. QED
  BY <1>2, <1>8

LEMMA ToReturn ==
  ASSUME AnswerInv, NEW c \in Clients, NEW x \in Xids, Return(c, x)
  PROVE  \E k \in Clients \X Xids : RC!Succeed(k) \/ RC!Fail(k)
<1>1. TypeOK
  BY DEF AnswerInv, AtMostOnceInv
<1>2. /\ UNCHANGED <<hdr, execs>>
      /\ st[c][x] = "wait"
      /\ st' = [st EXCEPT ![c][x] = "returned"]
      /\ ret' = [ret EXCEPT ![c][x] = IF @ = "none" THEN "timeout" ELSE @]
  BY DEF Return
<1>3. \A d \in Clients, y \in Xids :
        IF d = c /\ y = x
          THEN /\ st'[d][y] = "returned"
               /\ ret'[d][y] = "ok" <=> ret[d][y] = "ok"
          ELSE st'[d][y] = st[d][y] /\ ret'[d][y] = ret[d][y]
  BY <1>1, <1>2 DEF TypeOK
<1>4. /\ Out(c, x) = "pending"
      /\ Out(c, x)' = IF ret[c][x] = "ok" THEN "ok" ELSE "failed"
  BY <1>2, <1>3, OutValue
<1>5. \A d \in Clients, y \in Xids : d # c \/ y # x => Out(d, y)' = Out(d, y)
  BY <1>3, OutValue
<1>6. \A d \in Clients, y \in Xids : Runs(d, y)' = Runs(d, y)
  BY <1>2, <1>3 DEF Runs, IsOp
<1>7. ret[c][x] = "ok" => Runs(c, x) = 1
  <2>1. execs[c][x] \in Nat
    BY <1>1 DEF TypeOK
  <2>2. ret[c][x] = "ok" => execs[c][x] # 0
    BY DEF AnswerInv, OkIsExecuted
  <2>3. IsOp(c, x) => execs[c][x] <= 1
    BY DEF AnswerInv, AtMostOnceInv, ExecutedOnce, Once, IsOp
  <2>. QED
    BY <2>1, <2>2, <2>3 DEF Runs
<1>8. RC!Succeed(<<c, x>>) \/ RC!Fail(<<c, x>>)
  BY <1>4, <1>5, <1>6, <1>7, AtCall, OneOutcome, SameRuns, AbstractActions
<1>. QED
  BY <1>8

\* A handler that runs is that of a call, and of one that has not run unless it
\* is bind.
LEMMA ToRunHandler ==
  ASSUME AnswerInv, NEW w \in Workers, RunHandler(w)
  PROVE  \/ UNCHANGED <<OutOfAll, RunsOfAll>>
         \/ \E k \in Clients \X Xids : RC!Execute(k)
<1>2. PICK c \in Clients, x \in Xids : wk[w].pc = "run" /\ wk[w].clt = c /\ wk[w].xid = x
  BY BusyWorker DEF RunHandler, AnswerInv, AtMostOnceInv
<1>1. /\ UNCHANGED <<st, hdr, ret>>
      /\ execs' = [execs EXCEPT ![c][x] = @ + 1]
  BY <1>2 DEF RunHandler, callVars
<1>3. st[c][x] # "idle"
  BY <1>2, ServedIsSent DEF AnswerInv
<1>4. \A d \in Clients, y \in Xids :
        /\ execs[d][y] \in Nat
        /\ execs'[d][y] = IF d = c /\ y = x THEN execs[c][x] + 1 ELSE execs[d][y]
  BY <1>1, <1>2 DEF AnswerInv, AtMostOnceInv, TypeOK
<1>5. \A d \in Clients, y \in Xids : Out(d, y)' = Out(d, y)
  BY <1>1, OutValue
<1>6. \A d \in Clients, y \in Xids : d # c \/ y # x => Runs(d, y)' = Runs(d, y)
  BY <1>1, <1>4 DEF Runs, IsOp
<1>7. CASE execs[c][x] = 0
  <2>1. Runs(c, x) = 0 /\ Runs(c, x)' = 1
    BY <1>2, <1>4, <1>7 DEF Runs
  <2>2. Out(c, x) # "none"
    BY <1>3, OutValue
  <2>3. RC!Execute(<<c, x>>)
    BY <1>2, <1>5, <1>6, <2>1, <2>2, AtCall, OneRun, SameOutcomes, AbstractActions
  <2>. QED
    BY <1>2, <2>3
<1>8. CASE execs[c][x] # 0
  <2>1. ~IsOp(c, x)
    BY <1>2, <1>8 DEF AnswerInv, AtMostOnceInv, RunnerAlone, Once, IsOp
  <2>2. ~IsOp(c, x)' /\ execs'[c][x] # 0
    BY <1>1, <1>2, <1>4, <2>1 DEF IsOp
  <2>3. Runs(c, x)' = Runs(c, x)
    BY <1>8, <2>1, <2>2 DEF Runs
  <2>. QED
    BY <1>5, <1>6, <2>3, SameOutcomes, SameRuns
<1>. QED
  BY <1>7, <1>8

\* Until call1 returns, its result may change as it likes.
LEMMA ToStutter ==
  ASSUME AnswerInv, UNCHANGED <<hdr, execs>>,
         \A c \in Clients, x \in Xids :
           \/ st'[c][x] = st[c][x] /\ ret'[c][x] = ret[c][x]
           \/ st[c][x] \in {"new", "wait"} /\ st'[c][x] \in {"new", "wait"}
  PROVE  UNCHANGED <<OutOfAll, RunsOfAll>>
<1>1. \A c \in Clients, x \in Xids : Out(c, x)' = Out(c, x)
  BY OutValue
<1>2. \A c \in Clients, x \in Xids : Runs(c, x)' = Runs(c, x)
  BY DEF Runs, IsOp
<1>. QED
  BY <1>1, <1>2, SameOutcomes, SameRuns

LEMMA StepRefines == AnswerInv /\ [Next]_vars => [RC!RCNext]_(RC!rcVars)
<1> SUFFICES ASSUME AnswerInv, [Next]_vars
             PROVE  RC!RCNext \/ UNCHANGED RC!rcVars
  OBVIOUS
<1>1. TypeOK
  BY DEF AnswerInv, AtMostOnceInv
<1>2. ASSUME NEW c \in Clients, NEW p \in Procs, Issue(c, p)
      PROVE  RC!RCNext
  BY <1>2, ToIssue DEF RC!RCNext
<1>3. ASSUME NEW c \in Clients, NEW x \in Xids, Return(c, x)
      PROVE  RC!RCNext
  BY <1>3, ToReturn DEF RC!RCNext
<1>4. ASSUME NEW c \in Clients, NEW x \in Xids, Transmit(c, x)
      PROVE  UNCHANGED RC!rcVars
  <2>1. /\ UNCHANGED <<hdr, ret, execs>>
        /\ st[c][x] \in {"new", "wait"} /\ st' = [st EXCEPT ![c][x] = "wait"]
    BY <1>4 DEF Transmit, MustSend
  <2>. QED
    BY <1>1, <2>1, ToStutter, AbstractStutter DEF TypeOK
<1>5. ASSUME NEW r \in replies, GotReply(r)
      PROVE  UNCHANGED RC!rcVars
  <2>1. r.clt \in Clients /\ r.xid \in Xids
    BY <1>1, ReplyTyped
  <2>2. UNCHANGED <<st, hdr, execs>>
    BY <1>5 DEF GotReply
  <2>3. IF Waiting(r.clt, r.xid) THEN ret' = [ret EXCEPT ![r.clt][r.xid] = r.ret]
                                 ELSE UNCHANGED ret
    BY <1>5 DEF GotReply
  <2>4. \A c \in Clients, x \in Xids :
          ret'[c][x] = ret[c][x] \/ st[c][x] \in {"new", "wait"}
    <3>1. CASE Waiting(r.clt, r.xid)
      <4>1. st[r.clt][r.xid] \in {"new", "wait"}
        BY <3>1 DEF Waiting
      <4>2. ret' = [ret EXCEPT ![r.clt][r.xid] = r.ret]
        BY <2>3, <3>1
      <4>3. ret \in [Clients -> [Xids -> Results \cup {"none"}]]
        BY <1>1 DEF TypeOK
      <4>. QED
        BY <2>1, <4>1, <4>2, <4>3
    <3>2. CASE ~Waiting(r.clt, r.xid)
      BY <2>3, <3>2
    <3>. QED
      BY <3>1, <3>2
  <2>. QED
    BY <2>2, <2>4, ToStutter, AbstractStutter
<1>6. ASSUME NEW c \in Clients, Cancel(c)
      PROVE  UNCHANGED RC!rcVars
  <2>1. UNCHANGED <<st, hdr, execs>>
    BY <1>6 DEF Cancel
  <2>. DEFINE f == [x \in Xids |-> IF x \in Outstanding(c) THEN "cancel"
                                                         ELSE ret[c][x]]
  <2>2. ret' = [ret EXCEPT ![c] = f]
    BY <1>6 DEF Cancel
  <2>3. \A x \in Xids : f[x] = ret[c][x] \/ st[c][x] \in {"new", "wait"}
    BY DEF Outstanding
  <2>. HIDE DEF f
  <2>4. \A d \in Clients : ret'[d] = IF d = c THEN f ELSE ret[d]
    BY <1>1, <2>2 DEF TypeOK
  <2>5. \A d \in Clients, x \in Xids :
          ret'[d][x] = ret[d][x] \/ st[d][x] \in {"new", "wait"}
    BY <2>3, <2>4
  <2>. QED
    BY <2>1, <2>5, ToStutter, AbstractStutter
<1>7. ASSUME NEW w \in Workers, RunHandler(w)
      PROVE  RC!RCNext \/ UNCHANGED RC!rcVars
  BY <1>7, ToRunHandler, AbstractStutter DEF RC!RCNext
<1>8. ASSUME UNCHANGED <<callVars, execs>>
      PROVE  UNCHANGED RC!rcVars
  BY <1>8, ToStutter, AbstractStutter DEF callVars
<1>9. CASE ClientNext
  BY <1>2, <1>3, <1>4, <1>5, <1>6, <1>9 DEF ClientNext
<1>10. CASE NetNext \/ UNCHANGED vars
  BY <1>8, <1>10 DEF NetNext, ClientEndDies, ServerEndDies, Crash, Restart, vars
<1>11. ASSUME Register \/ \E m \in reqs : GotRequest(m) \/ RequestRefused(m)
       PROVE  UNCHANGED RC!rcVars
  BY <1>8, <1>11 DEF Register, GotRequest, RequestRefused
<1>12. ASSUME NEW w \in Workers, WorkerNext(w), ~RunHandler(w)
       PROVE  UNCHANGED RC!rcVars
  BY <1>8, <1>12 DEF WorkerNext, Refuse, DispatchUnknown, Dispatch, Forgotten,
     Duplicate, NewRequest, AddReply, AddReplyAsserts, SendReply, SendReplyDereferencesNull
<1>. QED
  BY <1>7, <1>9, <1>10, <1>11, <1>12 DEF Next

LEMMA InitRefines == Init => RC!RCInit
<1> SUFFICES ASSUME Init PROVE RC!RCInit
  OBVIOUS
<1>1. \A c \in Clients, x \in Xids : Out(c, x) = "none" /\ Runs(c, x) = 0
  BY DEF Init, Out, Runs
<1>2. /\ OutOfAll = [k \in Clients \X Xids |-> "none"]
      /\ RunsOfAll = [k \in Clients \X Xids |-> 0]
  BY <1>1 DEF OutOfAll, RunsOfAll
<1>. QED
  BY <1>2 DEF RC!RCInit, OutOfAll, RunsOfAll, Out, Runs

\* Connections, retransmissions, the reply window, cancel, crashes and restarts
\* add nothing a caller could see: every step of the library is a step of
\* RemoteCall, in which a call is executed at most once and succeeds only then.
THEOREM LibraryImplementsRemoteCall == Spec => ImplementsRemoteCall
<1>1. Spec => []AnswerInv
  BY AnswerInvHolds
<1>. QED
  BY <1>1, InitRefines, StepRefines, PTL DEF Spec, ImplementsRemoteCall, RC!RCSpec

=============================================================================

------------------------------- MODULE OneCall -------------------------------
(***************************************************************************)
(* One typed call from end to end: rpcc::call marshals the arguments,      *)
(* call1 sends them and waits under its deadlines, the handler made by     *)
(* rpcs::reg unmarshals them, runs and marshals its result, and call_m     *)
(* unmarshals that.  Module Rpc has many calls with their xids and keeps   *)
(* their contents and the clock out; here there is one call, with both.    *)
(*                                                                         *)
(* A scenario gives the arguments and the time of the call, the parameter  *)
(* types and the result of the handler, and the variable for the result.   *)
(* The compiler does not compare the two sides.                            *)
(*                                                                         *)
(* A definition marked mutant is a wrong variant of the one after it.      *)
(***************************************************************************)
EXTENDS Marshall, Timespec

CONSTANTS
  Scenarios,   \* records: args, to, sig, b, res, rtype, prior
  Clock        \* the readings of CLOCK_REALTIME, the bound of time

ASSUME OneCallAssumption ==
  /\ \A s \in Scenarios :
       /\ s.to \in Nat /\ s.b \in Nat
       /\ s.args \in Seq(Values) /\ s.sig \in Seq(Types)
       /\ s.res \in Values /\ s.rtype \in Types
       /\ HeaderSize + TotalSize(s.args) <= MaxPdu
       /\ HeaderSize + EncodedSize(s.res) <= MaxPdu
  /\ \A t \in Clock : t.sec \in Nat \ {0} /\ ValidTime(t)

VARIABLES
  sc,       \* the scenario
  now,      \* the clock
  (* the caller *)
  pc,       \* "args", "transmit", "send", "deadline", "wait", "leave",
            \* "returned", "spin": waiting with an invalid deadline, ca.m held,
            \* or "crashed": the process has ended
  todo,     \* what is still to be written to req
  req,      \* the marshall of the request
  curr,     \* curr_to, in ms
  next,     \* nextdeadline
  final,    \* finaldeadline; sec is 0 once it has become nextdeadline
  done, intret, reply,  \* ca.done, ca.intret, and the bytes taken in by ca.un
  ret, r,   \* what call returns, and the caller's variable for the result
  (* the connection: "none", "up" or "dead", and what is in flight on it *)
  ch, inReq, inRep,
  (* the server *)
  spc,      \* "idle", "args" while the arguments are read, "reply" while the
            \* reply is written, "done", or "crashed"
  un,       \* the unmarshall of the request
  saw,      \* the arguments read so far
  ran,      \* whether the handler was called with them
  rtodo, rep, sret,     \* what is to be written, the marshall, rh.ret
  (* history *)
  began     \* the clock when the final deadline was computed

callerVars == <<pc, todo, req, curr, next, final, ret, r, began>>
waitVars   == <<done, intret, reply>>
netVars    == <<ch, inReq, inRep>>
srvVars    == <<spc, un, saw, ran, rtodo, rep, sret>>
vars == <<sc, now, callerVars, waitVars, netVars, srvVars>>

NoTime == [sec |-> 0, ns |-> 0]

timeout_failure         == -1
unmarshal_args_failure  == -2
unmarshal_reply_failure == -3

HalfASecond == 500                                                  \* mutant
to_min      == 1000

BackOffByHalf(ms) == ms + ms \div 2                                  \* mutant
BackOff(ms)       == 2 * ms

Init ==
  /\ sc \in Scenarios /\ now \in {t \in Clock : t.sec = 1}
  /\ pc = "args" /\ todo = AllWrites(sc.args) /\ req = NewMarshall
  /\ curr = to_min /\ next = NoTime /\ final = NoTime /\ began = NoTime
  /\ done = FALSE /\ intret = 0 /\ reply = <<>>
  /\ ret = 0 /\ r = sc.prior
  /\ ch = "none" /\ inReq = FALSE /\ inRep = FALSE
  /\ spc = "idle" /\ un = StartPastHeader(<<>>) /\ saw = <<>> /\ ran = FALSE
  /\ rtodo = <<>> /\ rep = NewMarshall /\ sret = 0

-----------------------------------------------------------------------------
(* The caller.                                                             *)

\* m << a1, m << a2, ... of rpcc::call, one primitive write at a time.
MarshalArgs ==
  /\ pc = "args" /\ todo # <<>>
  /\ req'  = Write(req, Head(todo))
  /\ todo' = Tail(todo)
  /\ UNCHANGED <<sc, now, pc, curr, next, final, ret, r, began,
                 waitVars, netVars, srvVars>>

Start ==
  /\ pc = "args" /\ todo = <<>>
  /\ pc' = "transmit"
  /\ final' = Plus(now, sc.to)
  /\ began' = now
  /\ UNCHANGED <<sc, now, todo, req, curr, next, ret, r, waitVars, netVars, srvVars>>

\* Out of the loop if the wait for the final deadline is over.
AfterTransmit == IF final.sec = 0 THEN "leave" ELSE "deadline"

\* get_refconn: a connection that is up is used, else a new one is opened,
\* unless connect fails.  A server started again is one of module Rpc.
GetConn ==
  /\ pc = "transmit"
  /\ \/ /\ ch = "up" \/ spc # "crashed"
        /\ ch' = "up" /\ pc' = "send"
     \/ ch # "up" /\ UNCHANGED ch /\ pc' = AfterTransmit
  /\ UNCHANGED <<sc, now, todo, req, curr, next, final, ret, r, began,
                 inReq, inRep, waitVars, srvVars>>

\* ch->send, which does nothing for a connection that has died meanwhile.
Send ==
  /\ pc = "send"
  /\ pc' = AfterTransmit
  /\ inReq' = (inReq \/ ch = "up")
  /\ UNCHANGED <<sc, now, todo, req, curr, next, final, ret, r, began,
                 ch, inRep, waitVars, srvVars>>

\* Whether the next wait is the last one.
IsLast(t) == Later(t, final)

SetDeadline ==
  /\ pc = "deadline"
  /\ pc' = "wait"
  /\ IF IsLast(Plus(now, curr))
       THEN next' = final /\ final' = [final EXCEPT !.sec = 0]
       ELSE next' = Plus(now, curr) /\ UNCHANGED final
  /\ UNCHANGED <<sc, now, todo, req, curr, ret, r, began, waitVars, netVars, srvVars>>

\* pthread_cond_timedwait returns ETIMEDOUT at the deadline.  The caller goes
\* on to the next wait, over a transmission if its connection is gone.
TimedOut ==
  /\ pc = "wait" /\ ~done
  /\ ValidTime(next) /\ ~Later(next, now)
  /\ pc' = IF ch # "up" THEN "transmit" ELSE AfterTransmit
  /\ curr' = BackOff(curr)
  /\ UNCHANGED <<sc, now, todo, req, next, final, ret, r, began,
                 waitVars, netVars, srvVars>>

\* It returns EINVAL for an invalid deadline, and is called again for ever.
Spin ==
  /\ pc = "wait" /\ ~done
  /\ ~ValidTime(next)
  /\ pc' = "spin"
  /\ UNCHANGED <<sc, now, todo, req, curr, next, final, ret, r, began,
                 waitVars, netVars, srvVars>>

SeesReply ==
  /\ pc = "wait" /\ done
  /\ pc' = "leave"
  /\ UNCHANGED <<sc, now, todo, req, curr, next, final, ret, r, began,
                 waitVars, netVars, srvVars>>

\* ca leaves calls_, done is read, and call_m unmarshals the result.  take_in
\* has put the position past the header.
TakenIn(buf) == StartPastHeader(buf)

ReplyOverreads == done /\ intret >= 0 /\ Overreads(TakenIn(reply), sc.rtype)

Return ==
  /\ pc = "leave" /\ ~ReplyOverreads
  /\ pc' = "returned"
  /\ IF ~done \/ intret < 0
       THEN /\ ret' = IF done THEN intret ELSE timeout_failure
            /\ UNCHANGED r
       ELSE LET g == Get(TakenIn(reply), sc.rtype, sc.prior) IN
            /\ ret' = IF OkDone(g.u) THEN intret ELSE unmarshal_reply_failure
            /\ r' = g.val
  /\ UNCHANGED <<sc, now, todo, req, curr, next, final, began,
                 waitVars, netVars, srvVars>>

CallerCrashes ==
  /\ pc = "leave" /\ ReplyOverreads
  /\ pc' = "crashed"
  /\ UNCHANGED <<sc, now, todo, req, curr, next, final, ret, r, began,
                 waitVars, netVars, srvVars>>

\* got_pdu, on the poll thread: it takes ca.m, which a caller that spins holds.
GotReply ==
  /\ inRep /\ pc # "spin"
  /\ inRep' = FALSE
  /\ IF pc # "returned" /\ ~done
       THEN done' = TRUE /\ intret' = sret /\ reply' = rep.buf
       ELSE UNCHANGED waitVars
  /\ UNCHANGED <<sc, now, callerVars, ch, inReq, srvVars>>

-----------------------------------------------------------------------------
(* The server.  The reply window lets the handler run once.                *)

\* fn of the handler class: args >> a1, args >> a2, ... into fresh variables.
GotRequest ==
  /\ inReq /\ spc = "idle"
  /\ inReq' = FALSE
  /\ spc' = "args"
  /\ un' = StartPastHeader(req.buf)
  /\ UNCHANGED <<sc, now, callerVars, waitVars, ch, inRep, saw, ran, rtodo, rep, sret>>

UnmarshalArg ==
  /\ spc = "args" /\ Len(saw) < Len(sc.sig)
  /\ LET t == sc.sig[Len(saw) + 1]
         g == Get(un, t, <<>>) IN
     /\ ~Overreads(un, t)
     /\ un' = g.u
     /\ saw' = Append(saw, [type |-> t, val |-> g.val])
  /\ UNCHANGED <<sc, now, callerVars, waitVars, netVars, spc, ran, rtodo, rep, sret>>

\* The server's process ends, and its connection with it.
ServerCrashes ==
  /\ spc = "args" /\ Len(saw) < Len(sc.sig)
  /\ Overreads(un, sc.sig[Len(saw) + 1])
  /\ spc' = "crashed"
  /\ ch' = (IF ch = "up" THEN "dead" ELSE ch) /\ inReq' = FALSE /\ inRep' = FALSE
  /\ UNCHANGED <<sc, now, callerVars, waitVars, un, saw, ran, rtodo, rep, sret>>

RunHandler ==
  /\ spc = "args" /\ Len(saw) = Len(sc.sig)
  /\ spc' = "reply"
  /\ IF OkDone(un)
       THEN ran' = TRUE /\ sret' = sc.b /\ rtodo' = Writes(sc.res)
       ELSE sret' = unmarshal_args_failure /\ UNCHANGED <<ran, rtodo>>
  /\ UNCHANGED <<sc, now, callerVars, waitVars, netVars, un, saw, rep>>

MarshalResult ==
  /\ spc = "reply" /\ rtodo # <<>>
  /\ rep'   = Write(rep, Head(rtodo))
  /\ rtodo' = Tail(rtodo)
  /\ UNCHANGED <<sc, now, callerVars, waitVars, netVars, spc, un, saw, ran, sret>>

SendReply ==
  /\ spc = "reply" /\ rtodo = <<>>
  /\ spc' = "done"
  /\ inRep' = (ch = "up")
  /\ UNCHANGED <<sc, now, callerVars, waitVars, ch, inReq, un, saw, ran,
                 rtodo, rep, sret>>

\* A retransmission: answered from the reply window, or in progress.
Duplicate ==
  /\ inReq /\ spc \notin {"idle", "crashed"}
  /\ inReq' = FALSE
  /\ inRep' = (inRep \/ spc = "done")
  /\ UNCHANGED <<sc, now, callerVars, waitVars, ch, srvVars>>

-----------------------------------------------------------------------------
(* The connection breaks, time passes.                                     *)

ConnDies ==
  /\ ch = "up"
  /\ ch' = "dead" /\ inReq' = FALSE /\ inRep' = FALSE
  /\ UNCHANGED <<sc, now, callerVars, waitVars, srvVars>>

\* Time matters from the first deadline to the end of the last wait.
Tick ==
  /\ pc \in {"transmit", "send", "deadline", "wait"}
  /\ now' \in {t \in Clock : Later(t, now)}
  /\ UNCHANGED <<sc, callerVars, waitVars, netVars, srvVars>>

CallerGoesOn ==
  \/ MarshalArgs \/ Start \/ SetDeadline
  \/ TimedOut \/ Spin \/ SeesReply \/ Return \/ CallerCrashes

CallerNext == GetConn \/ Send \/ CallerGoesOn

ServerNext ==
  \/ GotRequest \/ UnmarshalArg \/ ServerCrashes \/ RunHandler
  \/ MarshalResult \/ SendReply \/ Duplicate

Next == CallerNext \/ ServerNext \/ GotReply \/ ConnDies \/ Tick

\* The caller's thread runs and the clock goes on.  The network and the server
\* may do nothing at all, and connect and send, which wait for them without a
\* deadline, need not end.
Fairness == WF_vars(CallerGoesOn) /\ WF_vars(Tick)

Spec     == Init /\ [][Next]_vars
FairSpec == Spec /\ Fairness

-----------------------------------------------------------------------------
TypeOK ==
  /\ sc \in Scenarios /\ now \in Clock
  /\ pc \in {"args", "transmit", "send", "deadline", "wait", "leave",
             "spin", "returned", "crashed"}
  /\ curr \in Nat /\ curr > 0
  /\ \A t \in {next, final, began} : t.sec \in Nat /\ t.ns \in 0..NsPerSec
  /\ \A m \in {req, rep} : m.ind \in Nat /\ m.capa \in Nat
  /\ done \in BOOLEAN /\ intret \in Int /\ ret \in Int
  /\ ch \in {"none", "up", "dead"} /\ inReq \in BOOLEAN /\ inRep \in BOOLEAN
  /\ spc \in {"idle", "args", "reply", "done", "crashed"}
  /\ ran \in BOOLEAN /\ sret \in Int

TypesAgree ==
  /\ sc.rtype = sc.res.type
  /\ sc.sig = [i \in DOMAIN sc.args |-> sc.args[i].type]

\* rawbyte and rawbytes never write past the buffer they have (re)allocated,
\* whatever is marshalled in whatever order, as long as all of it fits into a
\* PDU that a connection takes (OneCallAssumption).
BuffersFit == req.ind <= req.capa /\ rep.ind <= rep.capa

\* If both sides agree on the types, the handler is given what the caller
\* passed, and a call that is answered yields what the handler returned and
\* its result; a vector is appended to what the caller's variable held.
TypedResult ==
  TypesAgree =>
    /\ ran => saw = sc.args
    /\ pc = "returned" =>
         \/ ret = timeout_failure /\ r = sc.prior
         \/ /\ ran /\ ret = sc.b
            /\ r = IF sc.rtype = "vector" THEN sc.prior \o sc.res.val ELSE sc.res.val

\* The handler runs only on arguments that are encoded in as many bytes as were
\* sent, none missing and none left over.  Otherwise the caller is told, or the
\* server's process has ended at a size that wraps around; a caller that is
\* told may rely on it.
ExactArguments ==
  /\ ran => TotalSize(saw) = Len(req.buf)
  /\ pc = "returned" /\ ret = unmarshal_args_failure => ~ran

\* At least ms milliseconds lie between two readings of the clock.
HasElapsed(from, to, ms) ==
  LET d == (to.sec - from.sec) * 1000 - ms IN
  d >= 1000 \/ (d > -1000 /\ d * NsPerMs >= from.ns - to.ns)

\* A call that reports timeout_failure has waited its whole time.
NotEarly == pc = "returned" /\ ret = timeout_failure => HasElapsed(began, now, sc.to)

\* No wait goes on past the final deadline.
WithinLimit == pc \in {"wait", "spin"} => ~Later(next, Plus(began, sc.to))

\* A call whose time is a whole number of seconds (as are all in the library,
\* its tests and the lock service) never waits with an invalid deadline.
WholeSecondsWait == sc.to % 1000 = 0 => pc # "spin"

\* Such a call returns, though nobody answers and no connection comes up, as
\* long as no connect and no send blocks for ever, unless its process ends at
\* a reply whose size wraps around.
CallReturns ==
  []<>(pc \notin {"transmit", "send"}) =>
    (sc.to % 1000 = 0 ~> pc \in {"returned", "crashed"})

-----------------------------------------------------------------------------
(* What the code does not keep: the runs do not check these.               *)

\* The deadline of a call holds whatever the peer does.
DeadlineHolds == sc.to % 1000 = 0 ~> pc \in {"returned", "crashed"}

\* Sides that disagree on the types are told so; neither of them ends.
DisagreementSurvived == pc # "crashed" /\ spc # "crashed"

=============================================================================

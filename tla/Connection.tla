------------------------------ MODULE Connection ------------------------------
(***************************************************************************)
(* One connection object and the PollMgr that serves its socket: the       *)
(* threads that call send, the thread that calls closeconn, and the poll   *)
(* thread, which runs wait_loop and the callbacks read_cb and write_cb.    *)
(*                                                                         *)
(* Grain.  A step is one critical section: of m_ of the connection (with   *)
(* the short ones of PollMgr and SelectAIO that are nested in it), of m_   *)
(* of PollMgr, or one unlocked action of the poll thread.                  *)
(*                                                                         *)
(* Data.  A PDU to be sent is written in Parts pieces; a PDU received is a *)
(* header, which gives its size, and a body.                               *)
(*                                                                         *)
(* A definition marked mutant is a wrong variant of the one after it.      *)
(***************************************************************************)
EXTENDS Integers, Sequences

CONSTANTS
  Sends,        \* calls of send, each by a thread of its own
  Closers,      \* threads that call closeconn: the owner of the connection
  NoSend,
  Parts,        \* bound: the pieces of a PDU
  Space,        \* pieces the send buffer of the socket holds
  MaxIn,        \* bound: the PDUs the peer sends
  MaxRefusals,  \* bound: how often got_pdu has no room for a PDU
  Lossy,        \* RPC_LOSSY is set: send may shut the socket down
  SpuriousAt    \* the waits that may return without a signal, named as in pc

ASSUME ConnectionAssumption ==
  /\ NoSend \notin Sends /\ Sends \cap Closers = {}
  /\ Parts \in Nat \ {0} /\ Space \in Nat \ {0}
  /\ MaxIn \in Nat /\ MaxRefusals \in Nat
  /\ Lossy \in BOOLEAN /\ SpuriousAt \subseteq {"wait", "writing", "changing"}

Threads == Sends \cup Closers

VARIABLES
  (* connection *)
  dead,      \* dead_
  wbuf,      \* whose buffer wpdu_.buf points to
  solong,    \* wpdu_.solong, in pieces
  wsz,       \* wpdu_.sz, in pieces
  rpdu,      \* rpdu_: "none", "header" (body incomplete) or "full"
  pc,        \* what each thread does, see PcOfSend and PcOfCloser
  (* PollMgr and SelectAIO, for this descriptor *)
  rd, wr,    \* its bits in rfds_ and wfds_
  cb,        \* callbacks_[fd] is not NULL
  pending,   \* pending_change_
  bytes,     \* bytes in pipefd_ that wake the poll thread
  poll,      \* the poll thread: where it is, and its readable and writable
  errno,     \* of the poll thread: "eagain" or "other"
  (* the socket and the peer *)
  inq,       \* received, not read: headers and bodies of PDUs 1, 2, ...
  sent,      \* pieces of PDUs the peer has sent
  eof,       \* the peer has closed its end
  reset,     \* the connection is broken
  shut,      \* shutdown() was called here
  obuf,      \* pieces in the send buffer
  (* history *)
  wire,      \* pieces written, <<send, number>>
  got,       \* PDUs taken by got_pdu
  refusals   \* how often got_pdu had no room

sendVars == <<dead, wbuf, solong, wsz, pc>>
readVars == <<rpdu, errno, inq, got, refusals>>
pollVars == <<rd, wr, cb, pending, bytes, poll>>
sockVars == <<sent, eof, reset, shut, obuf, wire>>
vars     == <<sendVars, readVars, pollVars, sockVars>>

\* send: asleep on send_wait_ and woken from it, in block_remove_fd (before,
\* asleep on changedone_c_, woken, through), asleep on send_complete_ and
\* woken from it, returned; "gone" with the process.
PcOfSend   == {"idle", "wait", "turn", "remove", "changing", "changed",
               "removed", "writing", "written", "true", "false", "gone"}
PcOfCloser == {"idle", "remove", "changing", "changed", "removed", "closed",
               "gone"}

\* In a callback the poll thread first looks at callbacks_[fd], then uses it.
PcOfPoll == {"top", "watch", "select", "read", "read_cb", "write", "write_cb",
             "gone"}

Init ==
  /\ dead = FALSE /\ wbuf = NoSend /\ solong = 0 /\ wsz = 0
  /\ rpdu = "none"
  /\ pc = [t \in Threads |-> "idle"]
  /\ rd = TRUE /\ wr = FALSE /\ cb = TRUE
  /\ pending = FALSE /\ bytes = 1
  /\ poll = [pc |-> "top", r |-> FALSE, w |-> FALSE]
  /\ errno = "other"
  /\ inq = << >> /\ sent = 0
  /\ eof = FALSE /\ reset = FALSE /\ shut = FALSE /\ obuf = 0
  /\ wire = << >> /\ got = << >> /\ refusals = 0

-----------------------------------------------------------------------------
(* connection::writepdu and what its callers share.                        *)

Broken == shut \/ reset

\* n pieces of the PDU of s, from the one after solong on, go to the socket.
WholeSize(s, from, n) ==                                           \* mutant
  /\ n \in 0..Parts /\ obuf + n <= Space
  /\ obuf' = obuf + n
  /\ wire' = wire \o [i \in 1..n |-> <<s, from + i>>]

Write(s, from, n) ==
  /\ n \in 0..Parts - from /\ obuf + n <= Space
  /\ n = 0 => obuf = Space \/ from = Parts
  /\ obuf' = obuf + n
  /\ wire' = wire \o [i \in 1..n |-> <<s, from + i>>]

\* The end of send: the buffer is given up, and the threads behind it go on.
Finished(s, result) ==
  /\ wbuf' = NoSend /\ solong' = 0 /\ wsz' = 0
  /\ pc' = [[t \in Threads |-> IF pc[t] = "wait" THEN "turn" ELSE pc[t]]
              EXCEPT ![s] = result]

\* pthread_cond_signal(&send_complete_), where only the writer can sleep.
Completed == [t \in Threads |-> IF pc[t] = "writing" THEN "written" ELSE pc[t]]

-----------------------------------------------------------------------------
(* connection::send.                                                       *)

Entering(s) == pc[s] \in {"idle", "turn"}

SendDead(s) ==
  /\ Entering(s) /\ dead
  /\ pc' = [pc EXCEPT ![s] = "false"]
  /\ UNCHANGED <<dead, wbuf, solong, wsz, readVars, pollVars, sockVars>>

AtOnce   == TRUE                                                   \* mutant
MayWrite == wbuf = NoSend

SendWaits(s) ==
  /\ Entering(s) /\ ~dead /\ ~MayWrite
  /\ pc' = [pc EXCEPT ![s] = "wait"]
  /\ UNCHANGED <<dead, wbuf, solong, wsz, readVars, pollVars, sockVars>>

SendAll(s) ==
  /\ Entering(s) /\ ~dead /\ MayWrite /\ ~Broken
  /\ Write(s, 0, Parts)
  /\ Finished(s, "true")
  /\ UNCHANGED <<dead, readVars, pollVars, sent, eof, reset, shut>>

\* add_callback(fd_, CB_WRONLY, this), then the wait for send_complete_.
SendPart(s) ==
  /\ Entering(s) /\ ~dead /\ MayWrite /\ ~Broken
  /\ \E n \in 0..Parts - 1 :
       /\ Write(s, 0, n)
       /\ solong' = n
  /\ wbuf' = s /\ wsz' = Parts
  /\ pc' = [pc EXCEPT ![s] = "writing"]
  /\ wr' = TRUE /\ cb' = TRUE /\ bytes' = bytes + 1
  /\ UNCHANGED <<dead, readVars, rd, pending, poll, sent, eof, reset, shut>>

SendFails(s) ==
  /\ Entering(s) /\ ~dead /\ MayWrite
  /\ Broken \/ Lossy
  /\ shut' = (shut \/ ~reset)
  /\ wbuf' = s /\ solong' = -1 /\ wsz' = 0
  /\ dead' = TRUE
  /\ pc' = [pc EXCEPT ![s] = "remove"]
  /\ UNCHANGED <<readVars, pollVars, sent, eof, reset, obuf, wire>>

\* Back from block_remove_fd.
SendFailed(s) ==
  /\ pc[s] = "removed"
  /\ Finished(s, "false")
  /\ UNCHANGED <<dead, readVars, pollVars, sockVars>>

\* Back from the wait for send_complete_.
WokenOnce  == FALSE                                                \* mutant
Incomplete == ~dead /\ solong >= 0 /\ solong < wsz

SendWaitsOn(s) ==
  /\ pc[s] = "written" /\ Incomplete
  /\ pc' = [pc EXCEPT ![s] = "writing"]
  /\ UNCHANGED <<dead, wbuf, solong, wsz, readVars, pollVars, sockVars>>

SendReturns(s) ==
  /\ pc[s] = "written" /\ ~Incomplete
  /\ Finished(s, IF ~dead /\ solong = wsz THEN "true" ELSE "false")
  /\ UNCHANGED <<dead, readVars, pollVars, sockVars>>

-----------------------------------------------------------------------------
(* connection::closeconn and PollMgr::block_remove_fd.                     *)

CloseConn(t) ==
  /\ pc[t] = "idle"
  /\ IF dead THEN /\ pc' = [pc EXCEPT ![t] = "closed"]
                  /\ UNCHANGED <<dead, shut>>
             ELSE /\ pc' = [pc EXCEPT ![t] = "remove"]
                  /\ dead' = TRUE /\ shut' = TRUE
  /\ UNCHANGED <<wbuf, solong, wsz, readVars, pollVars,
                 sent, eof, reset, obuf, wire>>

NoWait    == "changed"                                             \* mutant
WaitsNext == "changing"
Forgotten == pending                                               \* mutant
Requested == TRUE

BlockRemove(t) ==
  /\ pc[t] = "remove"
  /\ rd' = FALSE /\ wr' = FALSE /\ bytes' = bytes + 1
  /\ pending' = Requested
  /\ pc' = [pc EXCEPT ![t] = WaitsNext]
  /\ UNCHANGED <<dead, wbuf, solong, wsz, readVars, cb, poll, sockVars>>

Removed(t) ==
  /\ pc[t] = "changed"
  /\ cb' = FALSE
  /\ pc' = [pc EXCEPT ![t] = "removed"]
  /\ UNCHANGED <<dead, wbuf, solong, wsz, readVars,
                 rd, wr, pending, bytes, poll, sockVars>>

-----------------------------------------------------------------------------
(* PollMgr::wait_loop and SelectAIO::wait_ready.                           *)

Readable == inq # << >> \/ eof \/ Broken
Writable == obuf < Space \/ Broken

\* The broadcast of changedone_c_ at the top of the loop.
PollTop ==
  /\ poll.pc = "top"
  /\ pending' = FALSE
  /\ pc' = IF pending THEN [t \in Threads |->
                              IF pc[t] = "changing" THEN "changed" ELSE pc[t]]
                      ELSE pc
  /\ poll' = [poll EXCEPT !.pc = "watch"]
  /\ UNCHANGED <<dead, wbuf, solong, wsz, readVars, rd, wr, cb, bytes, sockVars>>

PollWatch ==
  /\ poll.pc = "watch"
  /\ poll' = [pc |-> "select", r |-> rd, w |-> wr]
  /\ UNCHANGED <<sendVars, readVars, rd, wr, cb, pending, bytes, sockVars>>

\* select returns with what is ready; one byte of the pipe is read.  Part of a
\* body makes the socket readable too.  The callbacks of other descriptors, which
\* run before those of this one, leave what they like in errno.
PartOfBody == rpdu = "header" /\ inq = << >> /\ sent % 2 = 1
AllWatched == poll.r                                               \* mutant
ReadReady  == poll.r /\ Readable

PollSelect ==
  /\ poll.pc = "select"
  /\ \E part \in {FALSE, poll.r /\ PartOfBody} :
       LET r == ReadReady \/ part  w == poll.w /\ Writable IN
       /\ r \/ w \/ bytes > 0
       /\ poll' = [pc |-> IF r THEN "read" ELSE IF w THEN "write" ELSE "top",
                   r |-> r, w |-> w]
  /\ bytes' = IF bytes > 0 THEN bytes - 1 ELSE 0
  /\ errno' \in {"eagain", "other"}
  /\ UNCHANGED <<sendVars, rpdu, inq, got, refusals,
                 rd, wr, cb, pending, sockVars>>

AfterRead == IF poll.w THEN "write" ELSE "top"

PollChecksRead ==
  /\ poll.pc = "read"
  /\ poll' = [poll EXCEPT !.pc = IF cb THEN "read_cb" ELSE AfterRead]
  /\ UNCHANGED <<sendVars, readVars, rd, wr, cb, pending, bytes, sockVars>>

PollChecksWrite ==
  /\ poll.pc = "write"
  /\ poll' = [poll EXCEPT !.pc = IF cb THEN "write_cb" ELSE "top"]
  /\ UNCHANGED <<sendVars, readVars, rd, wr, cb, pending, bytes, sockVars>>

\* del_callback(fd_, CB_RDWR) and dead_ = true, in either callback.
Dies ==
  /\ dead' = TRUE
  /\ rd' = FALSE /\ wr' = FALSE /\ bytes' = bytes + 1
  /\ cb' = FALSE

-----------------------------------------------------------------------------
(* connection::read_cb and readpdu.                                        *)

ReadDead ==
  /\ poll.pc = "read_cb" /\ dead
  /\ poll' = [poll EXCEPT !.pc = AfterRead]
  /\ UNCHANGED <<sendVars, readVars, rd, wr, cb, pending, bytes, sockVars>>

\* got_pdu takes the PDU of the body n, or has no room: then it stays in rpdu_.
Dropped  == rpdu' = "none" /\ UNCHANGED got                        \* mutant
PduStays == rpdu' = "full" /\ UNCHANGED got

HandOver(n) ==
  \/ rpdu' = "none" /\ got' = Append(got, n) /\ UNCHANGED refusals
  \/ refusals < MaxRefusals /\ refusals' = refusals + 1 /\ PduStays

\* The rest of the queue once the header of a new PDU has been read, if need be.
Rest == IF rpdu = "none" THEN Tail(inq) ELSE inq

Reading == poll.pc = "read_cb" /\ ~dead

\* The number of the PDU in rpdu_.
Current == Len(got) + 1

ReadKept ==
  /\ Reading /\ rpdu = "full"
  /\ HandOver(Current)
  /\ poll' = [poll EXCEPT !.pc = AfterRead]
  /\ UNCHANGED <<sendVars, errno, inq, rd, wr, cb, pending, bytes, sockVars>>

ReadBody ==
  /\ Reading /\ rpdu # "full"
  /\ rpdu = "none" => inq # << >>
  /\ Rest # << >>
  /\ HandOver(Head(Rest)[2])
  /\ inq' = Tail(Rest)
  /\ poll' = [poll EXCEPT !.pc = AfterRead]
  /\ UNCHANGED <<sendVars, errno, rd, wr, cb, pending, bytes, sockVars>>

\* Part of the body, which leaves errno alone.  Or none of it yet: EAGAIN.  Or
\* the end of the stream, which read() reports by 0 and without setting errno,
\* and errno is still EAGAIN.
ReadNoBody ==
  /\ Reading /\ rpdu # "full"
  /\ rpdu = "none" => inq # << >>
  /\ Rest = << >> /\ ~reset
  /\ \/ UNCHANGED errno
     \/ (eof \/ shut => errno = "eagain") /\ errno' = "eagain"
  /\ rpdu' = "header" /\ inq' = Rest
  /\ poll' = [poll EXCEPT !.pc = AfterRead]
  /\ UNCHANGED <<sendVars, got, refusals, rd, wr, cb, pending, bytes, sockVars>>

\* readpdu fails: the end of the stream or an error instead of a header or a
\* body, or a header that is not there in one piece.
HeaderMissing == rpdu = "none" /\ inq = << >> /\ (eof \/ Broken)
HeaderShort   == rpdu = "none" /\ inq # << >>
BodyMissing   == /\ rpdu = "none" => inq # << >>
                 /\ Rest = << >>
                 /\ reset \/ ((eof \/ shut) /\ errno # "eagain")

ReadFails ==
  /\ Reading /\ rpdu # "full"
  /\ \/ HeaderMissing /\ UNCHANGED inq
     \/ HeaderShort   /\ inq' = << >>
     \/ BodyMissing   /\ inq' = Rest
  /\ Dies
  /\ pc' = Completed
  /\ errno' = IF reset THEN "other" ELSE errno
  /\ rpdu' = "none"
  /\ poll' = [poll EXCEPT !.pc = AfterRead]
  /\ UNCHANGED <<wbuf, solong, wsz, got, refusals, pending, sockVars>>

-----------------------------------------------------------------------------
(* connection::write_cb.                                                   *)

WriteIdle ==
  /\ poll.pc = "write_cb" /\ ~dead /\ wsz = 0
  /\ wr' = FALSE /\ cb' = (cb /\ rd)
  /\ poll' = [poll EXCEPT !.pc = "top"]
  /\ UNCHANGED <<sendVars, readVars, rd, pending, bytes, sockVars>>

\* The writer is woken when its PDU is complete.
NeverWoken(done) == pc                                             \* mutant
WokenWhen(done)  == IF done THEN Completed ELSE pc

\* With nothing left to write, writepdu does not touch the socket.
WriteMore ==
  /\ poll.pc = "write_cb" /\ ~dead /\ wsz # 0
  /\ Broken => solong = wsz
  /\ \E n \in 0..Parts :
       /\ Write(wbuf, solong, n)
       /\ solong' = solong + n
       /\ pc' = WokenWhen(solong + n = wsz)
       /\ errno' = IF n = 0 /\ solong < wsz THEN "eagain" ELSE errno
  /\ poll' = [poll EXCEPT !.pc = "top"]
  /\ UNCHANGED <<dead, wbuf, wsz, rpdu, inq, got, refusals,
                 rd, wr, cb, pending, bytes, sent, eof, reset, shut>>

WriteFails ==
  /\ poll.pc = "write_cb" /\ ~dead /\ wsz # 0 /\ Broken /\ solong # wsz
  /\ solong' = -1 /\ wsz' = 0
  /\ Dies
  /\ pc' = Completed
  /\ errno' = "other"
  /\ poll' = [poll EXCEPT !.pc = "top"]
  /\ UNCHANGED <<wbuf, rpdu, inq, got, refusals, pending, sockVars>>

\* assert(!dead_) fails: the process ends.
WriteAsserts ==
  /\ poll.pc = "write_cb" /\ dead
  /\ poll' = [poll EXCEPT !.pc = "gone"]
  /\ pc' = [t \in Threads |-> "gone"]
  /\ UNCHANGED <<dead, wbuf, solong, wsz, readVars,
                 rd, wr, cb, pending, bytes, sockVars>>

-----------------------------------------------------------------------------
(* The peer and the network.                                               *)

Open == ~eof /\ ~reset

PeerSends ==
  /\ Open /\ ~shut /\ sent < 2 * MaxIn
  /\ sent' = sent + 1
  /\ inq' = Append(inq, <<IF sent % 2 = 0 THEN "header" ELSE "body",
                          sent \div 2 + 1>>)
  /\ UNCHANGED <<sendVars, rpdu, errno, got, refusals, pollVars,
                 eof, reset, shut, obuf, wire>>

PeerDrains ==
  /\ Open /\ obuf > 0
  /\ obuf' = obuf - 1
  /\ UNCHANGED <<sendVars, readVars, pollVars, sent, eof, reset, shut, wire>>

PeerCloses ==
  /\ Open
  /\ eof' = TRUE
  /\ UNCHANGED <<sendVars, readVars, pollVars, sent, reset, shut, obuf, wire>>

PeerResets ==
  /\ ~reset
  /\ reset' = TRUE
  /\ UNCHANGED <<sendVars, readVars, pollVars, sent, eof, shut, obuf, wire>>

SpuriousWakeup(t) ==
  /\ pc[t] \in SpuriousAt
  /\ \E s \in {<<"wait", "turn">>, <<"writing", "written">>,
               <<"changing", "changed">>} :
       pc[t] = s[1] /\ pc' = [pc EXCEPT ![t] = s[2]]
  /\ UNCHANGED <<dead, wbuf, solong, wsz, readVars, pollVars, sockVars>>

-----------------------------------------------------------------------------
SendNext(s) ==
  \/ SendDead(s) \/ SendWaits(s) \/ SendAll(s) \/ SendPart(s) \/ SendFails(s)
  \/ SendFailed(s) \/ SendWaitsOn(s) \/ SendReturns(s)

RemoveNext(t) == BlockRemove(t) \/ Removed(t)

PollNext ==
  \/ PollTop \/ PollWatch \/ PollSelect \/ PollChecksRead \/ PollChecksWrite
  \/ ReadDead \/ ReadKept \/ ReadBody \/ ReadNoBody \/ ReadFails
  \/ WriteIdle \/ WriteMore \/ WriteFails \/ WriteAsserts

PeerNext == PeerSends \/ PeerDrains \/ PeerCloses \/ PeerResets

Next ==
  \/ \E s \in Sends : SendNext(s)
  \/ \E t \in Closers : CloseConn(t)
  \/ \E t \in Threads : RemoveNext(t) \/ SpuriousWakeup(t)
  \/ PollNext
  \/ PeerNext

Spec == Init /\ [][Next]_vars

\* The threads inside send and closeconn go on, and so does the poll thread.
\* Nothing makes the peer read; what is sent to a peer that has closed is
\* answered with a reset.
Fairness ==
  /\ \A s \in Sends : WF_vars(pc[s] # "idle" /\ SendNext(s))
  /\ \A t \in Threads : WF_vars(RemoveNext(t))
  /\ WF_vars(PollNext)
  /\ WF_vars(eof /\ obuf > 0 /\ PeerResets)

FairSpec == Spec /\ Fairness

-----------------------------------------------------------------------------
Piece == Sends \X (1..Parts)

TypeOK ==
  /\ dead \in BOOLEAN /\ wbuf \in Sends \cup {NoSend}
  /\ solong \in -1..Parts /\ wsz \in {0, Parts}
  /\ rpdu \in {"none", "header", "full"}
  /\ pc \in [Threads -> PcOfSend \cup PcOfCloser]
  /\ \A s \in Sends : pc[s] \in PcOfSend
  /\ rd \in BOOLEAN /\ wr \in BOOLEAN /\ cb \in BOOLEAN
  /\ pending \in BOOLEAN /\ bytes \in Nat
  /\ poll \in [pc : PcOfPoll, r : BOOLEAN, w : BOOLEAN]
  /\ errno \in {"eagain", "other"}
  /\ inq \in Seq({"header", "body"} \X (1..MaxIn)) /\ sent \in 0..2 * MaxIn
  /\ eof \in BOOLEAN /\ reset \in BOOLEAN /\ shut \in BOOLEAN
  /\ obuf \in 0..Space
  /\ wire \in Seq(Piece) /\ got \in Seq(1..MaxIn)
  /\ refusals \in 0..MaxRefusals

\* PDUs do not get mixed on the socket, though several threads send, any of
\* them may be blocked half way, and the poll thread writes the rest: each
\* piece follows the one before it, and a PDU begins only after a whole one.
WholePdus ==
  \A i \in DOMAIN wire :
    LET s == wire[i][1]  n == wire[i][2] IN
    IF n = 1 THEN i = 1 \/ wire[i - 1][2] = Parts
             ELSE i > 1 /\ wire[i - 1] = <<s, n - 1>>

\* "send() blocks until data is sent or the connection has failed (thus the
\* caller can free the buffer when send() returns)" (rpc.cc): the result is
\* true only if all was written, false only if the connection is dead, and
\* wpdu_ never points to the buffer of a send that has returned.
SendTruth ==
  /\ \A s \in Sends : pc[s] = "true"  => \E i \in DOMAIN wire : wire[i] = <<s, Parts>>
  /\ \A s \in Sends : pc[s] = "false" => dead
  /\ wbuf # NoSend => pc[wbuf] \in PcOfSend \ {"idle", "wait", "turn", "true", "false"}

\* What the peer sent is handed to got_pdu in order and once, also if it comes
\* in parts and got_pdu refuses it for a while; none is lost on a connection
\* that lives.
TakenInOrder ==
  /\ \A i \in DOMAIN got : got[i] = i
  /\ ~dead => \A n \in 1..sent \div 2 :
       \/ n <= Len(got)
       \/ n = Current /\ rpdu = "full"
       \/ \E i \in DOMAIN inq : inq[i] = <<"body", n>>

\* assert(errno!=EAGAIN) in readpdu: the poll thread reads a header only when
\* there is something to read, though select looked long before.
HeaderIsThere == Reading /\ rpdu = "none" => Readable

\* "the return guarantees that callbacks related to fd will never be called
\* again" (block_remove_fd): not even one the poll thread was about to make.
NoLateCallback ==
  \A t \in Threads :
    pc[t] = "removed" => poll.pc \notin {"read_cb", "write_cb"}

\* The peer reads again and again all it was sent, or the connection ends.  A
\* peer of this library does not while got_pdu refuses a PDU there: read_cb reads
\* no further.
PeerReads == []<>(obuf = 0 \/ ~Open)

\* A thread that is in send gets out of it if the peer reads, whether the
\* connection breaks or not, unless somebody calls closeconn: it sleeps on
\* send_complete_, which only the poll thread signals, and without a deadline.
SendEndsIfOpen ==
  PeerReads =>
    \A s \in Sends :
      (pc[s] # "idle") ~> \/ pc[s] \in {"true", "false", "gone"}
                          \/ \E t \in Closers : pc[t] # "idle"

\* The owner of a connection gets out of closeconn.
CloseEnds ==
  \A t \in Closers :
    (pc[t] # "idle") ~> (pc[t] \in {"removed", "closed", "gone"})

-----------------------------------------------------------------------------
(* What does not hold.                                                     *)

\* write_cb is not called on a dead connection: its assert(!dead_).
WriteCbAlive == ~(poll.pc = "write_cb" /\ dead)

\* "blocks until data is sent or the connection has failed" (rpc.cc): a thread
\* that is in send gets out of it also when the connection is closed.
SendEnds ==
  PeerReads =>
    \A s \in Sends : (pc[s] # "idle") ~> (pc[s] \in {"true", "false", "gone"})

\* A send to a peer that stays open and does not read ends.
SendEndsUnread ==
  \A s \in Sends :
    (pc[s] # "idle") ~> \/ pc[s] \in {"true", "false", "gone"}
                        \/ \E t \in Closers : pc[t] # "idle"

\* The end of the stream is noticed, so that a call made on the connection is
\* retransmitted on a new one.
EofNoticed == eof ~> dead

\* "When a request/reply is received, connection makes a callback into the
\* corresponding rpcc or rpcs" (rpc.cc): one that was refused is offered again
\* when there is room.
PduTaken == (rpdu = "full") ~> (rpdu # "full" \/ dead)

=============================================================================

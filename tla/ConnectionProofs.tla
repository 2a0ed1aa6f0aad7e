--------------------------- MODULE ConnectionProofs ---------------------------
(***************************************************************************)
(* Proofs about Connection, for any number of senders and closers, PDUs of *)
(* any length in any number of pieces, and any socket buffer: types, whole *)
(* PDUs on the wire, truthful results of send, PDUs received in order, and *)
(* no callback after block_remove_fd.                                      *)
(***************************************************************************)
EXTENDS Connection, SequenceTheorems, TLAPS

PcAll   == PcOfSend \cup PcOfCloser
InPiece == {"header", "body"} \X (1..MaxIn)

\* The types but for what is written and handed over, which need to be known
\* to go on where they stopped.
SendTypes ==
  /\ wbuf \in Sends \cup {NoSend}
  /\ solong \in -1..Parts /\ wsz \in {0, Parts}
  /\ pc \in [Threads -> PcAll] /\ \A s \in Sends : pc[s] \in PcOfSend

ReadTypes ==
  /\ rpdu \in {"none", "header", "full"} /\ errno \in {"eagain", "other"}
  /\ inq \in Seq(InPiece) /\ refusals \in 0..MaxRefusals

PollTypes ==
  /\ bytes \in Nat
  /\ poll \in [pc : PcOfPoll, r : BOOLEAN, w : BOOLEAN]

SockTypes ==
  /\ sent \in 0..2 * MaxIn /\ obuf \in 0..Space

Flags ==
  /\ dead \in BOOLEAN /\ rd \in BOOLEAN /\ wr \in BOOLEAN /\ cb \in BOOLEAN
  /\ pending \in BOOLEAN
  /\ eof \in BOOLEAN /\ reset \in BOOLEAN /\ shut \in BOOLEAN

BaseTypes == SendTypes /\ ReadTypes /\ PollTypes /\ SockTypes

-----------------------------------------------------------------------------
(* Types.                                                                  *)

\* The initial states.
LEMMA InitBase == ASSUME Init PROVE BaseTypes
<1>1. Parts \in Nat /\ Space \in Nat /\ MaxIn \in Nat /\ MaxRefusals \in Nat
  BY ConnectionAssumption
<1>2. SendTypes
  BY <1>1 DEF Init, SendTypes, PcAll, PcOfSend, Threads
<1>3. << >> \in Seq(InPiece)
  OBVIOUS
<1>4. ReadTypes
  BY <1>1, <1>3 DEF Init, ReadTypes
<1>5. PollTypes
  BY DEF Init, PollTypes, PcOfPoll
<1>6. SockTypes
  BY <1>1 DEF Init, SockTypes
<1> QED  BY <1>2, <1>4, <1>5, <1>6 DEF BaseTypes

\* What a step leaves alone keeps its types.
LEMMA FrameTypes ==
  ASSUME BaseTypes
  PROVE  /\ UNCHANGED sendVars => SendTypes'
         /\ UNCHANGED readVars => ReadTypes'
         /\ UNCHANGED pollVars => PollTypes'
         /\ UNCHANGED sockVars => SockTypes'
<1>1. UNCHANGED sendVars => SendTypes'
  BY DEF BaseTypes, SendTypes, sendVars
<1>2. UNCHANGED readVars => ReadTypes'
  BY DEF BaseTypes, ReadTypes, readVars
<1>3. UNCHANGED pollVars => PollTypes'
  BY DEF BaseTypes, PollTypes, pollVars
<1>4. UNCHANGED sockVars => SockTypes'
  BY DEF BaseTypes, SockTypes, sockVars
<1> QED  BY <1>1, <1>2, <1>3, <1>4

\* A write of no more than is left of a PDU fills the buffer of the socket.
LEMMA WriteBase ==
  ASSUME obuf \in 0..Space, NEW s, NEW from \in -1..Parts, NEW n, Write(s, from, n)
  PROVE  obuf' \in 0..Space /\ n \in Nat /\ from + n \in -1..Parts
BY ConnectionAssumption DEF Write

\* What the threads inside send do.
LEMMA SendBase ==
  ASSUME BaseTypes, NEW s \in Sends, SendNext(s)
  PROVE  BaseTypes'
<1> USE DEF PcAll, PcOfSend
<1>1. /\ s \in Threads /\ Sends \subseteq Threads /\ s # NoSend
      /\ 0 \in -1..Parts /\ -1 \in -1..Parts /\ Parts \in Nat
      /\ SendTypes /\ PollTypes /\ SockTypes
  BY ConnectionAssumption DEF Threads, BaseTypes
<1>2. CASE SendDead(s) \/ SendWaits(s) \/ SendWaitsOn(s)
  <2>1. SendTypes' /\ UNCHANGED <<readVars, pollVars, sockVars>>
    BY <1>1, <1>2 DEF SendDead, SendWaits, SendWaitsOn, SendTypes
  <2> QED  BY <2>1, FrameTypes DEF BaseTypes
<1>3. CASE SendAll(s)
  <2>1. SockTypes'
    <3>1. obuf' \in 0..Space
      BY <1>1, <1>3, WriteBase DEF SendAll, SockTypes
    <3> QED  BY <1>1, <1>3, <3>1 DEF SendAll, SockTypes
  <2>2. SendTypes' /\ UNCHANGED <<readVars, pollVars>>
    BY <1>1, <1>3 DEF SendAll, Finished, SendTypes
  <2> QED  BY <2>1, <2>2, FrameTypes DEF BaseTypes
<1>4. CASE SendPart(s)
  <2>1. PICK n \in 0..Parts - 1 : Write(s, 0, n) /\ solong' = n
    BY <1>4 DEF SendPart
  <2>2. obuf' \in 0..Space /\ solong' \in -1..Parts
    BY <1>1, <2>1, WriteBase DEF SockTypes
  <2>3. SockTypes'
    BY <1>1, <1>4, <2>2 DEF SendPart, SockTypes
  <2>4. PollTypes'
    BY <1>1, <1>4 DEF SendPart, PollTypes
  <2>5. SendTypes' /\ UNCHANGED readVars
    BY <1>1, <1>4, <2>2 DEF SendPart, SendTypes
  <2> QED  BY <2>3, <2>4, <2>5, FrameTypes DEF BaseTypes
<1>5. CASE SendFails(s)
  <2>1. SockTypes'
    BY <1>1, <1>5 DEF SendFails, SockTypes
  <2>2. SendTypes' /\ UNCHANGED <<readVars, pollVars>>
    BY <1>1, <1>5 DEF SendFails, SendTypes
  <2> QED  BY <2>1, <2>2, FrameTypes DEF BaseTypes
<1>6. CASE SendFailed(s) \/ SendReturns(s)
  <2>1. \E result \in {"true", "false"} : Finished(s, result) /\ dead' = dead
    BY <1>6 DEF SendFailed, SendReturns
  <2>2. SendTypes'
    BY <1>1, <2>1 DEF Finished, SendTypes
  <2>3. UNCHANGED <<readVars, pollVars, sockVars>>
    BY <1>6 DEF SendFailed, SendReturns
  <2> QED  BY <2>2, <2>3, FrameTypes DEF BaseTypes
<1> QED  BY <1>2, <1>3, <1>4, <1>5, <1>6 DEF SendNext

\* What the threads in closeconn and block_remove_fd do, and a wait that ends
\* without a signal.
LEMMA RemoveBase ==
  ASSUME BaseTypes, NEW t \in Threads,
         \/ t \in Closers /\ CloseConn(t)
         \/ RemoveNext(t) \/ SpuriousWakeup(t)
  PROVE  BaseTypes'
<1> USE DEF PcAll, PcOfSend, PcOfCloser
<1>1. SendTypes /\ PollTypes /\ SockTypes
  BY DEF BaseTypes
<1>2. CASE t \in Closers /\ CloseConn(t)
  <2>1. t \notin Sends
    BY <1>2, ConnectionAssumption
  <2>2. SockTypes' /\ UNCHANGED <<readVars, pollVars>>
    BY <1>1, <1>2 DEF CloseConn, SockTypes
  <2>3. PICK p \in {"closed", "remove"} :
          pc' = [pc EXCEPT ![t] = p] /\ UNCHANGED <<wbuf, solong, wsz>>
    BY <1>2 DEF CloseConn
  <2>4. SendTypes'
    BY <1>1, <2>1, <2>3 DEF SendTypes
  <2> QED  BY <2>2, <2>4, FrameTypes DEF BaseTypes
<1>3. CASE RemoveNext(t)
  <2>1. PICK p \in {"changing", "removed"} :
          /\ pc' = [pc EXCEPT ![t] = p]
          /\ UNCHANGED <<wbuf, solong, wsz, readVars, sockVars>>
    BY <1>3 DEF RemoveNext, BlockRemove, Removed, WaitsNext
  <2>2. SendTypes'
    BY <1>1, <2>1 DEF SendTypes
  <2>3. PollTypes'
    BY <1>1, <1>3 DEF RemoveNext, BlockRemove, Removed, Requested, PollTypes
  <2> QED  BY <2>1, <2>2, <2>3, FrameTypes DEF BaseTypes
<1>4. CASE SpuriousWakeup(t)
  <2>1. SendTypes' /\ UNCHANGED <<readVars, pollVars, sockVars>>
    BY <1>1, <1>4 DEF SpuriousWakeup, SendTypes
  <2> QED  BY <2>1, FrameTypes DEF BaseTypes
<1> QED  BY <1>2, <1>3, <1>4

\* What the poll thread does outside the callbacks.
LEMMA LoopBase ==
  ASSUME BaseTypes, Flags,
         \/ PollTop \/ PollWatch \/ PollSelect \/ PollChecksRead
         \/ PollChecksWrite
  PROVE  BaseTypes'
<1>1. SendTypes /\ PollTypes
  BY DEF BaseTypes
<1>2. ReadTypes' /\ UNCHANGED sockVars
  <2>1. CASE PollSelect
    BY <2>1 DEF PollSelect, BaseTypes, ReadTypes
  <2>2. CASE PollTop \/ PollWatch \/ PollChecksRead \/ PollChecksWrite
    <3>1. UNCHANGED <<readVars, sockVars>>
      BY <2>2 DEF PollTop, PollWatch, PollChecksRead, PollChecksWrite
    <3> QED  BY <3>1 DEF BaseTypes, ReadTypes, readVars
  <2> QED  BY <2>1, <2>2
<1>3. SendTypes'
  <2>1. CASE PollTop
    BY <1>1, <2>1 DEF PollTop, SendTypes, PcAll, PcOfSend, Threads
  <2>2. CASE UNCHANGED sendVars
    BY <2>2, FrameTypes
  <2> QED
    BY <2>1, <2>2 DEF PollWatch, PollSelect, PollChecksRead, PollChecksWrite
<1>4. PollTypes'
  <2>1. CASE PollTop
    BY <1>1, <2>1 DEF PollTop, PollTypes, PcOfPoll
  <2>2. CASE PollWatch
    <3>1. PICK r, w : r = rd /\ w = wr /\ r \in BOOLEAN /\ w \in BOOLEAN
      BY Zenon DEF Flags
    <3> QED  BY <1>1, <2>2, <3>1 DEF PollWatch, PollTypes, PcOfPoll
  <2>3. CASE PollSelect
    <3>1. PICK part \in {FALSE, poll.r /\ PartOfBody} :
            poll' = [pc |-> IF ReadReady \/ part THEN "read"
                            ELSE IF poll.w /\ Writable THEN "write" ELSE "top",
                     r |-> ReadReady \/ part, w |-> poll.w /\ Writable]
      BY <2>3 DEF PollSelect
    <3>2. PICK r, w : /\ r = (ReadReady \/ part) /\ w = (poll.w /\ Writable)
                      /\ r \in BOOLEAN /\ w \in BOOLEAN
      BY DEF ReadReady
    <3>3. \E p \in PcOfPoll : poll' = [pc |-> p, r |-> r, w |-> w]
      BY <3>1, <3>2 DEF PcOfPoll
    <3> QED  BY <1>1, <2>3, <3>2, <3>3 DEF PollSelect, PollTypes
  <2>4. CASE PollChecksRead
    BY <1>1, <2>4 DEF PollChecksRead, AfterRead, PollTypes, PcOfPoll
  <2>5. CASE PollChecksWrite
    BY <1>1, <2>5 DEF PollChecksWrite, PollTypes, PcOfPoll
  <2> QED  BY <2>1, <2>2, <2>3, <2>4, <2>5
<1> QED  BY <1>2, <1>3, <1>4, FrameTypes DEF BaseTypes

\* The rest of a queue is one.
LEMMA RestOfQueue ==
  ASSUME BaseTypes, rpdu = "none" => inq # << >>
  PROVE  /\ Rest \in Seq(InPiece)
         /\ Len(Rest) = IF rpdu = "none" THEN Len(inq) - 1 ELSE Len(inq)
         /\ \A i \in 1..Len(Rest) :
              Rest[i] = IF rpdu = "none" THEN inq[i + 1] ELSE inq[i]
         /\ Rest # << >> => Tail(Rest) \in Seq(InPiece)
<1>1. inq \in Seq(InPiece)
  BY DEF BaseTypes, ReadTypes
<1>2. CASE rpdu = "none"
  BY <1>1, <1>2, HeadTailProperties DEF Rest
<1>3. CASE rpdu # "none"
  BY <1>1, <1>3, HeadTailProperties DEF Rest
<1> QED  BY <1>2, <1>3

\* Where the poll thread goes, and what a dying connection leaves behind.
LEMMA PollMoves ==
  ASSUME PollTypes
  PROVE  /\ \A p \in PcOfPoll :
              /\ poll' = [poll EXCEPT !.pc = p]
              /\ UNCHANGED <<rd, wr, cb, pending, bytes>>
              => PollTypes'
         /\ \A p \in PcOfPoll :
              poll' = [poll EXCEPT !.pc = p] /\ Dies /\ pending' = pending
              => PollTypes'
         /\ AfterRead \in PcOfPoll /\ {"top", "gone"} \subseteq PcOfPoll
BY DEF PollTypes, PcOfPoll, AfterRead, Dies

\* Waking the writer.
LEMMA CompletedTypes ==
  ASSUME SendTypes
  PROVE  /\ Completed \in [Threads -> PcAll]
         /\ \A s \in Sends : Completed[s] \in PcOfSend
BY DEF SendTypes, Completed, PcAll, PcOfSend, Threads

\* What the poll thread does in read_cb.
LEMMA ReadBase ==
  ASSUME BaseTypes,
         ReadDead \/ ReadKept \/ ReadBody \/ ReadNoBody \/ ReadFails
  PROVE  BaseTypes'
<1>1. SendTypes /\ ReadTypes /\ PollTypes /\ SockTypes
  BY DEF BaseTypes
<1>2. UNCHANGED sockVars
  BY DEF ReadDead, ReadKept, ReadBody, ReadNoBody, ReadFails
<1>3. SendTypes'
  <2>1. CASE ReadFails
    BY <1>1, <2>1, CompletedTypes DEF ReadFails, Dies, SendTypes
  <2>2. CASE UNCHANGED sendVars
    BY <2>2, FrameTypes
  <2> QED  BY <2>1, <2>2 DEF ReadDead, ReadKept, ReadBody, ReadNoBody
<1>4. PollTypes'
  BY <1>1, PollMoves DEF ReadDead, ReadKept, ReadBody, ReadNoBody, ReadFails
<1>5. ReadTypes'
  <2>1. CASE ReadDead
    BY <2>1, FrameTypes DEF ReadDead
  <2>2. ASSUME NEW n, HandOver(n)
        PROVE  rpdu' \in {"none", "full"} /\ refusals' \in 0..MaxRefusals
    BY <1>1, <2>2, ConnectionAssumption DEF HandOver, PduStays, ReadTypes
  <2>3. CASE ReadKept
    BY <1>1, <2>2, <2>3 DEF ReadKept, ReadTypes
  <2>4. CASE ReadBody
    <3>1. inq' \in Seq(InPiece)
      BY <2>4, RestOfQueue DEF ReadBody
    <3> QED  BY <1>1, <2>2, <2>4, <3>1 DEF ReadBody, ReadTypes
  <2>5. CASE ReadNoBody
    <3>1. inq' \in Seq(InPiece)
      BY <2>5, RestOfQueue DEF ReadNoBody
    <3> QED  BY <1>1, <2>5, <3>1 DEF ReadNoBody, ReadTypes
  <2>6. CASE ReadFails
    <3>1. CASE BodyMissing /\ inq' = Rest
      <4>1. inq' \in Seq(InPiece)
        BY <3>1, RestOfQueue DEF BodyMissing
      <4> QED  BY <1>1, <2>6, <4>1 DEF ReadFails, ReadTypes
    <3>2. CASE inq' = inq \/ inq' = << >>
      <4>1. << >> \in Seq(InPiece)
        OBVIOUS
      <4>2. inq' \in Seq(InPiece)
        BY <1>1, <3>2, <4>1 DEF ReadTypes
      <4> QED  BY <1>1, <2>6, <4>2 DEF ReadFails, ReadTypes
    <3> QED  BY <2>6, <3>1, <3>2 DEF ReadFails
  <2> QED  BY <2>1, <2>3, <2>4, <2>5, <2>6
<1> QED  BY <1>2, <1>3, <1>4, <1>5, FrameTypes DEF BaseTypes

\* What the poll thread does in write_cb.
LEMMA WriteCbBase ==
  ASSUME BaseTypes, WriteIdle \/ WriteMore \/ WriteFails \/ WriteAsserts
  PROVE  BaseTypes'
<1>1. SendTypes /\ ReadTypes /\ PollTypes /\ SockTypes
  BY DEF BaseTypes
<1>2. CASE WriteIdle
  <2>1. PollTypes' /\ UNCHANGED <<sendVars, readVars, sockVars>>
    BY <1>1, <1>2 DEF WriteIdle, PollTypes, PcOfPoll
  <2> QED  BY <2>1, FrameTypes DEF BaseTypes
<1>3. CASE WriteMore
  <2>1. PICK n \in 0..Parts :
          /\ Write(wbuf, solong, n)
          /\ solong' = solong + n
          /\ pc' = WokenWhen(solong + n = wsz)
          /\ errno' = IF n = 0 /\ solong < wsz THEN "eagain" ELSE errno
    BY <1>3 DEF WriteMore
  <2>2. obuf' \in 0..Space /\ solong' \in -1..Parts
    BY <1>1, <2>1, WriteBase DEF SockTypes, SendTypes
  <2>3. pc' = Completed \/ pc' = pc
    BY <2>1 DEF WokenWhen
  <2>4. SendTypes'
    BY <1>1, <1>3, <2>2, <2>3, CompletedTypes DEF WriteMore, SendTypes
  <2>5. ReadTypes'
    BY <1>1, <1>3, <2>1 DEF WriteMore, ReadTypes
  <2>6. PollTypes'
    BY <1>1, <1>3, PollMoves DEF WriteMore
  <2>7. SockTypes'
    BY <1>1, <1>3, <2>2 DEF WriteMore, SockTypes
  <2> QED  BY <2>4, <2>5, <2>6, <2>7 DEF BaseTypes
<1>4. CASE WriteFails
  <2>1. SendTypes'
    BY <1>1, <1>4, CompletedTypes, ConnectionAssumption
    DEF WriteFails, Dies, SendTypes
  <2>2. ReadTypes' /\ UNCHANGED sockVars
    BY <1>1, <1>4 DEF WriteFails, ReadTypes
  <2>3. PollTypes'
    BY <1>1, <1>4, PollMoves DEF WriteFails
  <2> QED  BY <2>1, <2>2, <2>3, FrameTypes DEF BaseTypes
<1>5. CASE WriteAsserts
  <2>1. SendTypes' /\ UNCHANGED <<readVars, sockVars>>
    BY <1>1, <1>5 DEF WriteAsserts, SendTypes, Threads, PcAll, PcOfSend
  <2>2. PollTypes'
    BY <1>1, <1>5, PollMoves DEF WriteAsserts
  <2> QED  BY <2>1, <2>2, FrameTypes DEF BaseTypes
<1> QED  BY <1>2, <1>3, <1>4, <1>5

\* What the peer does.
LEMMA PeerBase ==
  ASSUME BaseTypes, PeerNext
  PROVE  BaseTypes'
<1>1. SockTypes /\ ReadTypes
  BY DEF BaseTypes
<1>2. UNCHANGED <<sendVars, pollVars>>
  BY DEF PeerNext, PeerSends, PeerDrains, PeerCloses, PeerResets
<1>3. CASE PeerSends
  <2>1. sent \in Nat /\ sent + 1 \in 0..2 * MaxIn /\ sent \div 2 + 1 \in 1..MaxIn
    BY <1>1, <1>3, ConnectionAssumption DEF PeerSends, SockTypes
  <2>2. SockTypes'
    BY <1>1, <1>3, <2>1 DEF PeerSends, SockTypes
  <2>3. PICK e : /\ e = <<IF sent % 2 = 0 THEN "header" ELSE "body", sent \div 2 + 1>>
                 /\ inq' = Append(inq, e)
    BY <1>3 DEF PeerSends
  <2>4. e \in InPiece
    BY <2>1, <2>3 DEF InPiece
  <2>5. ReadTypes'
    BY <1>1, <1>3, <2>3, <2>4 DEF PeerSends, ReadTypes
  <2> QED  BY <1>2, <2>2, <2>5, FrameTypes DEF BaseTypes
<1>4. CASE PeerDrains \/ PeerCloses \/ PeerResets
  <2>1. SockTypes' /\ UNCHANGED readVars
    BY <1>1, <1>4, ConnectionAssumption
    DEF PeerDrains, PeerCloses, PeerResets, SockTypes
  <2> QED  BY <1>2, <2>1, FrameTypes DEF BaseTypes
<1> QED  BY <1>3, <1>4 DEF PeerNext

\* Each step keeps these types.
LEMMA NextBase == ASSUME BaseTypes, Flags, [Next]_vars PROVE BaseTypes'
<1>1. CASE UNCHANGED vars
  BY <1>1, FrameTypes DEF BaseTypes, vars
<1>2. CASE \E t \in Closers : CloseConn(t)
  BY <1>2, RemoveBase DEF Threads
<1>3. CASE \E t \in Threads : RemoveNext(t) \/ SpuriousWakeup(t)
  BY <1>3, RemoveBase
<1>4. CASE PollNext
  BY <1>4, LoopBase, ReadBase, WriteCbBase DEF PollNext
<1> QED  BY <1>1, <1>2, <1>3, <1>4, SendBase, PeerBase DEF Next

\* How a step changes the flags.
FlagSteps ==
  /\ UNCHANGED dead \/ dead' = TRUE
  /\ UNCHANGED eof \/ eof' = TRUE
  /\ UNCHANGED reset \/ reset' = TRUE
  /\ UNCHANGED shut \/ shut' = TRUE \/ shut' = (shut \/ ~reset)
  /\ UNCHANGED rd \/ rd' = FALSE
  /\ UNCHANGED wr \/ wr' = FALSE \/ wr' = TRUE
  /\ UNCHANGED cb \/ cb' = FALSE \/ cb' = TRUE \/ cb' = (cb /\ rd)
  /\ UNCHANGED pending \/ pending' = FALSE \/ pending' = TRUE

\* A flag is set, cleared or left alone.
LEMMA NextFlagSteps == ASSUME [Next]_vars PROVE FlagSteps
<1> USE DEF FlagSteps, sendVars, readVars, pollVars, sockVars
<1>1. ASSUME NEW s \in Sends, SendNext(s) PROVE FlagSteps
  BY <1>1 DEF SendNext, SendDead, SendWaits, SendAll, SendPart, SendFails,
    SendFailed, SendWaitsOn, SendReturns
<1>2. ASSUME NEW t \in Threads, CloseConn(t) \/ RemoveNext(t) \/ SpuriousWakeup(t)
      PROVE  FlagSteps
  BY <1>2 DEF CloseConn, RemoveNext, BlockRemove, Removed, Requested, SpuriousWakeup
<1>3. CASE PollNext
  <2>1. CASE \/ PollTop \/ PollWatch \/ PollSelect \/ PollChecksRead
             \/ PollChecksWrite
    BY <2>1 DEF PollTop, PollWatch, PollSelect, PollChecksRead, PollChecksWrite
  <2>2. CASE ReadDead \/ ReadKept \/ ReadBody \/ ReadNoBody \/ ReadFails
    BY <2>2 DEF ReadDead, ReadKept, ReadBody, ReadNoBody, ReadFails, Dies
  <2>3. CASE WriteIdle \/ WriteMore \/ WriteFails \/ WriteAsserts
    BY <2>3 DEF WriteIdle, WriteMore, WriteFails, WriteAsserts, Dies
  <2> QED  BY <1>3, <2>1, <2>2, <2>3 DEF PollNext
<1>4. CASE PeerNext
  BY <1>4 DEF PeerNext, PeerSends, PeerDrains, PeerCloses, PeerResets
<1>5. CASE UNCHANGED vars
  BY <1>5 DEF vars
<1> QED  BY <1>1, <1>2, <1>3, <1>4, <1>5 DEF Next, Threads

\* The flags are flags.
LEMMA NextFlags == ASSUME Flags, [Next]_vars PROVE Flags'
<1>1. FlagSteps
  BY NextFlagSteps
<1>2. dead' \in BOOLEAN /\ eof' \in BOOLEAN /\ reset' \in BOOLEAN
  BY <1>1, Zenon DEF Flags, FlagSteps
<1>3. rd' \in BOOLEAN /\ wr' \in BOOLEAN /\ pending' \in BOOLEAN
  BY <1>1, Zenon DEF Flags, FlagSteps
<1>4. shut' \in BOOLEAN
  <2>1. (shut \/ ~reset) \in BOOLEAN
    OBVIOUS
  <2> QED  BY <1>1, <2>1, Zenon DEF Flags, FlagSteps
<1>5. cb' \in BOOLEAN
  <2>1. (cb /\ rd) \in BOOLEAN
    OBVIOUS
  <2> QED  BY <1>1, <2>1, Zenon DEF Flags, FlagSteps
<1> QED  BY <1>2, <1>3, <1>4, <1>5, Zenon DEF Flags

-----------------------------------------------------------------------------
(* What is written.                                                        *)

Failing == {"remove", "changing", "changed", "removed"}
Busy    == Failing \cup {"writing", "written"}

\* Who wpdu_ belongs to, and who knows that the connection is dead.
BufferInv ==
  /\ wbuf # NoSend => pc[wbuf] \in Busy \cup {"gone"}
  /\ \A s \in Sends : pc[s] \in Busy => wbuf = s
  /\ \A t \in Threads : pc[t] \in Failing => dead
  /\ \A s \in Sends : pc[s] = "false" => dead

\* The next piece of the PDU of s, after the first n, is the next on the wire.
Continues(s, n) ==
  /\ n = 0 => wire = << >> \/ wire[Len(wire)][2] = Parts
  /\ n > 0 => wire # << >> /\ wire[Len(wire)] = <<s, n>>

\* What wpdu_ says is written is what is on the wire.
TailInv ==
  ~dead =>
    /\ wbuf = NoSend => solong = 0 /\ wsz = 0
    /\ wbuf # NoSend => wsz = Parts /\ solong \in 0..Parts
    /\ Continues(wbuf, solong)

WireIsPieces == wire \in Seq(Piece)

SentIsOnWire ==
  \A s \in Sends :
    pc[s] = "true" => \E i \in DOMAIN wire : wire[i] = <<s, Parts>>

WriteInv == BufferInv /\ TailInv /\ WireIsPieces /\ WholePdus /\ SentIsOnWire

\* A write that goes on where the last one stopped.
LEMMA WriteWhole ==
  ASSUME WireIsPieces, WholePdus, NEW s \in Sends, NEW from \in 0..Parts, NEW n,
         Write(s, from, n), Continues(s, from)
  PROVE  /\ WireIsPieces' /\ WholePdus'
         /\ n \in 0..Parts - from
         /\ Len(wire') = Len(wire) + n
         /\ \A i \in DOMAIN wire : i \in DOMAIN wire' /\ wire'[i] = wire[i]
         /\ n > 0 => wire'[Len(wire')] = <<s, from + n>>
<1>1. wire \in Seq(Piece) /\ Parts \in Nat \ {0} /\ n \in 0..Parts - from
  BY ConnectionAssumption DEF Write, WireIsPieces
<1> DEFINE new == [i \in 1..n |-> <<s, from + i>>]
<1>2. /\ new \in Seq(Piece) /\ Len(new) = n
      /\ \A i \in 1..n : new[i] = <<s, from + i>>
  <2>1. \A i \in 1..n : <<s, from + i>> \in Piece
    BY <1>1 DEF Piece
  <2>2. n \in Nat
    BY <1>1
  <2>3. new \in [1..n -> Piece]
    BY <2>1
  <2> HIDE DEF new
  <2>4. new \in Seq(Piece) /\ Len(new) = n
    BY <2>2, <2>3
  <2>5. \A i \in 1..n : new[i] = <<s, from + i>>
    BY DEF new
  <2> QED  BY <2>4, <2>5
<1>3. wire' = wire \o new
  BY DEF Write
<1> HIDE DEF new
<1>4. /\ wire' \in Seq(Piece) /\ Len(wire') = Len(wire) + n
      /\ DOMAIN wire = 1..Len(wire) /\ DOMAIN wire' = 1..Len(wire')
      /\ \A i \in 1..Len(wire) : i \in 1..Len(wire') /\ wire'[i] = wire[i]
      /\ \A i \in 1..n : wire'[Len(wire) + i] = <<s, from + i>>
  <2>1. wire' \in Seq(Piece) /\ Len(wire') = Len(wire) + n
    BY <1>1, <1>2, <1>3, ConcatProperties, Zenon
  <2>2. DOMAIN wire = 1..Len(wire) /\ DOMAIN wire' = 1..Len(wire')
    BY <1>1, <2>1
  <2>3. \A i \in 1..Len(wire) : i \in 1..Len(wire') /\ wire'[i] = wire[i]
    BY <1>1, <1>2, <1>3, <2>1
  <2>4. \A i \in 1..n : wire'[Len(wire) + i] = new[i]
    BY <1>1, <1>2, <1>3
  <2> QED  BY <1>2, <2>1, <2>2, <2>3, <2>4
<1>5. WholePdus'
  <2> SUFFICES ASSUME NEW i \in 1..Len(wire')
               PROVE  IF wire'[i][2] = 1
                        THEN i = 1 \/ wire'[i - 1][2] = Parts
                        ELSE i > 1 /\ wire'[i - 1] = <<wire'[i][1], wire'[i][2] - 1>>
    BY <1>4, Zenon DEF WholePdus
  <2>1. CASE i \in 1..Len(wire)
    <3>1. IF wire[i][2] = 1
            THEN i = 1 \/ wire[i - 1][2] = Parts
            ELSE i > 1 /\ wire[i - 1] = <<wire[i][1], wire[i][2] - 1>>
      BY <1>4, <2>1, Zenon DEF WholePdus
    <3>2. i > 1 => i - 1 \in 1..Len(wire)
      BY <1>1, <2>1
    <3> QED  BY <1>1, <1>4, <2>1, <3>1, <3>2
  <2>2. CASE i = Len(wire) + 1
    <3>1. wire'[i] = <<s, from + 1>>
      BY <1>1, <1>4, <2>2
    <3>2. CASE from = 0
      BY <1>1, <1>4, <2>2, <3>1, <3>2 DEF Continues
    <3>3. CASE from # 0
      BY <1>1, <1>4, <2>2, <3>1, <3>3 DEF Continues
    <3> QED  BY <3>2, <3>3
  <2>3. CASE i > Len(wire) + 1
    <3>1. PICK k \in 2..n : i = Len(wire) + k
      <4>1. i - Len(wire) \in 2..n /\ i = Len(wire) + (i - Len(wire))
        BY <1>1, <1>4, <2>3
      <4> QED  BY <4>1
    <3>2. wire'[Len(wire) + k] = <<s, from + k>>
      BY <1>4, <3>1
    <3>3. wire'[Len(wire) + (k - 1)] = <<s, from + (k - 1)>>
      <4>1. k - 1 \in 1..n
        BY <1>1
      <4> QED  BY <1>4, <4>1, Zenon
    <3>4. i - 1 = Len(wire) + (k - 1) /\ i > 1 /\ from + k # 1
          /\ (from + k) - 1 = from + (k - 1)
      BY <1>1, <3>1
    <3> QED  BY <3>1, <3>2, <3>3, <3>4
  <2> QED  BY <1>1, <1>4, <2>1, <2>2, <2>3
<1> QED  BY <1>1, <1>4, <1>5 DEF WireIsPieces

\* The initial states.
LEMMA InitWrite == ASSUME Init PROVE WriteInv
<1>1. wire = << >> /\ wire \in Seq(Piece)
  BY DEF Init
<1> QED
  BY <1>1 DEF Init, WriteInv, BufferInv, TailInv, Continues, WireIsPieces,
    WholePdus, SentIsOnWire, Busy, Failing, Threads

\* A step that writes nothing and leaves wpdu_ alone, or finds the connection
\* dead at its end.
LEMMA WriteFrame ==
  ASSUME WriteInv, UNCHANGED wire, UNCHANGED dead \/ dead' = TRUE
  PROVE  /\ WireIsPieces' /\ WholePdus'
         /\ dead' \/ UNCHANGED <<wbuf, solong, wsz>> => TailInv'
         /\ (\A s \in Sends : pc'[s] = "true" => pc[s] = "true") => SentIsOnWire'
<1>1. WireIsPieces' /\ WholePdus'
  BY DEF WriteInv, WireIsPieces, WholePdus
<1>2. dead' \/ UNCHANGED <<wbuf, solong, wsz>> => TailInv'
  BY DEF WriteInv, TailInv, Continues
<1>3. (\A s \in Sends : pc'[s] = "true" => pc[s] = "true") => SentIsOnWire'
  BY DEF WriteInv, SentIsOnWire
<1> QED  BY <1>1, <1>2, <1>3

\* A write of the sender, or of the poll thread for it, keeps what is known of
\* the wire.
LEMMA WriteKeeps ==
  ASSUME WriteInv, NEW s \in Sends, NEW from \in 0..Parts, NEW n,
         Write(s, from, n), Continues(s, from)
  PROVE  /\ WireIsPieces' /\ WholePdus'
         /\ n \in 0..Parts - from
         /\ \A k : k = from + n => Continues(s, k)'
         /\ \A t \in Sends :
              pc[t] = "true" => \E i \in DOMAIN wire' : wire'[i] = <<t, Parts>>
         /\ from + n = Parts =>
              \E i \in DOMAIN wire' : wire'[i] = <<s, Parts>>
<1>1. /\ WireIsPieces' /\ WholePdus' /\ n \in 0..Parts - from
      /\ Len(wire') = Len(wire) + n
      /\ \A i \in DOMAIN wire : i \in DOMAIN wire' /\ wire'[i] = wire[i]
      /\ n > 0 => wire'[Len(wire')] = <<s, from + n>>
      /\ wire \in Seq(Piece) /\ wire' \in Seq(Piece) /\ Parts \in Nat \ {0}
  BY WriteWhole, ConnectionAssumption DEF WriteInv, WireIsPieces
<1>2. Continues(s, from + n)'
  <2>1. CASE n = 0
    BY <1>1, <2>1 DEF Continues
  <2>2. CASE n > 0
    BY <1>1, <2>2 DEF Continues
  <2> QED  BY <1>1, <2>1, <2>2
<1>3. \A t \in Sends :
        pc[t] = "true" => \E i \in DOMAIN wire' : wire'[i] = <<t, Parts>>
  BY <1>1 DEF WriteInv, SentIsOnWire
<1>4. from + n = Parts => \E i \in DOMAIN wire' : wire'[i] = <<s, Parts>>
  <2>1. from + n > 0 => wire' # << >> /\ wire'[Len(wire')] = <<s, from + n>>
    BY <1>2 DEF Continues
  <2>2. wire' # << >> => Len(wire') \in DOMAIN wire'
    BY <1>1
  <2>3. from + n = Parts => from + n > 0
    BY <1>1
  <2> QED  BY <2>1, <2>2, <2>3, Zenon
<1> QED  BY <1>1, <1>2, <1>3, <1>4

\* What the threads inside send do.
LEMMA SendKeepsWrite ==
  ASSUME BaseTypes, WriteInv, NEW s \in Sends, SendNext(s)
  PROVE  WriteInv'
<1>1. /\ s \in Threads /\ Sends \subseteq Threads /\ NoSend \notin Sends
      /\ Parts \in Nat \ {0} /\ pc \in [Threads -> PcAll]
      /\ wbuf \in Sends \cup {NoSend}
  BY ConnectionAssumption DEF Threads, BaseTypes, SendTypes
<1>2. BufferInv /\ TailInv /\ WireIsPieces /\ WholePdus /\ SentIsOnWire
  BY DEF WriteInv
<1> USE DEF Busy, Failing
<1>3. CASE SendDead(s) \/ SendWaits(s) \/ SendWaitsOn(s)
  <2>1. /\ UNCHANGED <<dead, wbuf, solong, wsz, wire>>
        /\ \/ pc' = [pc EXCEPT ![s] = "false"] /\ dead /\ Entering(s)
           \/ pc' = [pc EXCEPT ![s] = "wait"] /\ Entering(s)
           \/ pc' = [pc EXCEPT ![s] = "writing"] /\ pc[s] = "written"
    BY <1>3 DEF SendDead, SendWaits, SendWaitsOn, sockVars
  <2>2. BufferInv'
    BY <1>1, <1>2, <2>1 DEF BufferInv, Entering
  <2>3. \A t \in Sends : pc'[t] = "true" => pc[t] = "true"
    BY <1>1, <2>1
  <2> QED  BY <2>1, <2>2, <2>3, WriteFrame DEF WriteInv
<1>4. CASE SendAll(s)
  <2>1. Write(s, 0, Parts) /\ Finished(s, "true") /\ ~dead /\ wbuf = NoSend
        /\ dead' = dead /\ Entering(s)
    BY <1>4 DEF SendAll, MayWrite
  <2>2. solong = 0 /\ Continues(s, 0)
    BY <1>2, <2>1 DEF TailInv, Continues
  <2>3. /\ WireIsPieces' /\ WholePdus' /\ Continues(s, Parts)'
        /\ \A t \in Sends :
             pc[t] = "true" => \E i \in DOMAIN wire' : wire'[i] = <<t, Parts>>
        /\ \E i \in DOMAIN wire' : wire'[i] = <<s, Parts>>
    BY <1>1, <2>1, <2>2, WriteKeeps
  <2>4. BufferInv'
    BY <1>1, <1>2, <2>1 DEF BufferInv, Finished, Entering
  <2>5. TailInv'
    BY <1>1, <2>1, <2>3 DEF TailInv, Finished, Continues
  <2>6. SentIsOnWire'
    BY <1>1, <2>1, <2>3 DEF SentIsOnWire, Finished
  <2> QED  BY <2>3, <2>4, <2>5, <2>6 DEF WriteInv
<1>5. CASE SendPart(s)
  <2>1. PICK n \in 0..Parts - 1 : Write(s, 0, n) /\ solong' = n
    BY <1>5 DEF SendPart
  <2>2. /\ ~dead /\ dead' = dead /\ wbuf = NoSend /\ Entering(s)
        /\ wbuf' = s /\ wsz' = Parts /\ pc' = [pc EXCEPT ![s] = "writing"]
    BY <1>5 DEF SendPart, MayWrite
  <2>3. Continues(s, 0)
    BY <1>2, <2>2 DEF TailInv, Continues
  <2>4. /\ WireIsPieces' /\ WholePdus' /\ Continues(s, n)'
        /\ \A t \in Sends :
             pc[t] = "true" => \E i \in DOMAIN wire' : wire'[i] = <<t, Parts>>
    BY <1>1, <2>1, <2>3, WriteKeeps
  <2>5. BufferInv'
    BY <1>1, <1>2, <2>2 DEF BufferInv, Entering
  <2>6. TailInv'
    BY <1>1, <2>1, <2>2, <2>4 DEF TailInv, Continues
  <2>7. SentIsOnWire'
    BY <1>1, <2>2, <2>4 DEF SentIsOnWire
  <2> QED  BY <2>4, <2>5, <2>6, <2>7 DEF WriteInv
<1>6. CASE SendFails(s)
  <2>1. /\ dead' /\ UNCHANGED wire /\ wbuf = NoSend /\ Entering(s)
        /\ wbuf' = s /\ pc' = [pc EXCEPT ![s] = "remove"]
    BY <1>6 DEF SendFails, MayWrite
  <2>2. BufferInv'
    BY <1>1, <1>2, <2>1 DEF BufferInv, Entering
  <2>3. \A t \in Sends : pc'[t] = "true" => pc[t] = "true"
    BY <1>1, <2>1
  <2>4. dead' = TRUE
    BY <1>6 DEF SendFails
  <2> QED  BY <2>1, <2>2, <2>3, <2>4, WriteFrame DEF WriteInv
<1>7. CASE SendFailed(s)
  <2>1. pc[s] = "removed" /\ Finished(s, "false") /\ dead' = dead /\ wire' = wire
    BY <1>7 DEF SendFailed, sockVars
  <2>2. wbuf = s /\ dead
    BY <1>1, <1>2, <2>1 DEF BufferInv
  <2>3. BufferInv'
    BY <1>1, <1>2, <2>1, <2>2 DEF BufferInv, Finished
  <2>4. \A t \in Sends : pc'[t] = "true" => pc[t] = "true"
    BY <1>1, <2>1 DEF Finished
  <2> QED  BY <2>1, <2>2, <2>3, <2>4, WriteFrame DEF WriteInv
<1>8. CASE SendReturns(s)
  <2>1. PICK result : result = IF ~dead /\ solong = wsz THEN "true" ELSE "false"
    OBVIOUS
  <2>2. /\ pc[s] = "written" /\ ~Incomplete /\ Finished(s, result)
        /\ dead' = dead /\ wire' = wire
    BY <1>8, <2>1 DEF SendReturns, sockVars
  <2>3. wbuf = s
    BY <1>1, <1>2, <2>2 DEF BufferInv
  <2>4. ~dead => /\ solong = Parts /\ result = "true" /\ Continues(s, Parts)
    BY <1>1, <1>2, <2>1, <2>2, <2>3 DEF TailInv, Incomplete
  <2>5. BufferInv'
    BY <1>1, <1>2, <2>1, <2>2, <2>3, <2>4 DEF BufferInv, Finished
  <2>6. TailInv'
    BY <1>1, <2>2, <2>4 DEF TailInv, Finished, Continues
  <2>7. SentIsOnWire'
    <3>1. ~dead => \E i \in DOMAIN wire : wire[i] = <<s, Parts>>
      <4>1. wire \in Seq(Piece)
        BY <1>2 DEF WireIsPieces
      <4>2. wire # << >> => Len(wire) \in DOMAIN wire
        BY <4>1
      <4>3. ~dead => wire # << >> /\ wire[Len(wire)] = <<s, Parts>>
        BY <1>1, <2>4 DEF Continues
      <4> QED  BY <4>2, <4>3
    <3>2. result = "true" => ~dead
      BY <2>1
    <3> QED  BY <1>1, <1>2, <2>2, <3>1, <3>2 DEF SentIsOnWire, Finished
  <2>8. WireIsPieces' /\ WholePdus'
    BY <2>2, WriteFrame
  <2> QED  BY <2>5, <2>6, <2>7, <2>8 DEF WriteInv
<1> QED  BY <1>3, <1>4, <1>5, <1>6, <1>7, <1>8 DEF SendNext

\* What the threads in closeconn and block_remove_fd do, and a wait that ends
\* without a signal.
LEMMA RemoveKeepsWrite ==
  ASSUME BaseTypes, WriteInv, NEW t \in Threads,
         \/ t \in Closers /\ CloseConn(t)
         \/ RemoveNext(t) \/ SpuriousWakeup(t)
  PROVE  WriteInv'
<1>1. /\ Sends \subseteq Threads /\ NoSend \notin Sends
      /\ t \in Closers => t \notin Sends
      /\ pc \in [Threads -> PcAll] /\ wbuf \in Sends \cup {NoSend}
  BY ConnectionAssumption DEF Threads, BaseTypes, SendTypes
<1>2. BufferInv
  BY DEF WriteInv
<1>3. UNCHANGED <<wbuf, solong, wsz, wire>> /\ (UNCHANGED dead \/ dead' = TRUE)
  BY DEF CloseConn, RemoveNext, BlockRemove, Removed, SpuriousWakeup, sockVars
<1>4. \/ /\ t \in Closers /\ pc[t] = "idle"
         /\ \/ pc' = [pc EXCEPT ![t] = "closed"]
            \/ pc' = [pc EXCEPT ![t] = "remove"] /\ dead' = TRUE
      \/ pc[t] = "remove" /\ pc' = [pc EXCEPT ![t] = "changing"]
      \/ pc[t] = "changed" /\ pc' = [pc EXCEPT ![t] = "removed"]
      \/ pc[t] = "wait" /\ pc' = [pc EXCEPT ![t] = "turn"]
      \/ pc[t] = "writing" /\ pc' = [pc EXCEPT ![t] = "written"]
      \/ pc[t] = "changing" /\ pc' = [pc EXCEPT ![t] = "changed"]
  BY DEF CloseConn, RemoveNext, BlockRemove, Removed, WaitsNext, SpuriousWakeup
<1>5. BufferInv'
  BY <1>1, <1>2, <1>3, <1>4 DEF BufferInv, Busy, Failing
<1>6. \A u \in Sends : pc'[u] = "true" => pc[u] = "true"
  BY <1>1, <1>4
<1> QED  BY <1>3, <1>5, <1>6, WriteFrame DEF WriteInv

\* Waking the writer changes nothing of that.
LEMMA CompletedKeeps ==
  ASSUME BaseTypes, BufferInv, UNCHANGED wbuf, UNCHANGED dead \/ dead' = TRUE,
         pc' = Completed \/ pc' = pc
  PROVE  BufferInv' /\ \A u \in Sends : pc'[u] = "true" => pc[u] = "true"
<1>1. Sends \subseteq Threads /\ wbuf \in Sends \cup {NoSend} /\ NoSend \notin Sends
  BY ConnectionAssumption DEF Threads, BaseTypes, SendTypes
<1> QED  BY <1>1 DEF BufferInv, Completed, Busy, Failing

\* What the poll thread does, write_cb apart.
LEMMA PollKeepsWrite ==
  ASSUME BaseTypes, WriteInv,
         \/ PollTop \/ PollWatch \/ PollSelect \/ PollChecksRead
         \/ PollChecksWrite
         \/ ReadDead \/ ReadKept \/ ReadBody \/ ReadNoBody \/ ReadFails
         \/ WriteIdle
  PROVE  WriteInv'
<1>1. Sends \subseteq Threads /\ wbuf \in Sends \cup {NoSend} /\ NoSend \notin Sends
  BY ConnectionAssumption DEF Threads, BaseTypes, SendTypes
<1>2. BufferInv
  BY DEF WriteInv
<1>3. CASE PollTop
  <2>1. /\ UNCHANGED <<dead, wbuf, solong, wsz, wire>>
        /\ \/ pc' = pc
           \/ pc' = [t \in Threads |->
                       IF pc[t] = "changing" THEN "changed" ELSE pc[t]]
    BY <1>3 DEF PollTop, sockVars
  <2>2. BufferInv' /\ \A u \in Sends : pc'[u] = "true" => pc[u] = "true"
    BY <1>1, <1>2, <2>1 DEF BufferInv, Busy, Failing
  <2> QED  BY <2>1, <2>2, WriteFrame DEF WriteInv
<1>4. CASE ReadFails
  <2>1. /\ UNCHANGED <<wbuf, solong, wsz, wire>> /\ dead' = TRUE
        /\ pc' = Completed
    BY <1>4 DEF ReadFails, Dies, sockVars
  <2> QED  BY <1>2, <2>1, WriteFrame, CompletedKeeps DEF WriteInv
<1>5. CASE UNCHANGED <<sendVars, sockVars>>
  <2>1. UNCHANGED <<dead, wbuf, solong, wsz, wire, pc>>
    BY <1>5 DEF sendVars, sockVars
  <2> QED  BY <1>2, <2>1, WriteFrame, CompletedKeeps DEF WriteInv
<1> QED
  BY <1>3, <1>4, <1>5
  DEF PollWatch, PollSelect, PollChecksRead, PollChecksWrite, ReadDead,
    ReadKept, ReadBody, ReadNoBody, WriteIdle

\* What it does in write_cb.
LEMMA WriteCbKeepsWrite ==
  ASSUME BaseTypes, WriteInv, WriteMore \/ WriteFails \/ WriteAsserts
  PROVE  WriteInv'
<1>1. /\ Sends \subseteq Threads /\ wbuf \in Sends \cup {NoSend}
      /\ NoSend \notin Sends /\ Parts \in Nat \ {0}
  BY ConnectionAssumption DEF Threads, BaseTypes, SendTypes
<1>2. BufferInv /\ TailInv
  BY DEF WriteInv
<1>3. CASE WriteMore
  <2>1. PICK n \in 0..Parts :
          /\ Write(wbuf, solong, n)
          /\ solong' = solong + n
          /\ pc' = WokenWhen(solong + n = wsz)
    BY <1>3 DEF WriteMore
  <2>2. ~dead /\ wsz # 0 /\ UNCHANGED <<dead, wbuf, wsz>>
    BY <1>3 DEF WriteMore
  <2>3. /\ wbuf \in Sends /\ wsz = Parts /\ solong \in 0..Parts
        /\ Continues(wbuf, solong)
    BY <1>1, <1>2, <2>2 DEF TailInv
  <2>4. PICK s \in Sends, from \in 0..Parts : s = wbuf /\ from = solong
    BY <2>3
  <2>5. /\ WireIsPieces' /\ WholePdus' /\ n \in 0..Parts - from
        /\ \A k : k = from + n => Continues(s, k)'
        /\ \A t \in Sends :
             pc[t] = "true" => \E i \in DOMAIN wire' : wire'[i] = <<t, Parts>>
    <3>1. Write(s, from, n) /\ Continues(s, from)
      BY <2>1, <2>3, <2>4
    <3> QED  BY <3>1, WriteKeeps
  <2>6. BufferInv' /\ \A u \in Sends : pc'[u] = "true" => pc[u] = "true"
    BY <1>2, <2>1, <2>2, CompletedKeeps DEF WokenWhen
  <2>7. solong' = from + n /\ solong' \in 0..Parts /\ wbuf' = s /\ wsz' = Parts
    BY <1>1, <2>1, <2>2, <2>3, <2>4, <2>5
  <2>8. TailInv'
    <3>1. Continues(wbuf, solong)'
      <4>1. PICK k : k = from + n
        OBVIOUS
      <4>2. Continues(s, k)'
        BY <2>5, <4>1
      <4> QED  BY <2>7, <4>1, <4>2 DEF Continues
    <3> QED  BY <1>1, <2>7, <3>1 DEF TailInv
  <2>9. SentIsOnWire'
    BY <2>5, <2>6 DEF SentIsOnWire
  <2> QED  BY <2>5, <2>6, <2>8, <2>9 DEF WriteInv
<1>4. CASE WriteFails
  <2>1. dead' = TRUE /\ pc' = Completed /\ UNCHANGED <<wbuf, wire>>
    BY <1>4 DEF WriteFails, Dies, sockVars
  <2> QED  BY <1>2, <2>1, WriteFrame, CompletedKeeps DEF WriteInv
<1>5. CASE WriteAsserts
  <2>1. /\ UNCHANGED <<dead, wbuf, solong, wsz, wire>>
        /\ pc' = [t \in Threads |-> "gone"]
    BY <1>5 DEF WriteAsserts, sockVars
  <2>2. BufferInv' /\ \A u \in Sends : pc'[u] = "true" => pc[u] = "true"
    BY <1>1, <2>1 DEF BufferInv, Busy, Failing
  <2> QED  BY <2>1, <2>2, WriteFrame DEF WriteInv
<1> QED  BY <1>3, <1>4, <1>5

\* Each step keeps the invariant.
LEMMA NextWrite ==
  ASSUME BaseTypes, WriteInv, [Next]_vars PROVE WriteInv'
<1>1. CASE UNCHANGED <<sendVars, wire>>
  <2>1. UNCHANGED <<dead, wbuf, solong, wsz, wire, pc>>
    BY <1>1 DEF sendVars
  <2>2. BufferInv
    BY DEF WriteInv
  <2> QED  BY <2>1, <2>2, WriteFrame, CompletedKeeps DEF WriteInv
<1>2. CASE \E t \in Closers : CloseConn(t)
  BY <1>2, RemoveKeepsWrite DEF Threads
<1>3. CASE \E t \in Threads : RemoveNext(t) \/ SpuriousWakeup(t)
  BY <1>3, RemoveKeepsWrite
<1>4. CASE PollNext
  BY <1>4, PollKeepsWrite, WriteCbKeepsWrite DEF PollNext
<1>5. CASE PeerNext
  <2>1. UNCHANGED <<sendVars, wire>>
    BY <1>5 DEF PeerNext, PeerSends, PeerDrains, PeerCloses, PeerResets
  <2> QED  BY <1>1, <2>1
<1>6. CASE UNCHANGED vars
  BY <1>1, <1>6 DEF vars, sockVars
<1> QED  BY <1>2, <1>3, <1>4, <1>5, <1>6, SendKeepsWrite DEF Next

\* It implies the two properties.
LEMMA WriteInvMeans ==
  ASSUME BaseTypes, WriteInv PROVE WholePdus /\ SendTruth
BY DEF WriteInv, BufferInv, SentIsOnWire, SendTruth, Busy, Failing, PcOfSend

-----------------------------------------------------------------------------
(* No callback after block_remove_fd.                                      *)

\* A thread that has asked for the removal has stopped the watch for good, and
\* one that was told of it was told at the top of the loop: the poll thread is
\* not in a callback, nor about to begin one.
Unwatched ==
  \A t \in Threads :
    pc[t] \in {"changing", "changed", "removed"} => dead /\ ~rd /\ ~wr

Outside ==
  \A t \in Threads :
    pc[t] \in {"changed", "removed"} =>
      /\ poll.pc \in {"top", "watch", "select", "gone"}
      /\ poll.pc = "select" => ~poll.r /\ ~poll.w

CloseInv == Unwatched /\ Outside

\* The initial states.
LEMMA InitClose == ASSUME Init PROVE CloseInv
BY DEF Init, CloseInv, Unwatched, Outside, Threads

\* What the senders do.
LEMMA SendKeepsClose ==
  ASSUME BaseTypes, WriteInv, CloseInv, NEW s \in Sends, SendNext(s)
  PROVE  CloseInv'
<1>1. s \in Threads /\ pc \in [Threads -> PcAll]
  BY DEF Threads, BaseTypes, SendTypes
<1>2. UNCHANGED poll /\ UNCHANGED rd /\ (UNCHANGED wr \/ ~dead)
      /\ (UNCHANGED dead \/ dead' = TRUE)
  BY DEF SendNext, SendDead, SendWaits, SendAll, SendPart, SendFails,
    SendFailed, SendWaitsOn, SendReturns, pollVars
<1>3. \A t \in Threads :
        pc'[t] \in {"changing", "changed", "removed"} => pc'[t] = pc[t]
  <2>1. CASE SendDead(s) \/ SendWaits(s) \/ SendPart(s) \/ SendFails(s)
             \/ SendWaitsOn(s)
    BY <1>1, <2>1
    DEF SendDead, SendWaits, SendPart, SendFails, SendWaitsOn
  <2>2. CASE SendAll(s) \/ SendFailed(s) \/ SendReturns(s)
    <3>1. \E result \in {"true", "false"} : Finished(s, result)
      BY <2>2 DEF SendAll, SendFailed, SendReturns
    <3> QED  BY <1>1, <3>1 DEF Finished
  <2> QED  BY <2>1, <2>2 DEF SendNext
<1> QED  BY <1>1, <1>2, <1>3 DEF CloseInv, Unwatched, Outside

\* What the closers do.
LEMMA RemoveKeepsClose ==
  ASSUME "changing" \notin SpuriousAt, BaseTypes, WriteInv, CloseInv,
         NEW t \in Threads,
         \/ t \in Closers /\ CloseConn(t)
         \/ RemoveNext(t) \/ SpuriousWakeup(t)
  PROVE  CloseInv'
<1>1. pc \in [Threads -> PcAll] /\ UNCHANGED poll
  BY DEF BaseTypes, SendTypes, CloseConn, RemoveNext, BlockRemove, Removed,
    SpuriousWakeup, pollVars
<1>2. CASE BlockRemove(t)
  <2>1. dead
    BY <1>2 DEF BlockRemove, WriteInv, BufferInv, Failing
  <2> QED
    BY <1>1, <1>2, <2>1
    DEF BlockRemove, WaitsNext, CloseInv, Unwatched, Outside
<1>3. CASE ~BlockRemove(t)
  <2>1. UNCHANGED <<rd, wr>> /\ (UNCHANGED dead \/ dead' = TRUE)
    BY <1>3 DEF CloseConn, RemoveNext, Removed, SpuriousWakeup, pollVars
  <2>2. \/ pc[t] = "changed" /\ pc' = [pc EXCEPT ![t] = "removed"]
        \/ \E p \in {"closed", "remove", "turn", "written"} :
             pc' = [pc EXCEPT ![t] = p]
    BY <1>3 DEF CloseConn, RemoveNext, Removed, SpuriousWakeup
  <2> QED  BY <1>1, <2>1, <2>2 DEF CloseInv, Unwatched, Outside
<1> QED  BY <1>2, <1>3

\* What the poll thread does.
LEMMA PollKeepsClose ==
  ASSUME BaseTypes, CloseInv, PollNext
  PROVE  CloseInv'
<1>1. pc \in [Threads -> PcAll] /\ poll \in [pc : PcOfPoll, r : BOOLEAN, w : BOOLEAN]
  BY DEF BaseTypes, SendTypes, PollTypes
<1> USE DEF CloseInv, Unwatched, Outside
<1>2. CASE PollTop
  BY <1>1, <1>2 DEF PollTop
<1>3. CASE PollWatch
  <2>1. UNCHANGED <<pc, dead, rd, wr>> /\ poll' = [pc |-> "select", r |-> rd, w |-> wr]
    BY <1>3 DEF PollWatch, sendVars
  <2> QED  BY <1>1, <2>1
<1>4. CASE PollSelect
  <2>1. PICK part \in {FALSE, poll.r /\ PartOfBody} :
          poll' = [pc |-> IF ReadReady \/ part THEN "read"
                          ELSE IF poll.w /\ Writable THEN "write" ELSE "top",
                   r |-> ReadReady \/ part, w |-> poll.w /\ Writable]
    BY <1>4 DEF PollSelect
  <2>2. UNCHANGED <<pc, dead, rd, wr>> /\ poll.pc = "select"
        /\ (~poll.r /\ ~poll.w => poll'.pc = "top")
    BY <1>4, <2>1 DEF PollSelect, ReadReady, sendVars
  <2> QED  BY <1>1, <2>2
<1>5. ASSUME poll.pc \in {"read", "read_cb", "write", "write_cb"}
      PROVE  \A t \in Threads : pc[t] \notin {"changed", "removed"}
  BY <1>5
<1>6. CASE PollChecksRead \/ PollChecksWrite \/ ReadDead \/ ReadKept
           \/ ReadBody \/ ReadNoBody \/ WriteIdle
  <2>1. /\ UNCHANGED pc /\ UNCHANGED dead
        /\ UNCHANGED rd /\ (UNCHANGED wr \/ wr' = FALSE)
        /\ poll.pc \in {"read", "read_cb", "write", "write_cb"}
    BY <1>6 DEF PollChecksRead, PollChecksWrite, ReadDead, ReadKept,
      ReadBody, ReadNoBody, WriteIdle, Reading, sendVars
  <2> QED  BY <1>5, <2>1
<1>7. CASE ReadFails \/ WriteMore \/ WriteFails
  <2>1. /\ pc' = pc \/ pc' = Completed
        /\ UNCHANGED dead \/ dead' = TRUE
        /\ (UNCHANGED <<rd, wr>> \/ (rd' = FALSE /\ wr' = FALSE))
        /\ poll.pc \in {"read", "read_cb", "write", "write_cb"}
    BY <1>7 DEF ReadFails, WriteMore, WriteFails, WokenWhen, Reading, Dies
  <2>2. \A t \in Threads :
          pc'[t] \in {"changing", "changed", "removed"} => pc'[t] = pc[t]
    BY <1>1, <2>1 DEF Completed
  <2> QED  BY <1>5, <2>1, <2>2
<1>8. CASE WriteAsserts
  BY <1>8 DEF WriteAsserts
<1> QED  BY <1>2, <1>3, <1>4, <1>6, <1>7, <1>8 DEF PollNext

\* Each step keeps the invariant.
LEMMA NextClose ==
  ASSUME "changing" \notin SpuriousAt, BaseTypes, WriteInv, CloseInv, [Next]_vars
  PROVE  CloseInv'
<1>1. CASE UNCHANGED <<sendVars, pollVars>>
  BY <1>1 DEF sendVars, pollVars, CloseInv, Unwatched, Outside
<1>2. CASE \E t \in Closers : CloseConn(t)
  BY <1>2, RemoveKeepsClose DEF Threads
<1>3. CASE \E t \in Threads : RemoveNext(t) \/ SpuriousWakeup(t)
  BY <1>3, RemoveKeepsClose
<1>4. CASE PollNext
  BY <1>4, PollKeepsClose
<1>5. CASE PeerNext
  <2>1. UNCHANGED <<sendVars, pollVars>>
    BY <1>5 DEF PeerNext, PeerSends, PeerDrains, PeerCloses, PeerResets
  <2> QED  BY <1>1, <2>1
<1>6. CASE UNCHANGED vars
  BY <1>1, <1>6 DEF vars
<1> QED  BY <1>2, <1>3, <1>4, <1>5, <1>6, SendKeepsClose DEF Next

-----------------------------------------------------------------------------
(* What is read.                                                           *)

\* Once select has said so, there is something to read until it is read.
ReadableKept ==
  poll.pc \in {"read", "read_cb"} => Readable \/ rpdu # "none"

\* The pth piece the peer sends.
PieceIn(p) == <<IF p % 2 = 1 THEN "header" ELSE "body", (p + 1) \div 2>>

\* The pieces of the PDU in rpdu_.
Begun == IF rpdu = "none" THEN 0 ELSE IF rpdu = "header" THEN 1 ELSE 2

\* The queue is the end of what was sent; what is before it was taken, or is
\* in rpdu_.
QueueInv ==
  /\ Len(inq) <= sent
  /\ \A k \in 1..Len(inq) : inq[k] = PieceIn(sent - Len(inq) + k)

TakenInv ==
  /\ got \in Seq(Nat) /\ \A i \in 1..Len(got) : got[i] = i
  /\ 2 * Len(got) <= sent
  /\ ~dead => sent - Len(inq) = 2 * Len(got) + Begun

ReadInv == ReadableKept /\ QueueInv /\ TakenInv

\* The numbers of the pieces.
LEMMA Pieces ==
  /\ \A n \in Nat : PieceIn(2 * n + 2) = <<"body", n + 1>>
  /\ \A k \in Nat :
       PieceIn(k + 1) = <<IF k % 2 = 0 THEN "header" ELSE "body", k \div 2 + 1>>
<1>1. ASSUME NEW n \in Nat PROVE PieceIn(2 * n + 2) = <<"body", n + 1>>
  <2>1. (2 * n + 2) % 2 = 0 /\ ((2 * n + 2) + 1) \div 2 = n + 1
    OBVIOUS
  <2> QED  BY <2>1 DEF PieceIn
<1>2. ASSUME NEW k \in Nat
      PROVE  PieceIn(k + 1) =
               <<IF k % 2 = 0 THEN "header" ELSE "body", k \div 2 + 1>>
  <2>1. ((k + 1) % 2 = 1 <=> k % 2 = 0) /\ ((k + 1) + 1) \div 2 = k \div 2 + 1
    OBVIOUS
  <2> QED  BY <2>1 DEF PieceIn
<1> QED  BY <1>1, <1>2

\* The invariant implies the properties, and the type of got.
LEMMA ReadInvMeans ==
  ASSUME BaseTypes, ReadInv
  PROVE  TakenInOrder /\ HeaderIsThere /\ got \in Seq(1..MaxIn)
<1>1. /\ inq \in Seq(InPiece) /\ sent \in 0..2 * MaxIn /\ MaxIn \in Nat
      /\ got \in Seq(Nat) /\ Len(got) \in Nat /\ Len(inq) \in Nat
      /\ QueueInv /\ TakenInv
  BY ConnectionAssumption DEF BaseTypes, ReadTypes, SockTypes, ReadInv, TakenInv
<1>2. HeaderIsThere
  BY DEF ReadInv, ReadableKept, HeaderIsThere, Reading
<1>3. got \in Seq(1..MaxIn)
  <2>1. Len(got) <= MaxIn
    BY <1>1 DEF TakenInv
  <2>2. \A i \in 1..Len(got) : got[i] \in 1..MaxIn
    BY <1>1, <2>1 DEF TakenInv
  <2> QED  BY <1>1, <2>2
<1>4. \A i \in DOMAIN got : got[i] = i
  BY <1>1 DEF TakenInv
<1>5. ASSUME ~dead, NEW n \in 1..sent \div 2, n > Len(got),
             ~(n = Current /\ rpdu = "full")
      PROVE  \E i \in DOMAIN inq : inq[i] = <<"body", n>>
  <2>1. sent - Len(inq) = 2 * Len(got) + Begun
    BY <1>1, <1>5 DEF TakenInv
  <2>2. 2 * n <= sent /\ n \in Nat \ {0}
    BY <1>1
  <2>3. 2 * Len(got) + Begun < 2 * n /\ Begun \in 0..2
    <3>1. CASE rpdu = "full"
      <4>1. n # Len(got) + 1 /\ Begun = 2
        BY <1>5, <3>1 DEF Begun, Current
      <4> QED  BY <1>1, <1>5, <2>2, <4>1
    <3>2. CASE rpdu # "full"
      <4>1. Begun \in 0..1
        BY <3>2 DEF Begun, BaseTypes, ReadTypes
      <4> QED  BY <1>1, <1>5, <2>2, <4>1
    <3> QED  BY <3>1, <3>2
  <2>4. PICK k \in 1..Len(inq) : 2 * n = sent - Len(inq) + k
    <3>1. 2 * n - (sent - Len(inq)) \in 1..Len(inq)
      BY <1>1, <2>1, <2>2, <2>3
    <3>2. 2 * n = sent - Len(inq) + (2 * n - (sent - Len(inq)))
      BY <1>1, <2>2
    <3> QED  BY <3>1, <3>2
  <2>5. inq[k] = PieceIn(2 * n)
    BY <1>1, <2>4 DEF QueueInv
  <2>6. PieceIn(2 * n) = <<"body", n>>
    <3>1. n - 1 \in Nat /\ 2 * (n - 1) + 2 = 2 * n /\ (n - 1) + 1 = n
      BY <2>2
    <3>2. PieceIn(2 * (n - 1) + 2) = <<"body", (n - 1) + 1>>
      BY <3>1, Pieces, Zenon
    <3> QED  BY <3>1, <3>2
  <2> QED  BY <1>1, <2>5, <2>6
<1>6. TakenInOrder
  <2>1. ASSUME ~dead, NEW n \in 1..sent \div 2
        PROVE  \/ n <= Len(got)
               \/ n = Current /\ rpdu = "full"
               \/ \E i \in DOMAIN inq : inq[i] = <<"body", n>>
    <3>1. n <= Len(got) \/ n > Len(got)
      BY <1>1
    <3> QED  BY <1>5, <2>1, <3>1, Zenon
  <2> QED  BY <1>4, <2>1, Zenon DEF TakenInOrder
<1> QED  BY <1>2, <1>3, <1>6

\* The initial states.
LEMMA InitRead == ASSUME Init PROVE ReadInv
<1>1. << >> \in Seq(Nat)
  OBVIOUS
<1>2. /\ got \in Seq(Nat) /\ inq = << >> /\ got = << >> /\ sent = 0
      /\ rpdu = "none" /\ poll.pc = "top"
  BY <1>1 DEF Init
<1>3. Begun = 0 /\ ReadableKept
  BY <1>2 DEF Begun, ReadableKept
<1>4. Len(inq) = 0 /\ Len(got) = 0
  BY <1>2
<1>5. QueueInv
  BY <1>2, <1>4 DEF QueueInv
<1>6. TakenInv
  <2>1. \A i \in 1..Len(got) : got[i] = i
    BY <1>4
  <2>2. 2 * Len(got) <= sent /\ sent - Len(inq) = 2 * Len(got) + Begun
    <3>1. sent = 0
      BY <1>2
    <3> QED  BY <1>3, <1>4, <3>1
  <2> QED  BY <1>2, <2>1, <2>2 DEF TakenInv
<1> QED  BY <1>3, <1>5, <1>6 DEF ReadInv

\* A step that takes nothing from the queue.
LEMMA ReadFrame ==
  ASSUME ReadInv, UNCHANGED <<inq, sent, rpdu, got>>,
         UNCHANGED dead \/ dead' = TRUE
  PROVE  QueueInv' /\ TakenInv'
BY DEF ReadInv, QueueInv, TakenInv, Begun, PieceIn

\* Pieces may be taken from the front of the queue.
LEMMA QueueShrinks ==
  ASSUME BaseTypes, QueueInv, UNCHANGED sent, NEW n \in 0..Len(inq),
         inq' \in Seq(InPiece), Len(inq') = Len(inq) - n,
         \A k \in 1..Len(inq') : inq'[k] = inq[k + n]
  PROVE  QueueInv'
<1>1. Len(inq) \in Nat /\ sent \in Nat /\ Len(inq') \in Nat
  BY DEF BaseTypes, ReadTypes, SockTypes
<1>2. Len(inq') <= sent
  BY <1>1 DEF QueueInv
<1>3. ASSUME NEW k \in 1..Len(inq')
      PROVE  inq'[k] = PieceIn(sent' - Len(inq') + k)
  <2>1. /\ k + n \in 1..Len(inq)
        /\ sent' - Len(inq') + k = sent - Len(inq) + (k + n)
    BY <1>1
  <2>2. inq[k + n] = PieceIn(sent - Len(inq) + (k + n))
    BY <2>1 DEF QueueInv
  <2> QED  BY <2>1, <2>2
<1> QED  BY <1>2, <1>3 DEF QueueInv, PieceIn

\* The empty queue is the end of anything.
LEMMA QueueEmpty ==
  ASSUME BaseTypes, UNCHANGED sent, inq' = << >>
  PROVE  QueueInv'
BY DEF BaseTypes, SockTypes, QueueInv

\* got_pdu gets the next PDU, or it stays in rpdu_.
LEMMA HandedOver ==
  ASSUME ReadInv, NEW n, HandOver(n), n = Len(got) + 1, sent \in Nat,
         2 * n <= sent
  PROVE  /\ got' \in Seq(Nat) /\ \A i \in 1..Len(got') : got'[i] = i
         /\ 2 * Len(got') + Begun' = 2 * n
         /\ 2 * Len(got') <= sent
<1>1. /\ got \in Seq(Nat) /\ Len(got) \in Nat
      /\ \A i \in 1..Len(got) : got[i] = i
  BY DEF ReadInv, TakenInv
<1>2. CASE rpdu' = "none" /\ got' = Append(got, n)
  <2>1. /\ got' \in Seq(Nat) /\ Len(got') = Len(got) + 1
        /\ \A i \in 1..Len(got') : got'[i] = i
    BY <1>1, <1>2
  <2>2. Begun' = 0
    BY <1>2 DEF Begun
  <2> QED  BY <1>1, <2>1, <2>2
<1>3. CASE rpdu' = "full" /\ got' = got
  <2>1. Begun' = 2
    BY <1>3 DEF Begun
  <2> QED  BY <1>1, <1>3, <2>1
<1> QED  BY <1>2, <1>3 DEF HandOver, PduStays

\* What is read when the connection lives.
LEMMA ReadTakes ==
  ASSUME BaseTypes, ReadInv, ReadKept \/ ReadBody \/ ReadNoBody
  PROVE  QueueInv' /\ TakenInv'
<1>1. /\ inq \in Seq(InPiece) /\ Len(inq) \in Nat /\ sent \in Nat
      /\ rpdu \in {"none", "header", "full"}
      /\ got \in Seq(Nat) /\ Len(got) \in Nat /\ QueueInv /\ TakenInv
  BY DEF BaseTypes, ReadTypes, SockTypes, ReadInv, TakenInv
<1>2. ~dead /\ UNCHANGED <<dead, sent>>
  BY DEF ReadKept, ReadBody, ReadNoBody, Reading, sendVars, sockVars
<1>3. sent - Len(inq) = 2 * Len(got) + Begun /\ Begun \in 0..2
  BY <1>2 DEF ReadInv, TakenInv, Begun
<1>4. CASE ReadKept
  <2>1. rpdu = "full" /\ HandOver(Current) /\ inq' = inq
    BY <1>4 DEF ReadKept
  <2>2. PICK n : n = Current
    OBVIOUS
  <2>3. HandOver(n) /\ n = Len(got) + 1 /\ Begun = 2
    BY <2>1, <2>2 DEF Current, Begun
  <2>4. 2 * n <= sent /\ 2 * n = sent - Len(inq)
    BY <1>1, <1>3, <2>3
  <2>5. /\ got' \in Seq(Nat) /\ \A i \in 1..Len(got') : got'[i] = i
        /\ 2 * Len(got') + Begun' = 2 * n /\ 2 * Len(got') <= sent
    BY <1>1, <2>3, <2>4, HandedOver
  <2>6. TakenInv'
    BY <1>2, <2>1, <2>4, <2>5 DEF TakenInv
  <2>7. QueueInv'
    BY <1>1, <1>2, <2>1 DEF QueueInv, PieceIn
  <2> QED  BY <2>6, <2>7
<1>5. CASE ReadBody
  <2>1. /\ rpdu # "full" /\ (rpdu = "none" => inq # << >>) /\ Rest # << >>
        /\ HandOver(Head(Rest)[2]) /\ inq' = Tail(Rest)
    BY <1>5 DEF ReadBody
  <2>2. /\ Rest \in Seq(InPiece) /\ inq' \in Seq(InPiece)
        /\ Len(Rest) = IF rpdu = "none" THEN Len(inq) - 1 ELSE Len(inq)
        /\ \A i \in 1..Len(Rest) :
             Rest[i] = IF rpdu = "none" THEN inq[i + 1] ELSE inq[i]
    BY <2>1, RestOfQueue
  <2>3. PICK m : m = IF rpdu = "none" THEN 2 ELSE 1
    OBVIOUS
  <2>4. m \in 1..2 /\ Len(Rest) \in Nat \ {0} /\ Len(Rest) = Len(inq) - (m - 1)
    BY <1>1, <2>1, <2>2, <2>3
  <2>5. Begun + m = 2
    BY <1>1, <2>1, <2>3 DEF Begun
  <2>6. Head(Rest) = inq[m]
    <3>1. Head(Rest) = Rest[1] /\ 1 \in 1..Len(Rest)
      <4>1. Head(Rest) = Rest[1]
        BY <2>1, <2>2, HeadTailProperties
      <4> QED  BY <2>4, <4>1
    <3>2. CASE rpdu = "none"
      BY <2>2, <2>3, <3>1, <3>2
    <3>3. CASE rpdu # "none"
      BY <2>2, <2>3, <3>1, <3>3
    <3> QED  BY <3>2, <3>3
  <2>7. inq[m] = <<"body", Len(got) + 1>>
    <3>1. m \in 1..Len(inq) /\ sent - Len(inq) + m = 2 * Len(got) + 2
      BY <1>1, <1>3, <2>4, <2>5
    <3>2. inq[m] = PieceIn(sent - Len(inq) + m)
      BY <1>1, <3>1 DEF QueueInv
    <3> QED  BY <1>1, <3>1, <3>2, Pieces
  <2>8. PICK n : n = Head(Rest)[2]
    OBVIOUS
  <2>9. HandOver(n) /\ n = Len(got) + 1
    BY <2>1, <2>6, <2>7, <2>8
  <2>10. 2 * n <= sent /\ 2 * n = sent - (Len(inq) - m)
    BY <1>1, <1>3, <2>4, <2>5, <2>9
  <2>11. /\ got' \in Seq(Nat) /\ \A i \in 1..Len(got') : got'[i] = i
         /\ 2 * Len(got') + Begun' = 2 * n /\ 2 * Len(got') <= sent
    BY <1>1, <2>9, <2>10, HandedOver
  <2>12. Len(inq') = Len(inq) - m /\ \A k \in 1..Len(inq') : inq'[k] = inq[k + m]
    <3>1. Len(inq') = Len(Rest) - 1 /\ \A k \in 1..Len(inq') : inq'[k] = Rest[k + 1]
      BY <2>1, <2>2, HeadTailProperties
    <3>2. Len(inq') = Len(inq) - m
      BY <1>1, <2>4, <3>1
    <3>3. ASSUME NEW k \in 1..Len(inq') PROVE inq'[k] = inq[k + m]
      <4>1. k + 1 \in 1..Len(Rest) /\ inq'[k] = Rest[k + 1] /\ k \in Nat
        BY <2>4, <3>1
      <4>2. CASE rpdu = "none"
        BY <2>2, <2>3, <4>1, <4>2
      <4>3. CASE rpdu # "none"
        BY <2>2, <2>3, <4>1, <4>3
      <4> QED  BY <4>2, <4>3
    <3> QED  BY <3>2, <3>3
  <2>13. TakenInv'
    BY <1>2, <2>10, <2>11, <2>12 DEF TakenInv
  <2>14. QueueInv'
    <3>1. m \in 0..Len(inq)
      BY <1>1, <2>4
    <3> QED  BY <1>1, <1>2, <2>2, <2>12, <3>1, QueueShrinks
  <2> QED  BY <2>13, <2>14
<1>6. CASE ReadNoBody
  <2>1. /\ rpdu # "full" /\ (rpdu = "none" => inq # << >>) /\ Rest = << >>
        /\ inq' = << >> /\ rpdu' = "header" /\ got' = got
    BY <1>6 DEF ReadNoBody
  <2>2. Len(inq) + Begun = 1
    BY <1>1, <2>1, RestOfQueue DEF Begun
  <2>3. Begun' = 1 /\ Len(inq') = 0
    BY <2>1 DEF Begun
  <2>4. TakenInv'
    BY <1>1, <1>2, <1>3, <2>1, <2>2, <2>3 DEF TakenInv
  <2> QED  BY <1>2, <2>1, <2>4, QueueEmpty
<1> QED  BY <1>4, <1>5, <1>6

\* What is read when it fails.
LEMMA ReadDrops ==
  ASSUME BaseTypes, ReadInv, ReadFails
  PROVE  QueueInv' /\ TakenInv'
<1>1. dead' = TRUE /\ UNCHANGED <<sent, got>>
  BY DEF ReadFails, Dies, sockVars
<1>2. TakenInv'
  BY <1>1 DEF ReadInv, TakenInv
<1>3. inq' = inq \/ inq' = << >>
  BY DEF ReadFails, HeaderMissing, HeaderShort, BodyMissing
<1>4. QueueInv'
  <2>1. CASE inq' = inq
    BY <1>1, <2>1 DEF ReadInv, QueueInv, PieceIn
  <2>2. CASE inq' = << >>
    BY <1>1, <2>2, QueueEmpty
  <2> QED  BY <1>3, <2>1, <2>2
<1> QED  BY <1>2, <1>4

\* The peer appends the next piece.
LEMMA PeerAppends ==
  ASSUME BaseTypes, ReadInv, PeerSends
  PROVE  QueueInv' /\ TakenInv'
<1>1. /\ inq \in Seq(InPiece) /\ Len(inq) \in Nat /\ sent \in Nat
      /\ got \in Seq(Nat) /\ Len(got) \in Nat /\ QueueInv /\ TakenInv
  BY DEF BaseTypes, ReadTypes, SockTypes, ReadInv, TakenInv
<1>2. /\ sent' = sent + 1 /\ UNCHANGED <<dead, rpdu, got>>
      /\ inq' = Append(inq, <<IF sent % 2 = 0 THEN "header" ELSE "body",
                              sent \div 2 + 1>>)
  BY DEF PeerSends, sendVars
<1>3. inq' = Append(inq, PieceIn(sent + 1))
  BY <1>1, <1>2, Pieces
<1>4. PICK e : e = PieceIn(sent + 1)
  OBVIOUS
<1>5. /\ Len(inq') = Len(inq) + 1 /\ inq'[Len(inq) + 1] = e
      /\ \A k \in 1..Len(inq) : inq'[k] = inq[k]
  BY <1>1, <1>3, <1>4
<1>6. ASSUME NEW k \in 1..Len(inq')
      PROVE  inq'[k] = PieceIn(sent' - Len(inq') + k)
  <2>1. sent' - Len(inq') + k = sent - Len(inq) + k
    BY <1>1, <1>2, <1>5
  <2>2. CASE k \in 1..Len(inq)
    BY <1>1, <1>5, <2>1, <2>2 DEF QueueInv
  <2>3. CASE k = Len(inq) + 1
    <3>1. sent - Len(inq) + k = sent + 1
      BY <1>1, <2>3
    <3> QED  BY <1>4, <1>5, <2>1, <2>3, <3>1
  <2> QED  BY <1>1, <1>5, <2>2, <2>3
<1>7. QueueInv'
  <2>1. Len(inq') <= sent'
    BY <1>1, <1>2, <1>5 DEF QueueInv
  <2> QED  BY <1>6, <2>1 DEF QueueInv, PieceIn
<1>8. TakenInv'
  <2>1. 2 * Len(got) <= sent'
    BY <1>1, <1>2 DEF TakenInv
  <2>2. ~dead => sent' - Len(inq') = 2 * Len(got) + Begun
    <3>1. sent' - Len(inq') = sent - Len(inq)
      BY <1>1, <1>2, <1>5
    <3> QED  BY <1>1, <3>1 DEF TakenInv
  <2>3. Begun' = Begun
    BY <1>2 DEF Begun
  <2> QED  BY <1>1, <1>2, <2>1, <2>2, <2>3 DEF TakenInv
<1> QED  BY <1>7, <1>8

\* The queue and what is taken, in each step.
LEMMA NextTaken ==
  ASSUME BaseTypes, ReadInv, [Next]_vars
  PROVE  QueueInv' /\ TakenInv'
<1>1. UNCHANGED dead \/ dead' = TRUE
  BY NextFlagSteps DEF FlagSteps
<1>2. CASE UNCHANGED <<inq, sent, rpdu, got>>
  BY <1>1, <1>2, ReadFrame
<1>3. CASE \E s \in Sends : SendNext(s)
  <2>1. UNCHANGED <<inq, sent, rpdu, got>>
    BY <1>3 DEF SendNext, SendDead, SendWaits, SendAll, SendPart, SendFails,
      SendFailed, SendWaitsOn, SendReturns, readVars, sockVars
  <2> QED  BY <1>2, <2>1
<1>4. CASE \/ \E t \in Closers : CloseConn(t)
           \/ \E t \in Threads : RemoveNext(t) \/ SpuriousWakeup(t)
  <2>1. UNCHANGED <<inq, sent, rpdu, got>>
    BY <1>4 DEF CloseConn, RemoveNext, BlockRemove, Removed, SpuriousWakeup,
      readVars, sockVars
  <2> QED  BY <1>2, <2>1
<1>5. CASE \/ PollTop \/ PollWatch \/ PollSelect \/ PollChecksRead
           \/ PollChecksWrite \/ ReadDead
           \/ WriteIdle \/ WriteMore \/ WriteFails \/ WriteAsserts
  <2>1. UNCHANGED <<inq, sent, rpdu, got>>
    BY <1>5 DEF PollTop, PollWatch, PollSelect, PollChecksRead,
      PollChecksWrite, ReadDead, WriteIdle, WriteMore, WriteFails,
      WriteAsserts, readVars, sockVars
  <2> QED  BY <1>2, <2>1
<1>6. CASE PollNext
  BY <1>5, <1>6, ReadTakes, ReadDrops DEF PollNext
<1>7. CASE PeerDrains \/ PeerCloses \/ PeerResets
  <2>1. UNCHANGED <<inq, sent, rpdu, got>>
    BY <1>7 DEF PeerDrains, PeerCloses, PeerResets, readVars
  <2> QED  BY <1>2, <2>1
<1>8. CASE PeerNext
  BY <1>7, <1>8, PeerAppends DEF PeerNext
<1>9. CASE UNCHANGED vars
  BY <1>2, <1>9 DEF vars, readVars, sockVars
<1> QED  BY <1>3, <1>4, <1>6, <1>8, <1>9 DEF Next

\* Nobody but the poll thread takes from the queue, and it looks first.
LEMMA NextReadable ==
  ASSUME BaseTypes, ReadableKept, [Next]_vars
  PROVE  ReadableKept'
<1>1. poll \in [pc : PcOfPoll, r : BOOLEAN, w : BOOLEAN]
  BY DEF BaseTypes, PollTypes
<1>2. (eof => eof') /\ (reset => reset') /\ (shut => shut')
  <2>1. FlagSteps
    BY NextFlagSteps
  <2>2. eof => eof'
    BY <2>1, Zenon DEF FlagSteps
  <2>3. reset => reset'
    BY <2>1, Zenon DEF FlagSteps
  <2>4. shut => shut'
    BY <2>1, Zenon DEF FlagSteps
  <2> QED  BY <2>2, <2>3, <2>4
<1>3. CASE UNCHANGED <<poll, inq, rpdu>>
  BY <1>2, <1>3 DEF ReadableKept, Readable, Broken
<1>4. CASE \E s \in Sends : SendNext(s)
  <2>1. UNCHANGED <<poll, inq, rpdu>>
    BY <1>4 DEF SendNext, SendDead, SendWaits, SendAll, SendPart, SendFails,
      SendFailed, SendWaitsOn, SendReturns, readVars, pollVars
  <2> QED  BY <1>3, <2>1
<1>5. CASE \/ \E t \in Closers : CloseConn(t)
           \/ \E t \in Threads : RemoveNext(t) \/ SpuriousWakeup(t)
  <2>1. UNCHANGED <<poll, inq, rpdu>>
    BY <1>5 DEF CloseConn, RemoveNext, BlockRemove, Removed, SpuriousWakeup,
      readVars, pollVars
  <2> QED  BY <1>3, <2>1
<1>6. CASE PollSelect \/ PollChecksRead
  <2>1. UNCHANGED <<inq, rpdu, eof, reset, shut>>
    BY <1>6 DEF PollSelect, PollChecksRead, readVars, sockVars
  <2>2. poll'.pc \in {"read", "read_cb"} => Readable \/ rpdu # "none"
    <3>1. CASE PollSelect
      <4>1. PICK part \in {FALSE, poll.r /\ PartOfBody} :
              poll' = [pc |-> IF ReadReady \/ part THEN "read"
                              ELSE IF poll.w /\ Writable THEN "write" ELSE "top",
                       r |-> ReadReady \/ part, w |-> poll.w /\ Writable]
        BY <3>1 DEF PollSelect
      <4>2. poll'.pc \in {"read", "read_cb"} => ReadReady \/ part
        BY <4>1
      <4>3. part => rpdu # "none"
        BY DEF PartOfBody
      <4> QED  BY <4>2, <4>3 DEF ReadReady
    <3>2. CASE PollChecksRead
      BY <1>1, <3>2 DEF PollChecksRead, AfterRead, ReadableKept
    <3> QED  BY <1>6, <3>1, <3>2
  <2> QED  BY <2>1, <2>2 DEF ReadableKept, Readable, Broken
<1>7. CASE \/ PollTop \/ PollWatch \/ PollChecksWrite
           \/ ReadDead \/ ReadKept \/ ReadBody \/ ReadNoBody \/ ReadFails
           \/ WriteIdle \/ WriteMore \/ WriteFails \/ WriteAsserts
  <2>1. \E p \in {"watch", "write", "write_cb", "top", "gone", "select"} :
          poll'.pc = p
    <3>1. CASE PollWatch
      BY <3>1 DEF PollWatch
    <3>2. CASE PollTop \/ PollChecksWrite \/ WriteIdle \/ WriteMore
               \/ WriteFails \/ WriteAsserts
      BY <1>1, <3>2 DEF PollTop, PollChecksWrite, WriteIdle, WriteMore,
        WriteFails, WriteAsserts
    <3>3. CASE ReadDead \/ ReadKept \/ ReadBody \/ ReadNoBody \/ ReadFails
      BY <1>1, <3>3 DEF ReadDead, ReadKept, ReadBody, ReadNoBody, ReadFails,
        AfterRead
    <3> QED  BY <1>7, <3>1, <3>2, <3>3
  <2> QED  BY <2>1 DEF ReadableKept
<1>8. CASE PollNext
  BY <1>6, <1>7, <1>8 DEF PollNext
<1>9. CASE PeerNext
  <2>1. UNCHANGED <<poll, rpdu>> /\ (inq # << >> => inq' # << >>)
    <3>1. CASE PeerSends
      <4>1. inq \in Seq(InPiece)
        BY DEF BaseTypes, ReadTypes
      <4>2. PICK e : inq' = Append(inq, e) /\ UNCHANGED <<poll, rpdu>>
        BY <3>1 DEF PeerSends, pollVars
      <4> QED  BY <4>1, <4>2
    <3>2. CASE PeerDrains \/ PeerCloses \/ PeerResets
      BY <3>2 DEF PeerDrains, PeerCloses, PeerResets, readVars, pollVars
    <3> QED  BY <1>9, <3>1, <3>2 DEF PeerNext
  <2> QED  BY <1>2, <2>1 DEF ReadableKept, Readable, Broken
<1>10. CASE UNCHANGED vars
  BY <1>3, <1>10 DEF vars, readVars, pollVars
<1> QED  BY <1>4, <1>5, <1>8, <1>9, <1>10 DEF Next

-----------------------------------------------------------------------------
(* The theorems.                                                           *)

ConnInv == BaseTypes /\ Flags /\ WriteInv /\ ReadInv

\* The invariant is one.
LEMMA ConnInvHolds == Spec => []ConnInv
<1>1. ASSUME Init PROVE ConnInv
  <2>1. Flags
    BY <1>1, Zenon DEF Init, Flags
  <2> QED  BY <1>1, <2>1, InitBase, InitWrite, InitRead DEF ConnInv
<1>2. ASSUME ConnInv, [Next]_vars PROVE ConnInv'
  <2>1. BaseTypes' /\ Flags' /\ WriteInv'
    BY <1>2, NextBase, NextFlags, NextWrite DEF ConnInv
  <2>2. ReadInv'
    BY <1>2, NextTaken, NextReadable DEF ConnInv, ReadInv
  <2> QED  BY <2>1, <2>2 DEF ConnInv
<1> QED  BY <1>1, <1>2, PTL DEF Spec

\* The flags, counters and positions of a connection have their types, and so
\* has what goes over its socket.
THEOREM ConnTypeCorrect == Spec => []TypeOK
<1>1. ASSUME ConnInv PROVE TypeOK
  <2>1. BaseTypes /\ Flags /\ wire \in Seq(Piece) /\ got \in Seq(1..MaxIn)
    BY <1>1, ReadInvMeans DEF ConnInv, WriteInv, WireIsPieces
  <2> QED
    BY <2>1, Zenon
    DEF TypeOK, BaseTypes, SendTypes, ReadTypes, PollTypes, SockTypes, Flags,
      PcAll, InPiece
<1> QED  BY <1>1, ConnInvHolds, PTL

\* PDUs do not get mixed on the socket (connection::send and write_cb).
THEOREM WholePdusHolds == Spec => []WholePdus
<1>1. ASSUME ConnInv PROVE WholePdus
  BY <1>1, WriteInvMeans DEF ConnInv
<1> QED  BY <1>1, ConnInvHolds, PTL

\* send tells the truth, and wpdu_ does not outlive it.
THEOREM SendTruthHolds == Spec => []SendTruth
<1>1. ASSUME ConnInv PROVE SendTruth
  BY <1>1, WriteInvMeans DEF ConnInv
<1> QED  BY <1>1, ConnInvHolds, PTL

\* PDUs are taken in order, once, and none is lost (read_cb and readpdu).
THEOREM TakenInOrderHolds == Spec => []TakenInOrder
<1>1. ASSUME ConnInv PROVE TakenInOrder
  BY <1>1, ReadInvMeans DEF ConnInv
<1> QED  BY <1>1, ConnInvHolds, PTL

\* The assertion of readpdu that there is a header to read.
THEOREM HeaderIsThereHolds == Spec => []HeaderIsThere
<1>1. ASSUME ConnInv PROVE HeaderIsThere
  BY <1>1, ReadInvMeans DEF ConnInv
<1> QED  BY <1>1, ConnInvHolds, PTL

\* No callback is made after block_remove_fd has returned, provided that its
\* wait on changedone_c_ does not return without a signal.
THEOREM NoLateCallbackHolds ==
  ASSUME "changing" \notin SpuriousAt PROVE Spec => []NoLateCallback
<1>1. ASSUME Init PROVE CloseInv
  BY <1>1, InitClose
<1>2. ASSUME ConnInv, CloseInv, [Next]_vars PROVE CloseInv'
  BY <1>2, NextClose DEF ConnInv
<1>3. ASSUME CloseInv PROVE NoLateCallback
  BY <1>3 DEF CloseInv, Outside, NoLateCallback
<1> QED  BY <1>1, <1>2, <1>3, ConnInvHolds, PTL DEF Spec

=============================================================================

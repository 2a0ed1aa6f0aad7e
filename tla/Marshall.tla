------------------------------- MODULE Marshall -------------------------------
(***************************************************************************)
(* marshall and unmarshall: how typed values become the bytes of a PDU and *)
(* what is read back from them, also when the two sides disagree on the    *)
(* types.  Nothing in a PDU says which types it was written from.          *)
(*                                                                         *)
(* A value is a record of its type and its contents.  "vector", that is    *)
(* vector<int>, stands for the containers.  Strings are sequences of       *)
(* characters, that is bytes.                                              *)
(* The bytes of the header are reserved in front of the contents and kept  *)
(* out of buf.  A word of four bytes is an int: an unsigned one of 2^31 or *)
(* more stands here for the negative int of the same bits.                 *)
(***************************************************************************)
EXTENDS Integers, Sequences, SequencesExt

CONSTANT InitialSize     \* DEFAULT_RPC_SZ, the first allocation

HeaderSize == 24         \* RPC_HEADER_SZ: a req_header and the size of the PDU
MaxPdu     == 10485760   \* MAX_PDU: a connection that is sent a longer one closes

ASSUME MarshallAssumption ==
  InitialSize \in Nat /\ HeaderSize <= InitialSize /\ InitialSize <= MaxPdu

Scalars == {"bool", "char", "short", "int", "ull", "string"}
Types   == Scalars \cup {"vector"}

\* The contents each type has.  A size is an int that is not negative.
MaxShort  == 65535
MaxNumber == 2147483647
Bytes     == 0..255
Shorts    == 0..MaxShort
Numbers   == 0..MaxNumber
Ints      == -MaxNumber - 1..MaxNumber

Values ==
       [type : {"bool"},   val : 0..1]
  \cup [type : {"char"},   val : Bytes]
  \cup [type : {"short"},  val : Shorts]
  \cup [type : {"int"},    val : Ints]
  \cup [type : {"ull"},    val : [hi : Ints, lo : Ints]]
  \cup [type : {"string"}, val : {s \in Seq(Bytes) : Len(s) <= MaxNumber}]
  \cup [type : {"vector"}, val : {s \in Seq(Ints) : Len(s) <= MaxNumber}]

-----------------------------------------------------------------------------
(* marshall: the buffer and its two primitive operations.                  *)

NewMarshall == [buf |-> <<>>, ind |-> HeaderSize, capa |-> InitialSize]

\* _ind and _capa are ints: a sum beyond their range wraps around.
Int32(n) == IF n \in Ints THEN n ELSE ((n + 2^31) % 2^32) - 2^31

GrowsTooLate(m) == IF m.ind > m.capa THEN Int32(2 * m.capa) ELSE m.capa  \* mutant
GrownForByte(m) == IF m.ind >= m.capa THEN Int32(2 * m.capa) ELSE m.capa

RawByte(m, b) ==
  [buf |-> Append(m.buf, b), ind |-> Int32(m.ind + 1), capa |-> GrownForByte(m)]

\* The string may be longer than the whole buffer so far.
GrownForBytes(m, n) ==
  IF Int32(m.ind + n) <= m.capa THEN m.capa
  ELSE Int32(IF m.capa > n THEN 2 * m.capa ELSE m.capa + n)

RawBytes(m, p) ==
  [buf  |-> m.buf \o p, ind |-> Int32(m.ind + Len(p)),
   capa |-> GrownForBytes(m, Len(p))]

\* One call of rawbyte or rawbytes; a value is a sequence of them.
Byte(b)     == [op |-> "rawbyte", bytes |-> <<b>>]
Chunk(p)    == [op |-> "rawbytes", bytes |-> p]
Write(m, w) == IF w.op = "rawbyte" THEN RawByte(m, w.bytes[1])
                                   ELSE RawBytes(m, w.bytes)

\* The w low bytes of x in network order.
NetworkOrder(x, w) == [i \in 1..w |-> Byte((x \div 256^(w - i)) % 256)]

ScalarWrites(v) ==
  CASE v.type \in {"bool", "char"} -> NetworkOrder(v.val, 1)
    [] v.type = "short"            -> NetworkOrder(v.val, 2)
    [] v.type = "int"              -> NetworkOrder(v.val, 4)
    [] v.type = "ull"              -> NetworkOrder(v.val.hi, 4)
                                        \o NetworkOrder(v.val.lo, 4)
    [] v.type = "string"           -> Append(NetworkOrder(Len(v.val), 4), Chunk(v.val))

\* A vector is its size and then its elements.
Writes(v) ==
  CASE v.type \in Scalars -> ScalarWrites(v)
    [] v.type = "vector"  ->
         NetworkOrder(Len(v.val), 4)
           \o FlattenSeq([i \in DOMAIN v.val |-> NetworkOrder(v.val[i], 4)])

\* m << v1 << v2 ...: everything a sequence of values writes.
AllWrites(vs) == FlattenSeq([i \in DOMAIN vs |-> Writes(vs[i])])

\* How many bytes a value takes, by its type.
EncodedSize(v) ==
  CASE v.type \in {"bool", "char"} -> 1
    [] v.type = "short"  -> 2
    [] v.type = "int"    -> 4
    [] v.type = "ull"    -> 8
    [] v.type = "string" -> 4 + Len(v.val)
    [] v.type = "vector" -> 4 + 4 * Len(v.val)

\* The bytes of a sequence of values, one after the other.
TotalSize(vs) ==
  LET size[i \in 0..Len(vs)] ==
        IF i = 0 THEN 0 ELSE size[i - 1] + EncodedSize(vs[i])
  IN  size[Len(vs)]

-----------------------------------------------------------------------------
(* unmarshall: a position in the bytes, and a flag that stays down.        *)

StartPastHeader(buf) == [buf |-> buf, ind |-> HeaderSize, ok |-> TRUE]
SizeOf(u)            == HeaderSize + Len(u.buf)

AllRead(u)  == u.ok                                                 \* mutant
OkDone(u)   == u.ok /\ u.ind = SizeOf(u)

\* Reading past the end yields zero bytes and clears ok.
ByteAt(u, i) == IF i < SizeOf(u) THEN u.buf[i - HeaderSize + 1] ELSE 0

Advanced(u, n) ==
  [u EXCEPT !.ind = IF @ + n <= SizeOf(u) THEN @ + n ELSE SizeOf(u),
            !.ok  = @ /\ u.ind + n <= SizeOf(u)]

\* operator>>: where reading a value leaves u, and the value.
Got(u, v) == [u |-> u, val |-> v]

NumberAt(u, i, w) ==
  LET number[k \in 0..w] ==
        IF k = 0 THEN 0 ELSE 256 * number[k - 1] + ByteAt(u, i + k - 1)
  IN  number[w]

\* The four bytes at i as an int: the first one carries the sign.
WordAt(u, i) ==
  LET top == ByteAt(u, i) IN
  256^3 * (IF top < 128 THEN top ELSE top - 256) + NumberAt(u, i + 1, 3)

Number(u, w) == Got(Advanced(u, w), NumberAt(u, u.ind, w))

GetInt(u) == Got(Advanced(u, 4), WordAt(u, u.ind))

GetBool(u) == Got(Advanced(u, 1), IF ByteAt(u, u.ind) = 0 THEN 0 ELSE 1)

GetLong(u) ==
  Got(Advanced(u, 8), [hi |-> WordAt(u, u.ind), lo |-> WordAt(u, u.ind + 4)])

\* A size n of 2^31 or more, here a negative int: _ind + n is a sum of unsigned
\* numbers of 32 bits, and may wrap around to one that is in the buffer.  Then
\* rawbytes copies n bytes, gigabytes past the end of the buffer, and the
\* process ends.
Overreads(u, t) ==
  LET n == WordAt(u, u.ind)
      i == u.ind + 4 IN
  t = "string" /\ u.ok /\ i <= SizeOf(u) /\ n < 0 /\ i + n >= 0

\* A string keeps its old value if its size or its bytes are missing.  Not to
\* be used where the process ends.
GetString(u, old) ==
  LET n == WordAt(u, u.ind)
      i == u.ind + 4 IN
  IF u.ok /\ n >= 0 /\ i + n <= SizeOf(u)
    THEN Got(Advanced(u, 4 + n), SubSeq(u.buf, i - HeaderSize + 1, i - HeaderSize + n))
    ELSE Got([Advanced(u, 4) EXCEPT !.ok = FALSE], old)

\* The size of a vector is unsigned, and never added to a position.
Unsigned(n) == IF n >= 0 THEN n ELSE n + 2^32

FreshVector(u, old) ==                                              \* mutant
  LET n == Unsigned(WordAt(u, u.ind)) IN
  Got(Advanced(u, 4 + 4 * n), [i \in 1..n |-> WordAt(u, u.ind + 4 * i)])

\* A vector is appended to what it held before.
GetVector(u, old) ==
  LET n == Unsigned(WordAt(u, u.ind)) IN
  Got(Advanced(u, 4 + 4 * n), old \o [i \in 1..n |-> WordAt(u, u.ind + 4 * i)])

Get(u, t, old) ==
  CASE t = "bool"   -> GetBool(u)
    [] t = "char"   -> Number(u, 1)
    [] t = "short"  -> Number(u, 2)
    [] t = "int"    -> GetInt(u)
    [] t = "ull"    -> GetLong(u)
    [] t = "string" -> GetString(u, old)
    [] t = "vector" -> GetVector(u, old)

=============================================================================

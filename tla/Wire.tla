-------------------------------- MODULE Wire --------------------------------
(***************************************************************************)
(* The variable-length integer and ACK frame codecs of internal/wire       *)
(* (varint.go, ack.go), over byte sequences read the way wire.Reader reads *)
(* them: PeekByte of an empty buffer is 0, and a Read that gets fewer      *)
(* bytes than asked is an error.                                          *)
(*                                                                         *)
(* TLC's integers have 32 bits, so varints are checked up to 2^31 - 1:     *)
(* every length class (1, 2, 4 and 8 bytes) and both sides of the 1/2 and  *)
(* 2/4 and 4/8 boundaries.  Bit operations on non-negative numbers are     *)
(* written as the arithmetic they perform.                                 *)
(***************************************************************************)
EXTENDS Integers, Sequences, SequencesExt, FiniteSets

CONSTANTS
  VarintValues,   \* the integers whose encoding is checked
  MaxPN,          \* ACKed packet numbers are 0..MaxPN
  Delays,         \* ACK delays in microseconds
  MaxRawAckDelay, \* maxRawAckDelay (MaxVarint / 1000 in the code)
  Limits,         \* limit arguments of DecodeAck
  InputBytes,     \* bytes that arbitrary ACK frame bodies are made of
  MaxInputLen,    \* the longest arbitrary ACK frame body
  Rooms,          \* w.Remaining() when a STREAM or MSG frame is written
  FrameXs,        \* stream offsets and message sequence numbers
  DataLens,       \* lengths of the fragment or message left to send
  MaxVarint       \* the largest varint (2^62 - 1 in the code)

---------------------------------------------------------------------------
(* Varints.                                                                *)

\* Mutant of VarintLog2Len: 2^6 itself still fits one byte.
VarintLog2LenInclusive(x) ==
  CASE x <= 2^6  -> 0
    [] x < 2^14  -> 1
    [] x < 2^30  -> 2
    [] OTHER     -> 3

\* varintLog2Len, for 0 <= x (the code panics on a negative x).
VarintLog2Len(x) ==
  CASE x < 2^6  -> 0
    [] x < 2^14 -> 1
    [] x < 2^30 -> 2
    [] OTHER    -> 3

VarintLen(x) == 2^VarintLog2Len(x)

\* y shifted right by 8k bits.
RECURSIVE ShiftBytes(_, _)
ShiftBytes(y, k) == IF k = 0 THEN y ELSE ShiftBytes(y \div 256, k - 1)

\* EncodeVarint: the l low bytes, little-endian, of x << 2 | log2(l).
EncodeVarint(x) ==
  LET t == VarintLog2Len(x)
  IN  [i \in 1 .. 2^t |->
         IF i = 1 THEN (x % 64) * 4 + t
         ELSE ShiftBytes(x \div 64, i - 2) % 256]

\* binary.LittleEndian of a byte sequence.
RECURSIVE LittleEndian(_)
LittleEndian(bs) == IF bs = <<>> THEN 0 ELSE bs[1] + 256 * LittleEndian(Tail(bs))

\* DecodeVarint: [err, val, rest]; the length comes from the low two bits
\* of the first byte, and non-canonical encodings are accepted.
DecodeVarint(bs) ==
  LET b0 == IF bs = <<>> THEN 0 ELSE bs[1]
      l  == 2^(b0 % 4)
  IN  IF Len(bs) < l THEN [err |-> TRUE, val |-> 0, rest |-> <<>>]
      ELSE [err |-> FALSE,
            val |-> b0 \div 4 + 64 * LittleEndian(SubSeq(bs, 2, l)),
            rest |-> SubSeq(bs, l + 1, Len(bs))]

---------------------------------------------------------------------------
(* ACK frames.  Ranges are sequences of [min, max], highest first.         *)

\* Received packet numbers as the receiver keeps them: the maximal runs
\* of the set, highest first.
RECURSIVE RangesOf(_)
RangesOf(S) ==
  IF S = {} THEN <<>>
  ELSE LET hi == Max(S)
           lo == CHOOSE m \in S : m .. hi \subseteq S /\ m - 1 \notin S
       IN  <<[min |-> lo, max |-> hi]>> \o RangesOf(S \ (lo .. hi))

\* Ack.Encode (with encodeDiff), after the type byte.
EncodeAck(delay, rs) ==
  EncodeVarint(rs[1].max) \o EncodeVarint(delay)
  \o EncodeVarint(rs[1].max - rs[1].min) \o EncodeVarint(Len(rs) - 1)
  \o FoldLeft(LAMBDA acc, i :
                acc \o EncodeVarint(rs[i - 1].min - (rs[i].max + 2))
                    \o EncodeVarint(rs[i].max - rs[i].min),
              <<>>, [j \in 1 .. (Len(rs) - 1) |-> j + 1])

\* Mutant of DecodeDiff: a gap equal to max is rejected.
DecodeDiffStrict(bs, max) ==
  LET d == DecodeVarint(bs)
  IN  IF d.err \/ max <= d.val THEN [err |-> TRUE, val |-> 0, rest |-> <<>>]
      ELSE [d EXCEPT !.val = max - d.val]

\* decodeDiff: max minus the next varint, which must not exceed max.
DecodeDiff(bs, max) ==
  LET d == DecodeVarint(bs)
  IN  IF d.err \/ max < d.val THEN [err |-> TRUE, val |-> 0, rest |-> <<>>]
      ELSE [d EXCEPT !.val = max - d.val]

AckError == [err |-> TRUE, ranges |-> <<>>]

\* Mutant of RangeLoop: the next range may end right below the last one.
RECURSIVE RangeLoopAdjacent(_, _, _, _, _, _, _)
RangeLoopAdjacent(bs, i, n, lo, hi, ranges, limit) ==
  LET kept == IF Len(ranges) < limit
              THEN Append(ranges, [min |-> lo, max |-> hi]) ELSE ranges
      mx   == DecodeDiff(bs, lo - 1)
      mn   == DecodeDiff(mx.rest, mx.val)
  IN  IF i >= n THEN [err |-> FALSE, ranges |-> kept]
      ELSE IF mx.err \/ mn.err THEN AckError
      ELSE RangeLoopAdjacent(mn.rest, i + 1, n, mn.val, mx.val, kept, limit)

\* Mutant of RangeLoop: every range is kept, whatever the limit.
RECURSIVE RangeLoopUnlimited(_, _, _, _, _, _, _)
RangeLoopUnlimited(bs, i, n, lo, hi, ranges, limit) ==
  LET kept == Append(ranges, [min |-> lo, max |-> hi])
      mx   == DecodeDiff(bs, lo - 2)
      mn   == DecodeDiff(mx.rest, mx.val)
  IN  IF i >= n THEN [err |-> FALSE, ranges |-> kept]
      ELSE IF mx.err \/ mn.err THEN AckError
      ELSE RangeLoopUnlimited(mn.rest, i + 1, n, mn.val, mx.val, kept, limit)

\* The range loop of DecodeAck: keeps the first limit ranges, and reads
\* and validates all n further ones.
RECURSIVE RangeLoop(_, _, _, _, _, _, _)
RangeLoop(bs, i, n, lo, hi, ranges, limit) ==
  LET kept == IF Len(ranges) < limit
              THEN Append(ranges, [min |-> lo, max |-> hi]) ELSE ranges
      mx   == DecodeDiff(bs, lo - 2)
      mn   == DecodeDiff(mx.rest, mx.val)
  IN  IF i >= n THEN [err |-> FALSE, ranges |-> kept]
      ELSE IF mx.err \/ mn.err THEN AckError
      ELSE RangeLoop(mn.rest, i + 1, n, mn.val, mx.val, kept, limit)

\* DecodeAck, after the type byte: [err, delay, ranges].
DecodeAck(bs, limit) ==
  LET mx  == DecodeVarint(bs)
      dl  == DecodeVarint(mx.rest)
      mn  == DecodeDiff(dl.rest, mx.val)
      n   == DecodeVarint(mn.rest)
      dec == RangeLoop(n.rest, 0, n.val, mn.val, mx.val, <<>>, limit)
  IN  IF mx.err \/ dl.err \/ mn.err \/ n.err \/ dec.err
      THEN [err |-> TRUE, delay |-> 0, ranges |-> <<>>]
      ELSE [err |-> FALSE, delay |-> Min({dl.val, MaxRawAckDelay}),
            ranges |-> dec.ranges]

---------------------------------------------------------------------------
(* STREAM and MSG frames (stream.go, msg.go).  Data is a run of the byte   *)
(* 42, so that a decoder that takes a byte of what follows is told apart.  *)

Bit(b) == IF b THEN 1 ELSE 0

Data(n) == [i \in 1 .. n |-> 42]

\* Stream.Encode: type 0b1000001x, Off, the length if explicitLen, data.
EncodeStream(off, data, explicitLen) ==
  <<130 + Bit(explicitLen)>> \o EncodeVarint(off)
  \o (IF explicitLen THEN EncodeVarint(Len(data)) ELSE <<>>) \o data

\* Msg.Encode: type 0b10001LFx, Seq, the length if explicitLen, data.
EncodeMsg(first, lst, seq, data, explicitLen) ==
  <<136 + Bit(explicitLen) + 2 * Bit(first) + 4 * Bit(lst)>>
  \o EncodeVarint(seq)
  \o (IF explicitLen THEN EncodeVarint(Len(data)) ELSE <<>>) \o data

FrameError == [err |-> TRUE, x |-> 0, data |-> <<>>, rest |-> <<>>, t |-> 0]

\* The body shared by DecodeStream and DecodeMsg after the type byte t:
\* the varint x, then the length, read or taken to be the rest of the
\* packet, and that many bytes.  An overflowing offset is checked by
\* DecodeStream only (checkOff).  int64(int(dataLen)) is dataLen on the
\* 64-bit builds.
DecodeBody(bs, checkOff) ==
  LET t  == bs[1]
      x  == DecodeVarint(Tail(bs))
      dl == IF t % 2 = 1 THEN DecodeVarint(x.rest)
            ELSE [err |-> FALSE, val |-> Len(x.rest), rest |-> x.rest]
  IN  IF \/ x.err \/ dl.err
         \/ dl.val = 0
         \/ checkOff /\ x.val + dl.val > MaxVarint
         \/ Len(dl.rest) < dl.val
      THEN FrameError
      ELSE [err |-> FALSE, x |-> x.val, t |-> t,
            data |-> SubSeq(dl.rest, 1, dl.val),
            rest |-> SubSeq(dl.rest, dl.val + 1, Len(dl.rest))]

DecodeStream(bs) == DecodeBody(bs, TRUE)

\* DecodeMsg: First and Last are bits 1 and 2 of the type byte.
DecodeMsg(bs) ==
  LET d == DecodeBody(bs, FALSE)
  IN  [d EXCEPT !.t = [first |-> (d.t \div 2) % 2 = 1, last |-> (d.t \div 4) % 2 = 1]]

\* Mutant of StreamMaxDataLen: the explicit length's own bytes are not
\* reserved.
StreamMaxDataLenNoLenBytes(n, off, dataLen) ==
  LET overhead == 1 + VarintLen(off)
  IN  CASE n < overhead + 1        -> [n |-> 0, explicit |-> FALSE]
        [] n <= overhead + dataLen -> [n |-> n - overhead, explicit |-> FALSE]
        [] OTHER -> [n |-> Min({n - overhead - 1, dataLen}), explicit |-> TRUE]

\* StreamMaxDataLen: how much of dataLen bytes at off fits in n bytes, and
\* whether the frame carries an explicit length; the implicit-length frame
\* fills the n bytes.
StreamMaxDataLen(n, off, dataLen) ==
  LET overhead == 1 + VarintLen(off)
  IN  CASE n < overhead + 1        -> [n |-> 0, explicit |-> FALSE]
        [] n <= overhead + dataLen -> [n |-> n - overhead, explicit |-> FALSE]
        [] OTHER ->
             [n |-> Min({n - overhead - VarintLen(Min({n - overhead - 1, dataLen})),
                         dataLen}),
              explicit |-> TRUE]

\* MsgMaxDataLen repeats StreamMaxDataLen's body with seq for off.
MsgMaxDataLen(n, seq, dataLen) == StreamMaxDataLen(n, seq, dataLen)

---------------------------------------------------------------------------
(* Each step runs one codec on one input: an ACK of received packet        *)
(* numbers round-tripped, an arbitrary frame body decoded (what a peer     *)
(* may send), or a varint round-tripped with trailing bytes.  The codecs   *)
(* are pure functions, so a behaviour is one call and then stops.          *)

VARIABLE last  \* [kind, c]: the codec run and its case

Received == (SUBSET (0 .. MaxPN)) \ {{}}

Inputs == UNION {[1 .. k -> InputBytes] : k \in 0 .. MaxInputLen}

\* An ACK of the received numbers S, encoded and decoded with limit l.
AckCase(S, d, l) ==
  [rs |-> RangesOf(S), delay |-> d, limit |-> l,
   dec |-> DecodeAck(EncodeAck(d, RangesOf(S)), l)]

RawCase(bs, l) == [bs |-> bs, limit |-> l, dec |-> DecodeAck(bs, l)]

VarintCase(x, r) ==
  [x |-> x, rest |-> r, enc |-> EncodeVarint(x),
   dec |-> DecodeVarint(EncodeVarint(x) \o r)]

\* One pass of maybeSendStream's loop for a fragment of d bytes at off,
\* with room bytes left in the packet: nothing is written if no byte fits,
\* else the frame of the first StreamMaxDataLen bytes, which Encode may
\* not fail to write (the caller panics).  r is what the packet carries
\* after the frame; the peer's handlePacketImpl decodes the frame from it.
StreamCase(room, off, d, r) ==
  LET m     == StreamMaxDataLen(room, off, d)
      frame == EncodeStream(off, Data(m.n), m.explicit)
  IN  [room |-> room, x |-> off, d |-> d, m |-> m, rest |-> r,
       frame |-> IF m.n = 0 THEN <<>> ELSE frame,
       dec |-> IF m.n = 0 THEN FrameError ELSE DecodeStream(frame \o r)]

\* maybeSendMsg with d bytes of the message left at seq: First unless
\* msgContinued, Last if the rest of the message fits.
MsgCase(room, seq, d, continued, r) ==
  LET m     == MsgMaxDataLen(room, seq, d)
      flags == [first |-> ~continued, last |-> m.n = d]
      frame == EncodeMsg(flags.first, flags.last, seq, Data(m.n), m.explicit)
  IN  [room |-> room, x |-> seq, d |-> d, m |-> m, rest |-> r, flags |-> flags,
       frame |-> IF m.n = 0 THEN <<>> ELSE frame,
       dec |-> IF m.n = 0 THEN FrameError ELSE DecodeMsg(frame \o r)]

\* The bytes after a frame: none, or a PING (type 0x01) if the room
\* leaves space for it.
Trails == {<<>>, <<1>>}

Fits(c) == Len(c.frame) + Len(c.rest) <= c.room \/ c.rest = <<>>

Init == last = [kind |-> "none", c |-> <<>>]

RoundTripAck ==
  /\ last.kind = "none"
  /\ \E S \in Received, d \in Delays, l \in Limits :
       last' = [kind |-> "ack", c |-> AckCase(S, d, l)]

DecodeRaw ==
  /\ last.kind = "none"
  /\ \E bs \in Inputs, l \in Limits :
       last' = [kind |-> "raw", c |-> RawCase(bs, l)]

RoundTripVarint ==
  /\ last.kind = "none"
  /\ \E x \in VarintValues, r \in {<<>>, <<255>>} :
       last' = [kind |-> "varint", c |-> VarintCase(x, r)]

SendStream ==
  /\ last.kind = "none"
  /\ \E room \in Rooms, off \in FrameXs, d \in DataLens \ {0}, r \in Trails :
       /\ Fits(StreamCase(room, off, d, r))
       /\ last' = [kind |-> "stream", c |-> StreamCase(room, off, d, r)]

SendMsg ==
  /\ last.kind = "none"
  /\ \E room \in Rooms, seq \in FrameXs, d \in DataLens, k \in BOOLEAN,
        r \in Trails :
       /\ seq < MaxVarint
       /\ Fits(MsgCase(room, seq, d, k, r))
       /\ last' = [kind |-> "msg", c |-> MsgCase(room, seq, d, k, r)]

Next == RoundTripAck \/ DecodeRaw \/ RoundTripVarint \/ SendStream \/ SendMsg

Spec == Init /\ [][Next]_last

---------------------------------------------------------------------------
\* Ranges as DecodeAck's callers rely on them: non-empty, each min <= max,
\* and each range ending at least two below the next higher one begins.
WellFormed(rs) ==
  /\ rs # <<>>
  /\ \A i \in DOMAIN rs : 0 <= rs[i].min /\ rs[i].min <= rs[i].max
  /\ \A i \in 2 .. Len(rs) : rs[i].max + 2 <= rs[i - 1].min

TypeOK ==
  /\ last.kind \in {"none", "ack", "raw", "varint", "stream", "msg"}
  /\ last.kind \in {"ack", "raw"} =>
       /\ last.c.dec.err \in BOOLEAN
       /\ Len(last.c.dec.ranges) <= last.c.limit

(* An ACK of any set of received packet numbers decodes to its highest     *)
(* limit ranges and its delay capped at maxRawAckDelay: what Ack.Encode    *)
(* writes in sendPacket, DecodeAck reads back in handlePacketImpl,         *)
(* including a lowest range starting at 0 and more ranges than limit.      *)
AckRoundTrip ==
  last.kind = "ack" =>
    last.c.dec = [err |-> FALSE,
                  delay |-> Min({last.c.delay, MaxRawAckDelay}),
                  ranges |-> SubSeq(last.c.rs, 1, Min({last.c.limit, Len(last.c.rs)}))]

(* Whatever bytes a peer sends, an ACK that DecodeAck accepts has          *)
(* well-formed ranges, its first varint as their maximum, and at most     *)
(* limit of them: handleAck's optimistic-ack check and its ack/nack loop   *)
(* see no overlapping, adjacent or negative ranges.                        *)
DecodedAckWellFormed ==
  (last.kind = "raw" /\ ~last.c.dec.err) =>
    /\ WellFormed(last.c.dec.ranges)
    /\ last.c.dec.ranges[1].max = DecodeVarint(last.c.bs).val

(* Every varint is written in VarintLen(x) bytes and read back whole,      *)
(* leaving the bytes after it: the lengths MsgMaxDataLen and              *)
(* StreamMaxDataLen reserve match what EncodeVarint writes.               *)
VarintRoundTrip ==
  last.kind = "varint" =>
    /\ Len(last.c.enc) = VarintLen(last.c.x)
    /\ last.c.dec = [err |-> FALSE, val |-> last.c.x, rest |-> last.c.rest]

(* A STREAM or MSG frame sized by StreamMaxDataLen or MsgMaxDataLen fits   *)
(* the room left in the packet, so Encode never fails and maybeSendStream *)
(* and maybeSendMsg never panic; it carries at least one byte whenever    *)
(* the header and a byte fit, all of the data whenever the data and its   *)
(* explicit length fit, and never more than the data; and the peer's      *)
(* DecodeStream or DecodeMsg reads back the offset or sequence number,    *)
(* the flags and exactly the bytes sent, leaving the frames after it.     *)
FrameRoundTrip ==
  last.kind \in {"stream", "msg"} =>
    LET c        == last.c
        overhead == 1 + VarintLen(c.x)
    IN  /\ c.m.n <= c.d
        /\ c.d > 0 /\ c.room > overhead => c.m.n > 0
        /\ c.room >= overhead + VarintLen(c.d) + c.d => c.m.n = c.d
        /\ c.m.n > 0 =>
             /\ Len(c.frame) <= c.room
             /\ c.dec.err = FALSE
             /\ c.dec.x = c.x
             /\ c.dec.data = Data(c.m.n)
             /\ c.dec.rest = c.rest
             /\ last.kind = "msg" => c.dec.t = c.flags
=============================================================================

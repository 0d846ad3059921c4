---------------------------- MODULE MCPrimitives ----------------------------
(***************************************************************************)
(* The building blocks under the connection engine, checked in one run:   *)
(* the bitset, the stream reassembler against the byte stream it          *)
(* implements, the packet number guess, the wire codecs, the RTT filter   *)
(* and the Noise handshake.  They share no state, so a behaviour exercises one of them *)
(* (part): the states checked are those of the separate models, side by   *)
(* side, and each property is the component's own.                        *)
(***************************************************************************)
EXTENDS Naturals

VARIABLES
  part,                   \* the component this behaviour exercises
  bits, lastRun,          \* Bitset
  ra, out, overflowed,    \* StreamReassembler
  maxRcvdPN, pnLast,      \* PacketNumber
  wireLast,               \* Wire
  rf, now, measured,       \* RTTFilter
  ihs, iphase, iinitial, ireply, iconn, sessions, initials, replies  \* Noise

\* Six bits in words of two: runs with a head, whole words and a tail in
\* every alignment.
B == INSTANCE Bitset WITH Size <- 6, WordBits <- 2

\* A window of 4 in words of 2, segments up to 3 bytes over 9 stream bytes:
\* segments that wrap the ring, overlap, duplicate or overflow.
S == INSTANCE StreamReassembler WITH Window <- 4, WordBits <- 2, StreamLen <- 9,
                                     MaxSegment <- 3, MaxRead <- 3

\* Three bits stand for 32 and 31 for 2^62 - 1: four epochs of eight.
P == INSTANCE PacketNumber WITH Width <- 3, MaxPacketNumber <- 31, last <- pnLast

\* Both sides of every varint length boundary TLC's integers reach; frame
\* bodies from varints 0..3 in one byte and 1 opening a two-byte varint.
\* STREAM and MSG frames: headers of 2, 3 and 5 bytes, data lengths on
\* both sides of the one/two-byte length boundary, and every room from
\* empty to the whole of the largest frame, so that each branch of
\* StreamMaxDataLen is taken at and next to its boundaries.  2^31 - 1
\* stands for MaxVarint.
W == INSTANCE Wire WITH
       VarintValues <- {0, 1, 63, 64, 16383, 16384, 2^30 - 1, 2^30, 2147483647},
       MaxPN <- 6, Delays <- {0, 2, 3}, MaxRawAckDelay <- 2, Limits <- {1, 2, 8},
       InputBytes <- {0, 4, 8, 12, 1}, MaxInputLen <- 6,
       Rooms <- 0 .. 70, FrameXs <- {0, 63, 64, 16384}, DataLens <- {0, 1, 2, 62, 63, 64, 65},
       MaxVarint <- 2147483647, last <- wireLast

\* Samples 0, 1, 2 and 9: lerps toward 9 from 1 or 2 round both ways.
R == INSTANCE RTTFilter WITH Samples <- {0, 1, 2, 9}, Delays <- {0, 1, 4},
       MinRTTWnd <- 2, MaxNow <- 3, InitialRTT <- 30, TimerGranularity <- 1,
       MaxAckDelay <- 4

\* The dialler, the listener with three ephemeral keys (enough for the
\* dialler's initial, a replay of it and the attacker's own initial), and
\* an attacker with one key pair.
N == INSTANCE Noise WITH IStatic <- "i", IEphemeral <- "ie", RStatic <- "r",
       REphemerals <- {"re1", "re2", "re3"}, AttackerKeys <- {"m"}

bVars == <<bits, lastRun>>
sVars == <<ra, out, overflowed>>
pVars == <<maxRcvdPN, pnLast>>
rVars == <<rf, now, measured>>
nVars == <<ihs, iphase, iinitial, ireply, iconn, sessions, initials, replies>>

Init == part = "none" /\ B!Init /\ S!Init /\ P!Init /\ W!Init /\ R!Init /\ N!Init

\* A step of component p, which the behaviour then sticks to.
Step(p, A, others) == part \in {"none", p} /\ part' = p /\ A /\ UNCHANGED others

Next ==
  \/ Step("bitset", B!Next, <<sVars, pVars, wireLast, rVars, nVars>>)
  \/ Step("reassembler", S!Next, <<bVars, pVars, wireLast, rVars, nVars>>)
  \/ Step("pn", P!Next, <<bVars, sVars, wireLast, rVars, nVars>>)
  \/ Step("wire", W!Next, <<bVars, sVars, pVars, rVars, nVars>>)
  \/ Step("rtt", R!Next, <<bVars, sVars, pVars, wireLast, nVars>>)
  \/ Step("noise", N!Next, <<bVars, sVars, pVars, wireLast, rVars>>)

vars == <<part, bVars, sVars, pVars, wireLast, rVars, nVars>>

Spec == Init /\ [][Next]_vars

---------------------------------------------------------------------------
\* Each component's type invariant.
TypeOK == B!TypeOK /\ S!TypeOK /\ P!TypeOK /\ W!TypeOK /\ R!TypeOK /\ N!TypeOK

(* ClearRun, whatever the word alignment, clears exactly the run of set   *)
(* bits from i up to the first clear bit or k and returns its length       *)
(* (bitset.go ClearRun).                                                   *)
ClearRunCorrect == B!ClearRunCorrect

(* The reassembler implements the in-order byte stream across ring        *)
(* wrap-around and partial, duplicate and overlapping STREAM frames        *)
(* (stream_reassembler.go WriteAt, Read, with ClearRun).                   *)
ByteStreamRefined == S!ByteStreamRefined

(* A number within half a window of the next expected one is recovered    *)
(* exactly, at 0, at every epoch boundary and next to the maximum          *)
(* (guessPacketNumber).                                                    *)
GuessRecoversWindow == P!GuessRecoversWindow

(* The guess has the received low bits and is never negative nor above    *)
(* the maximum packet number (guessPacketNumber's range guards).           *)
GuessInRange == P!GuessInRange

(* An ACK that Ack.Encode writes decodes to its highest limit ranges and  *)
(* its capped delay (DecodeAck).                                           *)
AckRoundTrip == W!AckRoundTrip

(* Whatever bytes a peer sends, an ACK that DecodeAck accepts has          *)
(* well-formed ranges.                                                     *)
DecodedAckWellFormed == W!DecodedAckWellFormed

(* A varint reads back as written, in the length EncodeVarint chose.      *)
VarintRoundTrip == W!VarintRoundTrip

(* The frame sized by StreamMaxDataLen or MsgMaxDataLen fits the room,    *)
(* carries what fits and is read back by DecodeStream or DecodeMsg        *)
(* (output.go maybeSendStream, maybeSendMsg; input.go handlePacketImpl).  *)
FrameRoundTrip == W!FrameRoundTrip

(* Once sampled, smoothedRTT stays positive (rttFilter.Update's lerp      *)
(* rounding).                                                              *)
SmoothedKeepsSample == R!SmoothedKeepsSample

(* The peer's ACK delay never takes a sample below the window's minimum   *)
(* RTT (rttFilter.Update).                                                 *)
LatestNotBelowMin == R!LatestNotBelowMin

(* The smoothed RTT stays within the RTTs measured since the filter was   *)
(* made, whatever ACK delays the peer reports (rttFilter.Update).          *)
SmoothedWithinMeasured == R!SmoothedWithinMeasured

(* The dialler and the listener agree on the keys and the handshake hash  *)
(* of the handshake the listener answered (DialContextAddrPort,            *)
(* receiveHandshake, with Split and newConn).                              *)
HandshakeAgrees == N!HandshakeAgrees

(* The dialler gets a Conn only from the listener it dialled, answering   *)
(* its own initial (initiatorHandshake.ReadMessage).                       *)
ResponderAuthenticated == N!ResponderAuthenticated

(* The listener takes the dialler as its peer only on the dialler's own   *)
(* initial (responderHandshake.ReadMessage).                               *)
InitiatorAuthenticated == N!InitiatorAuthenticated
=============================================================================

-------------------------------- MODULE Conn --------------------------------
(***************************************************************************)
(* The per-connection send/receive engine (conn.go, input.go, output.go,   *)
(* congestion_controller.go) of two peers joined by a network that loses,  *)
(* duplicates and reorders datagrams.  The user of endpoint Writer writes  *)
(* the reliable stream; the user of the other endpoint reads it.  Both     *)
(* endpoints run the same code: every packet they exchange may carry an    *)
(* ACK, a MAX_STREAM_DATA and STREAM frames.                               *)
(*                                                                         *)
(* Abstractions (README, "Conn"):                                          *)
(*  - a stream byte is named by its absolute offset;                       *)
(*  - time is not modelled: the driver may wake at any moment (its timer   *)
(*    is re-armed at a negative duration whenever a deadline is zero),     *)
(*    a delayed ACK may or may not be due at a wake, the loss timeout may  *)
(*    or may not have expired, and the packets old enough to be declared   *)
(*    lost by it are those below some packet number (sent times increase   *)
(*    with packet numbers);                                                *)
(*  - every ack-eliciting packet counts as MaxPacketSize bytes in the     *)
(*    congestion window; a packet carries at most Room bytes of stream     *)
(*    data;                                                                *)
(*  - the number of PTO periods since the last cwnd validation is chosen   *)
(*    at each wake from 0 .. MaxIdlePTOs;                                  *)
(*  - packet numbers stay far below 2^31, so guessPacketNumber returns the *)
(*    sent number (module PacketNumber checks the guesser on its own);     *)
(*  - maxPNAcked (only read to encode packet numbers) and timeoutBackoff *)
(*    (only read to compute timer durations) are left out;                 *)
(*  - there is one path (no migration), no MSG stream, no CLOSE, and no    *)
(*    forged packets (AEAD failures are dropped by the code).              *)
(***************************************************************************)
EXTENDS Integers, Sequences, FiniteSets, SequencesExt

CONSTANTS
  Endpoints,      \* the two peers
  Writer,         \* the endpoint whose user writes the stream
  Window,         \* Config.StreamReceiveWindow
  WordBits,       \* bitset word width (32 in the code)
  MaxBytesInFlight, \* Config.MaxStreamBytesInFlight
  StreamLen,      \* bytes the writer's user writes in all (bound)
  Room,           \* stream bytes that fit in one packet
  MaxRead,        \* longest user read buffer (bound)
  MaxRanges,      \* maxRcvdPacketNumberRangeCount (8 in the code)
  MaxPN,          \* MaxPN[e]: packets endpoint e may send (bound on seq)
  MaxIdlePTOs,    \* bound on PTO periods elapsed between two wakes
  MaxPacketSize,  \* maxPacketSize: the size every ack-eliciting packet counts as
  InitialSeqs,    \* first packet numbers, rand.Int63n(3) in the code
  Duplicating     \* whether the network duplicates datagrams

ASSUME /\ Cardinality(Endpoints) = 2 /\ Writer \in Endpoints
       /\ InitialSeqs \subseteq 0 .. 2 /\ Duplicating \in BOOLEAN
       /\ \A n \in {Window, Room, MaxRead, MaxRanges, MaxBytesInFlight, MaxPacketSize} : n \in Nat \ {0}

Reader == CHOOSE e \in Endpoints : e # Writer
Peer(e) == CHOOSE f \in Endpoints : f # e

\* Only the operators on reassembler values of this module are used.
RS_Unused == [readable |-> {}, buf |-> <<>>, off |-> 0]
RS == INSTANCE StreamReassembler WITH MaxSegment <- Room,
        ra <- RS_Unused, out <- <<>>, overflowed <- FALSE

\* math.MinInt64, the maximum of no ranges.
NoPN == -2

InitialCwnd == 2 * MaxPacketSize

Max2(a, b) == IF a > b THEN a ELSE b

---------------------------------------------------------------------------
(* Packet number ranges (internal/wire/packet_number.go): a sequence of    *)
(* [min, max] records, highest first.                                      *)

RangesMax(rs) == IF rs = <<>> THEN NoPN ELSE rs[1].max

RangesContain(rs, pn) == \E i \in DOMAIN rs : rs[i].min <= pn /\ pn <= rs[i].max

\* TrimLesser: drop the ranges (a suffix, as they are sorted) below pn.
TrimLesser(rs, pn) == SelectSeq(rs, LAMBDA r : r.max >= pn)

\* handlePacketImpl: record a packet number above every one received.
AddRcvdPN(rs, pn) ==
  LET grown == IF rs = <<>> \/ rs[1].max + 1 < pn
               THEN <<[min |-> pn, max |-> pn]>> \o rs
               ELSE [rs EXCEPT ![1].max = pn]
  IN  IF Len(grown) > MaxRanges THEN SubSeq(grown, 1, MaxRanges) ELSE grown

---------------------------------------------------------------------------
(* Stream fragments [off, len] and the bytes they carry.                  *)

FragLen(fs) == FoldLeft(LAMBDA acc, f : acc + f.len, 0, fs)

FragBytes(fs) == UNION {f.off .. (f.off + f.len - 1) : f \in ToSet(fs)}

---------------------------------------------------------------------------
(* congestion_controller.go, with the time a packet was sent and the time  *)
(* of the last loss episode both expressed as packet numbers.             *)

CcAck(cc, pn) == IF pn >= cc.congested THEN [cc EXCEPT !.cwnd = @ + MaxPacketSize] ELSE cc

CcLoss(cc, pn, seq) ==
  IF pn >= cc.congested THEN [cc EXCEPT !.cwnd = InitialCwnd, !.congested = seq] ELSE cc

\* validatedCwnd: halve an unused window once per idle PTO period.
RECURSIVE ValidatedCwnd(_, _, _)
ValidatedCwnd(cwnd, inFlight, k) ==
  IF inFlight + MaxPacketSize < cwnd \div 2 /\ k > 0
  THEN ValidatedCwnd(cwnd \div 2, inFlight, k - 1)
  ELSE Max2(cwnd, InitialCwnd)

CwndLimited(cc, inFlight, k) == inFlight + MaxPacketSize > ValidatedCwnd(cc.cwnd, inFlight, k)

CcValidate(cc, inFlight, k) == [cc EXCEPT !.cwnd = ValidatedCwnd(@, inFlight, k)]

---------------------------------------------------------------------------
(* One visit of the loop over c.inFlightPackets (Go map order is random,   *)
(* so the order is a parameter ord of the handlers).                      *)

\* Mutant of LosePacket: the lost packet's fragments are not requeued.
LosePacketNoRequeue(c, pn) ==
  LET p == c.inFlight[pn]
  IN  [c EXCEPT
        !.inFlight = [q \in DOMAIN @ \ {pn} |-> @[q]],
        !.inFlightBytes = @ - MaxPacketSize,
        !.cc = CcLoss(@, pn, c.seq),
        !.maxStreamOffInFlight = IF @ = p.maxStreamOff THEN 0 ELSE @]

\* Mutant of LosePacket: inFlightBytes counts packets, not bytes.
LosePacketCountsOne(c, pn) ==
  LET p == c.inFlight[pn]
  IN  [c EXCEPT
        !.inFlight = [q \in DOMAIN @ \ {pn} |-> @[q]],
        !.inFlightBytes = @ - 1,
        !.cc = CcLoss(@, pn, c.seq),
        !.maxStreamOffInFlight = IF @ = p.maxStreamOff THEN 0 ELSE @,
        !.streamFragments = p.frags \o @]

\* A lost packet (the nack case of handleAck, and the timed-out case of
\* maybeScavengeTimedOutPackets): its fragments go back to the queue head.
LosePacket(c, pn) ==
  LET p == c.inFlight[pn]
  IN  [c EXCEPT
        !.inFlight = [q \in DOMAIN @ \ {pn} |-> @[q]],
        !.inFlightBytes = @ - MaxPacketSize,
        !.cc = CcLoss(@, pn, c.seq),
        !.maxStreamOffInFlight = IF @ = p.maxStreamOff THEN 0 ELSE @,
        !.streamFragments = p.frags \o @]

\* Mutant of AckPacket: the acked fragments are not released from
\* streamBytesInFlight.
AckPacketNoRelease(c, pn) ==
  LET p == c.inFlight[pn]
  IN  [c EXCEPT
        !.ranges = TrimLesser(@, p.maxPNAcks),
        !.inFlight = [q \in DOMAIN @ \ {pn} |-> @[q]],
        !.inFlightBytes = @ - MaxPacketSize,
        !.cc = CcAck(@, pn),
        !.maxStreamOffAcked = Max2(@, p.maxStreamOff),
        !.relsndready = @ \/ p.frags # <<>>]

\* An acked packet (the ack case of handleAck).
AckPacket(c, pn) ==
  LET p == c.inFlight[pn]
  IN  [c EXCEPT
        !.ranges = TrimLesser(@, p.maxPNAcks),
        !.inFlight = [q \in DOMAIN @ \ {pn} |-> @[q]],
        !.inFlightBytes = @ - MaxPacketSize,
        !.cc = CcAck(@, pn),
        !.maxStreamOffAcked = Max2(@, p.maxStreamOff),
        !.streamBytesInFlight = @ - FragLen(p.frags),
        !.relsndready = @ \/ p.frags # <<>>]

\* Mutant of AckLoop: a packet below the largest acked number counts as
\* acked whether or not a range contains it.
RECURSIVE AckLoopNackAsAck(_, _, _, _)
AckLoopNackAsAck(c, ord, ack, remain) ==
  IF ord = <<>> THEN <<c, remain>>
  ELSE LET pn == Head(ord)
       IN  IF RangesContain(ack, pn) \/ pn < RangesMax(ack)
           THEN AckLoopNackAsAck(AckPacket(c, pn), Tail(ord), ack, remain)
           ELSE AckLoopNackAsAck(c, Tail(ord), ack, TRUE)

\* handleAck: the loop returns <<conn, some packet is still in flight>>.
RECURSIVE AckLoop(_, _, _, _)
AckLoop(c, ord, ack, remain) ==
  IF ord = <<>> THEN <<c, remain>>
  ELSE LET pn == Head(ord)
       IN  IF RangesContain(ack, pn)
           THEN AckLoop(AckPacket(c, pn), Tail(ord), ack, remain)
           ELSE IF pn < RangesMax(ack)
           THEN AckLoop(LosePacket(c, pn), Tail(ord), ack, remain)
           ELSE AckLoop(c, Tail(ord), ack, TRUE)

\* Mutant of HandleAck: the optimistic-ack check is off by one.
HandleAckOffByOne(c, ack, ord) ==
  IF RangesMax(ack) >= c.seq - 1 THEN <<TRUE, c>>
  ELSE LET r == AckLoop(c, ord, ack, FALSE)
       IN  <<FALSE, IF r[2] THEN [r[1] EXCEPT !.timeout = TRUE] ELSE r[1]>>

\* Returns <<error, conn>>; an ACK of a number not yet sent is an
\* "optimistic ack" protocol error.
HandleAck(c, ack, ord) ==
  IF RangesMax(ack) >= c.seq THEN <<TRUE, c>>
  ELSE LET r == AckLoop(c, ord, ack, FALSE)
       IN  <<FALSE, IF r[2] THEN [r[1] EXCEPT !.timeout = TRUE]
                    ELSE r[1]>>

\* Mutant of HandleMaxStreamData: the blocked writer is not signalled.
HandleMaxStreamDataNoSignal(c, off) ==
  IF c.maxStreamOff < off THEN [c EXCEPT !.maxStreamOff = off] ELSE c

HandleMaxStreamData(c, off) ==
  IF c.maxStreamOff < off
  THEN [c EXCEPT !.maxStreamOff = off, !.relsndready = TRUE]
  ELSE c

\* handleStream: returns <<error, conn>>.
HandleStream(c, f) ==
  LET w == RS!WriteAt(c.ra, f.off, f.len)
  IN  IF w[1] THEN <<TRUE, c>>
      ELSE <<FALSE, [c EXCEPT
               !.ra = w[2],
               !.maxStreamOffAcked = Max2(@, f.off + f.len),
               !.relrcvready = @ \/ RS!CanBeRead(w[2])]>>

RECURSIVE StreamFrames(_, _)
StreamFrames(c, fs) ==
  IF fs = <<>> THEN <<FALSE, c>>
  ELSE LET r == HandleStream(c, Head(fs))
       IN  IF r[1] THEN r ELSE StreamFrames(r[2], Tail(fs))

\* handlePacketImpl for packet pk, frames in the order the sender wrote
\* them: ACK, MAX_STREAM_DATA, STREAM...; returns <<error, conn>>.
HandlePacket(c, pk, ord) ==
  LET maxRcvdPN == RangesMax(c.ranges)
      pn == pk.pn
      a  == IF pk.ack = <<>> THEN <<FALSE, c>> ELSE HandleAck(c, pk.ack, ord)
      m  == IF pk.msd = 0 THEN a[2] ELSE HandleMaxStreamData(a[2], pk.msd)
      s  == StreamFrames(m, pk.frags)
      ackEliciting == maxRcvdPN < pn /\ (pk.msd # 0 \/ pk.frags # <<>>)
      c2 == s[2]
  IN  IF a[1] THEN a
      ELSE IF s[1] THEN s
      ELSE <<FALSE, [c2 EXCEPT
             !.ranges = IF maxRcvdPN < pn THEN AddRcvdPN(@, pn) ELSE @,
             !.sendAckBy =
                IF maxRcvdPN + 1 < pn THEN "now"
                ELSE IF maxRcvdPN + 1 = pn /\ ackEliciting
                     THEN (IF @ = "none" THEN "delayed" ELSE "now")
                ELSE @]>>

---------------------------------------------------------------------------
(* maybeScavengeTimedOutPackets, once the loss timeout has expired: the    *)
(* packets sent before some instant (below packet number cutoff) are lost. *)

RECURSIVE ScavengeLoop(_, _, _)
ScavengeLoop(c, ord, cutoff) ==
  IF ord = <<>> THEN c
  ELSE ScavengeLoop(IF Head(ord) < cutoff THEN LosePacket(c, Head(ord)) ELSE c,
                    Tail(ord), cutoff)

Scavenge(c, ord, cutoff) ==
  [ScavengeLoop(c, ord, cutoff) EXCEPT !.timeout = DOMAIN c.inFlight # {}]

---------------------------------------------------------------------------
(* output.go: composing one packet.                                        *)

\* maybeSendStream: move fragments from the queue into a packet with room
\* bytes left, splitting the head fragment to fit; <<taken, queue>>.
RECURSIVE TakeFragments(_, _, _)
TakeFragments(taken, queue, room) ==
  IF queue = <<>> \/ room = 0 THEN <<taken, queue>>
  ELSE LET f == Head(queue)
       IN  IF f.len <= room
           THEN TakeFragments(Append(taken, f), Tail(queue), room - f.len)
           ELSE <<Append(taken, [off |-> f.off, len |-> room]),
                  <<[off |-> f.off + room, len |-> f.len - room]>> \o Tail(queue)>>

\* sendPacket for a connection that is not closed.  k is the number of PTO
\* periods since cwnd was last validated and due whether a delayed ACK is
\* due; returns <<conn, packet or NoPacket, packet was full>>.
NoPacket == [pn |-> -1]

\* maybeSendAck's update of sentTailAck; it returns early without ranges.
TailAck(c, limited, sendAck) ==
  IF c.ranges = <<>> THEN c.sentTailAck
  ELSE IF ~limited THEN FALSE
  ELSE IF sendAck THEN TRUE ELSE c.sentTailAck

SendPacket(c, k, due) ==
  LET limited == CwndLimited(c.cc, c.inFlightBytes, k)
      \* maybeSendAck
      sendAck == /\ c.ranges # <<>>
                 /\ \/ c.sendAckBy = "now"
                    \/ c.sendAckBy = "delayed" /\ due
                    \/ limited /\ ~c.sentTailAck
      \* maybeSendMaxStreamOffset
      off == RS!MaxOffset(c.ra)
      sendMsd == ~limited /\ c.maxStreamOffAcked < off /\ c.maxStreamOffInFlight < off
      \* maybeSendStream
      t == IF limited THEN <<<<>>, c.streamFragments>>
           ELSE TakeFragments(<<>>, c.streamFragments, Room)
      frags == t[1]
      pn == c.seq
      ackEliciting == sendMsd \/ frags # <<>>
      pk == [pn |-> pn,
             ack |-> IF sendAck THEN c.ranges ELSE <<>>,
             msd |-> IF sendMsd THEN off ELSE 0,
             frags |-> frags]
      c1 == [c EXCEPT
               !.sendAckBy = IF sendAck THEN "none" ELSE @,
               !.sentTailAck = TailAck(c, limited, sendAck),
               !.maxStreamOffInFlight = IF sendMsd THEN off ELSE @,
               !.streamFragments = t[2],
               !.seq = @ + 1]
      c2 == IF ~ackEliciting THEN c1
            ELSE [c1 EXCEPT
                    !.inFlight = @ @@ (pn :> [maxPNAcks |-> IF sendAck THEN RangesMax(c.ranges) ELSE 0,
                                              maxStreamOff |-> pk.msd,
                                              frags |-> frags]),
                    !.inFlightBytes = @ + MaxPacketSize,
                    !.cc = CcValidate(@, c.inFlightBytes + MaxPacketSize, k),
                    !.timeout = TRUE]
  IN  IF ~sendAck /\ ~ackEliciting
      THEN <<[c EXCEPT !.sentTailAck = TailAck(c, limited, FALSE)], NoPacket, FALSE>>
      ELSE <<c2, pk, FragLen(frags) = Room>>

\* The loop of wake(): packets are composed while they come out full; the
\* batch goes to the socket at the end.  Once a packet has validated the
\* window (Validate sets validated = now) no further PTO period has elapsed.
RECURSIVE SendLoop(_, _, _, _, _)
SendLoop(c, k, due, pkts, lim) ==
  IF c.seq >= lim THEN <<c, pkts>>
  ELSE LET r == SendPacket(c, k, due)
           k2 == IF r[1].inFlightBytes > c.inFlightBytes THEN 0 ELSE k
       IN  IF r[2] = NoPacket THEN <<r[1], pkts>>
           ELSE IF r[3] THEN SendLoop(r[1], k2, due, pkts \cup {r[2]}, lim)
           ELSE <<r[1], pkts \cup {r[2]}>>

---------------------------------------------------------------------------
VARIABLES
  conn,     \* conn[e]: the Conn fields of endpoint e
  net,      \* net[e]: datagrams on their way to e
  botched,  \* botched[e]: e closed on a protocol error
  wr,       \* the writer's user: [state, rem] of its pending Write call
  rd,       \* the reader's user: 0 if idle, else the buffer length of its blocked Read
  out       \* history: the bytes the reader's user has read

vars == <<conn, net, botched, wr, rd, out>>

\* newConn: seq starts at rand.Int63n(3), one of InitialSeqs.
NewConn(seq0) ==
  [seq |-> seq0, ranges |-> <<>>,
   inFlight |-> [pn \in {} |-> {}], inFlightBytes |-> 0,
   cc |-> [cwnd |-> InitialCwnd, congested |-> 0],
   timeout |-> FALSE,
   sendAckBy |-> "none", sentTailAck |-> FALSE,
   ra |-> RS!New, maxStreamOffAcked |-> 0, maxStreamOffInFlight |-> 0,
   streamFragments |-> <<>>, streamOff |-> 0, maxStreamOff |-> 0,
   streamBytesInFlight |-> 0,
   relsndready |-> FALSE, relrcvready |-> FALSE]

Init ==
  /\ \E s \in [Endpoints -> InitialSeqs] : conn = [e \in Endpoints |-> NewConn(s[e])]
  /\ net = [e \in Endpoints |-> {}]
  /\ botched = [e \in Endpoints |-> FALSE]
  /\ wr = [state |-> "idle", rem |-> 0]
  /\ rd = 0
  /\ out = <<>>

Min3(a, b, c) == LET m == IF a < b THEN a ELSE b IN IF m < c THEN m ELSE c

\* One pass of the loop of Conn.Write with rem bytes left to queue; returns
\* <<conn, writer state>>.  A pass that queues nn bytes exhausts one of the
\* three limits, so the call either returns or waits on relsndready.
WriteAttempt(c, rem) ==
  LET nn == Min3(rem, c.maxStreamOff - c.streamOff,
                 MaxBytesInFlight - c.streamBytesInFlight)
  IN  IF nn = 0 THEN <<c, [state |-> "blocked", rem |-> rem]>>
      ELSE <<[c EXCEPT !.streamFragments = Append(@, [off |-> c.streamOff, len |-> nn]),
                       !.streamOff = @ + nn,
                       !.streamBytesInFlight = @ + nn],
             IF rem = nn THEN [state |-> "idle", rem |-> 0]
             ELSE [state |-> "blocked", rem |-> rem - nn]>>

\* Conn.Write(b) with len(b) = n.
Write(n) ==
  LET r == WriteAttempt(conn[Writer], n)
  IN  /\ ~botched[Writer] /\ wr.state = "idle"
      /\ conn' = [conn EXCEPT ![Writer] = r[1]]
      /\ wr' = r[2]
      /\ UNCHANGED <<net, botched, rd, out>>

\* A Write waiting on relsndready receives from it and retries.
WriteWake ==
  LET r == WriteAttempt([conn[Writer] EXCEPT !.relsndready = FALSE], wr.rem)
  IN  /\ wr.state = "blocked" /\ conn[Writer].relsndready
      /\ conn' = [conn EXCEPT ![Writer] = r[1]]
      /\ wr' = r[2]
      /\ UNCHANGED <<net, botched, rd, out>>

\* One pass of the loop of Conn.Read with a buffer of L bytes.
ReadAttempt(c, L) ==
  LET r == RS!Read(c.ra, L)
  IN  /\ conn' = [conn EXCEPT ![Reader] = [c EXCEPT !.ra = r[2]]]
      /\ rd' = IF r[1] = <<>> THEN L ELSE 0
      /\ out' = out \o r[1]

\* Conn.Read(b) with len(b) = L.
Read(L) ==
  /\ rd = 0
  /\ ReadAttempt(conn[Reader], L)
  /\ UNCHANGED <<net, botched, wr>>

\* A Read waiting on relrcvready receives from it and retries.
ReadWake ==
  /\ rd # 0 /\ conn[Reader].relrcvready
  /\ ReadAttempt([conn[Reader] EXCEPT !.relrcvready = FALSE], rd)
  /\ UNCHANGED <<net, botched, wr>>

\* Conn.wake on endpoint e: the loss timeout may have expired (the packets
\* below cutoff are old enough to be lost), then packets are sent.
Wake(e) ==
  LET c == conn[e]
      scavenged == {c} \cup
        (IF c.timeout
         THEN {Scavenge(c, ord, cutoff) : ord \in SetToSeqs(DOMAIN c.inFlight),
                                          cutoff \in 0 .. c.seq}
         ELSE {})
  IN  /\ ~botched[e]
      /\ \E c0 \in scavenged, k \in 0 .. MaxIdlePTOs, due \in BOOLEAN :
           LET r == SendLoop(c0, k, due, {}, MaxPN[e])
           IN  /\ conn' = [conn EXCEPT ![e] = r[1]]
               /\ net' = [net EXCEPT ![Peer(e)] = @ \cup r[2]]
      /\ UNCHANGED <<botched, wr, rd, out>>

\* Conn.handlePacket on endpoint e; the datagram may stay in the network to
\* be delivered again.  A protocol error closes the connection.
Receive(e, pk) ==
  /\ ~botched[e] /\ pk \in net[e]
  /\ \E ord \in SetToSeqs(DOMAIN conn[e].inFlight), dup \in {FALSE, Duplicating} :
       LET r == HandlePacket(conn[e], pk, ord)
       IN  /\ IF r[1] THEN /\ botched' = [botched EXCEPT ![e] = TRUE]
                           /\ UNCHANGED conn
                      ELSE /\ conn' = [conn EXCEPT ![e] = r[2]]
                           /\ UNCHANGED botched
           /\ net' = [net EXCEPT ![e] = IF dup THEN @ ELSE @ \ {pk}]
  /\ UNCHANGED <<wr, rd, out>>

\* The network drops a datagram.
Lose(e, pk) ==
  /\ pk \in net[e]
  /\ net' = [net EXCEPT ![e] = @ \ {pk}]
  /\ UNCHANGED <<conn, botched, wr, rd, out>>

Next ==
  \/ \E n \in 1 .. (StreamLen - conn[Writer].streamOff) : Write(n)
  \/ WriteWake
  \/ \E L \in 1 .. MaxRead : Read(L)
  \/ ReadWake
  \/ \E e \in Endpoints : Wake(e)
  \/ \E e \in Endpoints : \E pk \in net[e] : Receive(e, pk) \/ Lose(e, pk)

Spec == Init /\ [][Next]_vars

---------------------------------------------------------------------------
Frag == [off : 0 .. StreamLen, len : 1 .. StreamLen]

TypeOK ==
  /\ \A e \in Endpoints :
       LET c == conn[e] IN
       /\ c.seq \in 0 .. Max2(MaxPN[e], 2)
       /\ DOMAIN c.inFlight \subseteq 0 .. (MaxPN[e] - 1)
       /\ c.inFlightBytes = MaxPacketSize * Cardinality(DOMAIN c.inFlight)
       /\ c.sendAckBy \in {"none", "delayed", "now"}
       /\ c.streamFragments \in Seq(Frag)
       /\ c.streamOff \in 0 .. StreamLen
       /\ c.ra.off \in 0 .. StreamLen
  /\ net \in [Endpoints -> SUBSET [pn : Nat, ack : Seq([min : Nat, max : Nat]),
                                   msd : Nat, frags : Seq(Frag)]]
  /\ botched \in [Endpoints -> BOOLEAN]
  /\ wr.state \in {"idle", "blocked"} /\ rd \in 0 .. MaxRead
  /\ out \in Seq(0 .. (StreamLen - 1))

(* Neither endpoint ever closes the connection on a protocol error: no     *)
(* ACK acknowledges a packet number its receiver has not sent ("optimistic *)
(* ack"), and flow control keeps every STREAM frame inside the receiver's  *)
(* window ("reassembler overflow"), although MAX_STREAM_DATA frames and    *)
(* the ACKs of them are lost, duplicated and reordered (handleAck,        *)
(* handleStream, maybeSendMaxStreamOffset, Conn.Write).                    *)
NoProtocolError == \A e \in Endpoints : ~botched[e]

(* Every byte the writer's user has queued is, at every moment, somewhere  *)
(* the code will deliver it from: in the retransmission queue, in an       *)
(* in-flight packet, or already taken in by the reader's reassembler; so a *)
(* packet is only forgotten once it was received, and a lost packet's      *)
(* fragments always go back to the queue (handleAck, scavenging).          *)
NoStreamByteLost ==
  LET w == conn[Writer]
      r == conn[Reader]
      held == FragBytes(w.streamFragments)
              \cup UNION {FragBytes(w.inFlight[pn].frags) : pn \in DOMAIN w.inFlight}
      taken == (0 .. (r.ra.off - 1))
               \cup {r.ra.off + ((p - r.ra.off) % Window) : p \in r.ra.readable}
  IN  ~botched[Reader] => (0 .. (w.streamOff - 1)) \subseteq held \cup taken

(* streamBytesInFlight, which bounds Write by MaxStreamBytesInFlight, is   *)
(* the sum of the fragment lengths in the queue and in in-flight packets,  *)
(* as conn.go states; a drift would block the writer forever or overrun    *)
(* the bound (Write, handleAck, sendPacket, scavenging).                   *)
StreamBytesInFlightExact ==
  \A e \in Endpoints :
    conn[e].streamBytesInFlight =
      FragLen(conn[e].streamFragments)
      + FoldFunction(LAMBDA p, acc : acc + FragLen(p.frags), 0, conn[e].inFlight)

WriterCouldProgress ==
  wr.state = "blocked" /\ WriteAttempt(conn[Writer], wr.rem)[1] # conn[Writer]

ReaderCouldProgress == rd # 0 /\ RS!CanBeRead(conn[Reader].ra)

(* No lost wakeup: whenever a user call waits on its channel while it     *)
(* could make progress, a token is waiting for it.  The writer waits on   *)
(* relsndready, which handleMaxStreamData and handleAck fill; the reader   *)
(* waits on relrcvready, which handleStream fills; a missed send leaves    *)
(* Conn.Write or Conn.Read blocked forever although the connection could   *)
(* go on (Write, Read, handleAck, handleMaxStreamData, handleStream).      *)
NoLostWakeup ==
  /\ WriterCouldProgress => conn[Writer].relsndready
  /\ ReaderCouldProgress => conn[Reader].relrcvready
====

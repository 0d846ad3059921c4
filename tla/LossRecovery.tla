---------------------------- MODULE LossRecovery ----------------------------
(***************************************************************************)
(* The timers of one connection, with time: the driver goroutine Conn.run  *)
(* and its timer, wake() with maybeScavengeTimedOutPackets and the         *)
(* sendPacket loop, and the parts of handlePacketImpl and handleAck that   *)
(* set the ACK deadline sendAckBy, the loss timeout, timeoutBackoff, the   *)
(* congestion controller and the MAX_STREAM_DATA bookkeeping.  The peer    *)
(* and the user are the environment: the peer's packets may carry an ACK   *)
(* of any packets we sent, the user queues stream data and reads (which    *)
(* raises the window the reassembler advertises).                          *)
(*                                                                         *)
(* Time is discrete and relative: the code only subtracts, adds and       *)
(* compares times, so each time is kept as its distance from now.  A       *)
(* deadline is the time left until it (0 once it has passed) or NoTime for *)
(* the zero time.Time; a sent time is the packet's age, capped at MaxAge,  *)
(* the largest loss threshold the code compares it with.  The congestion   *)
(* controller's congested time is only compared with sent times, so each   *)
(* packet records whether it was sent before it (old); validated is an age *)
(* capped at VCap, beyond which validatedCwnd cannot halve any further.    *)
(*                                                                         *)
(* The RTT filter (module RTTFilter) is summarised by PTO, a constant, and *)
(* the loss threshold, any of LossThreshs at each wake: it exceeds PTO     *)
(* after a latency spike.  Every ack-eliciting frame but MAX_STREAM_DATA   *)
(* (STREAM, MSG) is "data"; a queued unit of data fills one packet.        *)
(***************************************************************************)
EXTENDS Integers, FiniteSets, SequencesExt, Functions

CONSTANTS
  MaxPN,             \* bound on the packets sent (seq)
  PTO,               \* rttFilter.PTO()
  LossThreshs,       \* values of rttFilter.LossDurationThreshold()
  MaxAckDelay,       \* maxAckDelay
  TimerGranularity,  \* timerGranularity
  MaxTimeoutBackoff, \* maxTimeoutBackoff (5 in the code)
  MaxPacketSize,     \* maxPacketSize
  PacketSizes,       \* sizes of ack-eliciting packets
  InitialWindow,     \* streamReassembler.MaxOffset() of a new connection
  MaxWindow,         \* bound on MaxOffset as the user reads
  MaxQueued,         \* bound on the units of data queued by the user
  MaxPeerPackets     \* bound on the packets the peer sends

ASSUME /\ 0 < TimerGranularity /\ TimerGranularity < MaxAckDelay
       /\ LossThreshs \subseteq Nat \ {0} /\ LossThreshs # {} /\ 0 < PTO
       /\ PacketSizes \subseteq 1 .. MaxPacketSize /\ MaxPacketSize \in PacketSizes
       /\ 0 < InitialWindow /\ InitialWindow <= MaxWindow

NoTime == -1                      \* the zero time.Time
Forever == 1000000                \* forever (util.go), longer than any deadline
ZeroSub == -Forever - 1           \* zero.Sub(now): the minimum Duration
InitialCwnd == 2 * MaxPacketSize
MaxAge == Max(LossThreshs)        \* packets older than this are alike
MaxCwnd == InitialCwnd + MaxPN * MaxPacketSize  \* acks add at most this

\* How often validatedCwnd can halve a window of c bytes.
RECURSIVE Halvings(_)
Halvings(c) == IF c <= MaxPacketSize THEN 0 ELSE 1 + Halvings(c \div 2)

\* Ages of validated above VCap are alike to validatedCwnd.
VCap == PTO * (Halvings(MaxCwnd) + 1) + 1

Max2(a, b) == IF a > b THEN a ELSE b

---------------------------------------------------------------------------
(* congestion_controller.go.                                               *)

\* Mutant of ValidatedLoop: halves while less than the whole window is used.
RECURSIVE ValidatedLoopFull(_, _, _, _)
ValidatedLoopFull(cwnd, inFlight, j, va) ==
  IF inFlight + MaxPacketSize < cwnd /\ PTO * j < va
  THEN ValidatedLoopFull(cwnd \div 2, inFlight, j + 1, va)
  ELSE cwnd

\* The loop of validatedCwnd: halve the window once per PTO elapsed since
\* validated (va ago) while less than half of it would be used.
RECURSIVE ValidatedLoop(_, _, _, _)
ValidatedLoop(cwnd, inFlight, j, va) ==
  IF inFlight + MaxPacketSize < cwnd \div 2 /\ PTO * j < va
  THEN ValidatedLoop(cwnd \div 2, inFlight, j + 1, va)
  ELSE cwnd

ValidatedCwnd(cwnd, inFlight, va) == Max2(ValidatedLoop(cwnd, inFlight, 1, va), InitialCwnd)

CwndLimited(cwnd, inFlight, va) == inFlight + MaxPacketSize > ValidatedCwnd(cwnd, inFlight, va)

---------------------------------------------------------------------------
VARIABLES
  seq,                  \* c.seq
  flight,               \* c.inFlightPackets: pn -> [age, size, old, msd, data]
  inFlightBytes,        \* c.inFlightBytes
  cwnd,                 \* c.congestionController.cwnd
  validatedAge,         \* now - c.congestionController.validated, capped
  timeout,              \* c.timeout, time left or NoTime
  timeoutBackoff,       \* c.timeoutBackoff
  sendAckBy,            \* c.sendAckBy, time left or NoTime
  sentTailAck,          \* c.sentTailAck
  rcvd,                 \* c.maxRcvdPNRanges is not empty
  window,               \* c.streamReassembler.MaxOffset()
  maxStreamOffAcked,    \* c.maxStreamOffAcked
  maxStreamOffInFlight, \* c.maxStreamOffInFlight
  queued,               \* units of c.streamFragments / c.msgData queued
  timer,                \* run's timer: time left until it fires, or NoTime
  wakeup,               \* c.wakeup holds a signal
  pc,                   \* "idle", or "sending" inside wake's send loop
  peerSent              \* packets the peer has sent (bound)

vars == <<seq, flight, inFlightBytes, cwnd, validatedAge, timeout, timeoutBackoff,
          sendAckBy, sentTailAck, rcvd, window, maxStreamOffAcked,
          maxStreamOffInFlight, queued, timer, wakeup, pc, peerSent>>

\* now.Add(PTO << timeoutBackoff), as time left.
PTOBackedOff(b) == PTO * 2^b

\* t.Sub(now) for a deadline.
Sub(t) == IF t = NoTime THEN ZeroSub ELSE t

\* The end of run's loop body: the duration wake returns and the timer it
\* is reset to (a negative duration fires at once, as a zero one does).
SleepUntil(to, sab) == Min({Forever, Sub(to), Sub(sab)})

ArmTimer(to, sab) ==
  IF SleepUntil(to, sab) < Forever THEN Max2(SleepUntil(to, sab), 0) ELSE NoTime

\* congestionController.Loss of a packet at now: a packet sent at or after
\* the last congestion event resets the window and starts a new event, and
\* every packet sent before now is then older than it.
CcLoss(r, p) ==
  IF p.old THEN r
  ELSE LET f == r.flight
       IN  [r EXCEPT !.cwnd = InitialCwnd,
                     !.flight = [q \in DOMAIN f |-> [f[q] EXCEPT !.old = @ \/ f[q].age > 0]]]

\* Mutant of LoseOne: maxStreamOffInFlight is left alone.
LoseOneKeepsOffset(r, p) ==
  CcLoss([r EXCEPT !.bytes = @ - p.size,
                   !.queued = @ + (IF p.data THEN 1 ELSE 0)], p)

\* What a lost packet (nack or timeout) undoes, after it left the map:
\* inFlightBytes, the congestion window, maxStreamOffInFlight if the packet
\* carried the latest MAX_STREAM_DATA, and its data is queued again.
LoseOne(r, p) ==
  CcLoss([r EXCEPT !.bytes = @ - p.size,
                   !.offInFlight = IF @ = p.msd THEN 0 ELSE @,
                   !.queued = @ + (IF p.data THEN 1 ELSE 0)], p)

\* handleAck's ack case: congestionController.Ack and maxStreamOffAcked.
AckOne(r, p) ==
  [r EXCEPT !.bytes = @ - p.size,
            !.cwnd = IF p.old THEN @ ELSE @ + p.size,
            !.acked = Max2(@, p.msd)]

Without(f, pn) == Restrict(f, DOMAIN f \ {pn})

\* The loop of handleAck over c.inFlightPackets in Go map order ord, for an
\* ACK whose highest number is m and which covers the in-flight numbers A.
RECURSIVE AckLoop(_, _, _, _)
AckLoop(r, ord, m, A) ==
  IF ord = <<>> THEN r
  ELSE LET pn == Head(ord)
           p  == r.flight[pn]
           r1 == [r EXCEPT !.flight = Without(@, pn)]
       IN  AckLoop(CASE pn \in A -> AckOne(r1, p)
                     [] pn < m   -> LoseOne(r1, p)
                     [] OTHER    -> [r EXCEPT !.remain = TRUE],
                   Tail(ord), m, A)

Init ==
  /\ seq = 0 /\ flight = [pn \in {} |-> 0] /\ inFlightBytes = 0
  /\ cwnd = InitialCwnd /\ validatedAge = VCap
  /\ timeout = NoTime /\ timeoutBackoff = 0
  /\ sendAckBy = NoTime /\ sentTailAck = FALSE /\ rcvd = FALSE
  /\ window = InitialWindow /\ maxStreamOffAcked = 0 /\ maxStreamOffInFlight = 0
  /\ queued = 0
  /\ timer = 0      \* time.NewTimer(0)
  /\ wakeup = FALSE /\ pc = "idle" /\ peerSent = 0

---------------------------------------------------------------------------
(* wake: maybeScavengeTimedOutPackets, then the send loop.                 *)

\* Mutant of NextBackoff: no cap.
NextBackoffUncapped(b, lost) == IF lost # {} THEN b + 1 ELSE b

\* The backoff after a scavenge that lost the packets lost.
NextBackoff(b, lost) ==
  IF lost # {} /\ b < MaxTimeoutBackoff THEN b + 1 ELSE b

\* Mutant of RearmedTimeout: re-armed only when something was lost.
RearmedTimeoutOnLoss(inFlight, lost, b) ==
  IF lost # {} THEN PTOBackedOff(b) ELSE NoTime

\* The timeout after a scavenge: re-armed if any packet was in flight
\* when it started, lost ones included.
RearmedTimeout(inFlight, lost, b) ==
  IF inFlight # {} THEN PTOBackedOff(b) ELSE NoTime

\* maybeScavengeTimedOutPackets: once the timeout has passed, the packets
\* in flight for lossThresh are lost; the timeout is re-armed, backed off
\* if something was lost, while any packet was in flight.
Scavenge(lossThresh) ==
  IF timeout = NoTime \/ timeout > 0
  THEN UNCHANGED <<flight, inFlightBytes, cwnd, maxStreamOffInFlight, queued,
                   timeoutBackoff, timeout>>
  ELSE LET lost == {pn \in DOMAIN flight : flight[pn].age >= lossThresh}
           r0 == [flight |-> Restrict(flight, DOMAIN flight \ lost),
                  bytes |-> inFlightBytes, cwnd |-> cwnd,
                  offInFlight |-> maxStreamOffInFlight, queued |-> queued]
           r == FoldSet(LAMBDA pn, acc : LoseOne(acc, flight[pn]), r0, lost)
           b == NextBackoff(timeoutBackoff, lost)
       IN  /\ flight' = r.flight /\ inFlightBytes' = r.bytes /\ cwnd' = r.cwnd
           /\ maxStreamOffInFlight' = r.offInFlight /\ queued' = r.queued
           /\ timeoutBackoff' = b
           /\ timeout' = RearmedTimeout(DOMAIN flight, lost, b)

\* run's select: the timer fired (its channel is drained by the receive).
Fire ==
  /\ pc = "idle" /\ timer = 0
  /\ timer' = NoTime /\ pc' = "sending"
  /\ \E lt \in LossThreshs : Scavenge(lt)
  /\ UNCHANGED <<seq, validatedAge, sendAckBy, sentTailAck, rcvd, window,
                 maxStreamOffAcked, wakeup, peerSent>>

\* run's select: a wakeup; the timer is stopped (or drained if it fired).
Wakeup ==
  /\ pc = "idle" /\ wakeup
  /\ wakeup' = FALSE /\ timer' = NoTime /\ pc' = "sending"
  /\ \E lt \in LossThreshs : Scavenge(lt)
  /\ UNCHANGED <<seq, validatedAge, sendAckBy, sentTailAck, rcvd, window,
                 maxStreamOffAcked, peerSent>>

\* One pass of wake's loop: sendPacket of a connection that is not closed
\* (maybeSendAck, maybeSendMaxStreamOffset, then STREAM and MSG data unless
\* cwnd-limited); the loop goes on only after a full packet.  When it ends,
\* run resets its timer to the duration wake returns.
Limited == CwndLimited(cwnd, inFlightBytes, validatedAge)
SendsAck == rcvd /\ (sendAckBy = 0 \/ (Limited /\ ~sentTailAck))
SendsMsd == ~Limited /\ maxStreamOffAcked < window /\ maxStreamOffInFlight < window
SendsData == ~Limited /\ queued > 0
Eliciting == SendsMsd \/ SendsData

\* maybeSendAck's sentTailAck; it returns early when there is nothing to ack.
TailAck ==
  IF ~rcvd THEN sentTailAck ELSE IF ~Limited THEN FALSE ELSE SendsAck \/ sentTailAck

\* sendPacket returns 0: w.Len() == 0, the last packet of the loop.
SendNothing ==
  /\ pc = "sending" /\ ~SendsAck /\ ~Eliciting
  /\ sentTailAck' = TailAck
  /\ pc' = "idle" /\ timer' = ArmTimer(timeout, sendAckBy)
  /\ UNCHANGED <<seq, flight, inFlightBytes, cwnd, validatedAge, timeout,
                 timeoutBackoff, sendAckBy, rcvd, window, maxStreamOffAcked,
                 maxStreamOffInFlight, queued, wakeup, peerSent>>

SendPacket(size) ==
  LET bytes == inFlightBytes + size
      to    == IF Eliciting THEN PTOBackedOff(timeoutBackoff) ELSE timeout
      sab   == IF SendsAck THEN NoTime ELSE sendAckBy
      full  == SendsData /\ size = MaxPacketSize
      p     == [age |-> 0, size |-> size, old |-> FALSE,
                msd |-> IF SendsMsd THEN window ELSE 0, data |-> SendsData]
  IN  /\ pc = "sending" /\ (SendsAck \/ Eliciting)
      /\ Eliciting \/ size = MaxPacketSize
      /\ seq < MaxPN
      /\ seq' = seq + 1
      /\ sentTailAck' = TailAck
      /\ sendAckBy' = sab
      /\ maxStreamOffInFlight' = IF SendsMsd THEN window ELSE maxStreamOffInFlight
      /\ queued' = IF SendsData THEN queued - 1 ELSE queued
      /\ IF Eliciting
         THEN /\ flight' = (seq :> p) @@ flight
              /\ inFlightBytes' = bytes
              /\ cwnd' = ValidatedCwnd(cwnd, bytes, validatedAge)
              /\ validatedAge' = 0
         ELSE UNCHANGED <<flight, inFlightBytes, cwnd, validatedAge>>
      /\ timeout' = to
      /\ pc' = IF full THEN "sending" ELSE "idle"
      /\ timer' = IF full THEN timer ELSE ArmTimer(to, sab)
      /\ UNCHANGED <<timeoutBackoff, rcvd, window, maxStreamOffAcked, wakeup, peerSent>>

\* The model sends no more than MaxPN packets: a wake that would send one
\* more ends without it.
SendBound ==
  /\ pc = "sending" /\ seq = MaxPN /\ (SendsAck \/ Eliciting)
  /\ pc' = "idle" /\ timer' = ArmTimer(timeout, sendAckBy)
  /\ UNCHANGED <<seq, flight, inFlightBytes, cwnd, validatedAge, timeout,
                 timeoutBackoff, sendAckBy, sentTailAck, rcvd, window,
                 maxStreamOffAcked, maxStreamOffInFlight, queued, wakeup, peerSent>>

---------------------------------------------------------------------------
(* handlePacket: a packet of the peer, numbered right after the highest    *)
(* received one ("next"), beyond it ("gap"), or not above it ("old").      *)

\* The ACK deadline handlePacketImpl sets after its frame loop.
RcvdAckBy(kind, elicit) ==
  CASE kind = "gap"            -> 0
    [] kind = "next" /\ elicit -> IF sendAckBy = NoTime
                                  THEN MaxAckDelay - TimerGranularity ELSE 0
    [] OTHER                   -> sendAckBy

ReceiveCommon(kind, elicit) ==
  /\ pc = "idle" /\ peerSent < MaxPeerPackets
  /\ kind \in {"next", "old"} => rcvd
  /\ sendAckBy' = RcvdAckBy(kind, elicit)
  /\ rcvd' = TRUE
  /\ wakeup' = TRUE
  /\ peerSent' = peerSent + 1
  /\ UNCHANGED <<seq, validatedAge, sentTailAck, window, timer, pc>>

ReceivePacket(kind, elicit) ==
  /\ ReceiveCommon(kind, elicit)
  /\ UNCHANGED <<flight, inFlightBytes, cwnd, timeout, timeoutBackoff,
                 maxStreamOffAcked, maxStreamOffInFlight, queued>>

\* The ACKs an honest peer can send: highest number m < seq (a higher one
\* is an "optimistic ack" that closes the connection), covering m if it is
\* still in flight and any in-flight numbers below it.
Acks == UNION {{[m |-> m, A |-> A] : A \in SUBSET {pn \in DOMAIN flight : pn <= m}} :
               m \in 0 .. seq - 1}

ValidAck(a) == a.m \in DOMAIN flight => a.m \in a.A

\* A packet with an ACK frame: handleAck (its RTT sample and migration
\* check are left out) before the packet's number is recorded.
ReceiveAck(kind, elicit, a) ==
  /\ ValidAck(a)
  /\ ReceiveCommon(kind, elicit)
  /\ \E ord \in SetToSeqs(DOMAIN flight) :
       LET r0 == [flight |-> flight, bytes |-> inFlightBytes, cwnd |-> cwnd,
                  acked |-> maxStreamOffAcked, offInFlight |-> maxStreamOffInFlight,
                  queued |-> queued, remain |-> FALSE]
           r == AckLoop(r0, ord, a.m, a.A)
       IN  /\ flight' = r.flight /\ inFlightBytes' = r.bytes /\ cwnd' = r.cwnd
           /\ maxStreamOffAcked' = r.acked /\ maxStreamOffInFlight' = r.offInFlight
           /\ queued' = r.queued
           /\ timeoutBackoff' = IF r.remain THEN 0 ELSE timeoutBackoff
           /\ timeout' = IF r.remain THEN PTO ELSE timeout

---------------------------------------------------------------------------
(* The user and time.                                                      *)

\* Write or WriteMsg queues data and signals the driver.
UserWrite ==
  /\ pc = "idle" /\ queued < MaxQueued
  /\ queued' = queued + 1 /\ wakeup' = TRUE
  /\ UNCHANGED <<seq, flight, inFlightBytes, cwnd, validatedAge, timeout,
                 timeoutBackoff, sendAckBy, sentTailAck, rcvd, window,
                 maxStreamOffAcked, maxStreamOffInFlight, timer, pc, peerSent>>

\* Read frees receive window, so MaxOffset grows, and signals the driver.
UserRead ==
  /\ pc = "idle" /\ window < MaxWindow
  /\ window' = window + 1 /\ wakeup' = TRUE
  /\ UNCHANGED <<seq, flight, inFlightBytes, cwnd, validatedAge, timeout,
                 timeoutBackoff, sendAckBy, sentTailAck, rcvd, queued,
                 maxStreamOffAcked, maxStreamOffInFlight, timer, pc, peerSent>>

Dec(t) == IF t = NoTime THEN NoTime ELSE Max2(t - 1, 0)

\* One unit of time passes outside the driver's critical section.
Tick ==
  /\ pc = "idle"
  /\ flight' = [pn \in DOMAIN flight |->
                  [flight[pn] EXCEPT !.age = IF @ < MaxAge THEN @ + 1 ELSE @]]
  /\ validatedAge' = IF validatedAge < VCap THEN validatedAge + 1 ELSE VCap
  /\ timeout' = Dec(timeout) /\ sendAckBy' = Dec(sendAckBy) /\ timer' = Dec(timer)
  /\ UNCHANGED <<seq, inFlightBytes, cwnd, timeoutBackoff, sentTailAck, rcvd,
                 window, maxStreamOffAcked, maxStreamOffInFlight, queued,
                 wakeup, pc, peerSent>>

Kinds == {"gap", "next", "old"}

Next ==
  \/ Fire \/ Wakeup
  \/ SendNothing \/ SendBound \/ \E size \in PacketSizes : SendPacket(size)
  \/ \E kind \in Kinds, elicit \in BOOLEAN :
       \/ ReceivePacket(kind, elicit)
       \/ \E a \in Acks : ReceiveAck(kind, elicit, a)
  \/ UserWrite \/ UserRead \/ Tick

(* Time passes whatever the goroutines do; Tick is disabled only inside    *)
(* wake, so it is strongly fair.  The runtime schedules the run goroutine  *)
(* when its timer or wakeup channel is ready, and wake runs to the end.    *)
(* The peer and the user need not act.                                     *)
Fairness ==
  /\ SF_vars(Tick)
  /\ WF_vars(Fire) /\ WF_vars(Wakeup)
  /\ WF_vars(SendNothing \/ SendBound \/ \E size \in PacketSizes : SendPacket(size))

Spec == Init /\ [][Next]_vars /\ Fairness

---------------------------------------------------------------------------
Deadline(t, max) == t = NoTime \/ t \in 0 .. max

TypeOK ==
  /\ seq \in 0 .. MaxPN
  /\ DOMAIN flight \subseteq 0 .. (seq - 1)
  /\ \A pn \in DOMAIN flight :
       flight[pn] \in [age : 0 .. MaxAge, size : PacketSizes, old : BOOLEAN,
                       msd : 0 .. MaxWindow, data : BOOLEAN]
  /\ timeoutBackoff \in 0 .. MaxTimeoutBackoff
  /\ Deadline(timeout, PTOBackedOff(MaxTimeoutBackoff))
  /\ Deadline(sendAckBy, MaxAckDelay) /\ Deadline(timer, PTOBackedOff(MaxTimeoutBackoff))
  /\ validatedAge \in 0 .. VCap /\ cwnd \in Nat
  /\ {sentTailAck, rcvd, wakeup} \subseteq BOOLEAN /\ pc \in {"idle", "sending"}

(* The receive window the reassembler would advertise is never stranded:   *)
(* unless the peer has acknowledged it, either a packet in flight carries  *)
(* it or maxStreamOffInFlight is below it so the next packet sends it.     *)
(* This rests on the resets of maxStreamOffInFlight when the packet that   *)
(* carried it is nacked (handleAck) or timed out (scavenging).             *)
WindowNotStranded ==
  maxStreamOffAcked < window =>
    \/ maxStreamOffInFlight < window
    \/ \E pn \in DOMAIN flight : flight[pn].msd = window

(* validatedCwnd's decay of a window left unused for PTOs never makes the  *)
(* connection cwnd-limited when the undecayed window had room for another *)
(* packet: it halves only while less than half would be in use.            *)
DecayNeverBlocks ==
  inFlightBytes + MaxPacketSize <= cwnd => ~CwndLimited(cwnd, inFlightBytes, validatedAge)

(* Every ack-eliciting packet leaves c.inFlightPackets eventually, acked,  *)
(* nacked or timed out, even if the peer never answers: the loss timeout   *)
(* stays armed while packets are in flight and the driver's timer fires.   *)
PacketEventuallyResolved ==
  \A pn \in 0 .. (MaxPN - 1) : pn \in DOMAIN flight ~> pn \notin DOMAIN flight

\* The deadlines that are set (not the zero time), earliest first.
EarliestDeadline(to, sab) ==
  LET ds == {d \in {to, sab} : d # NoTime}
  IN  IF ds = {} THEN NoTime ELSE Min(ds)

(* The wake deadline run sets at the end of wake is the earliest deadline  *)
(* that is set, and the timer is stopped when neither the loss timeout nor *)
(* an ACK is pending (spec: send_ack_by zero means no ACK pending; the     *)
(* next wake is min(timeout, send_ack_by) - now).                          *)
TimerArmedForDeadline ==
  [][pc = "sending" /\ pc' = "idle" => timer' = EarliestDeadline(timeout', sendAckBy')]_vars
=============================================================================

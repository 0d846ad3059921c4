------------------------------ MODULE RTTFilter ------------------------------
(***************************************************************************)
(* The RTT estimator of rtt_filter.go: Update, fed by handleAck with the   *)
(* sample now - p.sent and the peer's ACK delay capped at maxAckDelay, and *)
(* reset by setRemoteAddr; LossDurationThreshold and PTO, which set the    *)
(* loss timeout.                                                           *)
(*                                                                         *)
(* Durations are integers in a scaled unit.  The code computes lerp in     *)
(* float64 and rounds half to even; at these magnitudes float64 is exact,  *)
(* so lerp is the rational x + a * (y - x) and the rounding is done on it. *)
(* Times are integers; the zero time.Time is ZeroTime, before every now.   *)
(***************************************************************************)
EXTENDS Integers, FiniteSets, FiniteSetsExt

CONSTANTS
  Samples,          \* RTT samples now - p.sent
  Delays,           \* ACK delays after min(ack.Delay, maxAckDelay)
  MinRTTWnd,        \* minRTTWnd (a minute in the code)
  MaxNow,           \* the last instant considered
  InitialRTT,       \* initialRTT
  TimerGranularity, \* timerGranularity
  MaxAckDelay       \* maxAckDelay

ZeroTime == -1

Abs(x) == IF x < 0 THEN -x ELSE x

\* Mutant of RoundToEven: the fraction is dropped.
RoundDown(n, d) == n \div d

\* math.RoundToEven of n / d, for n >= 0 and d > 0.
RoundToEven(n, d) ==
  LET f == n \div d
      r == n % d
  IN  IF 2 * r < d THEN f
      ELSE IF 2 * r > d THEN f + 1
      ELSE IF f % 2 = 0 THEN f ELSE f + 1

\* roundToEvenDuration(lerp(x, y, p / q)).
LerpRounded(x, y, p, q) == RoundToEven(q * x + p * (y - x), q)

NewRTTFilter ==
  [minRTT |-> 0, minRTTRenew |-> ZeroTime, smoothedRTT |-> 0, mdev |-> 0,
   latestRTT |-> 0]

\* Mutant of Update: the ACK delay is always subtracted.
UpdateAlwaysAdjusts(rf, rtt, delay, now) ==
  LET renew == rf.minRTT > rtt \/ rf.minRTTRenew <= now
      mn    == IF renew THEN rtt ELSE rf.minRTT
      adj   == IF rf.smoothedRTT > 0 THEN rtt - delay ELSE rtt
  IN  [minRTT |-> mn,
       minRTTRenew |-> IF renew THEN now + MinRTTWnd ELSE rf.minRTTRenew,
       smoothedRTT |-> IF rf.smoothedRTT > 0
                       THEN LerpRounded(rf.smoothedRTT, adj, 1, 8) ELSE rtt,
       mdev |-> IF rf.smoothedRTT > 0
                THEN LerpRounded(rf.mdev, Abs(rf.smoothedRTT - adj), 1, 4)
                ELSE rtt \div 2,
       latestRTT |-> adj]

\* Mutant of Update: the delay-adjusted sample is only kept non-negative.
UpdateAdjustsToZero(rf, rtt, delay, now) ==
  LET renew == rf.minRTT > rtt \/ rf.minRTTRenew <= now
      mn    == IF renew THEN rtt ELSE rf.minRTT
      adj   == IF rf.smoothedRTT > 0 /\ rtt - delay >= 0 THEN rtt - delay
               ELSE rtt
  IN  [minRTT |-> mn,
       minRTTRenew |-> IF renew THEN now + MinRTTWnd ELSE rf.minRTTRenew,
       smoothedRTT |-> IF rf.smoothedRTT > 0
                       THEN LerpRounded(rf.smoothedRTT, adj, 1, 8) ELSE rtt,
       mdev |-> IF rf.smoothedRTT > 0
                THEN LerpRounded(rf.mdev, Abs(rf.smoothedRTT - adj), 1, 4)
                ELSE rtt \div 2,
       latestRTT |-> adj]

\* rttFilter.Update with alpha = 1/8 and beta = 1/4.
Update(rf, rtt, delay, now) ==
  LET renew == rf.minRTT > rtt \/ rf.minRTTRenew <= now
      mn    == IF renew THEN rtt ELSE rf.minRTT
      adj   == IF rf.smoothedRTT > 0 /\ rtt - delay >= mn THEN rtt - delay
               ELSE rtt
  IN  [minRTT |-> mn,
       minRTTRenew |-> IF renew THEN now + MinRTTWnd ELSE rf.minRTTRenew,
       smoothedRTT |-> IF rf.smoothedRTT > 0
                       THEN LerpRounded(rf.smoothedRTT, adj, 1, 8) ELSE rtt,
       mdev |-> IF rf.smoothedRTT > 0
                THEN LerpRounded(rf.mdev, Abs(rf.smoothedRTT - adj), 1, 4)
                ELSE rtt \div 2,
       latestRTT |-> adj]

LossDurationThreshold(rf) ==
  LET m   == Max({rf.smoothedRTT, rf.latestRTT})
      rtt == IF m = 0 THEN InitialRTT ELSE m
  IN  Max({RoundToEven(9 * rtt, 8), TimerGranularity})

PTO(rf) ==
  LET s == IF rf.smoothedRTT = 0 THEN InitialRTT ELSE rf.smoothedRTT
      d == IF rf.smoothedRTT = 0 THEN InitialRTT \div 2 ELSE rf.mdev
  IN  s + Max({4 * d, TimerGranularity}) + MaxAckDelay

-----------------------------------------------------------------------------
VARIABLES
  rf,      \* c.rttFilter
  now,     \* the time of the current event
  measured \* the RTT samples taken since the filter was made (history)

vars == <<rf, now, measured>>

Init == rf = NewRTTFilter /\ now = 0 /\ measured = {}

\* handleAck samples the RTT of the largest newly acked packet.
Sample(rtt, delay) ==
  /\ rf' = Update(rf, rtt, delay, now)
  /\ measured' = measured \cup {rtt}
  /\ UNCHANGED now

\* setRemoteAddr on an acked migration probe makes a new filter.
Reset ==
  /\ rf' = NewRTTFilter /\ measured' = {}
  /\ UNCHANGED now

Tick == now < MaxNow /\ now' = now + 1 /\ UNCHANGED <<rf, measured>>

Next ==
  \/ \E rtt \in Samples, delay \in Delays : Sample(rtt, delay)
  \/ Reset
  \/ Tick

Spec == Init /\ [][Next]_vars

-----------------------------------------------------------------------------
TypeOK ==
  /\ rf.minRTT \in Samples \cup {0}
  /\ rf.smoothedRTT \in 0 .. Max(Samples)
  /\ rf.latestRTT \in 0 .. Max(Samples)
  /\ now \in 0 .. MaxNow /\ measured \subseteq Samples

(* Once a positive sample has been taken, smoothedRTT stays positive, so   *)
(* Update keeps smoothing instead of restarting from the next sample and   *)
(* PTO keeps using the estimate instead of initialRTT, however the samples *)
(* fall afterwards (Update's rounding of lerp toward smaller samples).     *)
SmoothedKeepsSample == (\E s \in measured : s > 0) => rf.smoothedRTT > 0

(* The ACK delay reported by the peer never takes an RTT sample below the  *)
(* minimum RTT seen in the current window (Update's rtt-delay >= minRTT    *)
(* check, after the window renewal).                                       *)
LatestNotBelowMin == rf.latestRTT >= rf.minRTT

(* The smoothed RTT, from which PTO and the loss threshold are taken,     *)
(* stays between the smallest and the largest RTT measured since the      *)
(* filter was made: neither the peer's ACK delay, subtracted in Update,    *)
(* nor the rounding of lerp drifts the estimate below every real RTT (it   *)
(* would time packets out while still on their way) or above every one.   *)
SmoothedWithinMeasured ==
  measured # {} => Min(measured) <= rf.smoothedRTT /\ rf.smoothedRTT <= Max(measured)
=============================================================================

---------------------------- MODULE PacketNumber ----------------------------
(***************************************************************************)
(* Packet number recovery (guess_packet_number.go).  A data packet carries *)
(* only the low 32 bits of its packet number; the receiver reconstructs    *)
(* the full number from them and the largest number it has received       *)
(* (input.go, handlePacketImpl).  A wrong guess gives the wrong AEAD nonce, *)
(* so Open fails and the packet is dropped.                                *)
(*                                                                         *)
(* Widths are scaled: Width stands for 32 and MaxPacketNumber for          *)
(* MaxVarint = 2^62 - 1; as in the code, MaxPacketNumber + 1 is a multiple *)
(* of 2^Width.  Bit operations on non-negative numbers are written as the  *)
(* arithmetic they perform: x &^ (2^Width - 1) rounds x down to a multiple *)
(* of 2^Width, and t | y with t < 2^Width and y such a multiple is t + y.  *)
(***************************************************************************)
EXTENDS Integers

CONSTANTS
  Width,           \* bits of the truncated packet number (32 in the code)
  MaxPacketNumber  \* wire.MaxPacketNumber (MaxVarint in the code)

Win  == 2 ^ Width
Half == 2 ^ (Width - 1)

ASSUME /\ Width \in Nat \ {0}
       /\ MaxPacketNumber \in Nat /\ (MaxPacketNumber + 1) % Win = 0

\* PacketNumberRanges.Max of no ranges: math.MinInt64, scaled like the
\* other widths (only its being below every packet number matters).
NoPN == -(MaxPacketNumber + 1)

\* The packet number as it goes on the wire: uint32(pn).
Truncate(pn) == pn % Win

\* Mutant of GuessPacketNumber: the lower bound of the window is exclusive.
GuessLowerEdgeExclusive(maxPN, truncatedPN) ==
  LET m  == IF maxPN < 0 THEN 0 ELSE maxPN
      pn == truncatedPN + (m \div Win) * Win
  IN  IF pn < m + 1 - Half /\ pn <= MaxPacketNumber - Win THEN pn + Win
      ELSE IF pn > m + 1 + Half /\ pn >= Win THEN pn - Win
      ELSE pn

\* Mutant of GuessPacketNumber: no guard against passing MaxPacketNumber.
GuessUnguarded(maxPN, truncatedPN) ==
  LET m  == IF maxPN < 0 THEN 0 ELSE maxPN
      pn == truncatedPN + (m \div Win) * Win
  IN  IF pn <= m + 1 - Half THEN pn + Win
      ELSE IF pn > m + 1 + Half /\ pn >= Win THEN pn - Win
      ELSE pn

\* guessPacketNumber(maxPN, truncatedPN).
GuessPacketNumber(maxPN, truncatedPN) ==
  LET m  == IF maxPN < 0 THEN 0 ELSE maxPN
      pn == truncatedPN + (m \div Win) * Win
  IN  IF pn <= m + 1 - Half /\ pn <= MaxPacketNumber - Win THEN pn + Win
      ELSE IF pn > m + 1 + Half /\ pn >= Win THEN pn - Win
      ELSE pn

-----------------------------------------------------------------------------
(* The receiver: packets with any number the sender can use arrive in any  *)
(* order.  A packet whose number is guessed wrong fails to open and is     *)
(* dropped; one guessed right raises maxRcvdPN if it is larger.            *)

VARIABLES
  maxRcvdPN, \* c.maxRcvdPNRanges.Max()
  last       \* the last packet: [max before it, its number, the guess]

vars == <<maxRcvdPN, last>>

\* nextPacketNumber panics before using MaxPacketNumber.
SentNumbers == 0 .. (MaxPacketNumber - 1)

Init ==
  /\ maxRcvdPN = NoPN
  /\ last = [max |-> NoPN, pn |-> 0, guess |-> 0]

\* Mutant of ReceivePacket: the guess is recorded even when the packet
\* fails to open.
ReceivePacketUnopened(pn) ==
  LET g == GuessPacketNumber(maxRcvdPN, Truncate(pn))
  IN  /\ last' = [max |-> maxRcvdPN, pn |-> pn, guess |-> g]
      /\ maxRcvdPN' = IF maxRcvdPN < g THEN g ELSE maxRcvdPN

\* handlePacketImpl: guess, open, and record the number if it is new.
ReceivePacket(pn) ==
  LET g == GuessPacketNumber(maxRcvdPN, Truncate(pn))
  IN  /\ last' = [max |-> maxRcvdPN, pn |-> pn, guess |-> g]
      /\ maxRcvdPN' = IF g = pn /\ maxRcvdPN < pn THEN pn ELSE maxRcvdPN

Next == \E pn \in SentNumbers : ReceivePacket(pn)

Spec == Init /\ [][Next]_vars

TypeOK ==
  /\ maxRcvdPN \in {NoPN} \cup SentNumbers
  /\ last.pn \in SentNumbers

\* Reference: the numbers the receiver must recover, those in the window
\* of 2^Width numbers around the next expected one, (e - Half, e + Half].
InWindow(maxPN, pn) ==
  LET e == (IF maxPN < 0 THEN 0 ELSE maxPN) + 1
  IN  e - Half < pn /\ pn <= e + Half

(* Every packet whose number lies in the half-window around the next       *)
(* expected number is recovered exactly, including next to 0, at the      *)
(* epoch boundaries where the +/- 2^32 corrections apply, and next to      *)
(* MaxPacketNumber where the +2^32 correction is suppressed               *)
(* (guessPacketNumber).                                                    *)
GuessRecoversWindow == InWindow(last.max, last.pn) => last.guess = last.pn

(* Whatever arrives, the guess has the received low bits and is a         *)
(* packet number: never negative and never above MaxPacketNumber, so it  *)
(* cannot overflow the nonce (guessPacketNumber's two range guards).       *)
GuessInRange ==
  /\ Truncate(last.guess) = Truncate(last.pn)
  /\ last.guess \in 0 .. MaxPacketNumber
=============================================================================

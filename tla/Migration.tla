------------------------------ MODULE Migration ------------------------------
(***************************************************************************)
(* Path migration of one connection (conn.go, input.go, output.go): a     *)
(* packet from a new address that advances maxRcvdPN makes it the          *)
(* migration candidate; sendPacket marks a packet as a probe to it, rate   *)
(* limited by migrationProbeCooldown; wake writes a probe to the candidate *)
(* and every other packet to raddr; an ACK whose highest number is a      *)
(* probe sent to the address the ACK came from adopts it (setRemoteAddr),  *)
(* and any other newly acking ACK aborts the candidate.                    *)
(*                                                                         *)
(* The peer may move once to another address; packets sent to an address *)
(* it left are lost, the others arrive in any order.  Time is relative:    *)
(* the cooldown is the time left until it, Past once it has gone by (the   *)
(* code only asks whether it is before now).  Every packet we send is     *)
(* ack-eliciting (a probe gets a PING if it has nothing else); loss        *)
(* detection, which would remove unacked packets, is module LossRecovery.  *)
(***************************************************************************)
EXTENDS Integers, FiniteSets, TLC

CONSTANTS
  Addrs,     \* UDP addresses of the peer
  NoAddr,    \* the zero netip.AddrPort
  Interval,  \* minMigrationProbeInterval
  MaxPN,     \* bound on the packets we send
  MaxPeerPN  \* bound on the packets the peer sends

ASSUME NoAddr \notin Addrs /\ Cardinality(Addrs) >= 2 /\ Interval > 0

Past == -1  \* a cooldown before now

Max2(a, b) == IF a > b THEN a ELSE b

VARIABLES
  raddr,          \* c.raddr
  migrationAddr,  \* c.migrationAddr
  cooldown,       \* c.migrationProbeCooldown, time left or Past
  seq,            \* c.seq
  flight,         \* c.inFlightPackets: pn -> paddr (NoAddr unless a probe)
  maxPNAcked,     \* c.maxPNAcked
  maxRcvdPN,      \* c.maxRcvdPNRanges.Max()
  toPeer,         \* our datagrams in the network: [pn, dst]
  toUs,           \* the peer's datagrams: [pn, src, ack] (ack -1: none)
  peerAddr,       \* the peer's current address
  peerMaxRcvd,    \* the highest of our numbers the peer received, or -1
  peerSeq,        \* the peer's packet number counter
  moved           \* the peer has moved

vars == <<raddr, migrationAddr, cooldown, seq, flight, maxPNAcked, maxRcvdPN,
          toPeer, toUs, peerAddr, peerMaxRcvd, peerSeq, moved>>

\* newConn: setRemoteAddr(raddr, time.Time{}) puts the cooldown at the zero
\* time plus minMigrationProbeInterval, long before now.
Init ==
  /\ raddr \in Addrs /\ peerAddr = raddr
  /\ migrationAddr = NoAddr /\ cooldown = Past
  /\ seq = 0 /\ flight = [pn \in {} |-> NoAddr]
  /\ maxPNAcked = -1 /\ maxRcvdPN = -1
  /\ toPeer = {} /\ toUs = {}
  /\ peerMaxRcvd = -1 /\ peerSeq = 0 /\ moved = FALSE

\* sendPacket's migration step (!c.migrationProbeCooldown.Before(now)) and
\* wake's choice of destination for the packet.
SendPacket ==
  LET probe == migrationAddr # NoAddr /\ cooldown >= 0
  IN  /\ seq < MaxPN
      /\ cooldown' = IF probe THEN Interval ELSE cooldown
      /\ flight' = (seq :> IF probe THEN migrationAddr ELSE NoAddr) @@ flight
      /\ toPeer' = toPeer \cup {[pn |-> seq, dst |-> IF probe THEN migrationAddr ELSE raddr]}
      /\ seq' = seq + 1
      /\ UNCHANGED <<raddr, migrationAddr, maxPNAcked, maxRcvdPN, toUs,
                     peerAddr, peerMaxRcvd, peerSeq, moved>>

\* A datagram reaches the peer only at the address it is at.
DeliverToPeer(m) ==
  /\ toPeer' = toPeer \ {m}
  /\ peerMaxRcvd' = IF m.dst = peerAddr THEN Max2(peerMaxRcvd, m.pn) ELSE peerMaxRcvd
  /\ UNCHANGED <<raddr, migrationAddr, cooldown, seq, flight, maxPNAcked,
                 maxRcvdPN, toUs, peerAddr, peerSeq, moved>>

\* The peer sends a packet, with an ACK of the highest number it received.
PeerSend ==
  /\ peerSeq < MaxPeerPN
  /\ toUs' = toUs \cup {[pn |-> peerSeq, src |-> peerAddr, ack |-> peerMaxRcvd]}
  /\ peerSeq' = peerSeq + 1
  /\ UNCHANGED <<raddr, migrationAddr, cooldown, seq, flight, maxPNAcked,
                 maxRcvdPN, toPeer, peerAddr, peerMaxRcvd, moved>>

\* handlePacketImpl's last step: a packet from another address that raises
\* maxRcvdPN makes that address the candidate.
NewCandidate(m, ra, mig) == IF ra # m.src /\ maxRcvdPN < m.pn THEN m.src ELSE mig

\* handlePacketImpl on a packet from m.src: handleAck's migration check
\* (setRemoteAddr or abort) for the ACK frame, then the candidate update.
Receive(m) ==
  LET hit    == m.ack >= 0 /\ m.ack \in DOMAIN flight /\ maxPNAcked < m.ack
      adopt  == hit /\ flight[m.ack] = m.src
      raddr1 == IF adopt THEN m.src ELSE raddr
      mig1   == IF hit THEN NoAddr ELSE migrationAddr
  IN  /\ toUs' = toUs \ {m}
      /\ raddr' = raddr1
      /\ cooldown' = IF adopt THEN Interval ELSE cooldown
      /\ maxPNAcked' = Max2(maxPNAcked, m.ack)
      /\ migrationAddr' = NewCandidate(m, raddr1, mig1)
      /\ maxRcvdPN' = Max2(maxRcvdPN, m.pn)
      /\ UNCHANGED <<seq, flight, toPeer, peerAddr, peerMaxRcvd, peerSeq, moved>>

\* A NAT rebinding: the peer is now at another address.
PeerMoves ==
  /\ ~moved /\ moved' = TRUE
  /\ \E a \in Addrs \ {peerAddr} : peerAddr' = a
  /\ UNCHANGED <<raddr, migrationAddr, cooldown, seq, flight, maxPNAcked,
                 maxRcvdPN, toPeer, toUs, peerMaxRcvd, peerSeq>>

Tick ==
  /\ cooldown' = IF cooldown > Past THEN cooldown - 1 ELSE Past
  /\ UNCHANGED <<raddr, migrationAddr, seq, flight, maxPNAcked, maxRcvdPN,
                 toPeer, toUs, peerAddr, peerMaxRcvd, peerSeq, moved>>

Next ==
  \/ SendPacket \/ PeerSend \/ PeerMoves \/ Tick
  \/ \E m \in toPeer : DeliverToPeer(m)
  \/ \E m \in toUs : Receive(m)

Spec == Init /\ [][Next]_vars

---------------------------------------------------------------------------
TypeOK ==
  /\ raddr \in Addrs /\ migrationAddr \in Addrs \cup {NoAddr}
  /\ cooldown \in Past .. Interval /\ seq \in 0 .. MaxPN
  /\ \A pn \in DOMAIN flight : flight[pn] \in Addrs \cup {NoAddr}

(* Whenever a migration candidate exists and minMigrationProbeInterval has *)
(* passed since the last probe (or since the address was set), the next   *)
(* packet sent is a probe to the candidate (spec, sending step 4: "if a   *)
(* migration candidate exists and the per-connection probe cooldown has   *)
(* elapsed: mark probe_addr on this packet").                              *)
ProbeWhenDue ==
  [][seq' = seq + 1 /\ migrationAddr # NoAddr /\ cooldown <= 0
     => flight'[seq] = migrationAddr]_vars
=============================================================================

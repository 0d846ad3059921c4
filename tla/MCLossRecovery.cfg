\* Three packets, so that acks grow the window enough for validatedCwnd to
\* halve it; PTO of 2 units above a loss threshold of 1 (the steady state);
\* backoff capped at 1 (the code's 5 only lengthens the timeouts); the peer
\* sends at most two packets.
CONSTANTS
  MaxPN = 3
  PTO = 2
  LossThreshs <- MCLossThreshLow
  MaxAckDelay = 2
  TimerGranularity = 1
  MaxTimeoutBackoff = 1
  MaxPacketSize = 2
  PacketSizes <- MCPacketSizes
  InitialWindow = 1
  MaxWindow = 2
  MaxQueued = 1
  MaxPeerPackets = 2
SPECIFICATION Spec
INVARIANT TypeOK
INVARIANT WindowNotStranded
INVARIANT DecayNeverBlocks

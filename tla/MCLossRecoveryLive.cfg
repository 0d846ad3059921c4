\* Liveness of loss detection, with two packets (the liveness check of
\* three takes too long) and a loss threshold below or above PTO.
CONSTANTS
  MaxPN = 2
  PTO = 2
  LossThreshs <- MCLossThreshs
  MaxAckDelay = 2
  TimerGranularity = 1
  MaxTimeoutBackoff = 1
  MaxPacketSize = 2
  PacketSizes <- MCPacketSizes
  InitialWindow = 1
  MaxWindow = 2
  MaxQueued = 1
  MaxPeerPackets = 2
SPECIFICATION Spec
PROPERTY PacketEventuallyResolved

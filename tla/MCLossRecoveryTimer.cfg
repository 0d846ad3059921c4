\* The timer wake() arms when no deadline is set.
CONSTANTS
  MaxPN = 2
  PTO = 2
  LossThreshs <- MCLossThreshs
  MaxAckDelay = 2
  TimerGranularity = 1
  MaxTimeoutBackoff = 1
  MaxPacketSize = 2
  PacketSizes <- MCPacketSizes
  InitialWindow = 1
  MaxWindow = 2
  MaxQueued = 1
  MaxPeerPackets = 2
SPECIFICATION Spec
PROPERTY TimerArmedForDeadline

CONSTANTS
  A = A
  B = B
  MaxNet = 2
  MaxPNA = 3
  MaxPNB = 2
  Endpoints <- MCEndpoints
  Writer = A
  Window = 2
  WordBits = 1
  MaxBytesInFlight = 2
  StreamLen = 2
  Room = 1
  MaxRead = 1
  MaxRanges = 2
  MaxPN <- MCMaxPN
  MaxIdlePTOs = 0
  MaxPacketSize = 2
  InitialSeqs = {0}
  Duplicating = FALSE
SPECIFICATION Spec
INVARIANT TypeOK
INVARIANT NoProtocolError
INVARIANT NoStreamByteLost
INVARIANT StreamBytesInFlightExact
INVARIANT NoLostWakeup
CHECK_DEADLOCK FALSE
CONSTRAINT NetBound

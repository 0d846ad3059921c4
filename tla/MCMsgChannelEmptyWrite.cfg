CONSTANTS
  MsgLens <- MCMsgLensEmpty
  Room = 1
  MsgWindow = 2
  InitialMsgSeqs = {0}
  Duplicating = FALSE
SPECIFICATION Spec
PROPERTY WriteMsgReturns
CHECK_DEADLOCK FALSE

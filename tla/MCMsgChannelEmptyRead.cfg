CONSTANTS
  MsgLens <- MCMsgLens
  Room = 1
  MsgWindow = 2
  InitialMsgSeqs = {0}
  Duplicating = FALSE
SPECIFICATION Spec
INVARIANT NoEmptyMsg
CHECK_DEADLOCK FALSE

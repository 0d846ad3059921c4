CONSTANTS
  MsgLens <- MCMsgLens
  Room = 1
  MsgWindow = 2
  InitialMsgSeqs = {0, 2}
  Duplicating = TRUE
SPECIFICATION Spec
INVARIANTS TypeOK MsgWholeInOrder
PROPERTIES WriteMsgReturns
\* The users stop after the last message; the connection then idles.
CHECK_DEADLOCK FALSE

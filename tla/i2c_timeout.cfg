SPECIFICATION Spec
CONSTANTS
  MsgLists <- MCMsgLists
  Smp = FALSE
  HdmiPhy = TRUE
  Timely = FALSE
  Retries = 2
  MaxXfer = 2
  MaxSuspend = 1
  MaxSpurious = 1
INVARIANTS
  BufferBounds
  NoNullMessage
  CountedMeansMoved
PROPERTIES
  XferReturns
CHECK_DEADLOCK FALSE

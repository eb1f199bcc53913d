SPECIFICATION Spec
CONSTANTS
  MsgLists <- MCMsgLists
  Smp = FALSE
  HdmiPhy = FALSE
  Timely = TRUE
  Retries = 2
  MaxXfer = 2
  MaxSuspend = 0
  MaxSpurious = 0
INVARIANTS
  HandlerClocked
  DirectionMatches
  LastByteRefused
CHECK_DEADLOCK FALSE

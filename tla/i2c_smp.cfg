SPECIFICATION Spec
CONSTANTS
  MsgLists <- AnyLists
  Smp = TRUE
  HdmiPhy = FALSE
  Timely = TRUE
  Retries = 2
  MaxXfer = 2
  MaxSuspend = 0
  MaxSpurious = 0
INVARIANTS
  TransferKeepsIrq
  HandlerOwnsMessages
CHECK_DEADLOCK FALSE

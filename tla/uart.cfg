SPECIFICATION Spec
CONSTANTS
  NONE = NONE
  Rate <- MCRate
  Configs <- MCConfigs
  Bauds <- MCBauds
  InitBaud = 115200
  MaxDivisor = 20
  Flows = {TRUE, FALSE}
  LowLatency = FALSE
  SuspendClosed = FALSE
  Fails = {"tx", "rx"}
  XmitSize = 2
  FifoSize = 1
  MaxWrite = 2
  MaxRx = 2
  MaxOpen = 2
  MaxSuspend = 1
  MaxTermios = 1
INVARIANTS
  IrqsAgree
  ReceiverOn
  ClocksBalanced
  RateReached
PROPERTIES
  OutputDrains
CHECK_DEADLOCK FALSE

SPECIFICATION Spec
CONSTANTS
  Smp = FALSE
  MayFail = TRUE
  XmitSize = 4
  FifoSize = 2
  MaxWrite <- MCMaxWrite
  MaxOpen = 2
INVARIANTS
  TakenInOrder
  TimerWhileOpen
PROPERTIES
  OutputTaken
CHECK_DEADLOCK FALSE

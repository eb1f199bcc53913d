SPECIFICATION Spec
CONSTANTS
  NONE = NONE
  d1 = d1
  d2 = d2
  m1 = m1
  m2 = m2
  m3 = m3
  m4 = m4
  Devices <- MCDevices
  Dev <- SamePolarity
  ClkFromCmu = FALSE
  SrcRate = 13
  Messages <- MCMessages
  Msg <- DmaMsg
  Aborts = TRUE
  MapFails = TRUE
  PoliteSetup = TRUE
  MaxSuspend = 2
  MaxSetup = 0
INVARIANTS
  ClockedTransfer
  Configured
  ExclusiveCs
  NoMappingLeft
PROPERTIES
  SuspendEnds
  ServesInOrder
CHECK_DEADLOCK FALSE

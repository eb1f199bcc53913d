SPECIFICATION Spec
CONSTANTS
  NONE = NONE
  d1 = d1
  d2 = d2
  m1 = m1
  m2 = m2
  m3 = m3
  m4 = m4
  Devices <- MCDevices
  Dev <- SamePolarity
  ClkFromCmu = TRUE
  SrcRate = 13
  Messages <- MCMixed
  Msg <- MixedMsg
  Aborts = FALSE
  MapFails = TRUE
  PoliteSetup = TRUE
  MaxSuspend = 0
  MaxSetup = 1
INVARIANTS
  SelectedWhileActive
  SuccessMeansMoved
  DmaMapped
PROPERTIES
  AcceptedCompletes
CHECK_DEADLOCK FALSE

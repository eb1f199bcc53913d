SPECIFICATION ControlSpec
CONSTANTS
  NONE = NONE
  Smp = FALSE
  HdmiPhy = TRUE
  KHz = 10
  Rates <- MCRates
  Targets <- MCTargets
  SdaDelay = 200
INVARIANTS
  NeverTooFast
  NotTooSlow
  SdaHeld
  RegisterMerged
CHECK_DEADLOCK FALSE

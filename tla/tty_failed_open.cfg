SPECIFICATION Spec
CONSTANTS
  NONE = NONE
  Users = {u1, u2}
  Smp = FALSE
  Fails = {"port"}
  MaxOpen = 2
INVARIANTS
  FailedOpensUncounted
CHECK_DEADLOCK FALSE

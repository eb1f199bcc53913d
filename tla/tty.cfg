SPECIFICATION Spec
CONSTANTS
  NONE = NONE
  Users = {u1, u2, u3}
  Smp = FALSE
  Fails = {"port", "timer"}
  MaxOpen = 5
INVARIANTS
  CountsOpeners
  TimerMatchesCount
  TimerOnLiveTty
PROPERTIES
  FeedsWhileOpen
CHECK_DEADLOCK FALSE

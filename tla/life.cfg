SPECIFICATION Spec
CONSTANTS
  Drivers <- DriverTable
  Kind <- KindTable
  Statics <- StaticVariables
  Exclusive <- OneOfAKind
  Counted <- UseCounted
  Known <- MCKnown
  Unnoticed <- MCUnnoticed
  Exact = FALSE
INVARIANTS
  NothingKept
  OnlyHeldUsed
CHECK_DEADLOCK FALSE

SPECIFICATION Spec
CONSTANTS
  Command = {c1, c2}
  Window = 3
  MaxTries = 2
  LateRaises = TRUE
INVARIANTS
  NotAppliedTwice
CHECK_DEADLOCK FALSE

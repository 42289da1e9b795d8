SPECIFICATION Spec
CONSTANTS
  Players = 2
  Sockets <- FirstReconnects
  Leavers = {1}
  Lossy = {}
INVARIANTS
  EverybodyHears
  OneSocketServed
  CleanupPrecedesReturn
CHECK_DEADLOCK FALSE

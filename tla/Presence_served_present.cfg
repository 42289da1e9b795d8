SPECIFICATION Spec
CONSTANTS
  Players = 2
  Sockets <- FirstReconnects
  Leavers = {}
  Lossy = {}
INVARIANT ServedArePresent
CHECK_DEADLOCK FALSE

SPECIFICATION Spec
CONSTANTS
  Players = 2
  Sockets <- FirstTwice
  Leavers = {2}
  Lossy = {"command", "greeting", "farewell", "grace", "rest", "inform", "ack"}
INVARIANTS
  TasksAreKnown
  RegisteredRun
PROPERTIES
  
  ImplementsAttendance
CHECK_DEADLOCK FALSE

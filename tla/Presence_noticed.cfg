SPECIFICATION FairSpec
CONSTANTS
  Players = 2
  Sockets <- Once
  Leavers = {2}
  Lossy = {}
PROPERTIES
  
  
  EndpointsEnd
CHECK_DEADLOCK FALSE

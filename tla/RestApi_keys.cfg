SPECIFICATION Spec
CONSTANTS
  Key = {k1, k2}
  Form = {f}
  Ip = {a, b}
  MaxRoomsPerIp = 1
  TTL = 1
  MaxRooms = 2
  MaxPlayers = 3
  MaxNow = 2
INVARIANTS
  OkNamesAMember
  LeftIsLeft
  
  RecordsNameLiveRooms
PROPERTIES
  OnePlayerPerKey
  JoinRetryConfirmed
SYMMETRY Symmetry
CHECK_DEADLOCK FALSE

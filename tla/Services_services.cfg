SPECIFICATION Spec
CONSTANTS
  Player = {p1, p2}
  Room = {r1, r2}
  Ip = {a, b}
  Socket = {s1, s2, s3}
  Loader = {l1, l2}
  Command = {c1, c2, c3}
  Limit = 2
  Span = 3
  MaxSocketsPerIp = 1
  WaitingTTL = 2
  PlayingTTL = 3
  FinishedTTL = 1
  AbandonedTTL = 3
  Interval = 2
  CacheTTL = 2
  Timeout = 1
  MaxEdits = 2
  Window = 2
  MaxTries = 2
  RateEnd = 9
  RoomEnd = 11
  SourceEnd = 6
INVARIANTS
  LimitIsExact
  EntriesAreReleased
  LatestIsCounted
  EmptyRoomGoes
  DealtIsRecent
PROPERTIES
  DeletedOnlyWhenDue
  ImplementsAtMostOnce
CHECK_DEADLOCK FALSE

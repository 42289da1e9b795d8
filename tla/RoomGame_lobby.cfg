SPECIFICATION Spec
CONSTANTS
  MaxJoins = 4
  MaxPlayersChoices = {2, 3}
  WrongAnswerChoices = {"discardCard"}
  CardsPerPlayer = 1
  HandLimit = 0
INVARIANTS
  MembersHoldRoles
  HostNotAbandoned
  WithinCapacity
  EvictAllIsTheLoop
PROPERTIES
  HostMovesOnlyFromAbsent
CHECK_DEADLOCK FALSE

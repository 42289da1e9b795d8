SPECIFICATION Spec
CONSTANTS
  MaxJoins = 3
  MaxPlayersChoices = {3}
  WrongAnswerChoices = {"discardCard"}
  CardsPerPlayer = 1
  HandLimit = 1
INVARIANTS
  TypeOK
  RoundOwnerHoldsTurn
  NoDecidedBallotOpen
  EmptyHandIsOnTheTable
PROPERTIES
  TurnMovesOnlyWhenReleased
  ResultNeedsEveryVoter
  GameEndsForAReason
  ImplementsTurnCycle
CHECK_DEADLOCK FALSE

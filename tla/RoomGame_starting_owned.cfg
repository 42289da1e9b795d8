SPECIFICATION Spec
CONSTANTS
  MaxJoins = 3
  MaxPlayersChoices = {3}
  WrongAnswerChoices = {"discardCard"}
  CardsPerPlayer = 1
  HandLimit = 1
INVARIANT StartingIsOwned
CHECK_DEADLOCK FALSE

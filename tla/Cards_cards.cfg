SPECIFICATION Spec
CONSTANTS
  d0 = d0
  d1 = d1
  d2 = d2
  d3 = d3
  d4 = d4
  Player = {p1, p2}
  Source <- Clubs
  Number <- Numerals
  HandSize = 1
  Behaviors = {"discardCard", "returnToHand"}
  x = x
  y = y
  Answer <- Answers
  MaxDrawn = 2
INVARIANTS
  HandsAreDisjoint
  NoCardTwice
  TableStaysPlayable
  AnswerIsRecalled
SYMMETRY Symmetry
CHECK_DEADLOCK FALSE

\* Two hands of two players; appends and shuffles fail, sessions end and are loaded.
\* The deck has exactly the cards of one hand, so a batch that fails exhausts it.
SPECIFICATION FairSpec
CONSTANTS
  Size = 12
  HandPlayers = 2
  MaxHands = 2
  MaxFaults = 2
  RandFails = TRUE
  MaxDrops = 2
CHECK_DEADLOCK FALSE
INVARIANT NoCardTwice
INVARIANT DeadlineArmed
PROPERTY TurnEnds

\* Refutes HandFromOneShuffle: one append fails and the session stays.
SPECIFICATION Spec
CONSTANTS
  Size = 12
  HandPlayers = 2
  MaxHands = 3
  MaxFaults = 1
  RandFails = FALSE
  MaxDrops = 0
CHECK_DEADLOCK FALSE
INVARIANT HandFromOneShuffle

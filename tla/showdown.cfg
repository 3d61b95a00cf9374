\* Three players on six boards with any two of six cards each, and four players with any
\* commitments of up to three chips.
SPECIFICATION MCSpec
CONSTANTS
  p1 = p1
  p2 = p2
  p3 = p3
  p4 = p4
  Players <- ThreePlayers
  Holders = {p1, p2, p3, p4}
  Layouts <- Boards
  Seated = {p1, p2, p3, p4}
  MaxCommitted = 3
CHECK_DEADLOCK FALSE
INVARIANT BestHandIsBest
INVARIANT WinnersHoldBestHand
INVARIANT PotsFollowLevels

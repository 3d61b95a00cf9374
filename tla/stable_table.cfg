\* Two raked hands of a table whose players come and go between the hands.
SPECIFICATION StableSpec
CONSTANTS
  p1 = p1
  p2 = p2
  p3 = p3
  None = None
  Players = {p1, p2, p3}
  MaxSeats = 3
  SmallBlind = 1
  BigBlind = 2
  Ante = 0
  BBAnte = 0
  RakeBps = 2500
  RakeCap = 1
  MaxRaises = 0
  UncapHeadsUp = FALSE
  MinPlayers = 2
  MinBuyIn = 2
  MaxBuyIn = 0
  ActionTimeout = TRUE
  Balance = 5
  BuyIns = {3, 5}
  SeatRequests = {0}
  HandRanks = {1, 2}
  MaxHands = 2
SYMMETRY Symmetry
INVARIANT ChipsConserved
INVARIANT PotIsCommitments
PROPERTY RoundSettled
PROPERTY WinsAtMostMatched

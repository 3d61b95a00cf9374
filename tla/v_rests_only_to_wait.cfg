\* Refutes RestsOnlyToWait.
SPECIFICATION StableSpec
CONSTANTS
  p1 = p1
  p2 = p2
  p3 = p3
  None = None
  Players = {p1, p2, p3}
  MaxSeats = 3
  SmallBlind = 1
  BigBlind = 2
  Ante = 0
  BBAnte = 0
  RakeBps = 0
  RakeCap = 0
  MaxRaises = 0
  UncapHeadsUp = FALSE
  MinPlayers = 2
  MinBuyIn = 2
  MaxBuyIn = 0
  ActionTimeout = TRUE
  Balance = 4
  BuyIns = {4}
  SeatRequests = {0}
  HandRanks = {1, 2}
  MaxHands = 1
SYMMETRY Symmetry
PROPERTY RestsOnlyToWait

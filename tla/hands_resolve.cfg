\* Liveness on a fixed-limit table with both antes, where stacks may go negative.
\* No symmetry reduction, which is unsound here.
SPECIFICATION FairSpec
CONSTANTS
  p1 = p1
  p2 = p2
  p3 = p3
  None = None
  Players = {p1, p2, p3}
  MaxSeats = 3
  SmallBlind = 1
  BigBlind = 2
  Ante = 1
  BBAnte = 2
  RakeBps = 0
  RakeCap = 0
  MaxRaises = 1
  UncapHeadsUp = TRUE
  MinPlayers = 2
  MinBuyIn = 2
  MaxBuyIn = 0
  ActionTimeout = TRUE
  Balance = 6
  BuyIns = {2, 6}
  SeatRequests = {0}
  HandRanks = {1, 2}
  MaxHands = 1
PROPERTY HandsResolve

\* One raked hand; players join, leave, sit out and come back at any time.
SPECIFICATION Spec
CONSTANTS
  p1 = p1
  p2 = p2
  p3 = p3
  None = None
  Players = {p1, p2, p3}
  MaxSeats = 3
  SmallBlind = 1
  BigBlind = 2
  Ante = 0
  BBAnte = 0
  RakeBps = 2500
  RakeCap = 1
  MaxRaises = 0
  UncapHeadsUp = FALSE
  MinPlayers = 2
  MinBuyIn = 2
  MaxBuyIn = 0
  ActionTimeout = TRUE
  Balance = 4
  BuyIns = {4}
  SeatRequests = {0, 3}
  HandRanks = {1, 2}
  MaxHands = 1
SYMMETRY Symmetry
INVARIANT TypeOK
INVARIANT ActingIsFirstPending
INVARIANT StacksAndBetsSound
INVARIANT NoChipsCreated
PROPERTY AdvanceTerminates
PROPERTY FoldedStaysOut

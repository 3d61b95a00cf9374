\* Refutes LeaveAtomic: a statement fails while a player leaves.
SPECIFICATION Spec
CONSTANTS
  r1 = r1
  u1 = u1
  u2 = u2
  g1 = g1
  g2 = g2
  i1 = i1
  d1 = d1
  None = None
  Users = {u1, u2}
  Games = {g1, g2}
  PoolSize = 3
  MaxFaults = 1
  ReportCalls = {r1}
  Reports = {i1}
  StepCounts = {1}
  Days = {d1}
  Caps = {0}
  LobbyCalls <- JoinAndLeave
  MaxSeats = 2
  MinBuyIn = 1
  MaxBuyIn = 2
  MaxCalls = 2
  MaxPlays = 0
  InitialChips = 2
CHECK_DEADLOCK FALSE
INVARIANT LeaveAtomic

\* Reports of a new user that overlap, are repeated, capped and booked on two dates.
SPECIFICATION Spec
CONSTANTS
  r1 = r1
  r2 = r2
  r3 = r3
  u1 = u1
  u2 = u2
  a = a
  i1 = i1
  i2 = i2
  d1 = d1
  d2 = d2
  None = None
  Users = {u1, u2}
  PoolSize = 2
  MaxFaults = 1
  Subs = {a}
  Requests = {r1, r2, r3}
  ReportCalls = {r1, r2, r3}
  Reports = {i1, i2}
  StepCounts = {1, 3}
  Days = {d1, d2}
  Caps = {0, 2}
SYMMETRY Symmetry
CHECK_DEADLOCK FALSE
INVARIANT OneAccount
INVARIANT StepsCreditedOnce
PROPERTY CapRespected

\* Two copies of a join or leave that race each other and a session, failing store calls, restarts.
SPECIFICATION Spec
CONSTANTS
  c1 = c1
  j1 = j1
  a = a
  b = b
  s1 = s1
  s2 = s2
  None = None
  Server = Server
  Commands = {c1}
  MaxAttempts = 1
  LobbyIds = {j1}
  LobbyCopies = {a, b}
  Sessions = {s1, s2}
  InboxSize = 1
  MaxBatch = 2
  MaxTimeouts = 1
  Unreliable = TRUE
SYMMETRY Symmetry
CHECK_DEADLOCK FALSE
INVARIANT LogContiguous
INVARIANT StatePersisted
INVARIANT RepliesPersisted
PROPERTY LobbyDecidesOnLog
PROPERTY LobbyOnce
PROPERTY ImplementsEventLog

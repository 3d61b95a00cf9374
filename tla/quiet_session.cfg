\* Nobody joins or leaves and the store works; a command is sent three times.  Safety
\* and liveness of Submit, without symmetry reduction, which is unsound for the latter.
SPECIFICATION FairSpec
CONSTANTS
  c1 = c1
  s1 = s1
  s2 = s2
  None = None
  Server = Server
  Commands = {c1}
  MaxAttempts = 3
  LobbyIds = {}
  LobbyCopies = {}
  Sessions = {s1, s2}
  InboxSize = 2
  MaxBatch = 2
  MaxTimeouts = 1
  Unreliable = FALSE
CHECK_DEADLOCK FALSE
INVARIANT StateIsLog
INVARIANT OneWriter
PROPERTY SubmitReturns

SPECIFICATION Spec
CONSTANTS
  s1 = s1
  s2 = s2
  c1 = c1
  None = None
  Servers = {s1}
  Clients = {c1}
  Requests <- AllRequests
  MayUnlink <- OwnOnly
  MaxRunning = 1
  MaxSignals = 0
  MaxKills = 0
  Backlog = 1
INVARIANTS
  ExitCodeIsTheStatus
CHECK_DEADLOCK FALSE

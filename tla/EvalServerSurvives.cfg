SPECIFICATION Spec
CONSTANTS
  s1 = s1
  s2 = s2
  c1 = c1
  None = None
  Servers = {s1}
  Clients = {c1}
  Requests <- AllRequests
  MayUnlink <- OwnOnly
  MaxRunning = 1
  MaxSignals = 0
  MaxKills = 1
  Backlog = 1
INVARIANTS
  ServerSurvivesClients
CHECK_DEADLOCK FALSE

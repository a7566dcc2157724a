SPECIFICATION FairSpec
CONSTANTS
  s1 = s1
  s2 = s2
  c1 = c1
  c2 = c2
  None = None
  Servers = {s1, s2}
  Clients = {c1, c2}
  Requests <- AllRequests
  MayUnlink <- RootIsSecond
  MaxRunning = 2
  MaxSignals = 1
  MaxKills = 1
  Backlog = 0
INVARIANTS
  TypeOK
  NobodyIsForgotten
  ResponsesAreTrue
  FailedStartsHaveACause
  CrashesHaveACause
PROPERTIES
  ClientsEnd
CHECK_DEADLOCK FALSE

CONSTANTS
  c1 = c1
  p1 = p1
  p2 = p2
  k1 = k1
  v1 = v1
  v2 = v2
  ClusterSize = 3
  ClientIds = {c1}
  ClientProcesses = {p1}
  Keys = {k1}
  Values = {v1, v2}
  NoClient = NoClient
  Closed = Closed
  self_client_id <- OneClientId
  Requests <- OneSet
  Targets = {1}
  PingTargets = {}
  InitialLinks <- AllLinks
  CrashTargets = {0, 1, 2}
  MaxRequests = 1
  MaxTimeouts = 0
  MaxDrops = 0
  MaxCrashes = 0
  MaxRestarts = 0
  MaxInFlight = 1
  MaxQueue = 3
  MaxPosted = 1
SPECIFICATION FairSpec
PROPERTIES
  StuckIsTemporary
CHECK_DEADLOCK FALSE

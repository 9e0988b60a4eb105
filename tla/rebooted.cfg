CONSTANTS
  c1 = c1
  p1 = p1
  p2 = p2
  k1 = k1
  v1 = v1
  v2 = v2
  ClusterSize = 3
  ClientIds = {c1}
  ClientProcesses = {p1}
  Keys = {k1}
  Values = {v1, v2}
  NoClient = NoClient
  Closed = Closed
  self_client_id <- OneClientId
  Requests <- OneSet
  Targets = {0}
  PingTargets = {}
  InitialLinks <- AllLinks
  CrashTargets = {1, 2}
  MaxRequests = 1
  MaxTimeouts = 1
  MaxDrops = 0
  MaxCrashes = 1
  MaxRestarts = 1
  MaxInFlight = 0
  MaxQueue = 3
  MaxPosted = 1
SPECIFICATION Spec
INVARIANTS
  PrimaryHoldsLedger
CHECK_DEADLOCK FALSE

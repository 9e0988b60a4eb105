CONSTANTS
  c1 = c1
  p1 = p1
  p2 = p2
  k1 = k1
  v1 = v1
  v2 = v2
  ClusterSize = 3
  ClientIds = {c1}
  ClientProcesses = {p1}
  Keys = {k1}
  Values = {v1, v2}
  NoClient = NoClient
  Closed = Closed
  self_client_id <- OneClientId
  Requests <- OneSet
  Targets = {0}
  PingTargets = {}
  InitialLinks <- WithoutReplica2
  CrashTargets = {0, 1, 2}
  MaxRequests = 2
  MaxTimeouts = 1
  MaxDrops = 0
  MaxCrashes = 0
  MaxRestarts = 0
  MaxInFlight = 0
  MaxQueue = 2
  MaxPosted = 1
SPECIFICATION Spec
INVARIANTS
  IInv
  LedgerOnQuorum
  NoDoubleVote
  PrimaryHoldsLedger
  StoreIsReplay
CHECK_DEADLOCK FALSE

CONSTANTS
  c1 = c1
  c2 = c2
  p1 = p1
  k1 = k1
  v1 = v1
  ClusterSize = 3
  ClientIds = {c1, c2}
  ClientProcesses = {p1}
  Keys = {k1}
  Values = {v1}
  NoClient = NoClient
  Closed = Closed
  Self = 0
  Inputs <- MCInputs
SPECIFICATION Spec
INVARIANTS
  LoopsMatchClosedForm
  LogSurvivesTheWire
CHECK_DEADLOCK FALSE

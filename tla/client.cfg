SPECIFICATION Spec
CONSTANTS
  QueueDepth = 8
  TotalReplicas = 2
  Null = Null
  MaxCommands = 2
  MaxBreaks = 1
  MaxRefusals = 1
INVARIANTS
  TypeOK
  OneLifeline
  FailoverFinds
  LostOnlyIfBroken
CHECK_DEADLOCK FALSE

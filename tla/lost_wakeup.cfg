SPECIFICATION FairSpec
CONSTANTS
  QueueDepth = 8
  TotalReplicas = 1
  Null = Null
  MaxCommands = 1
  MaxBreaks = 0
  MaxRefusals = 0
PROPERTIES
  PostedWorkRuns
CHECK_DEADLOCK FALSE

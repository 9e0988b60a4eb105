SPECIFICATION FairSpec
CONSTANTS
  ServerCount = 2
  Null = Null
  Client = Client
  Kinds = {"big"}
  MaxFd = 3
  MaxStreams = 3
  MaxClients = 0
  MaxMessages = 1
  MaxFaults = 0
PROPERTIES
  Reconnects
CHECK_DEADLOCK FALSE

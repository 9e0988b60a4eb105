SPECIFICATION Spec
CONSTANTS
  ServerCount = 2
  Null = Null
  Client = Client
  Kinds = {"bare", "full", "big"}
  MaxFd = 3
  MaxStreams = 2
  MaxClients = 1
  MaxMessages = 2
  MaxFaults = 1
INVARIANTS
  TypeOK
  ConnectionsInv
  FreshBuffer
  OneAttempt
  EndIsNoticed
PROPERTIES
  ImplementsChannel
CHECK_DEADLOCK FALSE

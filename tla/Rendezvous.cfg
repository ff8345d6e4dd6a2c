CONSTANTS
  Id = {a, b, c}
  NullId = NullId
  NumPriorities = 2
  SpawnPriority = {1}
  MaxMsgs = 2
  Name = {}
  MaxDrivers = 0
  ReuseLeftover = FALSE
  MaxNodes = 3
  SystemCall = {"IPC_SEND", "IPC_RECV", "YIELD"}
  Interrupt = {}
SPECIFICATION FairSpec
INVARIANTS
  Rendezvous
PROPERTIES
  RoundRobin

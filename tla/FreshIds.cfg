CONSTANTS
  Id = {a, b, c}
  NullId = NullId
  NumPriorities = 2
  SpawnPriority = {0, 1, 2}
  MaxMsgs = 1
  Name = {}
  MaxDrivers = 0
  ReuseLeftover = FALSE
  MaxNodes = 3
  SystemCall = {"IPC_SEND", "IPC_RECV", "YIELD", "EXIT", "KILL", "SPAWN"}
  Interrupt = {"timer", "gpio", "abort"}
SYMMETRY IdSymmetry
SPECIFICATION Spec
INVARIANTS
  RunQueuesConsistent
  RunningReady
PROPERTIES
  HighestPriority

CONSTANTS
  Id = {a, b}
  NullId = NullId
  NumPriorities = 1
  SpawnPriority = {0}
  MaxMsgs = 1
  Name = {}
  MaxDrivers = 0
  ReuseLeftover = FALSE
  MaxNodes = 1
  SystemCall = {"IPC_SEND", "IPC_RECV", "KILL", "YIELD"}
  Interrupt = {"undefined"}
SYMMETRY IdSymmetry
SPECIFICATION Spec
PROPERTIES
  UndefinedHandled

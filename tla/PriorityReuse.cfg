CONSTANTS
  Id = {a, b, c}
  NullId = NullId
  NumPriorities = 2
  SpawnPriority = {0, 1}
  MaxMsgs = 1
  Name = {}
  MaxDrivers = 0
  ReuseLeftover = TRUE
  MaxNodes = 2
  SystemCall = {"YIELD", "KILL", "SPAWN"}
  Interrupt = {}
SYMMETRY IdSymmetry
SPECIFICATION Spec
PROPERTIES
  HighestPriority

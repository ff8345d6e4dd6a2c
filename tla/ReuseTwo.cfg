CONSTANTS
  Id = {a, b}
  NullId = NullId
  NumPriorities = 2
  SpawnPriority = {0, 1, 2}
  MaxMsgs = 1
  Name = {"uart"}
  MaxDrivers = 1
  ReuseLeftover = TRUE
  MaxNodes = 1
  SystemCall = {"IPC_SEND", "IPC_RECV", "YIELD", "PRINT", "EXIT", "KILL", "IPC_SEND_DRIVER", "DRIVER_REGISTER", "SPAWN"}
  Interrupt = {"timer", "uart", "gpio", "abort", "undefined"}
SYMMETRY IdSymmetry
SPECIFICATION Spec
INVARIANTS
  TypeOK
  NoLostProcess
  LoadUnpreempted
  ExecutingLive
  FlagHasNode
  ReadyFlagged
  BlockedReceiverEmpty
  BlockedSenderPending

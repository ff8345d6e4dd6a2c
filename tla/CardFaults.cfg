CONSTANTS
  BaseClock = {2003, 2500}
  ClockId = 4
  ClockNormal = 250
  Block = {0, 1}
  MaxCount = 2
  Units = 2
  MaxRetries = 3
  Cards = {"v1", "v2", "sdhc", "uhs"}
  InitFaults = TRUE
  Abandonable = TRUE
  FlagRaces = TRUE
  UpsetTo = {"idle", "ident", "stby"}
  MaxUpsets = 1
SPECIFICATION Spec
INVARIANTS
  TypeOK
  CopiesRequestedBlock
  CircuitIdle
  ClockFits

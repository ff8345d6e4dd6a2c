CONSTANTS
  BaseClock = {2500}
  ClockId = 4
  ClockNormal = 250
  Block = {0, 1, 2, 3}
  MaxCount = 3
  Units = 3
  MaxRetries = 3
  Cards = {"v1", "v2", "sdhc", "uhs"}
  InitFaults = FALSE
  Abandonable = FALSE
  FlagRaces = FALSE
  UpsetTo = {"idle", "ident", "stby"}
  MaxUpsets = 2
SPECIFICATION FairSpec
PROPERTIES
  KeepsPromise

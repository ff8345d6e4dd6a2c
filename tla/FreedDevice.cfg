CONSTANTS
  BaseClock = {2500}
  ClockId = 4
  ClockNormal = 250
  Block = {0, 1, 2}
  MaxCount = 2
  Units = 2
  MaxRetries = 3
  Cards = {"sdhc"}
  InitFaults = TRUE
  Abandonable = FALSE
  FlagRaces = FALSE
  UpsetTo = {"idle", "stby"}
  MaxUpsets = 0
SPECIFICATION Spec
PROPERTIES
  TriesAgain

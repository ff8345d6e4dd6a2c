CONSTANTS
  Volumes <- MCVolumes
  Paths <- MCPaths
  Lower <- MCLower
  Sector = 8
  EntrySize = 4
  Limit12 = 5
  Limit16 = 12
  BadMark = 55
  MaxSize = 20
  Wrap = 1000
  MaxFaults = 2
SPECIFICATION FairSpec
INVARIANTS
  TypeOK
  LoadsNamedFile
  RootFileOrError
PROPERTIES
  LoadReturns

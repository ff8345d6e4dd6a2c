CONSTANTS
  Volumes <- Volumes32
  Paths <- MissingPaths
  Lower <- MCLower
  Sector = 8
  EntrySize = 4
  Limit12 = 5
  Limit16 = 12
  BadMark = 55
  MaxSize = 20
  Wrap = 1000
  MaxFaults = 0
SPECIFICATION Spec
PROPERTIES
  NodeOfSegment

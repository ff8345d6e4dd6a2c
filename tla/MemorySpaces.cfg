CONSTANTS
  Id = {p1, p2, p3}
  NullId = kernel
  Phys = 7
  IoBase = 6
  FirstSlot = 2
  TableSize = 7
  LinkedAt = {1}
  MapTargets = {3, 6}
  MaxMaps = 2
  KeepFree = 2
  Interrupt = {"gpio", "abort"}
SYMMETRY IdSymmetry
SPECIFICATION Spec
INVARIANTS
  TypeOK
  OwnSections
  OwnAddressSpace
VIEW AllButContent

SPECIFICATION Spec
CONSTANTS
  Idx <- TwoIdx
  Levels = 2
  Hole = Hole
  TsegPages <- LastPage
  TlbLimit = 1
  UsedPages <- AndHole
  HostPages <- FirstPage
  HostFlags <- UserFlags
  DemandMap = TRUE
  Smep = TRUE
  MaxFrames = 5
  MaxSpaces = 2
INVARIANTS
  TypedCoherent
PROPERTIES
  ImplementsAddressSpace
CHECK_DEADLOCK FALSE

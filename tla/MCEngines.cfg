CONSTANTS
  Codes <- Shorter
  MaxDepth = 3
  RunPolicy = "continue"
  RunMaxSteps = 2
  RunMaxDepth = 2
SPECIFICATION EnginesSpec
CHECK_DEADLOCK FALSE
INVARIANT EnginesTypeOK
INVARIANT RunContinues
PROPERTY FaultsOnlyAround
INVARIANT RunOrderly
PROPERTY RunEnds

CONSTANTS
  Codes <- Short
  MaxDepth = 3
SPECIFICATION HybridSpec
INVARIANT HandoffExact

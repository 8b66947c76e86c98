SPECIFICATION Spec
CONSTANTS
  Ways = 3
  Policy = "lru"
  Kind = "May"
  NumSets = 1
  Lines = {0, 1, 2, 3}
  MissPenalty = 15
  Device = "lru"
  ColdStart = TRUE
  DataCosts = {}
  Reentry = FALSE
INVARIANTS
  StateDescribesDevice
  AlwaysMissMisses

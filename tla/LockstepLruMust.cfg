SPECIFICATION Spec
CONSTANTS
  Ways = 2
  Policy = "lru"
  Kind = "Must"
  NumSets = 2
  Lines = {0, 1, 2, 3, 4}
  MissPenalty = 15
  Device = "lru"
  ColdStart = FALSE
  DataCosts = {2}
  Reentry = TRUE
INVARIANTS
  TypeOK
  StateDescribesDevice
  WaitIsCharged

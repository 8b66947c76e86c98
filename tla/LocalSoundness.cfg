SPECIFICATION SSpec
CONSTANTS
  Node <- MCNode
  EntryNode = 0
  Programs <- MCPrograms
  Initial <- getInitialState
  Transfer <- blockState
  BlockCost <- blockCost
  JoinPreds <- joinStates
  Ordered <- ascending
  Machine <- DeviceCaches
  Describes <- describes
  Outcomes <- blockOutcomes
  NoNode = NoNode
  Ways = 2
  Policy = "unknown"
  Kind = "Must"
  NumSets = 1
  Lines = {2, 3, 4}
  MissPenalty = 15
  Device = "any"
  FRAMStart = 4
  LastNode = 2
  LineWords = 2
  DataAccessCost = 1
  Bodies = {"line", "store", "empty"}
  Shapes = {"merge"}
INVARIANT CacheLocallySound
CHECK_DEADLOCK FALSE

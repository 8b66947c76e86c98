SPECIFICATION SSpec
CONSTANTS
  Node <- MCNode
  EntryNode = 0
  Programs <- MCPrograms
  Initial <- getInitialState
  Transfer <- blockState
  BlockCost <- blockCost
  JoinPreds <- joinStates
  Ordered <- ascending
  Machine <- DeviceCaches
  Describes <- describes
  Outcomes <- blockOutcomes
  NoNode = NoNode
  Ways = 2
  Policy = "lru"
  Kind = "Must"
  NumSets = 1
  Lines <- MCLines
  MissPenalty = 15
  Device = "lru"
  FRAMStart = 4
  LastNode = 3
  LineWords = 2
  DataAccessCost = 1
  Bodies = {"line", "call"}
  Shapes = {"loop", "diamond"}
INVARIANT ProcessedBlockIsCovered
CHECK_DEADLOCK FALSE

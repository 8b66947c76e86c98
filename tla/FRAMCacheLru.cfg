SPECIFICATION SFairSpec
CONSTANTS
  Node <- MCNode
  EntryNode = 0
  Programs <- MCPrograms
  Initial <- getInitialState
  Transfer <- blockState
  BlockCost <- blockCost
  JoinPreds <- joinStates
  Ordered <- ascending
  Machine <- DeviceCaches
  Describes <- describes
  Outcomes <- blockOutcomes
  NoNode = NoNode
  Ways = 2
  Policy = "lru"
  Kind = "Must"
  NumSets = 1
  Lines <- MCLines
  MissPenalty = 15
  Device = "lru"
  FRAMStart = 4
  LastNode = 3
  LineWords = 2
  DataAccessCost = 1
  Bodies = {"short", "line", "store"}
  Shapes = {"loop", "diamond", "selfloop", "irreducible"}
INVARIANTS
  TypeOK
  SolvedUnlessWaiting
  UntouchedUntilReached
  OutStateDescribes
  ProcessedBlockIsCovered
PROPERTIES
  Termination
  ImplementsIteration
CHECK_DEADLOCK FALSE

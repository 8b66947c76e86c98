CONSTANTS
  Entry = Entry
  Exit = Exit
  NoGraph = NoGraph
  NoFile = NoFile
  NoLatency = NoLatency
  Window = 200
  Selected = {"loopAndCalls", "nestedLoops", "threeLoops", "switchLoop", "switchToTest", "nestedBackwards", "selfRecursion", "mutualRecursion", "noReturn", "endless"}
  Uninitialised = {0, 1}
  MaxDepth = 6
  Programs <- MCPrograms
SPECIFICATION Spec
INVARIANTS
  TypeOK
  ExecutionIsAPath
  ExecutionIsFeasible
  TimeIsCovered
  NothingIsFree
  RecursionIsReported
  BoundsAreKept
CHECK_DEADLOCK FALSE

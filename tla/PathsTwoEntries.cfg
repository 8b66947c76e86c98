CONSTANTS
  Entry = Entry
  Exit = Exit
  NoGraph = NoGraph
  NoFile = NoFile
  NoLatency = NoLatency
  Window = 200
  Selected = {"bothEntries"}
  Uninitialised = {0, 1}
  MaxDepth = 6
  Programs <- MCPrograms
SPECIFICATION Spec
INVARIANT ExecutionIsFeasible
CHECK_DEADLOCK FALSE

CONSTANTS
  Entry = Entry
  Exit = Exit
  NoGraph = NoGraph
  NoFile = NoFile
  NoLatency = NoLatency
  Window = 200
  Selected = {"deadLoop"}
  Uninitialised = {0, 1}
  MaxDepth = 6
  Programs <- MCPrograms
SPECIFICATION Spec
INVARIANT NothingIsFree
CHECK_DEADLOCK FALSE

SPECIFICATION PSpec
CONSTANTS
  Programs <- MCPrograms
  Functions <- MCFunctions
  CacheCost <- MCCacheCost
  NoEncoding = NoEncoding
  NoLatency = NoLatency
  NoStart = NoStart
  NoElf = NoElf
  NoAddress = NoAddress
  MaxInstructionWords = 3
  ResyncWindow = 2
  Alphabet = {"mov", "store", "kill"}
  MaxLength = 2
  Scopes = FALSE
INVARIANTS
  DirectivesTakeNothing
CHECK_DEADLOCK FALSE

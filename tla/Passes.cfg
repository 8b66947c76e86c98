SPECIFICATION PSpec
CONSTANTS
  Programs <- MCPrograms
  Functions <- MCFunctions
  CacheCost <- MCCacheCost
  NoEncoding = NoEncoding
  NoLatency = NoLatency
  NoStart = NoStart
  NoElf = NoElf
  NoAddress = NoAddress
  MaxInstructionWords = 3
  ResyncWindow = 2
  Alphabet = {"mov", "add", "deref", "call", "cfi", "kill", "asm", "asm3"}
  MaxLength = 3
  Scopes = TRUE
INVARIANTS
  AddressTypeOK
  AddressesIncrease
  NeverAhead
  DriftEndsAtAnchors
  SilentMeansExact
  BlockTimeIsCovered
  CallsEndBlocks
  ScopeCoversAnalysis
PROPERTIES
  ImplementsResolver
CHECK_DEADLOCK FALSE

CONSTANTS
  PT_FILE_BLOCK_SIZE = 64
  OffSpace = 320
  NameLen <- MCNameLen
  Symbols <- MCSymbols
  Code <- MCCode
  MAX_FILTER_SYMBOL = 1024
  Params <- MCParams
  Branches <- MCBranches
  Errors <- MCErrors
  MaxDecoded = 3
  KeySpace = 1000
  CacheLimit = 4
  MaxKilled = 2
  MaxStray = 1
SPECIFICATION Spec
INVARIANTS WellPlaced
PROPERTIES StreamImplemented AllArrive
CHECK_DEADLOCK FALSE

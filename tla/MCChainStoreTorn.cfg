SPECIFICATION Spec
CONSTANTS
  Genesis <- MCGenesis
  ZeroHash = ZeroHash
  Absent = Absent
  Empty = Empty
  Garbage = Garbage
  NewlineHashes <- NoNewlines
  MAX_BLOCKS = 3
  MAX_CRASHES = 1
PROPERTY SavedChainStartsAgain
CHECK_DEADLOCK FALSE

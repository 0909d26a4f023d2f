SPECIFICATION Spec
CONSTANTS
  Genesis <- MCGenesis
  ZeroHash = ZeroHash
  Absent = Absent
  Empty = Empty
  Garbage = Garbage
  NewlineHashes <- FirstHashHasNewline
  MAX_BLOCKS = 3
  MAX_CRASHES = 1
PROPERTY IdleStopStartsAgain
CHECK_DEADLOCK FALSE

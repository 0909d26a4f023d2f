SPECIFICATION Spec
CONSTANTS
  Genesis <- MCGenesis
  ZeroHash = ZeroHash
  Absent = Absent
  Empty = Empty
  Garbage = Garbage
  NewlineHashes <- OneHashHasNewline
  MAX_BLOCKS = 6
  MAX_CRASHES = 4
INVARIANTS TypeOK NeverRefuses ChainComplete HeightDrift
PROPERTIES CleanRestartResumes RestartLandsNear
CHECK_DEADLOCK FALSE

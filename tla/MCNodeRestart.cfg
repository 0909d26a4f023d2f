SPECIFICATION Spec
CONSTANTS
  ULONG_MOD = 256
  UINT_MOD = 16
  BLOCK_REWARD = 4
  DESIRED_NUM_TX = 10
  Foreign = Foreign
  MAX_TX_ID = 4
  Genesis <- MCGenesis
  ZeroHash = ZeroHash
  Absent = Absent
  Empty = Empty
  Garbage = Garbage
  NewlineHashes <- NoNewlines
  AMOUNTS = {3, 251}
  FEES = {5}
  OWN_DESTS = TRUE
  MAX_BLOCKS = 4
  MAX_HALTS = 2
INVARIANT SpentOnce
PROPERTY RejectedOnlyFor
CHECK_DEADLOCK FALSE

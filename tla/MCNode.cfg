SPECIFICATION FairSpec
CONSTANTS
  ULONG_MOD = 256
  UINT_MOD = 16
  BLOCK_REWARD = 4
  DESIRED_NUM_TX = 10
  Foreign = Foreign
  MAX_TX_ID = 5
  Genesis <- MCGenesis
  ZeroHash = ZeroHash
  Absent = Absent
  Empty = Empty
  Garbage = Garbage
  NewlineHashes <- NoNewlines
  AMOUNTS = {3}
  FEES = {0, 1}
  OWN_DESTS = FALSE
  MAX_BLOCKS = 4
  MAX_HALTS = 1
INVARIANTS TypeOK UnspentBacked MempoolSpendable PoolsFollowChain WalletMirrorsPool KeysKept SpentIffPending
PROPERTIES RejectedOnlyFor LedgerSpec CommandsEnd
CHECK_DEADLOCK FALSE

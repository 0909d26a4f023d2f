SPECIFICATION FairSpec
CONSTANTS
  out1 = out1
  out2 = out2
  out3 = out3
  MAX_BLOCK_TXS = 2
  Txs <- MCTxs
  Blocks <- MCBlocks
INVARIANTS TypeOK MappingExact
PROPERTIES PurgeComplete ArrivalOrderKept ImplementsPool UpdateTerminates
CHECK_DEADLOCK FALSE

---------------------------- MODULE HandleBlock ----------------------------
(***************************************************************************)
(* blocks/create_block.c, blocks/validate_block.c and blocks/handle_block.c*)
(* over the databases they touch: a block is put together from the front   *)
(* of the mempool, validated against the UTXO pool, and accepted in three  *)
(* parts: the chain (Blockchain), the UTXO and wallet pools (here, one     *)
(* action per LevelDB write), the mempool (Mempool).                       *)
(***************************************************************************)
EXTENDS Wallet, Blockchain

VARIABLES
  utxo_pool,    \* LevelDB: outpoint -> [amt, key]
  block,        \* the block being handled
  pool_tx,      \* update_UTXO_pool_and_wallet_pool: i, counted from 1
  pool_out,     \* and j, counted from 1
  pool_in,      \* and k, counted from 1
  half,         \* it has written to the UTXO pool and goes on to the wallet
  mempool, utxo_to_tx, exited, confirmed, cur_tx, cur_in   \* see Mempool

M == INSTANCE Mempool WITH Txs <- {}, Blocks <- {}

poolDisk == <<utxo_pool, wallet_pool, key_pool>>
poolLoop == <<pool_tx, pool_out, pool_in, half>>

\* A block that is handled has two fields more than the chain needs: hash_met,
\* the header hash has its leading zeros; all_tx_match, the header's all_tx is
\* the hash of the transactions.
NoBlock == [hash |-> Genesis, prev |-> ZeroHash, txs |-> <<>>,
            hash_met |-> FALSE, all_tx_match |-> FALSE]

HandleBlockInit ==
  /\ utxo_pool = <<>>
  /\ block = NoBlock
  /\ pool_tx = 1 /\ pool_out = 1 /\ pool_in = 1 /\ half = FALSE

-----------------------------------------------------------------------------
(* create_block                                                            *)

Smaller(m, n) == IF m < n THEN m ELSE n

\* get_txs_from_mempool: the oldest transactions, up to the target.
TxsFromMempool == SubSeq(mempool, 1, Smaller(DESIRED_NUM_TX, Len(mempool)))

\* calc_tx_fees finds every input; otherwise the process exits.
FeesKnown == \A n \in DOMAIN TxsFromMempool : FeesComputable(TxsFromMempool[n], utxo_pool)

\* Mutant of CoinbaseTx: the fees are forgotten.
CoinbaseTxWithoutFees(id) ==
  [id |-> id, inputs |-> <<>>, outputs |-> <<[amt |-> BLOCK_REWARD, key |-> id]>>]

\* create_coinbase_tx, with a new key.
CoinbaseTx(id) ==
  [id |-> id, inputs |-> <<>>,
   outputs |-> <<[amt |-> CoinbaseAmount(MinerFees(TxsFromMempool, utxo_pool)),
                  key |-> id]>>]

\* The hash that mine_block's search ends with is no other block's.
FreshHash == CHOOSE h \in 1..(Count + 1) : ~Found(h)

NewBlock(id) ==
  [hash |-> FreshHash, prev |-> top_block_header_hash,
   txs |-> <<CoinbaseTx(id)>> \o TxsFromMempool, hash_met |-> TRUE, all_tx_match |-> TRUE]

\* create_block: the coinbase key is stored before there is a block.
CreateBlock(id) ==
  /\ FeesKnown
  /\ block' = NewBlock(id)
  /\ key_pool' = key_pool \cup {id}
  /\ UNCHANGED <<utxo_pool, wallet_pool, poolLoop>>

-----------------------------------------------------------------------------
(* validate_block.  The last check, validate_block_double_spend, is run,   *)
(* but its result is not looked at.                                        *)
ValidateBlock(b) ==
  CASE ~b.hash_met                                     -> 1
    [] b.hash_met /\ ValidatePrevBlockExists(b) # 0    -> 2
    [] OTHER ->
       IF ~b.all_tx_match THEN 3
       ELSE IF ValidateIncomingBlockTxs(b.txs, utxo_pool) # 0 THEN 4 ELSE 0

-----------------------------------------------------------------------------
(* update_UTXO_pool_and_wallet_pool: for each transaction, first every     *)
(* output, then every input, each in the UTXO pool, then in the wallet.    *)
(* One action per LevelDB write.                                           *)

CurrentTx == block.txs[pool_tx]
PoolsDone == pool_tx > Len(block.txs)

StartUpdatePools ==
  /\ pool_tx' = 1 /\ pool_out' = 1 /\ pool_in' = 1 /\ half' = FALSE
  /\ UNCHANGED <<poolDisk, block>>

\* Mutant of PutOutput: the wallet entry is written before the UTXO.
PutOutputSwapped ==
  LET out == Outpoint(CurrentTx, pool_out)
      output == CurrentTx.outputs[pool_out]
      mine == Unlockable(output)
  IN  /\ pool_out <= Len(CurrentTx.outputs)
      /\ IF mine /\ ~half
         THEN /\ wallet_pool' = Put(wallet_pool, out, WalletEntry(output))
              /\ half' = TRUE
              /\ UNCHANGED <<utxo_pool, pool_out>>
         ELSE /\ utxo_pool' = Put(utxo_pool, out, output)
              /\ half' = FALSE /\ pool_out' = pool_out + 1
              /\ UNCHANGED wallet_pool
      /\ UNCHANGED <<key_pool, block, pool_tx, pool_in>>

\* Mutant of PutOutput: no change goes to the wallet.
PutOutputFirst ==
  LET out == Outpoint(CurrentTx, pool_out)
      output == CurrentTx.outputs[pool_out]
      mine == pool_out = 1 /\ Unlockable(output)
  IN  /\ pool_out <= Len(CurrentTx.outputs)
      /\ IF ~half
         THEN utxo_pool' = Put(utxo_pool, out, output) /\ UNCHANGED wallet_pool
         ELSE wallet_pool' = Put(wallet_pool, out, WalletEntry(output)) /\ UNCHANGED utxo_pool
      /\ half' = (mine /\ ~half)
      /\ pool_out' = IF half' THEN pool_out ELSE pool_out + 1
      /\ UNCHANGED <<key_pool, block, pool_tx, pool_in>>

\* utxo_pool_add_leveldb; if the output can be unlocked,
\* wallet_pool_build_add_leveldb, too.
PutOutput ==
  LET out == Outpoint(CurrentTx, pool_out)
      output == CurrentTx.outputs[pool_out]
  IN  /\ pool_out <= Len(CurrentTx.outputs)
      /\ IF ~half
         THEN utxo_pool' = Put(utxo_pool, out, output) /\ UNCHANGED wallet_pool
         ELSE wallet_pool' = Put(wallet_pool, out, WalletEntry(output)) /\ UNCHANGED utxo_pool
      /\ half' = (~half /\ Unlockable(output))
      /\ pool_out' = IF half' THEN pool_out ELSE pool_out + 1
      /\ UNCHANGED <<key_pool, block, pool_tx, pool_in>>

\* Mutant of DeleteInput: spent outputs stay in the wallet.
DeleteInputUtxo ==
  LET out == CurrentTx.inputs[pool_in].prev
  IN  /\ pool_out > Len(CurrentTx.outputs) /\ pool_in <= Len(CurrentTx.inputs)
      /\ utxo_pool' = Delete(utxo_pool, out)
      /\ pool_in' = pool_in + 1
      /\ UNCHANGED <<wallet_pool, key_pool, block, pool_tx, pool_out, half>>

\* Mutant of DeleteInput: spent outputs stay in the UTXO pool.
DeleteInputWallet ==
  LET out == CurrentTx.inputs[pool_in].prev
  IN  /\ pool_out > Len(CurrentTx.outputs) /\ pool_in <= Len(CurrentTx.inputs)
      /\ wallet_pool' = Delete(wallet_pool, out)
      /\ pool_in' = pool_in + 1
      /\ UNCHANGED <<utxo_pool, key_pool, block, pool_tx, pool_out, half>>

\* utxo_pool_remove_leveldb, then wallet_pool_remove_leveldb.
DeleteInput ==
  LET out == CurrentTx.inputs[pool_in].prev
  IN  /\ pool_out > Len(CurrentTx.outputs) /\ pool_in <= Len(CurrentTx.inputs)
      /\ IF ~half
         THEN utxo_pool' = Delete(utxo_pool, out) /\ UNCHANGED wallet_pool
         ELSE wallet_pool' = Delete(wallet_pool, out) /\ UNCHANGED utxo_pool
      /\ half' = ~half
      /\ pool_in' = IF half THEN pool_in + 1 ELSE pool_in
      /\ UNCHANGED <<key_pool, block, pool_tx, pool_out>>

NextPoolTx ==
  /\ pool_out > Len(CurrentTx.outputs) /\ pool_in > Len(CurrentTx.inputs)
  /\ pool_tx' = pool_tx + 1 /\ pool_out' = 1 /\ pool_in' = 1
  /\ UNCHANGED <<poolDisk, block, half>>

WritePools == ~PoolsDone /\ (PutOutput \/ DeleteInput \/ NextPoolTx)
=============================================================================

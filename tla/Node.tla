-------------------------------- MODULE Node --------------------------------
(***************************************************************************)
(* The program: runtime/shell.c drives one node on one thread.  It opens   *)
(* the databases, then takes one command at a time: mine, create_tx, exit. *)
(* The process can be killed between any two writes; LevelDB and the two   *)
(* chain files stay, the mempool and the globals are lost.                 *)
(***************************************************************************)
EXTENDS HandleBlock

CONSTANTS
  AMOUNTS,      \* amounts an operator asks create_tx to send
  FEES,         \* fees an operator offers
  OWN_DESTS,    \* whether payments to one of the node's own keys are made
  MAX_BLOCKS,   \* bound: blocks in the database
  MAX_HALTS     \* bound: times the process ends and is started again

\* What strtoul reads from the command line is an unsigned long.
ASSUME AmountsAssumption ==
  AMOUNTS \subseteq 0..(ULONG_MOD - 1) /\ FEES \subseteq 0..(ULONG_MOD - 1)

VARIABLES
  cmd,     \* what the shell is doing
  reason,  \* "running", or how the process ended
  halts,   \* history: how often it has ended
  torn     \* history: it has ended in the middle of a command

memVars   == <<mempool, utxo_to_tx, exited, confirmed, cur_tx, cur_in>>
blockVars == <<utxo_pool, block, poolLoop>>
history   == <<halts, torn>>
vars == <<chainVars, walletDisk, buildVars, blockVars, memVars, cmd, reason, history>>

Up   == chain_pc \notin {"down", "refused"}
Idle == Up /\ cmd = "idle"

Init ==
  /\ ChainInit /\ WalletInit /\ HandleBlockInit
  /\ M!MempoolInit /\ M!LoopInit
  /\ cmd = "boot"
  /\ reason = "down"
  /\ halts = 0 /\ torn = FALSE

\* The process ends.  What it had in memory is gone.
Halt(why) ==
  /\ halts < MAX_HALTS
  /\ ChainCrash
  /\ mempool' = <<>> /\ utxo_to_tx' = <<>> /\ exited' = FALSE
  /\ confirmed' = <<>> /\ cur_tx' = 1 /\ cur_in' = 1
  /\ block' = NoBlock /\ building' = NoTx /\ to_mark' = <<>>
  /\ pool_tx' = 1 /\ pool_out' = 1 /\ pool_in' = 1 /\ half' = FALSE
  /\ cmd' = "boot"
  /\ reason' = why
  /\ halts' = halts + 1
  /\ UNCHANGED <<utxo_pool, walletDisk>>

-----------------------------------------------------------------------------
(* shell_init.                                                             *)

Boot ==
  /\ BlockchainInit
  /\ reason' = "running"
  /\ UNCHANGED <<walletDisk, buildVars, blockVars, memVars, cmd, history>>

\* The genesis block may have to be added on the way.
BootStep ==
  /\ cmd = "boot"
  /\ AddStep
  /\ UNCHANGED <<walletDisk, buildVars, blockVars, memVars, cmd, reason, history>>

\* miner_init, wallet_init_leveldb; the prompt appears.
InitDone ==
  /\ cmd = "boot" /\ chain_pc = "ready"
  /\ mempool' = <<>>
  /\ cmd' = "idle"
  /\ UNCHANGED <<chainVars, walletDisk, buildVars, blockVars, utxo_to_tx, exited,
                 confirmed, cur_tx, cur_in, reason, history>>

-----------------------------------------------------------------------------
(* mine: mine_block, then handle_new_block.                                *)

\* Ids nobody uses: no key was made for them and no transaction has them.
UnusedIds ==
  {id \in 1..MAX_TX_ID :
     /\ id \notin key_pool
     /\ ~M!InMempool(id)
     /\ \A b \in blockchain_db : \A i \in DOMAIN b.txs : b.txs[i].id # id}

\* calc_tx_fees exits when it does not find an input.
Mine ==
  /\ Idle
  /\ Count < MAX_BLOCKS
  /\ IF FeesKnown
     THEN /\ \E id \in UnusedIds : CreateBlock(id)
          /\ cmd' = "mined"
          /\ UNCHANGED <<chainVars, buildVars, memVars, reason, history>>
     ELSE Halt("no_utxo") /\ UNCHANGED torn

\* The nonce is found and the block passes validate_block.
AcceptBlock ==
  /\ cmd = "mined"
  /\ ValidateBlock(block) = 0
  /\ StartAdd(block)
  /\ cmd' = "adding"
  /\ UNCHANGED <<walletDisk, buildVars, blockVars, memVars, reason, history>>

\* It does not: handle_new_block drops it and nobody is told.
RejectBlock ==
  /\ cmd = "mined"
  /\ ValidateBlock(block) # 0
  /\ block' = NoBlock
  /\ cmd' = "idle"
  /\ UNCHANGED <<chainVars, walletDisk, buildVars, utxo_pool, poolLoop, memVars,
                 reason, history>>

\* update_local_blockchain
AddToChain ==
  /\ cmd = "adding"
  /\ AddStep
  /\ UNCHANGED <<walletDisk, buildVars, blockVars, memVars, cmd, reason, history>>

\* It returns; update_UTXO_pool_and_wallet_pool begins.
BeginPools ==
  /\ cmd = "adding" /\ chain_pc = "ready"
  /\ StartUpdatePools
  /\ cmd' = "pools"
  /\ UNCHANGED <<chainVars, buildVars, memVars, reason, history>>

UpdatePools ==
  /\ cmd = "pools"
  /\ WritePools
  /\ UNCHANGED <<chainVars, buildVars, memVars, cmd, reason, history>>

\* It returns; update_mempool begins.
BeginMempool ==
  /\ cmd = "pools" /\ PoolsDone
  /\ StartUpdatePools
  /\ M!StartUpdate(block.txs)
  /\ cmd' = "mempool"
  /\ UNCHANGED <<chainVars, buildVars, mempool, utxo_to_tx, exited, reason, history>>

UpdateMempool ==
  /\ cmd = "mempool"
  /\ M!VisitInput \/ M!NextConfirmedTx
  /\ UNCHANGED <<chainVars, walletDisk, buildVars, blockVars, cmd, reason, history>>

MineDone ==
  /\ cmd = "mempool" /\ M!UpdateDone
  /\ M!StartUpdate(<<>>)
  /\ block' = NoBlock
  /\ cmd' = "idle"
  /\ UNCHANGED <<chainVars, walletDisk, buildVars, utxo_pool, poolLoop, mempool,
                 utxo_to_tx, exited, reason, history>>

-----------------------------------------------------------------------------
(* create_tx: build_tx, then mempool_add, without validation.              *)

\* A transaction without inputs has nothing in it that is fresh: it has the
\* hash of any other like it.
IdsFor(dest, amt, fee) ==
  LET like(id) == BuiltTx(id, dest, amt, fee)
      known == {id \in 1..MAX_TX_ID :
                  \E n \in DOMAIN mempool : mempool[n] = like(id) /\ like(id).inputs = <<>>}
  IN  IF known = {} THEN UnusedIds ELSE known

Dests == {Foreign} \cup (IF OWN_DESTS THEN key_pool ELSE {})

CreateTx(dest, amt, fee) ==
  /\ Idle
  /\ \E id \in IdsFor(dest, amt, fee) : StartBuild(id, dest, amt, fee)
  /\ cmd' = "build"
  /\ UNCHANGED <<chainVars, blockVars, memVars, reason, history>>

\* "Not enough in wallet to build transaction!": exit(EXIT_FAILURE).
CreateTxExits(amt, fee) ==
  /\ Idle
  /\ ~EnoughFunds(OutTotal(amt, fee))
  /\ Halt("no_funds")
  /\ UNCHANGED torn

BuildStep ==
  /\ cmd = "build"
  /\ MarkSpent
  /\ UNCHANGED <<chainVars, blockVars, memVars, cmd, reason, history>>

BuildDone ==
  /\ cmd = "build"
  /\ StoreChangeKey
  /\ cmd' = "offer"
  /\ UNCHANGED <<chainVars, blockVars, memVars, reason, history>>

\* mempool_add(tx)
Offer ==
  /\ cmd = "offer"
  /\ M!MempoolAdd(building)
  /\ building' = NoTx
  /\ cmd' = "idle"
  /\ UNCHANGED <<chainVars, walletDisk, to_mark, blockVars, confirmed, cur_tx,
                 cur_in, reason, history>>

-----------------------------------------------------------------------------
(* exit, the end of the input, and a kill at any time.                     *)

ShellExit == Idle /\ Halt("exit") /\ UNCHANGED torn

\* The exit(1) of utxo_to_tx_add_tx loses what a kill loses.
Kill ==
  /\ Up
  /\ Halt("killed")
  /\ torn' = (torn \/ ~Idle)

Command ==
  \/ Mine
  \/ \E dest \in Dests, amt \in AMOUNTS, fee \in FEES : CreateTx(dest, amt, fee)
  \/ \E amt \in AMOUNTS, fee \in FEES : CreateTxExits(amt, fee)
  \/ ShellExit

\* What the process does without waiting for anybody.
Run ==
  \/ BootStep \/ InitDone
  \/ AcceptBlock \/ RejectBlock \/ AddToChain
  \/ BeginPools \/ UpdatePools \/ BeginMempool \/ UpdateMempool \/ MineDone
  \/ BuildStep \/ BuildDone \/ Offer

Next == Boot \/ (~exited /\ (Command \/ Run)) \/ Kill

Spec == Init /\ [][Next]_vars
\* One thread, no locks, no waiting: the process takes its next step unless
\* it is killed.  Nothing is assumed of the operator.
FairSpec == Spec /\ WF_vars(Run /\ ~exited)

-----------------------------------------------------------------------------
(* Properties.                                                             *)

\* The block a hash names, and the chain from the genesis block to the top.
BlockOf(hash) == CHOOSE b \in blockchain_db : b.hash = hash
Chain ==
  LET from[h \in {b.hash : b \in blockchain_db}] ==
        IF h = Genesis THEN <<BlockOf(h)>> ELSE Append(from[BlockOf(h).prev], BlockOf(h))
  IN  from[top_block_header_hash]

AllTxs(b) == {b.txs[i] : i \in DOMAIN b.txs}
ChainTxs == UNION {AllTxs(Chain[i]) : i \in DOMAIN Chain}
StoredTxs == UNION {AllTxs(b) : b \in blockchain_db}

\* The outputs of the chain's transactions that none of them spends.
UnspentOutputs ==
  LET made == UNION {{Outpoint(tx, n) : n \in DOMAIN tx.outputs} : tx \in ChainTxs}
      spent == UNION {SpentOutpoints(tx) : tx \in ChainTxs}
      maker(out) == CHOOSE tx \in ChainTxs : tx.id = out[1]
  IN  [out \in made \ spent |-> maker(out).outputs[out[2] + 1]]

Amounts(db) == [k \in DOMAIN db |-> [amt |-> db[k].amt, key |-> db[k].key]]

Claimed == UNION {SpentOutpoints(tx) : tx \in ToSet(mempool)}

\* The variables have the shapes the code gives them.
TypeOK ==
  /\ \A out \in DOMAIN utxo_pool :
       utxo_pool[out].amt \in 0..(ULONG_MOD - 1)
       /\ utxo_pool[out].key \in {Foreign} \cup (1..MAX_TX_ID)
  /\ \A out \in DOMAIN wallet_pool :
       wallet_pool[out].amt \in 0..(ULONG_MOD - 1)
       /\ wallet_pool[out].key \in key_pool
       /\ wallet_pool[out].spent \in BOOLEAN
  /\ key_pool \subseteq 1..MAX_TX_ID
  /\ cmd \in {"boot", "idle", "mined", "adding", "pools", "mempool", "build", "offer"}
  /\ reason \in {"down", "running", "exit", "killed", "no_funds", "no_utxo"}
  /\ poolLoop # <<1, 1, 1, FALSE>> => cmd = "pools"
  /\ to_mark # <<>> => cmd = "build"

\* Money the wallet would spend is there: an unspent entry has the UTXO it
\* stands for, with the same amount and key, between any two writes and
\* after any crash (update_UTXO_pool_and_wallet_pool adds to the UTXO pool
\* first; build_inputs marks before anything can be mined).
UnspentBacked ==
  \A out \in DOMAIN wallet_pool : ~wallet_pool[out].spent =>
    /\ out \in DOMAIN utxo_pool
    /\ utxo_pool[out].amt = wallet_pool[out].amt
    /\ utxo_pool[out].key = wallet_pool[out].key

\* What the operator asks create_tx for, which the shell does not check: more
\* than nothing each time, and no sum that an unsigned long cannot hold.
Positive == \A amt \in AMOUNTS, fee \in FEES : OutTotal(amt, fee) > 0
NoWrap   == \A amt \in AMOUNTS, fee \in FEES : amt + fee < ULONG_MOD

\* Every transaction that waits to be mined would pass validate_tx_shared
\* although create_tx skips it, as long as the operator asks for sums that are
\* neither nothing nor wrap around (what comes of those is in RejectedOnlyFor).
MempoolSpendable ==
  Positive /\ NoWrap /\ Idle =>
    \A n \in DOMAIN mempool : ValidateTxShared(mempool[n], utxo_pool) = 0

\* No output is ever spent twice, by two blocks, by a block and a pending
\* transaction, or within one, whatever was killed on the way; blocks that
\* a crash left without a successor count too.
SpentOnce ==
  LET owners == {tx \in StoredTxs \cup ToSet(mempool) : tx.inputs # <<>>}
  IN  cmd \in {"idle", "boot"} =>
        /\ \A t, u \in owners :
             t # u => SpentOutpoints(t) \cap SpentOutpoints(u) = {}
        /\ \A t \in owners : Cardinality(SpentOutpoints(t)) = Len(t.inputs)

\* Between two commands the UTXO pool is what the chain says, unless the
\* process was killed in the middle of one.
PoolsFollowChain ==
  Idle /\ ~torn => utxo_pool = UnspentOutputs

\* Between two commands the wallet has exactly the node's own unspent outputs.
WalletMirrorsPool ==
  Idle /\ ~torn =>
    Amounts(wallet_pool) =
      [out \in {o \in DOMAIN utxo_pool : utxo_pool[o].key \in key_pool} |-> utxo_pool[out]]

\* As long as the process lives, an entry is marked as spent exactly when a
\* pending transaction spends it.  The operator never asks for a payment of
\* nothing: the second loop of build_inputs may mark an entry for that.
SpentIffPending ==
  Positive /\ Idle /\ halts = 0 =>
    \A out \in DOMAIN wallet_pool : wallet_pool[out].spent <=> out \in Claimed

\* No output is made to a key that is not on disk: whatever is pending, mined
\* or in the chain and was to be the node's own can still be unlocked after
\* a crash (create_coinbase_tx and build_tx store the key first).
KeysKept ==
  \A tx \in StoredTxs \cup AllTxs(block) \cup ToSet(mempool) : \A n \in DOMAIN tx.outputs :
    tx.outputs[n].key # Foreign => tx.outputs[n].key \in key_pool

\* What may be wrong with a payment that nobody validated: nothing was put in
\* (the operator asked for nothing, and the wallet was empty or its first entry
\* marked already), or less than is given out (amount and fee wrapped around).
NothingPutIn(tx) == tx.inputs = <<>>
Overdrawn(tx)    == TotalIn(tx, utxo_pool) < TotalOut(tx)

\* The node refuses a block it mined itself for three reasons: the miner adds
\* up the fees in 64 bits and the validator in 32; or the operator asked for a
\* payment of nothing, or for one that wraps, and that one is in the block.
\* Nothing else that validate_block looks at can be wrong with it.
RejectedOnlyFor ==
  [][RejectBlock =>
       \/ MinerFees(Tail(block.txs), utxo_pool) # ValidatorFees(Tail(block.txs), utxo_pool)
       \/ ~Positive /\ \E n \in 2..Len(block.txs) : NothingPutIn(block.txs[n])
       \/ ~NoWrap /\ \E n \in 2..Len(block.txs) : Overdrawn(block.txs[n])]_vars

\* Every command ends: the prompt appears again or the process is gone.
CommandsEnd == []<>(Idle \/ exited \/ ~Up)

\* "Create coinbase transaction by adding the block reward and the fees", a fee
\* being what a transaction puts in and does not give out: the coinbase pays
\* the miner the reward and what the other transactions leave over.
CoinbaseIsRewardAndFees ==
  cmd = "mined" =>
    block.txs[1].outputs[1].amt =
      BLOCK_REWARD + Total(LAMBDA tx : TrueFee(tx, utxo_pool), Tail(block.txs))

\* spent: "True when included in a tx but not validated in a block".
SpentMeansPending ==
  Idle => \A out \in DOMAIN wallet_pool : wallet_pool[out].spent => out \in Claimed

-----------------------------------------------------------------------------
(* The node is a Ledger.                                                   *)

\* The transactions of the block update_UTXO_pool_and_wallet_pool has still to
\* deal with, the outputs it has still to add for them, and the ones to remove;
\* what it is just writing counts.
TxsAhead == IF cmd = "pools" THEN {i \in DOMAIN block.txs : i >= pool_tx} ELSE {}
ToAdd ==
  UNION {{Outpoint(block.txs[i], n) :
            n \in {n \in DOMAIN block.txs[i].outputs : i > pool_tx \/ n >= pool_out}} :
         i \in TxsAhead}
ToRemove ==
  UNION {{block.txs[i].inputs[k].prev :
            k \in {k \in DOMAIN block.txs[i].inputs : i > pool_tx \/ k >= pool_in}} :
         i \in TxsAhead}

\* The pool as it will be when they are written.
PoolWhenWritten ==
  LET maker(out) == CHOOSE tx \in AllTxs(block) : tx.id = out[1]
  IN  [out \in (DOMAIN utxo_pool \cup ToAdd) \ ToRemove |->
         IF out \in ToAdd THEN maker(out).outputs[out[2] + 1] ELSE utxo_pool[out]]

\* What will wait when update_mempool is done with the block in hand.
PendingWhenUpdated ==
  LET spent == UNION {SpentOutpoints(tx) : tx \in AllTxs(block)}
  IN  IF cmd \in {"pools", "mempool"}
      THEN {tx \in ToSet(mempool) : SpentOutpoints(tx) \cap spent = {}}
      ELSE ToSet(mempool)

L == INSTANCE Ledger WITH unspent <- PoolWhenWritten, pending <- PendingWhenUpdated,
                          intact <- ~torn

\* However many writes accept_block makes, and in whatever order, a block
\* replaces the unspent outputs and the waiting payments in one step, taken
\* when the block is in the chain; nothing else changes them, and a restart
\* only forgets what waits.
LedgerSpec == L!Spec
=============================================================================

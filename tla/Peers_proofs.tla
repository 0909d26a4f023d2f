---------------------------- MODULE Peers_proofs ----------------------------
(***************************************************************************)
(* The node among others, for any number of blocks, transactions and       *)
(* restarts: the database stays one chain (NoBranches), nobody spends what *)
(* another's key locks (OwnersSpend), and nobody waits to spend what is    *)
(* spent (PendingNotInChain), as long as no command was cut in the middle. *)
(*                                                                         *)
(* OwnersSpend is not inductive: the pools are what inputs are held        *)
(* against, so every entry of a pool must be an output of the chain        *)
(* (PoolsMade); a payment under construction and a block that has passed   *)
(* validate_block are on their way into it (BlockOwned).  The order of the *)
(* blocks comes from the one list that leads to the top (OneChain), which  *)
(* only grows at its end.                                                  *)
(*                                                                         *)
(* PendingNotInChain is not inductive either: what it says at the prompt   *)
(* is, in the middle of accept_block, true but for what its loops have     *)
(* still to come to (Rivals).                                              *)
(***************************************************************************)
EXTENDS Peers, Node_proofs

-----------------------------------------------------------------------------
(* Where the process is.                                                   *)

LEMMA ControlPeers ==
  ASSUME Control, Counters, [PeersNext]_vars
  PROVE  Control' /\ Counters'
<1>1. CASE [Next]_vars
  BY <1>1, ControlStep
<1>2. ASSUME Idle, NEW tx, ReceiveTx(tx)
      PROVE  Control' /\ Counters'
  BY <1>2 DEF ReceiveTx, Idle, chainVars, walletDisk, buildVars, blockVars, poolLoop, Control,
     Counters, Handling, Accepting, Building
<1>3. ASSUME Idle, NEW b, ReceiveBlock(b)
      PROVE  Control' /\ Counters'
  BY <1>3 DEF ReceiveBlock, Idle, chainVars, buildVars, memVars, poolLoop, Control, Counters,
     Handling, Accepting, Building
<1> QED BY <1>1, <1>2, <1>3 DEF PeersNext, Receive

-----------------------------------------------------------------------------
(* One chain.                                                              *)

\* Whatever they send, the block is a new one, with transactions in a list.
LEMMA PeerBlockHash ==
  ASSUME NEW id, NEW txs
  PROVE  /\ PeerBlock(id, txs).hash = FreshHash
         /\ \A b \in FlawedBlocks(PeerBlock(id, txs)) : b.hash = FreshHash
<1> DEFINE b0 == PeerBlock(id, txs)
<1>1. /\ b0.hash = FreshHash
      /\ DOMAIN b0 = {"hash", "prev", "txs", "hash_met", "all_tx_match"}
  BY DEF PeerBlock
<1> HIDE DEF b0
<1>2. \A b \in FlawedBlocks(b0) : b.hash = b0.hash
  BY <1>1 DEF FlawedBlocks
<1> QED BY <1>1, <1>2 DEF b0

LEMMA ChainPeers ==
  ASSUME Control, ChainInv, [PeersNext]_vars
  PROVE  ChainInv'
<1>1. CASE [Next]_vars
  BY <1>1, ChainStep
<1>2. ASSUME Idle, NEW tx, ReceiveTx(tx)
      PROVE  ChainInv'
  <2>1. UNCHANGED chainVars /\ cmd' = "idle" /\ cmd = "idle" /\ torn' = torn
    BY <1>2 DEF ReceiveTx, Idle, history
  <2> QED BY <2>1, QuietChain DEF ChainInv
<1>3. ASSUME Idle, NEW b, ReceiveBlock(b), b.hash = FreshHash
      PROVE  ChainInv'
  <2> SUFFICES ASSUME ~torn
               PROVE  DatabaseSound' /\ FilesFollow'
    BY <1>3 DEF ChainInv, ReceiveBlock, history
  <2>1. DatabaseSound /\ FilesFollow
    BY DEF ChainInv
  <2>2. /\ cmd = "idle" /\ cmd' = "mined" /\ chain_pc = "ready" /\ block'.hash = FreshHash
        /\ UNCHANGED chainVars
    BY <1>3 DEF ReceiveBlock, Idle, Control
  <2>3. UNCHANGED <<blockchain_db, height_file, top_file, chain_height, top_block_header_hash,
                    adding, chain_pc>> /\ Tip' = Tip
    BY <2>2 DEF chainVars, Tip
  <2>4. DatabaseSound'
    BY <2>1, <2>3, SameChain
  <2>5. ~Found(block.hash)' /\ block'.hash \in Nat
    BY <2>1, <2>2, <2>3, FreshHashIsFresh DEF Found
  <2> QED BY <2>1, <2>2, <2>3, <2>4, <2>5 DEF FilesFollow, Up, Count
<1>4. CASE Receive
  BY <1>2, <1>3, <1>4, PeerBlockHash DEF Receive
<1> QED BY <1>1, <1>4 DEF PeersNext

\* Others' blocks are new ones on the top, or refused: the list stays a list,
\* and the counters count.
THEOREM PeersChainInvariant == PeersSpec => [](Control /\ Counters /\ ChainInv)
<1>1. Control /\ Counters /\ ChainInv /\ [PeersNext]_vars
        => Control' /\ Counters' /\ ChainInv'
  BY ControlPeers, ChainPeers
<1> QED BY <1>1, ControlInit, ChainInit0, PTL DEF PeersSpec

\* As long as no command is cut in the middle, the database is one chain,
\* of as many blocks as chain_height says, whatever blocks the others send.
THEOREM DatabaseIsOneChain == PeersSpec => [](~torn => NoBranches)
<1>1. Control /\ ChainInv => (~torn => NoBranches)
  <2> SUFFICES ASSUME Control, ChainInv, ~torn, Idle
               PROVE  Len(Chain) = Count /\ Count = chain_height
    BY DEF NoBranches
  <2>1. DatabaseSound /\ FilesFollow /\ Up /\ chain_pc = "ready"
    BY DEF ChainInv, Idle, Control
  <2>2. OneChain(blockchain_db, top_block_header_hash)
    BY <2>1 DEF DatabaseSound, FilesFollow, Tip
  <2> QED BY <2>1, <2>2, ChainHasAll DEF FilesFollow
<1> QED BY <1>1, PeersChainInvariant, PTL

-----------------------------------------------------------------------------
(* Who is paid, and what is shown for it.                                  *)

\* Some of these transactions made the output, for this key.
Pays(txs, out, key) ==
  \E made \in txs : \E n \in DOMAIN made.outputs :
    out = Outpoint(made, n) /\ key = made.outputs[n].key

\* All a transaction spends was paid to the keys it shows, and is signed for.
Owned(tx, txs) ==
  \A k \in DOMAIN tx.inputs :
    tx.inputs[k].signed /\ Pays(txs, tx.inputs[k].prev, tx.inputs[k].key)

IsList(s) == s \in Seq(ToSet(s))

Shaped(tx) == tx.id \in Int /\ IsList(tx.inputs) /\ IsList(tx.outputs)

\* What the pools have was paid.
PoolsMade ==
  /\ WalletShape
  /\ \A out \in DOMAIN utxo_pool : Pays(StoredTxs, out, utxo_pool[out].key)
  /\ \A out \in DOMAIN wallet_pool : Pays(StoredTxs, out, wallet_pool[out].key)

\* What waits, or is made to wait, is owned.
PendingOwned ==
  /\ mempool \in Seq(ToSet(mempool))
  /\ \A tx \in ToSet(mempool) \cup {building} : Shaped(tx) /\ Owned(tx, StoredTxs)

\* The block in hand is a list of transactions; once it has passed
\* validate_block, they are owned by those of earlier blocks.
BlockOwned ==
  /\ block.txs \in Seq(ToSet(block.txs))
  /\ \A tx \in AllTxs(block) : Shaped(tx)
  /\ cmd = "adding" /\ chain_pc = "put" => \A tx \in AllTxs(block) : Owned(tx, StoredTxs)

OwnersInv == PoolsMade /\ PendingOwned /\ BlockOwned

\* Each block of a list is owned by the blocks before it.
OwnedList(blocks) ==
  \A i \in DOMAIN blocks : \A tx \in AllTxs(blocks[i]) :
    Owned(tx, UNION {AllTxs(blocks[j]) : j \in 1..(i - 1)})

ListOwned ==
  ~torn /\ blockchain_db # {} => OwnedList(TopList(blockchain_db, Tip))

\* More transactions, more that is paid.
LEMMA MorePaid ==
  ASSUME NEW txs, NEW more, txs \subseteq more
  PROVE  /\ \A out, key : Pays(txs, out, key) => Pays(more, out, key)
         /\ \A tx : Owned(tx, txs) => Owned(tx, more)
BY DEF Pays, Owned

LEMMA ListOf ==
  ASSUME NEW f, NEW n \in Nat, f = [k \in 1..n |-> f[k]]
  PROVE  IsList(f)
<1>1. \A k \in 1..n : f[k] \in ToSet(f)
  <2>1. DOMAIN f = 1..n
    OBVIOUS
  <2> QED BY <2>1 DEF ToSet
<1> QED BY <1>1 DEF IsList

LEMMA NothingOwed ==
  /\ Shaped(NoTx) /\ NoBlock.txs \in Seq(ToSet(NoBlock.txs)) /\ AllTxs(NoBlock) = {}
  /\ <<>> \in Seq(ToSet(<<>>)) /\ ToSet(<<>>) = {}
  /\ \A tx, txs : tx.inputs = <<>> => Owned(tx, txs)
<1>1. <<>> \in Seq(ToSet(<<>>)) /\ ToSet(<<>>) = {}
  BY EmptySeq DEF ToSet
<1>2. Shaped(NoTx)
  BY <1>1 DEF Shaped, IsList, NoTx
<1>3. NoBlock.txs = <<>> /\ AllTxs(NoBlock) = {}
  BY NothingInHand DEF NoBlock
<1>4. \A tx, txs : tx.inputs = <<>> => Owned(tx, txs)
  BY DEF Owned
<1> QED BY <1>1, <1>2, <1>3, <1>4

\* One output is a list of outputs.
LEMMA OneOutput ==
  ASSUME NEW tx, tx.id \in Int, IsList(tx.inputs), NEW out, tx.outputs = <<out>>
  PROVE  Shaped(tx)
<1>1. <<out>> \in Seq({out})
  OBVIOUS
<1> QED BY <1>1, SeqOfElements DEF Shaped, IsList

-----------------------------------------------------------------------------
(* The steps that write to no pool.                                        *)

LEMMA QuietOwners ==
  ASSUME OwnersInv, UNCHANGED <<utxo_pool, wallet_pool>>,
         blockchain_db \subseteq blockchain_db',
         mempool' \in Seq(ToSet(mempool')),
         ToSet(mempool') \subseteq ToSet(mempool),
         building' \in {building, NoTx}, block' \in {block, NoBlock},
         cmd' = "adding" /\ chain_pc' = "put" => cmd = "adding" /\ chain_pc = "put"
  PROVE  OwnersInv'
<1>1. StoredTxs \subseteq StoredTxs'
  BY DEF StoredTxs
<1>2. PoolsMade'
  <2>1. WalletShape'
    BY DEF OwnersInv, PoolsMade, WalletShape
  <2> QED BY <1>1, <2>1, MorePaid DEF OwnersInv, PoolsMade
<1>3. PendingOwned'
  <2>1. \A tx \in ToSet(mempool') \cup {building'} : Shaped(tx) /\ Owned(tx, StoredTxs)
    <3>1. \A tx \in ToSet(mempool) \cup {building} : Shaped(tx) /\ Owned(tx, StoredTxs)
      BY DEF OwnersInv, PendingOwned
    <3>2. Shaped(NoTx) /\ Owned(NoTx, StoredTxs)
      BY NothingOwed DEF NoTx
    <3> QED BY <3>1, <3>2
  <2>2. \A tx : Owned(tx, StoredTxs) => Owned(tx, StoredTxs')
    BY <1>1, MorePaid
  <2> QED BY <2>1, <2>2 DEF PendingOwned
<1>4. BlockOwned'
  <2>1. \A tx : Owned(tx, StoredTxs) => Owned(tx, StoredTxs')
    BY <1>1, MorePaid
  <2>2. CASE block' = block
    BY <2>1, <2>2 DEF OwnersInv, BlockOwned, AllTxs
  <2>3. CASE block' = NoBlock
    BY <2>3, NothingOwed DEF BlockOwned, AllTxs
  <2> QED BY <2>2, <2>3
<1> QED BY <1>2, <1>3, <1>4 DEF OwnersInv

\* mempool_remove leaves a list of what there was.
LEMMA RemoveOwners ==
  ASSUME OwnersInv, NEW id, M!MempoolRemove(id)
  PROVE  mempool' \in Seq(ToSet(mempool')) /\ ToSet(mempool') \subseteq ToSet(mempool)
<1>1. mempool \in Seq(ToSet(mempool))
  BY DEF OwnersInv, PendingOwned
<1>2. CASE UNCHANGED M!poolVars
  BY <1>1, <1>2 DEF M!poolVars
<1>3. ASSUME NEW n \in DOMAIN mempool, mempool' = M!RemoveAt(mempool, n)
      PROVE  mempool' \in Seq(ToSet(mempool')) /\ ToSet(mempool') \subseteq ToSet(mempool)
  <2>1. mempool' = RemoveAt(mempool, n)
    BY <1>3 DEF M!RemoveAt, RemoveAt
  <2>2. LET rest == RemoveAt(mempool, n)
        IN  /\ rest \in Seq(ToSet(rest))
            /\ \A k \in DOMAIN rest : \E m \in DOMAIN mempool : m # n /\ rest[k] = mempool[m]
    BY <1>1, RemoveOne
  <2> QED BY <2>1, <2>2 DEF ToSet
<1> QED BY <1>2, <1>3, Zenon DEF M!MempoolRemove

LEMMA QuietStepOwners ==
  ASSUME OwnersInv, Control,
         \/ Boot \/ BootStep \/ InitDone \/ RejectBlock \/ AddToChain \/ BeginPools
         \/ BeginMempool \/ UpdateMempool \/ MineDone \/ BuildDone
         \/ \E why : Halt(why)
         \/ UNCHANGED vars
  PROVE  OwnersInv'
<1>1. CASE \/ RejectBlock \/ BeginPools \/ BeginMempool \/ MineDone \/ BuildDone
           \/ UNCHANGED vars
  <2>1. /\ UNCHANGED <<blockchain_db, utxo_pool, wallet_pool, mempool, building>>
        /\ block' \in {block, NoBlock}
        /\ cmd' = "adding" /\ chain_pc' = "put" => cmd = "adding" /\ chain_pc = "put"
    BY <1>1 DEF RejectBlock, BeginPools, BeginMempool, MineDone, BuildDone, StartUpdatePools,
       StoreChangeKey, poolDisk, chainVars, walletDisk, buildVars, blockVars, memVars, vars
  <2> QED BY <2>1, QuietOwners DEF OwnersInv, PendingOwned
<1>2. CASE Boot \/ BootStep \/ AddToChain
  <2>1. /\ UNCHANGED <<utxo_pool, wallet_pool, mempool, building, block>>
        /\ blockchain_db \subseteq blockchain_db'
        /\ cmd' = "adding" /\ chain_pc' = "put" => cmd = "adding" /\ chain_pc = "put"
    BY <1>2 DEF Boot, BlockchainInit, UseExisting, RefuseFiles, AddGenesis, BootStep, AddToChain,
       AddStep, PutBlock, EmptyHeightFile, WriteHeightFile, EmptyTopFile, WriteTopFile, diskVars,
       walletDisk, buildVars, blockVars, memVars, Control
  <2> QED BY <2>1, QuietOwners DEF OwnersInv, PendingOwned
<1>3. CASE InitDone \/ \E why : Halt(why)
  <2>1. /\ UNCHANGED <<blockchain_db, utxo_pool, wallet_pool>> /\ mempool' = <<>>
        /\ building' \in {building, NoTx} /\ block' \in {block, NoBlock} /\ cmd' # "adding"
    BY <1>3 DEF InitDone, Halt, ChainCrash, chainVars, diskVars, walletDisk, buildVars, blockVars
  <2> QED BY <2>1, QuietOwners, NothingOwed
<1>4. CASE UpdateMempool
  <2>1. /\ UNCHANGED <<blockchain_db, utxo_pool, wallet_pool, building, block, cmd>>
        /\ cmd = "mempool"
    BY <1>4 DEF UpdateMempool, chainVars, walletDisk, buildVars, blockVars
  <2>2. mempool' \in Seq(ToSet(mempool')) /\ ToSet(mempool') \subseteq ToSet(mempool)
    <3>1. mempool' = mempool \/ \E id : M!MempoolRemove(id)
      BY <1>4 DEF UpdateMempool, M!VisitInput, M!NextConfirmedTx, M!poolVars
    <3> QED BY <3>1, RemoveOwners DEF OwnersInv, PendingOwned
  <2> QED BY <2>1, <2>2, QuietOwners
<1> QED BY <1>1, <1>2, <1>3, <1>4

-----------------------------------------------------------------------------
(* A block.                                                                *)

\* What the pool vouches for has been paid.
LEMMA ValidOwned ==
  ASSUME PoolsMade, NEW tx, ValidateTxShared(tx, utxo_pool) = 0
  PROVE  Owned(tx, StoredTxs)
<1> SUFFICES ASSUME NEW k \in DOMAIN tx.inputs
             PROVE  /\ tx.inputs[k].signed
                    /\ Pays(StoredTxs, tx.inputs[k].prev, tx.inputs[k].key)
  BY DEF Owned
<1>1. ValidateInput(tx.inputs[k], utxo_pool) = 0
  BY DEF ValidateTxShared
<1>2. /\ tx.inputs[k].prev \in DOMAIN utxo_pool /\ tx.inputs[k].signed
      /\ utxo_pool[tx.inputs[k].prev].key = tx.inputs[k].key
  BY <1>1 DEF ValidateInput
<1> QED BY <1>2 DEF PoolsMade

LEMMA AcceptedOwned ==
  ASSUME PoolsMade, NEW b, ValidateBlock(b) = 0, b.txs \in Seq(ToSet(b.txs))
  PROVE  \A tx \in AllTxs(b) : Owned(tx, StoredTxs)
<1>1. ValidateIncomingBlockTxs(b.txs, utxo_pool) = 0
  BY DEF ValidateBlock
<1>2. \A i \in 2..Len(b.txs) : ValidateTxShared(b.txs[i], utxo_pool) = 0
  BY <1>1 DEF ValidateIncomingBlockTxs
<1>3. b.txs[1].inputs = <<>>
  BY <1>1 DEF ValidateIncomingBlockTxs, ValidateCoinbaseTx
<1>4. \A i \in DOMAIN b.txs : i = 1 \/ i \in 2..Len(b.txs)
  OBVIOUS
<1>5. \A i \in DOMAIN b.txs : Owned(b.txs[i], StoredTxs)
  BY <1>2, <1>3, <1>4, ValidOwned, NothingOwed
<1> QED BY <1>5 DEF AllTxs

LEMMA AcceptOwners ==
  ASSUME OwnersInv, AcceptBlock
  PROVE  OwnersInv'
<1>1. /\ UNCHANGED <<blockchain_db, utxo_pool, wallet_pool, mempool, building, block>>
      /\ ValidateBlock(block) = 0
  BY DEF AcceptBlock, StartAdd, diskVars, walletDisk, buildVars, blockVars, memVars
<1>2. \A tx \in AllTxs(block) : Owned(tx, StoredTxs)
  BY <1>1, AcceptedOwned DEF OwnersInv, BlockOwned
<1>3. StoredTxs' = StoredTxs /\ AllTxs(block)' = AllTxs(block)
  BY <1>1 DEF StoredTxs, AllTxs
<1>4. BlockOwned'
  BY <1>1, <1>2, <1>3 DEF OwnersInv, BlockOwned
<1> QED BY <1>1, <1>3, <1>4 DEF OwnersInv, PoolsMade, PendingOwned, WalletShape

\* Another block is taken in hand.
LEMMA NewBlockOwners ==
  ASSUME OwnersInv, UNCHANGED <<blockchain_db, utxo_pool, wallet_pool, mempool, building>>,
         cmd' # "adding", block'.txs \in Seq(ToSet(block'.txs)),
         \A tx \in AllTxs(block') : Shaped(tx)
  PROVE  OwnersInv'
<1>1. StoredTxs' = StoredTxs
  BY DEF StoredTxs
<1>2. BlockOwned'
  BY DEF BlockOwned, AllTxs
<1> QED BY <1>1, <1>2 DEF OwnersInv, PoolsMade, PendingOwned, WalletShape

LEMMA MineOwners ==
  ASSUME OwnersInv, Mine, FeesKnown
  PROVE  OwnersInv'
<1>1. PICK id \in UnusedIds : CreateBlock(id)
  BY DEF Mine
<1>2. /\ block' = NewBlock(id) /\ cmd' = "mined"
      /\ UNCHANGED <<blockchain_db, utxo_pool, wallet_pool, building, mempool>>
  BY <1>1 DEF Mine, CreateBlock, chainVars, buildVars, memVars
<1> DEFINE txs == NewBlock(id).txs
           coinbase == CoinbaseTx(id)
<1>3. Shaped(coinbase)
  <2>1. coinbase.id \in Int
    BY IdAssumption DEF CoinbaseTx, UnusedIds
  <2> QED BY <2>1, OneOutput, NothingOwed DEF CoinbaseTx, IsList
<1>4. /\ txs \in Seq(ToSet(txs)) /\ txs[1] = coinbase
      /\ \A i \in 2..Len(txs) : i - 1 \in DOMAIN mempool /\ txs[i] = mempool[i - 1]
  BY FrontOfMempool DEF OwnersInv, PendingOwned
<1> HIDE DEF txs, coinbase
<1>5. \A i \in DOMAIN txs : Shaped(txs[i])
  <2>1. \A i \in DOMAIN txs : i = 1 \/ i \in 2..Len(txs)
    BY <1>4
  <2>2. \A i \in 2..Len(txs) : txs[i] \in ToSet(mempool)
    BY <1>4 DEF ToSet
  <2> QED BY <1>3, <1>4, <2>1, <2>2 DEF OwnersInv, PendingOwned
<1>6. block'.txs = txs
  BY <1>2 DEF txs
<1>7. \A tx \in AllTxs(block') : Shaped(tx)
  BY <1>5, <1>6 DEF AllTxs
<1> QED BY <1>2, <1>4, <1>6, <1>7, NewBlockOwners

\* An output goes into the pools as the block pays it.
LEMMA PoolsOwners ==
  ASSUME OwnersInv, Control, Counters, UpdatePools
  PROVE  OwnersInv'
<1>1. /\ UNCHANGED <<blockchain_db, mempool, building, block, cmd, chain_pc>>
      /\ cmd = "pools" /\ ~PoolsDone /\ (PutOutput \/ DeleteInput \/ NextPoolTx)
  BY DEF UpdatePools, WritePools, PutOutput, DeleteInput, NextPoolTx, poolDisk, chainVars,
     buildVars, memVars
<1>2. StoredTxs' = StoredTxs /\ block \in blockchain_db
  BY <1>1 DEF StoredTxs, Control, Accepting
<1>3. CurrentTx \in StoredTxs /\ Shaped(CurrentTx)
  <2>1. pool_tx \in DOMAIN block.txs
    BY <1>1 DEF OwnersInv, BlockOwned, PoolsDone, Counters
  <2>2. CurrentTx \in AllTxs(block)
    BY <2>1 DEF CurrentTx, AllTxs
  <2> QED BY <1>2, <2>2 DEF OwnersInv, BlockOwned, StoredTxs
<1>4. PendingOwned' /\ BlockOwned'
  BY <1>1, <1>2 DEF OwnersInv, PendingOwned, BlockOwned, AllTxs
<1>5. CASE PutOutput
  <2> DEFINE out == Outpoint(CurrentTx, pool_out)
             output == CurrentTx.outputs[pool_out]
  <2>1. pool_out \in DOMAIN CurrentTx.outputs
    BY <1>3, <1>5 DEF PutOutput, Shaped, IsList, Counters
  <2>2. Pays(StoredTxs, out, output.key)
    BY <1>3, <2>1 DEF Pays
  <2>3. out \in Int \X Int
    BY <1>3, <2>1 DEF Outpoint, Shaped, IsList
  <2>4. \/ utxo_pool' = Put(utxo_pool, out, output) /\ wallet_pool' = wallet_pool
        \/ wallet_pool' = Put(wallet_pool, out, WalletEntry(output)) /\ utxo_pool' = utxo_pool
    BY <1>5 DEF PutOutput
  <2> HIDE DEF out, output
  <2>5. CASE utxo_pool' = Put(utxo_pool, out, output) /\ wallet_pool' = wallet_pool
    <3>1. \A o \in DOMAIN utxo_pool' :
            \/ o = out /\ utxo_pool'[o] = output
            \/ o \in DOMAIN utxo_pool /\ utxo_pool'[o] = utxo_pool[o]
      BY <2>5 DEF Put
    <3>2. PoolsMade'
      BY <1>2, <2>2, <2>5, <3>1 DEF OwnersInv, PoolsMade, WalletShape
    <3> QED BY <1>4, <3>2 DEF OwnersInv
  <2>6. CASE wallet_pool' = Put(wallet_pool, out, WalletEntry(output)) /\ utxo_pool' = utxo_pool
    <3>1. /\ DOMAIN wallet_pool' = DOMAIN wallet_pool \cup {out}
          /\ \A o \in DOMAIN wallet_pool' :
               \/ o = out /\ wallet_pool'[o] = WalletEntry(output)
               \/ o \in DOMAIN wallet_pool /\ wallet_pool'[o] = wallet_pool[o]
      BY <2>6 DEF Put
    <3>2. /\ DOMAIN WalletEntry(output) = {"amt", "key", "spent"}
          /\ WalletEntry(output).key = output.key
      BY DEF WalletEntry
    <3>3. WalletShape'
      <4>1. IsFiniteSet(DOMAIN wallet_pool')
        BY <3>1, FS_AddElement DEF OwnersInv, PoolsMade, WalletShape
      <4> QED BY <2>3, <3>1, <3>2, <4>1 DEF OwnersInv, PoolsMade, WalletShape
    <3>4. PoolsMade'
      BY <1>2, <2>2, <2>6, <3>1, <3>2, <3>3 DEF OwnersInv, PoolsMade
    <3> QED BY <1>4, <3>4 DEF OwnersInv
  <2> QED BY <2>4, <2>5, <2>6
<1>6. CASE DeleteInput
  <2>1. /\ \/ wallet_pool' = wallet_pool
           \/ \E out : wallet_pool' = Delete(wallet_pool, out)
        /\ \/ utxo_pool' = utxo_pool
           \/ \E out : utxo_pool' = Delete(utxo_pool, out)
    BY <1>6 DEF DeleteInput
  <2>2. /\ DOMAIN wallet_pool' \subseteq DOMAIN wallet_pool
        /\ \A o \in DOMAIN wallet_pool' : wallet_pool'[o] = wallet_pool[o]
        /\ DOMAIN utxo_pool' \subseteq DOMAIN utxo_pool
        /\ \A o \in DOMAIN utxo_pool' : utxo_pool'[o] = utxo_pool[o]
    BY <2>1 DEF Delete
  <2>3. WalletShape'
    BY <2>2, FS_Subset DEF OwnersInv, PoolsMade, WalletShape
  <2>4. PoolsMade'
    BY <1>2, <2>2, <2>3 DEF OwnersInv, PoolsMade
  <2> QED BY <1>4, <2>4 DEF OwnersInv
<1>7. CASE NextPoolTx
  <2>1. UNCHANGED <<utxo_pool, wallet_pool>>
    BY <1>7 DEF NextPoolTx, poolDisk
  <2> QED BY <1>2, <1>4, <2>1 DEF OwnersInv, PoolsMade, WalletShape
<1> QED BY <1>1, <1>5, <1>6, <1>7

-----------------------------------------------------------------------------
(* A payment of the node's own.                                            *)

\* It spends what the wallet has.
LEMMA PaymentOwners ==
  ASSUME OwnersInv, Control,
         \/ \E dest \in Dests, amt \in AMOUNTS, fee \in FEES : CreateTx(dest, amt, fee)
         \/ BuildStep
  PROVE  OwnersInv'
<1>1. ASSUME NEW dest, NEW amt, NEW fee, CreateTx(dest, amt, fee)
      PROVE  OwnersInv'
  <2>1. PICK id \in IdsFor(dest, amt, fee) : StartBuild(id, dest, amt, fee)
    BY <1>1 DEF CreateTx
  <2> DEFINE tx == BuiltTx(id, dest, amt, fee)
  <2>2. /\ UNCHANGED <<blockchain_db, utxo_pool, wallet_pool, mempool, block>>
        /\ building' = tx /\ cmd' = "build"
    BY <1>1, <2>1 DEF CreateTx, StartBuild, chainVars, blockVars, memVars, walletDisk
  <2>3. id \in Int
    BY <2>1, IdAssumption DEF IdsFor, UnusedIds
  <2>4. /\ IsTx(tx)
        /\ SpentOutpoints(tx) \subseteq Unspent(DOMAIN wallet_pool)
        /\ \A k \in DOMAIN tx.inputs :
             tx.inputs[k].signed /\ tx.inputs[k].key = wallet_pool[tx.inputs[k].prev].key
    BY <2>3, BuiltTxFits DEF OwnersInv, PoolsMade
  <2> HIDE DEF tx
  <2>5. Shaped(tx) /\ Owned(tx, StoredTxs)
    <3>1. \A k \in DOMAIN tx.inputs : tx.inputs[k].prev \in DOMAIN wallet_pool
      BY <2>4 DEF SpentOutpoints, Unspent
    <3> QED BY <2>4, <3>1 DEF Shaped, IsList, IsTx, Owned, OwnersInv, PoolsMade
  <2>6. StoredTxs' = StoredTxs /\ AllTxs(block)' = AllTxs(block)
    BY <2>2 DEF StoredTxs, AllTxs
  <2>7. PendingOwned'
    BY <2>2, <2>5, <2>6 DEF OwnersInv, PendingOwned
  <2>8. BlockOwned' /\ PoolsMade'
    BY <2>2, <2>6 DEF OwnersInv, PoolsMade, BlockOwned, WalletShape
  <2> QED BY <2>7, <2>8 DEF OwnersInv
<1>2. CASE BuildStep
  <2>1. /\ UNCHANGED <<blockchain_db, utxo_pool, mempool, building, block, cmd>>
        /\ wallet_pool' = [wallet_pool EXCEPT ![Head(to_mark)].spent = TRUE] /\ cmd = "build"
    BY <1>2 DEF BuildStep, MarkSpent, chainVars, blockVars, memVars
  <2>2. /\ DOMAIN wallet_pool' = DOMAIN wallet_pool
        /\ \A out \in DOMAIN wallet_pool :
             /\ wallet_pool'[out].key = wallet_pool[out].key
             /\ DOMAIN wallet_pool'[out] = {"amt", "key", "spent"}
    BY <2>1 DEF OwnersInv, PoolsMade, WalletShape
  <2>3. StoredTxs' = StoredTxs /\ AllTxs(block)' = AllTxs(block)
    BY <2>1 DEF StoredTxs, AllTxs
  <2>4. PoolsMade'
    BY <2>1, <2>2, <2>3 DEF OwnersInv, PoolsMade, WalletShape
  <2>5. PendingOwned' /\ BlockOwned'
    BY <2>1, <2>3 DEF OwnersInv, PendingOwned, BlockOwned
  <2> QED BY <2>4, <2>5 DEF OwnersInv
<1> QED BY <1>1, <1>2

\* mempool_add, of a payment of the node's own or of another's.
LEMMA AddOwners ==
  ASSUME OwnersInv, NEW tx, Shaped(tx), Owned(tx, StoredTxs), M!MempoolAdd(tx),
         UNCHANGED <<blockchain_db, utxo_pool, wallet_pool, block>>,
         building' \in {building, NoTx}, cmd' # "adding"
  PROVE  OwnersInv'
<1>1. mempool \in Seq(ToSet(mempool))
  BY DEF OwnersInv, PendingOwned
<1>2. mempool' = mempool \/ mempool' = Append(mempool, tx)
  BY DEF M!MempoolAdd, M!poolVars
<1>3. mempool' \in Seq(ToSet(mempool')) /\ ToSet(mempool') \subseteq ToSet(mempool) \cup {tx}
  <2>1. CASE mempool' = Append(mempool, tx)
    <3> DEFINE more == Append(mempool, tx)
    <3>1. more \in Seq(ToSet(mempool) \cup {tx})
      BY <1>1
    <3>2. more \in Seq(ToSet(more)) /\ ToSet(more) \subseteq ToSet(mempool) \cup {tx}
      <4> HIDE DEF more
      <4>1. \A k \in DOMAIN more : more[k] \in ToSet(mempool) \cup {tx}
        BY <3>1
      <4>2. ToSet(more) \subseteq ToSet(mempool) \cup {tx}
        BY <4>1 DEF ToSet
      <4> QED BY <3>1, <4>2, SeqOfElements
    <3> QED BY <2>1, <3>2
  <2> QED BY <1>1, <1>2, <2>1
<1>4. StoredTxs' = StoredTxs /\ AllTxs(block)' = AllTxs(block)
  BY DEF StoredTxs, AllTxs
<1>5. PendingOwned'
  <2>1. Shaped(NoTx) /\ Owned(NoTx, StoredTxs)
    BY NothingOwed DEF NoTx
  <2> QED BY <1>3, <1>4, <2>1 DEF OwnersInv, PendingOwned
<1>6. PoolsMade' /\ BlockOwned'
  BY <1>4 DEF OwnersInv, PoolsMade, BlockOwned, WalletShape
<1> QED BY <1>5, <1>6 DEF OwnersInv

-----------------------------------------------------------------------------
(* What the others send.                                                   *)

\* A transaction, or that with one of the flaws.
OrFlawed(tx, p) ==
  \/ tx = p
  \/ tx = [p EXCEPT !.outputs = <<>>]
  \/ tx = [p EXCEPT !.inputs[1].signed = FALSE]
  \/ \E key : tx = [p EXCEPT !.inputs[1].key = key, !.inputs[1].signed = FALSE]

\* None of the flaws touches the id, or makes more than one output.
LEMMA PeerTxForms ==
  ASSUME NEW id, NEW outs, NEW amt, NEW n \in Nat, DOMAIN outs = 1..n,
         NEW tx, OrFlawed(tx, PeerTx(id, outs, amt))
  PROVE  /\ tx.id = id /\ IsList(tx.inputs)
         /\ tx.outputs = <<>> \/ \E out : tx.outputs = <<out>>
<1> DEFINE p == PeerTx(id, outs, amt)
           Ok(q) == /\ DOMAIN q = {"id", "inputs", "outputs"} /\ q.id = id
                    /\ q.inputs = [k \in 1..n |-> q.inputs[k]]
                    /\ q.outputs = <<>> \/ \E out : q.outputs = <<out>>
<1>1. Ok(p)
  BY DEF PeerTx
<1>2. \/ tx = p
      \/ tx = [p EXCEPT !.outputs = <<>>]
      \/ tx = [p EXCEPT !.inputs[1].signed = FALSE]
      \/ \E key : tx = [p EXCEPT !.inputs[1].key = key, !.inputs[1].signed = FALSE]
  BY Zenon DEF OrFlawed
<1> HIDE DEF p
<1>3. ASSUME tx = [p EXCEPT !.outputs = <<>>]
      PROVE  Ok(tx)
  <2>1. /\ DOMAIN tx = {"id", "inputs", "outputs"} /\ tx.id = id /\ tx.inputs = p.inputs
        /\ tx.outputs = <<>>
    BY <1>1, <1>3
  <2> QED BY <1>1, <2>1
<1>4. ASSUME NEW q, Ok(q), NEW r, r = [q EXCEPT !.inputs[1].signed = FALSE]
      PROVE  Ok(r)
  <2>1. /\ DOMAIN r = {"id", "inputs", "outputs"} /\ r.id = id /\ r.outputs = q.outputs
        /\ r.inputs = [q.inputs EXCEPT ![1].signed = FALSE]
    BY <1>4
  <2>2. r.inputs = [k \in 1..n |-> r.inputs[k]]
    BY <1>4, <2>1
  <2> QED BY <1>4, <2>1, <2>2
<1>5. ASSUME NEW key, NEW r, r = [p EXCEPT !.inputs[1].key = key]
      PROVE  Ok(r)
  <2>1. /\ DOMAIN r = {"id", "inputs", "outputs"} /\ r.id = id /\ r.outputs = p.outputs
        /\ r.inputs = [p.inputs EXCEPT ![1].key = key]
    BY <1>1, <1>5
  <2>2. r.inputs = [k \in 1..n |-> r.inputs[k]]
    BY <1>1, <2>1
  <2> QED BY <1>1, <2>1, <2>2
<1>6. ASSUME NEW key, tx = [p EXCEPT !.inputs[1].key = key, !.inputs[1].signed = FALSE]
      PROVE  Ok(tx)
  <2> DEFINE r == [p EXCEPT !.inputs[1].key = key]
  <2>1. tx = [r EXCEPT !.inputs[1].signed = FALSE]
    BY <1>6
  <2>2. Ok(r)
    BY <1>5
  <2> HIDE DEF r, Ok
  <2> QED BY <1>4, <2>1, <2>2
<1>7. Ok(tx)
  <2> HIDE DEF Ok
  <2>1. CASE tx = p
    BY <1>1, <2>1
  <2>2. CASE tx = [p EXCEPT !.inputs[1].signed = FALSE]
    BY <1>1, <1>4, <2>2
  <2> QED BY <1>2, <1>3, <1>6, <2>1, <2>2
<1>8. IsList(tx.inputs)
  <2>1. tx.inputs = [k \in 1..n |-> tx.inputs[k]]
    BY <1>7
  <2> QED BY <2>1, ListOf
<1> QED BY <1>7, <1>8

LEMMA PeerTxShaped ==
  ASSUME NEW id \in Int, NEW tx \in PeerTxs(id) \cup FlawedTxs(id)
  PROVE  Shaped(tx) /\ tx.id = id
<1> DEFINE HasLength(outs) == \E n \in Nat : DOMAIN outs = 1..n
<1>1. <<>> \in Seq(ToSet(<<>>))
  BY NothingOwed
<1>2. ASSUME tx \in PeerTxs(id)
      PROVE  \E outs, amt : HasLength(outs) /\ OrFlawed(tx, PeerTx(id, outs, amt))
  <2>1. PICK outs, amt : HasLength(outs) /\ tx = PeerTx(id, outs, amt)
    <3>1. PICK n \in 1..2 :
            \E outs, amt : outs \in [1..n -> TheirOutputs] /\ tx = PeerTx(id, outs, amt)
      BY <1>2 DEF PeerTxs
    <3>2. PICK outs, amt : outs \in [1..n -> TheirOutputs] /\ tx = PeerTx(id, outs, amt)
      BY <3>1
    <3>3. n \in Nat /\ DOMAIN outs = 1..n
      BY <3>2
    <3> QED BY <3>2, <3>3, Zenon
  <2> QED BY <2>1, Zenon DEF OrFlawed
<1>3. HasLength(<<>>) /\ \A out : HasLength(<<out>>)
  <2>1. DOMAIN <<>> = 1..0 /\ \A out : DOMAIN <<out>> = 1..1
    OBVIOUS
  <2>2. 0 \in Nat /\ 1 \in Nat
    OBVIOUS
  <2> QED BY <2>1, <2>2, Zenon
<1> HIDE DEF HasLength
<1>4. ASSUME tx \in FlawedTxs(id)
      PROVE  \E outs, amt : HasLength(outs) /\ OrFlawed(tx, PeerTx(id, outs, amt))
  <2> DEFINE a == CHOOSE amt \in AMOUNTS : TRUE
  <2>1. \/ tx \in {PeerTx(id, <<>>, a), PeerTx(id, << <<id, 0>> >>, a)}
        \/ \E out \in TheirOutputs : tx = [PeerTx(id, <<out>>, a) EXCEPT !.outputs = <<>>]
        \/ \E out \in TheirOutputs :
             tx = [PeerTx(id, <<out>>, a) EXCEPT !.inputs[1].signed = FALSE]
        \/ \E out \in OurOutputs : tx = PeerTx(id, <<out>>, a)
        \/ \E o \in ChainOutputs :
             tx = [PeerTx(id, <<o.out>>, a) EXCEPT !.inputs[1].key = o.key,
                                                   !.inputs[1].signed = FALSE]
        \/ \E out \in TheirOutputs : tx = PeerTx(id, <<out>>, BLOCK_REWARD + a)
    BY <1>4 DEF FlawedTxs
  <2> HIDE DEF a
  <2>2. CASE tx \in {PeerTx(id, <<>>, a), PeerTx(id, << <<id, 0>> >>, a)}
    BY <2>2, <1>3, Zenon DEF OrFlawed
  <2>3. CASE \E out \in TheirOutputs : tx = [PeerTx(id, <<out>>, a) EXCEPT !.outputs = <<>>]
    BY <2>3, <1>3, Zenon DEF OrFlawed
  <2>4. CASE \E out \in TheirOutputs :
               tx = [PeerTx(id, <<out>>, a) EXCEPT !.inputs[1].signed = FALSE]
    BY <2>4, <1>3, Zenon DEF OrFlawed
  <2>5. CASE \E out \in OurOutputs : tx = PeerTx(id, <<out>>, a)
    BY <2>5, <1>3, Zenon DEF OrFlawed
  <2>6. CASE \E o \in ChainOutputs :
               tx = [PeerTx(id, <<o.out>>, a) EXCEPT !.inputs[1].key = o.key,
                                                     !.inputs[1].signed = FALSE]
    <3>1. PICK o : tx = [PeerTx(id, <<o.out>>, a) EXCEPT !.inputs[1].key = o.key,
                                                         !.inputs[1].signed = FALSE]
      BY <2>6
    <3> DEFINE p == PeerTx(id, <<o.out>>, a)
    <3>2. tx = [p EXCEPT !.inputs[1].key = o.key, !.inputs[1].signed = FALSE]
      BY <3>1
    <3>3. OrFlawed(tx, p)
      <4> HIDE DEF p
      <4> QED BY <3>2 DEF OrFlawed
    <3> QED BY <1>3, <3>3, Zenon
  <2>7. CASE \E out \in TheirOutputs : tx = PeerTx(id, <<out>>, BLOCK_REWARD + a)
    BY <2>7, <1>3, Zenon DEF OrFlawed
  <2> QED BY <2>1, <2>2, <2>3, <2>4, <2>5, <2>6, <2>7
<1>5. PICK outs, amt : HasLength(outs) /\ OrFlawed(tx, PeerTx(id, outs, amt))
  BY <1>2, <1>4
<1>6. PICK n \in Nat : DOMAIN outs = 1..n
  BY <1>5 DEF HasLength
<1>7. /\ tx.id = id /\ IsList(tx.inputs)
      /\ tx.outputs = <<>> \/ \E out : tx.outputs = <<out>>
  BY <1>5, <1>6, PeerTxForms
<1> QED BY <1>1, <1>7, OneOutput DEF Shaped, IsList

\* A coinbase and a list of transactions are a list.
LEMMA CoinbaseFirst ==
  ASSUME NEW coinbase, Shaped(coinbase), NEW S, NEW txs \in Seq(S), \A tx \in S : Shaped(tx)
  PROVE  LET all == <<coinbase>> \o txs
         IN  all \in Seq(ToSet(all)) /\ \A i \in DOMAIN all : Shaped(all[i])
<1> DEFINE all == <<coinbase>> \o txs
<1>1. all \in Seq(S \cup {coinbase})
  <2>1. <<coinbase>> \in Seq(S \cup {coinbase}) /\ txs \in Seq(S \cup {coinbase})
    OBVIOUS
  <2> QED BY <2>1, ConcatProperties
<1> HIDE DEF all
<1>2. \A i \in DOMAIN all : all[i] \in S \cup {coinbase}
  BY <1>1
<1>3. all \in Seq(ToSet(all))
  BY <1>1, SeqOfElements
<1> QED BY <1>2, <1>3 DEF all

LEMMA PeerBlockShaped ==
  ASSUME NEW id \in Int, NEW S, NEW txs \in Seq(S), \A tx \in S : Shaped(tx)
  PROVE  LET b == PeerBlock(id, txs)
         IN  b.txs \in Seq(ToSet(b.txs)) /\ \A tx \in AllTxs(b) : Shaped(tx)
<1>1. Shaped(PeerCoinbase(id, txs))
  BY OneOutput, NothingOwed DEF PeerCoinbase, IsList
<1>2. PeerBlock(id, txs).txs = <<PeerCoinbase(id, txs)>> \o txs
  BY DEF PeerBlock
<1> QED BY <1>1, <1>2, CoinbaseFirst DEF AllTxs

LEMMA FlawedBlockShaped ==
  ASSUME NEW id \in Int, NEW b \in FlawedBlocks(PeerBlock(id, <<>>))
  PROVE  /\ b.txs \in Seq(ToSet(b.txs)) /\ b.txs[1].id = id
         /\ \A tx \in AllTxs(b) : Shaped(tx) /\ tx.id = id
<1> DEFINE cb == PeerCoinbase(id, <<>>)
           b0 == PeerBlock(id, <<>>)
<1>1. /\ DOMAIN cb = {"id", "inputs", "outputs"} /\ cb.id = id
      /\ IsList(cb.inputs) /\ \E out : cb.outputs = <<out>>
  BY NothingOwed DEF PeerCoinbase, IsList
<1>2. /\ b0.txs = <<cb>>
      /\ DOMAIN b0 = {"hash", "prev", "txs", "hash_met", "all_tx_match"}
  <2>1. <<cb>> \o <<>> = <<cb>>
    <3> HIDE DEF cb
    <3>1. <<cb>> \in Seq({cb})
      OBVIOUS
    <3> QED BY <3>1
  <2> QED BY <2>1 DEF PeerBlock
<1> HIDE DEF cb, b0
<1>3. PICK out : cb.outputs = <<out>>
  BY <1>1
<1>4. \/ b.txs = <<cb>>
      \/ b.txs = [<<cb>> EXCEPT ![1].outputs[1].amt = @ + 1]
      \/ b.txs = [<<cb>> EXCEPT ![1].outputs = @ \o @]
      \/ \E in : b.txs = [<<cb>> EXCEPT ![1].inputs = <<in>>]
  <2>1. \/ b = [b0 EXCEPT !.hash_met = FALSE] \/ b = [b0 EXCEPT !.all_tx_match = FALSE]
        \/ \E h : b = [b0 EXCEPT !.prev = h]
        \/ b = [b0 EXCEPT !.txs[1].outputs[1].amt = @ + 1]
        \/ b = [b0 EXCEPT !.txs[1].outputs = @ \o @]
        \/ \E in : b = [b0 EXCEPT !.txs[1].inputs = <<in>>]
    BY Zenon DEF FlawedBlocks, b0
  <2>2. CASE b = [b0 EXCEPT !.txs[1].outputs[1].amt = @ + 1]
    BY <1>2, <2>2
  <2>3. CASE b = [b0 EXCEPT !.txs[1].outputs = @ \o @]
    BY <1>2, <2>3
  <2>4. ASSUME NEW in, b = [b0 EXCEPT !.txs[1].inputs = <<in>>]
        PROVE  b.txs = [<<cb>> EXCEPT ![1].inputs = <<in>>]
    BY <1>2, <2>4
  <2>5. ASSUME NEW h, \/ b = [b0 EXCEPT !.hash_met = FALSE] \/ b = [b0 EXCEPT !.all_tx_match = FALSE]
                      \/ b = [b0 EXCEPT !.prev = h]
        PROVE  b.txs = <<cb>>
    BY <1>2, <2>5
  <2> QED BY <2>1, <2>2, <2>3, <2>4, <2>5
<1>5. \E tx : b.txs = <<tx>> /\ Shaped(tx) /\ tx.id = id
  <2>1. Shaped(cb) /\ cb.id = id
    BY <1>1, <1>3, OneOutput
  <2>2. CASE b.txs = [<<cb>> EXCEPT ![1].outputs[1].amt = @ + 1]
    <3> DEFINE tx == [cb EXCEPT !.outputs[1].amt = @ + 1]
    <3>1. b.txs = <<tx>>
      BY <2>2
    <3>2. tx.id = id /\ tx.inputs = cb.inputs /\ tx.outputs = <<[out EXCEPT !.amt = @ + 1]>>
      BY <1>1, <1>3
    <3> HIDE DEF tx
    <3>3. Shaped(tx)
      BY <1>1, <3>2, OneOutput
    <3> QED BY <3>1, <3>2, <3>3
  <2>3. CASE b.txs = [<<cb>> EXCEPT ![1].outputs = @ \o @]
    <3> DEFINE tx == [cb EXCEPT !.outputs = @ \o @]
    <3>1. b.txs = <<tx>>
      BY <2>3
    <3>2. tx.id = id /\ tx.inputs = cb.inputs /\ tx.outputs = <<out>> \o <<out>>
      BY <1>1, <1>3
    <3> HIDE DEF tx
    <3>3. <<out>> \o <<out>> \in Seq({out})
      BY ConcatProperties
    <3>4. Shaped(tx)
      BY <1>1, <3>2, <3>3, SeqOfElements DEF Shaped, IsList
    <3> QED BY <3>1, <3>2, <3>4
  <2>4. ASSUME NEW in, b.txs = [<<cb>> EXCEPT ![1].inputs = <<in>>]
        PROVE  \E tx : b.txs = <<tx>> /\ Shaped(tx) /\ tx.id = id
    <3> DEFINE tx == [cb EXCEPT !.inputs = <<in>>]
    <3>1. b.txs = <<tx>>
      BY <2>4
    <3>2. tx.id = id /\ tx.inputs = <<in>> /\ tx.outputs = <<out>>
      BY <1>1, <1>3
    <3> HIDE DEF tx
    <3>4. IsList(<<in>>)
      <4>1. <<in>> \in Seq({in})
        OBVIOUS
      <4> QED BY <4>1, SeqOfElements DEF IsList
    <3>3. Shaped(tx)
      BY <3>2, <3>4, OneOutput
    <3> QED BY <3>1, <3>2, <3>3
  <2> QED BY <1>4, <2>1, <2>2, <2>3, <2>4
<1>6. PICK tx : b.txs = <<tx>> /\ Shaped(tx) /\ tx.id = id
  BY <1>5
<1>7. <<tx>> \in Seq({tx}) /\ <<tx>>[1] = tx /\ \A i \in DOMAIN <<tx>> : <<tx>>[i] = tx
  OBVIOUS
<1> QED BY <1>6, <1>7, SeqOfElements DEF AllTxs

LEMMA ReceiveOwners ==
  ASSUME OwnersInv, Receive
  PROVE  OwnersInv'
<1>1. PICK ids \in PeerIds :
        \/ \E tx \in PeerTxs(ids[2]) \cup FlawedTxs(ids[2]) : ReceiveTx(tx)
        \/ \E txs \in PeerTxLists(ids[2]) : ReceiveBlock(PeerBlock(ids[1], txs))
        \/ \E tx \in FlawedTxs(ids[2]) : ReceiveBlock(PeerBlock(ids[1], <<tx>>))
        \/ \E b \in FlawedBlocks(PeerBlock(ids[1], <<>>)) : ReceiveBlock(b)
  BY DEF Receive
<1>2. ids[1] \in Int /\ ids[2] \in Int
  BY IdAssumption DEF PeerIds, UnusedIds
<1>3. Idle
  BY DEF Receive
<1>4. ASSUME NEW tx \in PeerTxs(ids[2]) \cup FlawedTxs(ids[2]), ReceiveTx(tx)
      PROVE  OwnersInv'
  <2>1. /\ UNCHANGED <<blockchain_db, utxo_pool, wallet_pool, building, block, cmd>>
        /\ M!MempoolAdd(tx) /\ cmd = "idle"
    BY <1>3, <1>4 DEF ReceiveTx, Idle, chainVars, walletDisk, buildVars, blockVars
  <2>2. ValidateTxShared(tx, utxo_pool) = 0
    BY <1>4 DEF ReceiveTx, ValidateTxIncoming
  <2>3. Owned(tx, StoredTxs)
    BY <2>2, ValidOwned DEF OwnersInv
  <2>4. Shaped(tx)
    BY <1>2, <1>4, PeerTxShaped
  <2> QED BY <2>1, <2>3, <2>4, AddOwners
<1>5. ASSUME NEW b, ReceiveBlock(b), b.txs \in Seq(ToSet(b.txs)),
             \A tx \in AllTxs(b) : Shaped(tx)
      PROVE  OwnersInv'
  <2>1. /\ UNCHANGED <<blockchain_db, utxo_pool, wallet_pool, mempool, building>>
        /\ block' = b /\ cmd' = "mined"
    BY <1>5 DEF ReceiveBlock, chainVars, walletDisk, buildVars, memVars
  <2> QED BY <1>5, <2>1, NewBlockOwners
<1>6. ASSUME NEW txs \in PeerTxLists(ids[2]), ReceiveBlock(PeerBlock(ids[1], txs))
      PROVE  OwnersInv'
  <2> DEFINE S == ToSet(mempool) \cup PeerTxs(ids[2])
  <2>1. \A tx \in S : Shaped(tx)
    BY <1>2, PeerTxShaped DEF OwnersInv, PendingOwned
  <2>2. txs \in Seq(S)
    <3>1. PICK n \in 0..2 : txs \in [1..n -> S]
      BY DEF PeerTxLists
    <3> QED BY <3>1
  <2> HIDE DEF S
  <2> QED BY <1>2, <1>5, <1>6, <2>1, <2>2, PeerBlockShaped
<1>7. ASSUME NEW tx \in FlawedTxs(ids[2]), ReceiveBlock(PeerBlock(ids[1], <<tx>>))
      PROVE  OwnersInv'
  <2> DEFINE txs == <<tx>>
             S == {tx}
  <2>1. txs \in Seq(S) /\ \A t \in S : Shaped(t)
    BY <1>2, PeerTxShaped
  <2>2. ReceiveBlock(PeerBlock(ids[1], txs))
    BY <1>7
  <2> HIDE DEF txs, S
  <2>3. LET b == PeerBlock(ids[1], txs)
        IN  b.txs \in Seq(ToSet(b.txs)) /\ \A t \in AllTxs(b) : Shaped(t)
    BY <1>2, <2>1, PeerBlockShaped
  <2> QED BY <1>5, <2>2, <2>3
<1> QED BY <1>1, <1>2, <1>4, <1>5, <1>6, <1>7, FlawedBlockShaped

-----------------------------------------------------------------------------
(* OwnersInv is inductive.                                                 *)

LEMMA OwnersInit == Init => OwnersInv
<1> SUFFICES ASSUME Init
             PROVE  OwnersInv
  OBVIOUS
<1>1. /\ blockchain_db = {} /\ utxo_pool = <<>> /\ wallet_pool = <<>> /\ mempool = <<>>
      /\ building = NoTx /\ block = NoBlock /\ cmd = "boot"
  BY DEF Init, ChainInit, WalletInit, HandleBlockInit, M!MempoolInit
<1>2. PoolsMade
  BY <1>1, FS_EmptySet DEF PoolsMade, WalletShape
<1>3. PendingOwned
  BY <1>1, NothingOwed DEF PendingOwned, NoTx
<1>4. BlockOwned
  BY <1>1, NothingOwed DEF BlockOwned
<1> QED BY <1>2, <1>3, <1>4 DEF OwnersInv

LEMMA OwnersStep ==
  ASSUME OwnersInv, Control, Counters, [PeersNext]_vars
  PROVE  OwnersInv'
<1>1. CASE Boot \/ Kill \/ UNCHANGED vars
  BY <1>1, QuietStepOwners DEF Kill
<1>2. CASE Command
  <2>1. CASE \/ Mine /\ ~FeesKnown
             \/ \E amt \in AMOUNTS, fee \in FEES : CreateTxExits(amt, fee)
             \/ ShellExit
    <3>1. \E why : Halt(why)
      BY <2>1 DEF Mine, CreateTxExits, ShellExit
    <3> QED BY <3>1, QuietStepOwners
  <2> QED BY <1>2, <2>1, MineOwners, PaymentOwners DEF Command
<1>3. CASE Offer
  <2>1. /\ UNCHANGED <<blockchain_db, utxo_pool, wallet_pool, block>>
        /\ M!MempoolAdd(building) /\ building' = NoTx /\ cmd' = "idle"
    BY <1>3 DEF Offer, chainVars, walletDisk, blockVars
  <2> QED BY <2>1, AddOwners DEF OwnersInv, PendingOwned
<1>4. CASE Run
  BY <1>3, <1>4, QuietStepOwners, AcceptOwners, PoolsOwners, PaymentOwners DEF Run
<1> QED BY <1>1, <1>2, <1>4, ReceiveOwners DEF PeersNext, Next

-----------------------------------------------------------------------------
(* The order of the blocks.                                                *)

\* A command that is cut in the middle stays cut.
LEMMA TornStays ==
  ASSUME [PeersNext]_vars, ~torn'
  PROVE  ~torn /\ (Kill => Idle)
<1>1. Kill => ~torn /\ Idle
  BY DEF Kill
<1>2. Boot \/ Run => torn' = torn
  BY DEF Run, Boot, BootStep, InitDone, AcceptBlock, RejectBlock, AddToChain,
     BeginPools, UpdatePools, BeginMempool, UpdateMempool, MineDone, BuildStep, BuildDone, Offer,
     history
<1>3. Command \/ Receive => torn' = torn
  BY DEF Command, Mine, CreateTx, CreateTxExits, ShellExit, history, Receive, ReceiveTx,
     ReceiveBlock
<1>4. UNCHANGED vars => torn' = torn
  BY DEF vars, history
<1> QED BY <1>1, <1>2, <1>3, <1>4 DEF PeersNext, Next

\* The chain grows at its end, by the block that is being added.
LEMMA ChainGrows ==
  ASSUME Control, ChainInv, [PeersNext]_vars, ~torn', blockchain_db' # {}
  PROVE  \/ ~torn /\ blockchain_db # {} /\ blockchain_db' = blockchain_db /\ Tip' = Tip
         \/ /\ blockchain_db = {} /\ blockchain_db' = {GenesisBlock} /\ Tip' = Genesis
         \/ /\ ~torn /\ blockchain_db # {} /\ adding = block
            /\ cmd = "adding" /\ chain_pc = "put"
            /\ blockchain_db' = blockchain_db \cup {block} /\ Tip' = block.hash
            /\ Tip = block.prev /\ block.hash \notin Hashes
<1>1. ~torn /\ (Kill => Idle)
  BY TornStays
<1>2. DatabaseSound /\ FilesFollow
  BY <1>1 DEF ChainInv
<1>3. ASSUME UNCHANGED chainVars
      PROVE  blockchain_db' = blockchain_db /\ Tip' = Tip
  BY <1>3 DEF chainVars, Tip
<1>4. CASE \/ InitDone \/ RejectBlock \/ BeginPools \/ UpdatePools \/ BeginMempool
           \/ UpdateMempool \/ MineDone \/ BuildStep \/ BuildDone \/ Offer
           \/ \E dest \in Dests, amt \in AMOUNTS, fee \in FEES : CreateTx(dest, amt, fee)
           \/ Mine /\ FeesKnown
           \/ Receive \/ UNCHANGED vars
  <2>1. UNCHANGED chainVars
    BY <1>4 DEF InitDone, RejectBlock, BeginPools, UpdatePools, BeginMempool, UpdateMempool,
       MineDone, BuildStep, BuildDone, Offer, CreateTx, Mine, Receive, ReceiveTx, ReceiveBlock, vars
  <2> QED BY <1>1, <1>3, <2>1
<1>5. CASE \/ Mine /\ ~FeesKnown
           \/ \E amt \in AMOUNTS, fee \in FEES : CreateTxExits(amt, fee)
           \/ ShellExit \/ Kill
  <2>1. PICK why : Idle /\ Halt(why)
    BY <1>1, <1>5 DEF Mine, CreateTxExits, ShellExit, Kill
  <2>2. /\ chain_pc = "ready" /\ chain_pc' = "down"
        /\ UNCHANGED <<blockchain_db, top_file>>
    BY <2>1 DEF Halt, ChainCrash, diskVars, Idle, Control
  <2> QED BY <1>1, <1>2, <2>2 DEF FilesFollow, Tip
<1>6. CASE AcceptBlock
  <2>1. /\ chain_pc = "ready" /\ chain_pc' = "put"
        /\ UNCHANGED <<blockchain_db, top_block_header_hash>>
    BY <1>6 DEF AcceptBlock, StartAdd, diskVars
  <2> QED BY <1>1, <2>1 DEF Tip
<1>7. CASE Boot
  <2>1. /\ chain_pc \in {"down", "refused"} /\ UNCHANGED <<blockchain_db, top_file>>
    BY <1>7 DEF Boot, BlockchainInit, UseExisting, RefuseFiles, AddGenesis, diskVars
  <2>2. blockchain_db # {} /\ Found(Genesis) /\ top_file \in Hashes /\ top_file \in Nat
        /\ height_file = Count /\ Count \in Nat /\ ~Up /\ Tip = top_file
    BY <2>1, FoundIs, FS_CardinalityType, <1>2 DEF Count, DatabaseSound, OneChain, FilesFollow, Tip, Up
  <2>3. CASE ~FilesUsable
    BY <2>2, <2>3, FileAssumption DEF FilesUsable, ReadTopHash, ReadChain
  <2>4. ASSUME NEW hash \in ReadTopHash, UseExisting(hash)
        PROVE  Tip' = Tip
    <3>1. hash \in Hashes /\ Hashes \subseteq Nat
      BY <1>2, <2>4, FoundIs DEF UseExisting, FilesAgree, DatabaseSound
    <3>2. Garbage \notin Nat
      BY FileAssumption
    <3>3. hash = top_file
      BY <2>4, <3>1, <3>2 DEF ReadTopHash
    <3>4. chain_pc' = "ready" /\ top_block_header_hash' = top_file
      BY <2>4, <3>3 DEF UseExisting
    <3> QED BY <2>2, <3>4 DEF Tip
  <2>5. ASSUME NEW hash, RefuseFiles(hash)
        PROVE  Tip' = Tip
    BY <2>1, <2>2, <2>5 DEF RefuseFiles, Tip
  <2> QED BY <1>1, <1>7, <2>1, <2>2, <2>3, <2>4, <2>5 DEF Boot, BlockchainInit
<1>8. CASE BootStep \/ AddToChain
  <2>1. AddStep /\ (BootStep <=> cmd = "boot") /\ cmd \in {"boot", "adding"}
    BY <1>8 DEF BootStep, AddToChain
  <2>2. CASE PutBlock
    <3>1. /\ chain_pc = "put" /\ chain_pc' = "empty_height" /\ adding' = adding
          /\ blockchain_db' = blockchain_db \cup {adding}
      BY <2>2 DEF PutBlock
    <3>2. Tip' = adding.hash
      BY <3>1 DEF Tip
    <3>3. CASE cmd = "boot"
      <4>1. adding = GenesisBlock /\ blockchain_db = {} /\ adding.hash = Genesis
        BY <1>2, <3>1, <3>3 DEF Control, FilesFollow, GenesisBlock
      <4> QED BY <3>1, <3>2, <4>1
    <3>4. CASE cmd = "adding"
      <4>1. blockchain_db # {} /\ adding.hash \notin Hashes /\ adding.prev = Tip
        BY <1>2, <3>1, <3>4, FoundIs DEF FilesFollow
      <4>2. adding = block
        BY <3>1, <3>4 DEF Control
      <4> QED BY <1>1, <3>1, <3>2, <3>4, <4>1, <4>2
    <3> QED BY <2>1, <3>3, <3>4
  <2>3. CASE EmptyHeightFile \/ WriteHeightFile \/ EmptyTopFile
    BY <1>1, <2>3 DEF EmptyHeightFile, WriteHeightFile, EmptyTopFile, Tip
  <2>4. CASE WriteTopFile
    BY <1>1, <1>2, <2>4 DEF WriteTopFile, Tip, FilesFollow
  <2> QED BY <2>1, <2>2, <2>3, <2>4 DEF AddStep
<1> QED BY <1>4, <1>5, <1>6, <1>7, <1>8 DEF PeersNext, Next, Command, Run

\* What the list to the top has is the database.
LEMMA TopListHasAll ==
  ASSUME NEW db, NEW top, OneChain(db, top)
  PROVE  TopList(db, top) \in Seq(db) /\ ToSet(TopList(db, top)) = db
<1>1. PICK f : /\ Lists(f, db) /\ \A g : Lists(g, db) => g = f
               /\ f[top] \in Seq(db) /\ ToSet(f[top]) = db
  BY DEF OneChain
<1>2. (CHOOSE g : Lists(g, db)) = f
  BY <1>1
<1> QED BY <1>1, <1>2 DEF TopList

LEMMA StoredAre ==
  ASSUME NEW list, ToSet(list) = blockchain_db, list \in Seq(blockchain_db)
  PROVE  StoredTxs = UNION {AllTxs(list[j]) : j \in 1..Len(list)}
<1>1. DOMAIN list = 1..Len(list)
  OBVIOUS
<1> QED BY <1>1 DEF StoredTxs, ToSet

\* A block owned by those of a list can follow them.
LEMMA OneMoreOwned ==
  ASSUME NEW S, NEW list \in Seq(S), NEW b, OwnedList(list),
         \A tx \in AllTxs(b) : Owned(tx, UNION {AllTxs(list[j]) : j \in 1..Len(list)})
  PROVE  OwnedList(Append(list, b))
<1> DEFINE more == Append(list, b)
<1>1. /\ DOMAIN list = 1..Len(list) /\ Len(list) \in Nat
      /\ DOMAIN more = 1..(Len(list) + 1)
      /\ \A j \in 1..Len(list) : more[j] = list[j]
      /\ more[Len(list) + 1] = b
  OBVIOUS
<1> HIDE DEF more
<1>2. ASSUME NEW i \in 1..Len(list), NEW tx \in AllTxs(more[i])
      PROVE  Owned(tx, UNION {AllTxs(more[j]) : j \in 1..(i - 1)})
  <2>1. Owned(tx, UNION {AllTxs(list[j]) : j \in 1..(i - 1)})
    BY <1>1, <1>2 DEF OwnedList
  <2>2. {AllTxs(more[j]) : j \in 1..(i - 1)} = {AllTxs(list[j]) : j \in 1..(i - 1)}
    <3>1. \A j \in 1..(i - 1) : more[j] = list[j]
      BY <1>1
    <3> QED BY <3>1
  <2> QED BY <2>1, <2>2
<1>3. ASSUME NEW tx \in AllTxs(more[Len(list) + 1])
      PROVE  Owned(tx, UNION {AllTxs(more[j]) : j \in 1..(Len(list) + 1 - 1)})
  <2>1. {AllTxs(more[j]) : j \in 1..(Len(list) + 1 - 1)} = {AllTxs(list[j]) : j \in 1..Len(list)}
    BY <1>1
  <2> QED BY <1>1, <1>3, <2>1
<1> QED BY <1>1, <1>2, <1>3 DEF OwnedList, more

LEMMA ListStep ==
  ASSUME Control, ChainInv, OwnersInv, ListOwned, [PeersNext]_vars
  PROVE  ListOwned'
<1> SUFFICES ASSUME ~torn', blockchain_db' # {}
             PROVE  OwnedList(TopList(blockchain_db', Tip'))
  BY DEF ListOwned
<1>1. CASE ~torn /\ blockchain_db # {} /\ blockchain_db' = blockchain_db /\ Tip' = Tip
  BY <1>1 DEF ListOwned
<1>2. CASE blockchain_db' = {GenesisBlock} /\ Tip' = Genesis
  <2> DEFINE list == <<GenesisBlock>>
  <2>1. TopList(blockchain_db', Tip') = list
    BY <1>2, GenesisAlone
  <2>2. DOMAIN list = {1} /\ list[1] = GenesisBlock
    OBVIOUS
  <2>3. AllTxs(GenesisBlock) = {}
    BY DEF AllTxs, GenesisBlock
  <2> QED BY <2>1, <2>2, <2>3 DEF OwnedList
<1>3. CASE /\ ~torn /\ blockchain_db # {} /\ adding = block
           /\ cmd = "adding" /\ chain_pc = "put"
           /\ blockchain_db' = blockchain_db \cup {block} /\ Tip' = block.hash
           /\ Tip = block.prev /\ block.hash \notin Hashes
  <2> DEFINE list == TopList(blockchain_db, Tip)
  <2>1. /\ IsFiniteSet(blockchain_db) /\ Linked(blockchain_db) /\ OneChain(blockchain_db, Tip)
        /\ Found(Genesis)
    BY <1>3 DEF ChainInv, DatabaseSound
  <2>2. block.hash \notin HashesIn(blockchain_db) /\ block.hash # Genesis
    BY <1>3, <2>1, FoundIs
  <2>3. TopList(blockchain_db', Tip') = Append(list, block)
    BY <1>3, <2>1, <2>2, OneMoreOnTop
  <2>4. list \in Seq(blockchain_db) /\ ToSet(list) = blockchain_db
    BY <2>1, TopListHasAll
  <2>5. OwnedList(list)
    BY <1>3 DEF ListOwned
  <2> HIDE DEF list
  <2>6. \A tx \in AllTxs(block) : Owned(tx, UNION {AllTxs(list[j]) : j \in 1..Len(list)})
    BY <1>3, <2>4, StoredAre DEF OwnersInv, BlockOwned
  <2> QED BY <2>3, <2>4, <2>5, <2>6, OneMoreOwned
<1> QED BY <1>1, <1>2, <1>3, ChainGrows

\* Everything in the pools, the mempool and a block on its way into the chain
\* was paid for, and each block of the chain by the blocks before it.
THEOREM OwnersInvariant == PeersSpec => [](OwnersInv /\ ListOwned)
<1>1. Init => OwnersInv /\ ListOwned
  BY OwnersInit DEF ListOwned, Init, ChainInit
<1>2. Control /\ Counters /\ ChainInv /\ OwnersInv /\ ListOwned /\ [PeersNext]_vars
        => OwnersInv' /\ ListOwned'
  BY OwnersStep, ListStep
<1> QED BY <1>1, <1>2, PeersChainInvariant, PTL DEF PeersSpec

\* As long as no command is cut in the middle, nobody spends what another's
\* key locks: the inputs of every transaction in the chain and in the mempool
\* name outputs of earlier blocks, show their keys and are signed for.
THEOREM NobodySpendsAnothers == PeersSpec => [](~torn => OwnersSpend)
<1>1. Control /\ ChainInv /\ OwnersInv /\ ListOwned => (~torn => OwnersSpend)
  <2> SUFFICES ASSUME Control, ChainInv, OwnersInv, ListOwned, ~torn, Idle,
                      NEW i \in DOMAIN Chain \cup {Len(Chain) + 1},
                      NEW tx \in (IF i \in DOMAIN Chain THEN ToSet(Chain[i].txs)
                                  ELSE ToSet(mempool))
               PROVE  Owned(tx, UNION {ToSet(Chain[j].txs) : j \in 1..(i - 1)})
    BY Zenon DEF OwnersSpend, Owned, Pays
  <2>1. DatabaseSound /\ FilesFollow /\ Up /\ chain_pc = "ready"
    BY DEF ChainInv, Idle, Control
  <2>2. blockchain_db # {} /\ Tip = top_block_header_hash
    BY <2>1 DEF FilesFollow
  <2>3. /\ Chain = TopList(blockchain_db, Tip) /\ Chain \in Seq(blockchain_db)
        /\ ToSet(Chain) = blockchain_db
    BY <2>1, <2>2, ChainHasAll DEF DatabaseSound
  <2>4. \A b : ToSet(b.txs) = AllTxs(b)
    BY DEF ToSet, AllTxs
  <2>5. CASE i \in DOMAIN Chain
    BY <2>2, <2>3, <2>4, <2>5 DEF ListOwned, OwnedList
  <2>6. CASE i \notin DOMAIN Chain
    <3>1. tx \in ToSet(mempool) /\ i = Len(Chain) + 1 /\ Len(Chain) \in Nat
      BY <2>3, <2>6
    <3>2. Owned(tx, StoredTxs)
      BY <3>1 DEF OwnersInv, PendingOwned
    <3>3. StoredTxs = UNION {AllTxs(Chain[j]) : j \in 1..Len(Chain)}
      BY <2>3, StoredAre
    <3>4. 1..(i - 1) = 1..Len(Chain)
      BY <3>1
    <3>5. {ToSet(Chain[j].txs) : j \in 1..(i - 1)} = {AllTxs(Chain[j]) : j \in 1..Len(Chain)}
      BY <2>4, <3>4
    <3> QED BY <3>2, <3>3, <3>5
  <2> QED BY <2>5, <2>6
<1> QED BY <1>1, PeersChainInvariant, OwnersInvariant, PTL

-----------------------------------------------------------------------------
(* Rivals: what the chain has spent, nobody waits to spend.                *)
(*                                                                         *)
(* Between two commands no output a stored transaction spends is in a pool *)
(* or claimed in the mempool.  While a block is accepted, what it spends   *)
(* is still there until the loops have come to it: LeftInPools and         *)
(* LeftInMempool.  It needs that an output is not made again once it is    *)
(* spent (IdsNew): ids are new, and a pending transaction with the id of   *)
(* one in the block in hand is that one, which the purge will find.        *)

StoredSpent == UNION {SpentOutpoints(tx) : tx \in StoredTxs}
InHand      == UNION {SpentOutpoints(tx) : tx \in AllTxs(block)}

\* The block in hand is in the database, and its outputs are in no pool.
JustStored == cmd = "adding" /\ chain_pc # "put"
\* It is not.
NotStored  == cmd = "mined" \/ (cmd = "adding" /\ chain_pc = "put")

\* The outputs whose claims update_mempool has still to look for.
ToPurge ==
  UNION {{block.txs[i].inputs[k].prev :
            k \in {k \in DOMAIN block.txs[i].inputs : i > cur_tx \/ k >= cur_in}} :
         i \in {i \in DOMAIN block.txs : i >= cur_tx}}

LeftInPools ==
  IF cmd = "pools" THEN ToRemove ELSE IF JustStored THEN InHand ELSE {}
LeftInMempool ==
  IF cmd = "mempool" THEN ToPurge ELSE IF JustStored \/ cmd = "pools" THEN InHand ELSE {}

SpentGone ==
  /\ StoredSpent \cap DOMAIN utxo_pool \subseteq LeftInPools
  /\ StoredSpent \cap DOMAIN wallet_pool \subseteq LeftInPools
  /\ StoredSpent \cap Claimed \subseteq LeftInMempool
  /\ StoredSpent \cap SpentOutpoints(building) = {}

\* Between the two removals of an input, the first has been made.
HalfGone ==
  cmd = "pools" /\ half /\ pool_tx <= Len(block.txs) /\ pool_out > Len(CurrentTx.outputs) =>
    /\ pool_in <= Len(CurrentTx.inputs)
    /\ CurrentTx.inputs[pool_in].prev \notin DOMAIN utxo_pool

IdsNew ==
  /\ \A out \in StoredSpent : out[1] \in IdsOf(blockchain_db)
  /\ NotStored =>
       /\ \A tx \in AllTxs(block) : tx.id \notin IdsOf(blockchain_db)
       /\ \A tx \in AllTxs(block), pending \in ToSet(mempool) :
            tx.id = pending.id => tx = pending /\ (cmd = "adding" => tx.inputs # <<>>)
  /\ cmd = "mined" => \A pending \in ToSet(mempool) : pending.id # block.txs[1].id
  /\ JustStored \/ cmd = "pools" =>
       \A tx \in AllTxs(block), out \in StoredSpent : out[1] # tx.id
  /\ \A pending \in ToSet(mempool) : pending.id \in IdsOf(blockchain_db) =>
       Accepting /\ pending \in AllTxs(block) /\ pending.inputs # <<>>
  /\ Building => building.id \notin IdsOf(blockchain_db) \/ M!InMempool(building.id)

Rivals == (~exited => Tables) /\ SpentGone /\ HalfGone /\ IdsNew
RivalsInv == ~torn => Rivals

-----------------------------------------------------------------------------
(* Lemmas about what is spent and known.                                   *)

LEMMA IdsStored ==
  \A id : id \in IdsOf(blockchain_db) <=> \E tx \in StoredTxs : tx.id = id
BY DEF IdsOf, StoredTxs

\* The pools vouch for outputs of stored transactions only.
LEMMA SpentIds ==
  ASSUME NEW tx, Owned(tx, StoredTxs)
  PROVE  \A out \in SpentOutpoints(tx) : out[1] \in IdsOf(blockchain_db)
<1> SUFFICES ASSUME NEW out \in SpentOutpoints(tx)
             PROVE  out[1] \in IdsOf(blockchain_db)
  OBVIOUS
<1>1. PICK k \in DOMAIN tx.inputs : out = tx.inputs[k].prev
  BY DEF SpentOutpoints
<1>2. PICK made \in StoredTxs : \E n : out = Outpoint(made, n)
  BY <1>1 DEF Owned, Pays
<1> QED BY <1>2, IdsStored DEF Outpoint

\* Less in the pools and less that is claimed: what is left is no more.
LEMMA GoneStill ==
  ASSUME SpentGone, blockchain_db' = blockchain_db,
         DOMAIN utxo_pool' \subseteq DOMAIN utxo_pool,
         DOMAIN wallet_pool' \subseteq DOMAIN wallet_pool,
         Claimed' \subseteq Claimed,
         building' \in {building, NoTx},
         LeftInPools \subseteq LeftInPools', LeftInMempool \subseteq LeftInMempool'
  PROVE  SpentGone'
<1>1. StoredSpent' = StoredSpent
  BY DEF StoredSpent, StoredTxs
<1>2. StoredSpent \cap SpentOutpoints(building') = {}
  BY NothingInHand DEF SpentGone
<1> QED BY <1>1, <1>2 DEF SpentGone

\* With nothing waiting and nothing in hand, there is little to say.
LEMMA EmptyHanded ==
  ASSUME Rivals, cmd \in {"boot", "idle"}, cmd' \in {"boot", "idle"},
         StoredTxs' = StoredTxs,
         UNCHANGED <<utxo_pool, wallet_pool>>,
         mempool' = <<>>, building' = NoTx, ~exited' => Tables'
  PROVE  Rivals'
<1>1. StoredSpent' = StoredSpent /\ IdsOf(blockchain_db)' = IdsOf(blockchain_db)
  BY DEF StoredSpent, StoredTxs, IdsOf
<1>2. /\ LeftInPools = {} /\ LeftInPools' = {} /\ LeftInMempool' = {}
  BY DEF LeftInPools, LeftInMempool, JustStored
<1>3. ToSet(mempool') = {} /\ Claimed' = {} /\ SpentOutpoints(building') = {}
  BY NothingInHand DEF Claimed
<1>4. SpentGone'
  BY <1>1, <1>2, <1>3 DEF Rivals, SpentGone
<1>5. IdsNew'
  BY <1>1, <1>3 DEF Rivals, IdsNew, NotStored, JustStored, Building
<1> QED BY <1>4, <1>5 DEF Rivals, HalfGone

\* mempool_add: the tables go on agreeing, unless the process exits.
LEMMA AddTables ==
  ASSUME Tables, NEW tx, IsList(tx.inputs), M!MempoolAdd(tx), IsList(mempool')
  PROVE  /\ ~exited' => Tables'
         /\ M!InMempool(tx.id) => mempool' = mempool
         /\ \A t : t \in ToSet(mempool') <=>
                     t \in ToSet(mempool) \/ (t = tx /\ ~M!InMempool(tx.id))
<1>1. CASE M!InMempool(tx.id)
  BY <1>1 DEF M!MempoolAdd, M!poolVars, Tables, Claimed
<1>2. CASE ~M!InMempool(tx.id)
  <2>1. mempool' = Append(mempool, tx) /\ M!UtxoToTxAddTx(tx)
    BY <1>2 DEF M!MempoolAdd
  <2>2. /\ mempool \in Seq(ToSet(mempool)) /\ ~exited
        /\ \A t \in ToSet(mempool) : t.id # tx.id
    BY <1>2 DEF Tables, M!InMempool, ToSet
  <2>3. /\ Len(mempool') = Len(mempool) + 1 /\ mempool'[Len(mempool) + 1] = tx
        /\ \A k \in 1..Len(mempool) : mempool'[k] = mempool[k]
        /\ DOMAIN mempool' = 1..(Len(mempool) + 1) /\ DOMAIN mempool = 1..Len(mempool)
        /\ Len(mempool) \in Nat
    BY <2>1, <2>2, AppendProperties
  <2>4. \A t : t \in ToSet(mempool') <=> t \in ToSet(mempool) \/ t = tx
    <3>1. \A k \in DOMAIN mempool' : k \in DOMAIN mempool \/ k = Len(mempool) + 1
      BY <2>3
    <3> QED BY <2>3, <3>1 DEF ToSet
  <2>5. ASSUME ~exited'
        PROVE  Tables'
    <3>1. M!MappedInputs(tx) = DOMAIN tx.inputs
      BY <2>1, <2>5 DEF M!UtxoToTxAddTx
    <3>2. {tx.inputs[k].prev : k \in M!MappedInputs(tx)} = SpentOutpoints(tx)
      BY <3>1 DEF SpentOutpoints
    <3>3. utxo_to_tx' = [out \in DOMAIN utxo_to_tx \cup SpentOutpoints(tx) |->
                           IF out \in SpentOutpoints(tx) THEN tx.id ELSE utxo_to_tx[out]]
      BY <2>1, <3>2 DEF M!UtxoToTxAddTx
    <3>4. ASSUME NEW out \in SpentOutpoints(tx)
          PROVE  out \notin DOMAIN utxo_to_tx
      <4>1. PICK k \in DOMAIN tx.inputs : out = tx.inputs[k].prev
        BY DEF SpentOutpoints
      <4>2. k \in 1..k /\ \A j \in 1..k : ~M!Taken(tx, j)
        BY <3>1, <4>1 DEF M!MappedInputs, IsList
      <4> QED BY <4>1, <4>2 DEF M!Taken
    <3>5. \A out : out \in Claimed' <=> out \in Claimed \/ out \in SpentOutpoints(tx)
      BY <2>4 DEF Claimed
    <3>6. DOMAIN utxo_to_tx' = Claimed'
      BY <3>3, <3>5 DEF Tables
    <3>7. ASSUME NEW t \in ToSet(mempool'), NEW out \in SpentOutpoints(t)
          PROVE  utxo_to_tx'[out] = t.id
      BY <2>4, <3>3, <3>4 DEF Tables, Claimed
    <3>8. ASSUME NEW i \in DOMAIN mempool', NEW j \in DOMAIN mempool', mempool'[i].id = mempool'[j].id
          PROVE  i = j
      <4>1. /\ i \in 1..Len(mempool) \/ i = Len(mempool) + 1
            /\ j \in 1..Len(mempool) \/ j = Len(mempool) + 1
        BY <2>3
      <4>2. \A k \in 1..Len(mempool) : k \in DOMAIN mempool /\ mempool[k] \in ToSet(mempool)
        BY <2>2 DEF ToSet
      <4>3. \A k \in 1..Len(mempool) : mempool'[k].id # tx.id
        BY <2>2, <2>3, <4>2
      <4> QED BY <2>3, <3>8, <4>1, <4>2, <4>3 DEF Tables
    <3> QED BY <2>5, <3>6, <3>7, <3>8 DEF Tables, IsList
  <2> QED BY <1>2, <2>4, <2>5
<1> QED BY <1>1, <1>2

-----------------------------------------------------------------------------
(* Start-up and end.                                                       *)

LEMMA StartRivals ==
  ASSUME Rivals, Control, Boot \/ BootStep \/ InitDone
  PROVE  Rivals'
<1>1. /\ cmd = "boot" /\ cmd' \in {"boot", "idle"} /\ mempool = <<>> /\ mempool' = mempool
      /\ building' = NoTx
      /\ UNCHANGED <<utxo_pool, wallet_pool, utxo_to_tx, exited>>
      /\ StoredTxs' = StoredTxs
  <2>1. CASE Boot
    <3>1. /\ chain_pc \in {"down", "refused"} /\ blockchain_db' = blockchain_db
          /\ UNCHANGED <<utxo_pool, wallet_pool, mempool, utxo_to_tx, exited, building, cmd>>
      BY <2>1 DEF Boot, BlockchainInit, UseExisting, RefuseFiles, AddGenesis, diskVars, walletDisk,
         buildVars, blockVars, memVars
    <3>2. cmd = "boot"
      BY <3>1 DEF Control
    <3> QED BY <3>1, <3>2 DEF Control, Building, StoredTxs
  <2>2. CASE BootStep
    <3>1. /\ UNCHANGED <<utxo_pool, wallet_pool, mempool, utxo_to_tx, exited, building, cmd>>
          /\ cmd = "boot"
          /\ blockchain_db' = blockchain_db \/ blockchain_db' = blockchain_db \cup {GenesisBlock}
      BY <2>2 DEF BootStep, AddStep, PutBlock, EmptyHeightFile, WriteHeightFile, EmptyTopFile,
         WriteTopFile, walletDisk, buildVars, blockVars, memVars, Control
    <3>2. StoredTxs' = StoredTxs
      BY <3>1, NothingInHand DEF StoredTxs
    <3> QED BY <3>1, <3>2 DEF Control, Building
  <2>3. CASE InitDone
    <3>1. /\ UNCHANGED <<utxo_pool, wallet_pool, utxo_to_tx, exited, building, blockchain_db>>
          /\ cmd = "boot" /\ cmd' = "idle" /\ mempool' = <<>>
      BY <2>3 DEF InitDone, chainVars, diskVars, walletDisk, buildVars, blockVars
    <3> QED BY <3>1 DEF Control, Building, StoredTxs
  <2> QED BY <2>1, <2>2, <2>3
<1>2. ~exited' => Tables'
  BY <1>1 DEF Rivals, Tables, Claimed
<1> QED BY <1>1, <1>2, EmptyHanded

LEMMA HaltRivals ==
  ASSUME Rivals, Idle, NEW why, Halt(why)
  PROVE  Rivals'
<1>1. /\ cmd = "idle" /\ cmd' = "boot" /\ mempool' = <<>> /\ utxo_to_tx' = <<>> /\ ~exited'
      /\ building' = NoTx /\ UNCHANGED <<utxo_pool, wallet_pool, blockchain_db>>
  BY DEF Idle, Halt, ChainCrash, diskVars, walletDisk
<1>2. Tables'
  <2>1. /\ mempool' \in Seq(ToSet(mempool')) /\ ToSet(mempool') = {}
        /\ DOMAIN utxo_to_tx' = {} /\ DOMAIN mempool' = {}
    BY <1>1, NothingOwed
  <2> QED BY <1>1, <2>1 DEF Tables, Claimed
<1>3. StoredTxs' = StoredTxs
  BY <1>1 DEF StoredTxs
<1> QED BY <1>1, <1>2, <1>3, EmptyHanded

-----------------------------------------------------------------------------
(* Payments.                                                               *)

LEMMA NothingLeft ==
  ASSUME SpentGone, cmd \in {"boot", "idle", "build", "offer", "mined"}
  PROVE  /\ LeftInPools = {} /\ LeftInMempool = {}
         /\ StoredSpent \cap DOMAIN utxo_pool = {}
         /\ StoredSpent \cap DOMAIN wallet_pool = {}
         /\ StoredSpent \cap Claimed = {}
BY DEF SpentGone, LeftInPools, LeftInMempool, JustStored

LEMMA UnusedIsNew ==
  ASSUME NEW id \in UnusedIds
  PROVE  id \notin IdsOf(blockchain_db) /\ ~M!InMempool(id) /\ \A tx \in ToSet(mempool) : tx.id # id
BY DEF UnusedIds, IdsOf, AllTxs, M!InMempool, ToSet

LEMMA PaymentRivals ==
  ASSUME Rivals, OwnersInv, Control,
         \/ \E dest \in Dests, amt \in AMOUNTS, fee \in FEES : CreateTx(dest, amt, fee)
         \/ BuildStep \/ BuildDone
  PROVE  Rivals'
<1>1. /\ UNCHANGED <<blockchain_db, utxo_pool, mempool, utxo_to_tx, exited>>
      /\ cmd \in {"idle", "build"} /\ cmd' \in {"build", "offer"}
      /\ DOMAIN wallet_pool' = DOMAIN wallet_pool
  BY DEF CreateTx, Idle, StartBuild, BuildStep, MarkSpent, BuildDone, StoreChangeKey, chainVars,
     diskVars, blockVars, memVars, walletDisk
<1>2. /\ StoredSpent' = StoredSpent /\ IdsOf(blockchain_db)' = IdsOf(blockchain_db)
      /\ Claimed' = Claimed /\ (M!InMempool(building.id)' <=> M!InMempool(building'.id))
      /\ \A id : (\E n \in DOMAIN mempool : mempool[n].id = id) <=> M!InMempool(id)
  BY <1>1 DEF StoredSpent, StoredTxs, IdsOf, Claimed, M!InMempool
<1>3. /\ LeftInPools = {} /\ LeftInPools' = {} /\ LeftInMempool = {} /\ LeftInMempool' = {}
  BY <1>1 DEF LeftInPools, LeftInMempool, JustStored
<1>4. /\ StoredSpent \cap SpentOutpoints(building') = {}
      /\ building'.id \notin IdsOf(blockchain_db) \/ M!InMempool(building'.id)
  <2>1. ASSUME NEW dest, NEW amt, NEW fee, CreateTx(dest, amt, fee)
        PROVE  /\ StoredSpent \cap SpentOutpoints(building') = {}
               /\ building'.id \notin IdsOf(blockchain_db) \/ M!InMempool(building'.id)
    <3>1. PICK id \in IdsFor(dest, amt, fee) : StartBuild(id, dest, amt, fee)
      BY <2>1 DEF CreateTx
    <3> DEFINE tx == BuiltTx(id, dest, amt, fee)
    <3>2. building' = tx /\ cmd = "idle"
      BY <2>1, <3>1 DEF StartBuild, CreateTx, Idle
    <3>3. tx.id = id
      BY DEF BuiltTx
    <3>4. id \in Int
      BY <3>1, IdAssumption DEF IdsFor, UnusedIds
    <3>5. SpentOutpoints(tx) \subseteq Unspent(DOMAIN wallet_pool)
      BY <3>4, BuiltTxFits DEF OwnersInv, PoolsMade
    <3>6. id \in UnusedIds \/ \E n \in DOMAIN mempool : mempool[n] = tx
      BY <3>1 DEF IdsFor
    <3> HIDE DEF tx
    <3>7. id \notin IdsOf(blockchain_db) \/ M!InMempool(id)
      BY <1>2, <3>3, <3>6, UnusedIsNew
    <3> QED BY <3>2, <3>3, <3>5, <3>7, NothingLeft DEF Rivals, Unspent
  <2>2. ASSUME BuildStep \/ BuildDone
        PROVE  building' = building /\ cmd = "build"
    BY <2>2 DEF BuildStep, MarkSpent, BuildDone, StoreChangeKey
  <2> QED BY <2>1, <2>2 DEF Rivals, SpentGone, IdsNew, Building
<1>5. SpentGone'
  BY <1>1, <1>2, <1>3, <1>4 DEF Rivals, SpentGone
<1>6. IdsNew'
  BY <1>1, <1>2, <1>4 DEF Rivals, IdsNew, NotStored, JustStored, Building, Accepting
<1>7. ~exited' => Tables'
  BY <1>1, <1>2 DEF Rivals, Tables
<1> QED BY <1>1, <1>5, <1>6, <1>7 DEF Rivals, HalfGone

LEMMA AddRivals ==
  ASSUME Rivals, ~exited, cmd \in {"idle", "offer"}, cmd' = "idle",
         NEW tx, Shaped(tx), M!MempoolAdd(tx), IsList(mempool'), building' = NoTx,
         UNCHANGED <<blockchain_db, utxo_pool, wallet_pool, block>>,
         StoredSpent \cap SpentOutpoints(tx) = {},
         tx.id \notin IdsOf(blockchain_db) \/ M!InMempool(tx.id)
  PROVE  Rivals'
<1>1. /\ StoredSpent' = StoredSpent /\ IdsOf(blockchain_db)' = IdsOf(blockchain_db)
  BY DEF StoredSpent, StoredTxs, IdsOf
<1>2. /\ ~exited' => Tables'
      /\ \A t : t \in ToSet(mempool') <=>
                  t \in ToSet(mempool) \/ (t = tx /\ ~M!InMempool(tx.id))
  BY AddTables DEF Rivals, Shaped
<1>3. \A out \in Claimed' : out \in Claimed \/ out \in SpentOutpoints(tx)
  BY <1>2 DEF Claimed
<1>4. LeftInPools' = {} /\ LeftInMempool' = {} /\ SpentOutpoints(building') = {}
  BY NothingInHand DEF LeftInPools, LeftInMempool, JustStored
<1>5. SpentGone'
  BY <1>1, <1>3, <1>4, NothingLeft DEF Rivals, SpentGone
<1>6. \A t \in ToSet(mempool) : t.id \notin IdsOf(blockchain_db)
  BY DEF Rivals, IdsNew, Accepting
<1>7. IdsNew'
  BY <1>1, <1>2, <1>6 DEF Rivals, IdsNew, NotStored, JustStored, Building
<1> QED BY <1>2, <1>5, <1>7 DEF Rivals, HalfGone

LEMMA OfferRivals ==
  ASSUME Rivals, OwnersInv, OwnersInv', ~exited, Offer
  PROVE  Rivals'
<1>1. /\ UNCHANGED <<blockchain_db, utxo_pool, wallet_pool, block>>
      /\ cmd = "offer" /\ M!MempoolAdd(building) /\ building' = NoTx /\ cmd' = "idle"
  BY DEF Offer, chainVars, diskVars, walletDisk, blockVars
<1>2. Shaped(building) /\ IsList(mempool')
  BY DEF OwnersInv, PendingOwned, IsList
<1>3. /\ StoredSpent \cap SpentOutpoints(building) = {}
      /\ building.id \notin IdsOf(blockchain_db) \/ M!InMempool(building.id)
  BY <1>1 DEF Rivals, SpentGone, IdsNew, Building
<1> QED BY <1>1, <1>2, <1>3, AddRivals

\* A transaction of the others is valid: what it spends is in the pool.
LEMMA ReceiveTxRivals ==
  ASSUME Rivals, Control, OwnersInv', ~exited, Idle, NEW tx, Shaped(tx), tx.id \in UnusedIds,
         ReceiveTx(tx)
  PROVE  Rivals'
<1>1. /\ UNCHANGED <<blockchain_db, utxo_pool, wallet_pool, block, building>>
      /\ cmd = "idle" /\ cmd' = "idle" /\ M!MempoolAdd(tx)
  BY DEF ReceiveTx, Idle, chainVars, diskVars, walletDisk, buildVars, blockVars
<1>2. building' = NoTx /\ IsList(mempool')
  BY <1>1 DEF Control, Building, OwnersInv, PendingOwned, IsList
<1>3. \A out \in SpentOutpoints(tx) : out \in DOMAIN utxo_pool
  <2>1. ValidateTxShared(tx, utxo_pool) = 0
    BY DEF ReceiveTx, ValidateTxIncoming
  <2>2. \A k \in DOMAIN tx.inputs : ValidateInput(tx.inputs[k], utxo_pool) = 0
    BY <2>1 DEF ValidateTxShared
  <2>3. \A k \in DOMAIN tx.inputs : tx.inputs[k].prev \in DOMAIN utxo_pool
    BY <2>2 DEF ValidateInput
  <2> QED BY <2>3 DEF SpentOutpoints
<1>4. StoredSpent \cap SpentOutpoints(tx) = {}
  BY <1>1, <1>3, NothingLeft DEF Rivals
<1>5. tx.id \notin IdsOf(blockchain_db)
  BY UnusedIsNew
<1> QED BY <1>1, <1>2, <1>4, <1>5, AddRivals

-----------------------------------------------------------------------------
(* A block in hand.                                                        *)

\* Its transactions are new, or the ones that wait.
LEMMA NewBlockRivals ==
  ASSUME Rivals, cmd = "idle", cmd' = "mined",
         UNCHANGED <<blockchain_db, utxo_pool, wallet_pool, mempool, utxo_to_tx, exited, building>>,
         \A tx \in AllTxs(block') : tx.id \in UnusedIds \/ tx \in ToSet(mempool),
         block'.txs[1].id \in UnusedIds, ~exited
  PROVE  Rivals'
<1>1. /\ StoredSpent' = StoredSpent /\ IdsOf(blockchain_db)' = IdsOf(blockchain_db)
      /\ Claimed' = Claimed
  BY DEF StoredSpent, StoredTxs, IdsOf, Claimed
<1>2. /\ LeftInPools = {} /\ LeftInPools' = {} /\ LeftInMempool = {} /\ LeftInMempool' = {}
  BY DEF LeftInPools, LeftInMempool, JustStored
<1>3. SpentGone'
  BY <1>1, <1>2 DEF Rivals, SpentGone
<1>4. Tables /\ Tables'
  BY <1>1 DEF Rivals, Tables
<1>5. \A t, u \in ToSet(mempool) : t.id = u.id => t = u
  BY <1>4 DEF Tables, ToSet
<1>6. \A t \in ToSet(mempool) : t.id \notin IdsOf(blockchain_db)
  BY DEF Rivals, IdsNew, Accepting
<1>7. \A tx \in AllTxs(block') :
        /\ tx.id \notin IdsOf(blockchain_db)
        /\ \A pending \in ToSet(mempool) : tx.id = pending.id => tx = pending
  BY <1>5, <1>6, UnusedIsNew
<1>8. \A pending \in ToSet(mempool) : pending.id # block'.txs[1].id
  BY UnusedIsNew
<1>9. IdsNew'
  <2>1. ~Building' /\ ~JustStored' /\ NotStored'
    BY DEF Building, JustStored, NotStored
  <2>2. AllTxs(block)' = AllTxs(block')
    BY DEF AllTxs
  <2> QED BY <1>1, <1>6, <1>7, <1>8, <2>1, <2>2 DEF Rivals, IdsNew
<1> QED BY <1>3, <1>4, <1>9 DEF Rivals, HalfGone

LEMMA MineRivals ==
  ASSUME Rivals, OwnersInv, ~exited, Mine, FeesKnown
  PROVE  Rivals'
<1>1. PICK id \in UnusedIds : CreateBlock(id)
  BY DEF Mine
<1>2. /\ block' = NewBlock(id) /\ cmd = "idle" /\ cmd' = "mined"
      /\ UNCHANGED <<blockchain_db, utxo_pool, wallet_pool, building, mempool, utxo_to_tx, exited>>
  BY <1>1 DEF Mine, Idle, CreateBlock, chainVars, diskVars, buildVars, memVars
<1> DEFINE txs == NewBlock(id).txs
<1>3. /\ txs \in Seq(ToSet(txs)) /\ txs[1] = CoinbaseTx(id)
      /\ \A i \in 2..Len(txs) : i - 1 \in DOMAIN mempool /\ txs[i] = mempool[i - 1]
  BY FrontOfMempool DEF OwnersInv, PendingOwned
<1>4. CoinbaseTx(id).id = id
  BY DEF CoinbaseTx
<1> HIDE DEF txs
<1>5. \A i \in DOMAIN txs : i = 1 \/ i \in 2..Len(txs)
  BY <1>3
<1>6. \A i \in DOMAIN txs : txs[i].id \in UnusedIds \/ txs[i] \in ToSet(mempool)
  BY <1>3, <1>4, <1>5 DEF ToSet
<1>7. block'.txs = txs
  BY <1>2 DEF txs
<1>8. /\ \A tx \in AllTxs(block') : tx.id \in UnusedIds \/ tx \in ToSet(mempool)
      /\ block'.txs[1].id \in UnusedIds
  BY <1>3, <1>4, <1>6, <1>7 DEF AllTxs
<1> QED BY <1>2, <1>8, NewBlockRivals

\* It passes validate_block: it spends no more than a coinbase may, and
\* whatever else it has spends something.
LEMMA AcceptRivals ==
  ASSUME Rivals, OwnersInv, AcceptBlock
  PROVE  Rivals'
<1>1. /\ UNCHANGED <<blockchain_db, utxo_pool, wallet_pool, mempool, utxo_to_tx, exited, building, block>>
      /\ cmd = "mined" /\ cmd' = "adding" /\ chain_pc' = "put" /\ ValidateBlock(block) = 0
  BY DEF AcceptBlock, StartAdd, diskVars, walletDisk, buildVars, blockVars, memVars
<1>2. /\ StoredSpent' = StoredSpent /\ IdsOf(blockchain_db)' = IdsOf(blockchain_db)
      /\ Claimed' = Claimed /\ AllTxs(block)' = AllTxs(block)
  BY <1>1 DEF StoredSpent, StoredTxs, IdsOf, Claimed, AllTxs
<1>3. /\ LeftInPools = {} /\ LeftInPools' = {} /\ LeftInMempool = {} /\ LeftInMempool' = {}
  BY <1>1 DEF LeftInPools, LeftInMempool, JustStored
<1>4. SpentGone' /\ (~exited' => Tables')
  BY <1>1, <1>2, <1>3 DEF Rivals, SpentGone, Tables
<1>5. ASSUME NEW tx \in AllTxs(block), NEW pending \in ToSet(mempool), tx.id = pending.id
      PROVE  tx = pending /\ tx.inputs # <<>>
  <2>1. tx = pending /\ pending.id # block.txs[1].id
    BY <1>1, <1>5 DEF Rivals, IdsNew, NotStored
  <2>2. PICK i \in DOMAIN block.txs : tx = block.txs[i]
    BY DEF AllTxs
  <2>3. i \in 2..Len(block.txs)
    <3>1. block.txs \in Seq(ToSet(block.txs)) /\ i # 1
      BY <2>1, <2>2 DEF OwnersInv, BlockOwned
    <3> QED BY <3>1
  <2>4. ValidateTxShared(tx, utxo_pool) = 0
    BY <1>1, <2>2, <2>3 DEF ValidateBlock, ValidateIncomingBlockTxs
  <2> QED BY <2>1, <2>4 DEF ValidateTxShared
<1>6. IdsNew'
  <2>1. ~Building' /\ ~JustStored' /\ NotStored /\ NotStored' /\ ~Accepting
    BY <1>1 DEF Building, JustStored, NotStored, Accepting
  <2> QED BY <1>1, <1>2, <1>5, <2>1 DEF Rivals, IdsNew
<1> QED BY <1>1, <1>4, <1>6 DEF Rivals, HalfGone

\* It does not.
LEMMA RejectRivals ==
  ASSUME Rivals, RejectBlock
  PROVE  Rivals'
<1>1. /\ UNCHANGED <<blockchain_db, utxo_pool, wallet_pool, mempool, utxo_to_tx, exited, building>>
      /\ cmd = "mined" /\ cmd' = "idle"
  BY DEF RejectBlock, chainVars, diskVars, walletDisk, buildVars, memVars
<1>2. /\ StoredSpent' = StoredSpent /\ IdsOf(blockchain_db)' = IdsOf(blockchain_db)
      /\ Claimed' = Claimed
  BY <1>1 DEF StoredSpent, StoredTxs, IdsOf, Claimed
<1>3. /\ LeftInPools = {} /\ LeftInPools' = {} /\ LeftInMempool = {} /\ LeftInMempool' = {}
  BY <1>1 DEF LeftInPools, LeftInMempool, JustStored
<1>4. SpentGone' /\ (~exited' => Tables')
  BY <1>1, <1>2, <1>3 DEF Rivals, SpentGone, Tables
<1>5. IdsNew'
  BY <1>1, <1>2 DEF Rivals, IdsNew, NotStored, JustStored, Building, Accepting
<1> QED BY <1>1, <1>4, <1>5 DEF Rivals, HalfGone

-----------------------------------------------------------------------------
(* A block of the others.                                                  *)

LEMMA PeerBlockTxs ==
  ASSUME NEW id, NEW S, NEW txs \in Seq(S)
  PROVE  LET b == PeerBlock(id, txs)
         IN  b.txs[1].id = id /\ \A tx \in AllTxs(b) : tx.id = id \/ tx \in S
<1> DEFINE coinbase == PeerCoinbase(id, txs)
           all == <<coinbase>> \o txs
<1>1. coinbase.id = id
  BY DEF PeerCoinbase
<1>2. PeerBlock(id, txs).txs = all
  BY DEF PeerBlock
<1> HIDE DEF coinbase
<1>3. all \in Seq(S \cup {coinbase}) /\ all[1] = coinbase
  <2>1. <<coinbase>> \in Seq(S \cup {coinbase}) /\ txs \in Seq(S \cup {coinbase})
    OBVIOUS
  <2> QED BY <2>1, ConcatProperties
<1> HIDE DEF all
<1>4. \A i \in DOMAIN all : all[i] = coinbase \/ all[i] \in S
  BY <1>3
<1> QED BY <1>1, <1>2, <1>3, <1>4 DEF AllTxs

LEMMA ReceiveRivals ==
  ASSUME Rivals, OwnersInv, OwnersInv', Control, ~exited, Receive
  PROVE  Rivals'
<1>1. PICK ids \in PeerIds :
        \/ \E tx \in PeerTxs(ids[2]) \cup FlawedTxs(ids[2]) : ReceiveTx(tx)
        \/ \E txs \in PeerTxLists(ids[2]) : ReceiveBlock(PeerBlock(ids[1], txs))
        \/ \E tx \in FlawedTxs(ids[2]) : ReceiveBlock(PeerBlock(ids[1], <<tx>>))
        \/ \E b \in FlawedBlocks(PeerBlock(ids[1], <<>>)) : ReceiveBlock(b)
  BY DEF Receive
<1>2. Idle /\ cmd = "idle"
  BY DEF Receive, Idle
<1>3. ids[1] \in UnusedIds /\ ids[2] \in UnusedIds /\ ids[1] \in Int /\ ids[2] \in Int
  BY IdAssumption DEF PeerIds, UnusedIds
<1>4. ASSUME NEW tx \in PeerTxs(ids[2]) \cup FlawedTxs(ids[2]), ReceiveTx(tx)
      PROVE  Rivals'
  <2>1. Shaped(tx) /\ tx.id = ids[2]
    BY <1>3, PeerTxShaped
  <2> QED BY <1>2, <1>3, <1>4, <2>1, ReceiveTxRivals
<1>5. ASSUME NEW b, ReceiveBlock(b), b.txs[1].id = ids[1],
             \A tx \in AllTxs(b) : tx.id = ids[1] \/ tx.id = ids[2] \/ tx \in ToSet(mempool)
      PROVE  Rivals'
  <2>1. /\ UNCHANGED <<blockchain_db, utxo_pool, wallet_pool, mempool, utxo_to_tx, exited, building>>
        /\ block' = b /\ cmd' = "mined"
    BY <1>5 DEF ReceiveBlock, chainVars, diskVars, walletDisk, buildVars, memVars
  <2>2. /\ \A tx \in AllTxs(block') : tx.id \in UnusedIds \/ tx \in ToSet(mempool)
        /\ block'.txs[1].id \in UnusedIds
    BY <1>3, <1>5, <2>1
  <2> QED BY <1>2, <2>1, <2>2, NewBlockRivals
<1>6. ASSUME NEW S, \A tx \in S : tx.id = ids[2] \/ tx \in ToSet(mempool),
             NEW txs \in Seq(S), ReceiveBlock(PeerBlock(ids[1], txs))
      PROVE  Rivals'
  <2> DEFINE b == PeerBlock(ids[1], txs)
  <2>1. b.txs[1].id = ids[1] /\ \A tx \in AllTxs(b) : tx.id = ids[1] \/ tx \in S
    BY <1>6, PeerBlockTxs
  <2>2. ReceiveBlock(b)
    BY <1>6
  <2> HIDE DEF b
  <2> QED BY <1>5, <1>6, <2>1, <2>2
<1>7. ASSUME NEW txs \in PeerTxLists(ids[2]), ReceiveBlock(PeerBlock(ids[1], txs))
      PROVE  Rivals'
  <2> DEFINE S == ToSet(mempool) \cup PeerTxs(ids[2])
  <2>1. \A tx \in S : tx.id = ids[2] \/ tx \in ToSet(mempool)
    BY <1>3, PeerTxShaped
  <2>2. txs \in Seq(S)
    <3>1. PICK n \in 0..2 : txs \in [1..n -> S]
      BY DEF PeerTxLists
    <3> QED BY <3>1
  <2> HIDE DEF S
  <2> QED BY <1>6, <1>7, <2>1, <2>2
<1>8. ASSUME NEW tx \in FlawedTxs(ids[2]), ReceiveBlock(PeerBlock(ids[1], <<tx>>))
      PROVE  Rivals'
  <2> DEFINE txs == <<tx>>
  <2>1. txs \in Seq({tx}) /\ tx.id = ids[2]
    BY <1>3, PeerTxShaped
  <2>2. ReceiveBlock(PeerBlock(ids[1], txs))
    BY <1>8
  <2> HIDE DEF txs
  <2> QED BY <1>6, <2>1, <2>2
<1>9. ASSUME NEW b \in FlawedBlocks(PeerBlock(ids[1], <<>>)), ReceiveBlock(b)
      PROVE  Rivals'
  <2>1. b.txs[1].id = ids[1] /\ \A tx \in AllTxs(b) : tx.id = ids[1]
    BY <1>3, FlawedBlockShaped
  <2> QED BY <1>5, <1>9, <2>1
<1> QED BY <1>1, <1>4, <1>7, <1>8, <1>9

-----------------------------------------------------------------------------
(* The block is accepted: the database.                                    *)

LEMMA AddToChainRivals ==
  ASSUME Rivals, OwnersInv, Control, AddToChain
  PROVE  Rivals'
<1>1. /\ cmd = "adding" /\ cmd' = "adding" /\ adding = block /\ building = NoTx
      /\ UNCHANGED <<utxo_pool, wallet_pool, mempool, utxo_to_tx, exited, building, block>>
      /\ Accepting /\ Accepting' /\ ~Building'
  BY DEF AddToChain, walletDisk, buildVars, blockVars, memVars, Control, Accepting, Building
<1>2. InHand' = InHand /\ Claimed' = Claimed /\ AllTxs(block)' = AllTxs(block)
  BY <1>1 DEF InHand, Claimed, AllTxs
<1>3. CASE PutBlock
  <2>1. /\ chain_pc = "put" /\ chain_pc' = "empty_height"
        /\ blockchain_db' = blockchain_db \cup {block}
    BY <1>1, <1>3 DEF PutBlock
  <2>2. /\ NotStored /\ ~NotStored' /\ JustStored' /\ cmd' # "mined"
        /\ LeftInPools = {} /\ LeftInMempool = {}
        /\ LeftInPools' = InHand /\ LeftInMempool' = InHand
    BY <1>1, <1>2, <2>1 DEF NotStored, JustStored, LeftInPools, LeftInMempool
  <2>3. StoredSpent' = StoredSpent \cup InHand
    BY <2>1 DEF StoredSpent, StoredTxs, InHand
  <2>4. \A id : id \in IdsOf(blockchain_db)' <=>
                  id \in IdsOf(blockchain_db) \/ \E tx \in AllTxs(block) : tx.id = id
    BY <2>1, OneMoreBlock
  <2>5. SpentOutpoints(building') = {}
    BY <1>1, NothingInHand
  <2>6. SpentGone'
    BY <1>1, <1>2, <2>2, <2>3, <2>5 DEF Rivals, SpentGone
  <2>7. /\ \A out \in StoredSpent \cup InHand : out[1] \in IdsOf(blockchain_db)
        /\ \A tx \in AllTxs(block) : tx.id \notin IdsOf(blockchain_db)
    <3>1. \A tx \in AllTxs(block) : Owned(tx, StoredTxs)
      BY <1>1, <2>1 DEF OwnersInv, BlockOwned
    <3> QED BY <2>2, <3>1, SpentIds DEF Rivals, IdsNew, InHand
  <2>8. ASSUME NEW pending \in ToSet(mempool), pending.id \in IdsOf(blockchain_db)'
        PROVE  pending \in AllTxs(block) /\ pending.inputs # <<>>
    <3>1. CASE pending.id \in IdsOf(blockchain_db)
      BY <3>1 DEF Rivals, IdsNew
    <3>2. ASSUME NEW tx \in AllTxs(block), tx.id = pending.id
          PROVE  pending \in AllTxs(block) /\ pending.inputs # <<>>
      BY <1>1, <2>2, <3>2 DEF Rivals, IdsNew
    <3> QED BY <2>4, <2>8, <3>1, <3>2
  <2>9. IdsNew'
    BY <1>1, <1>2, <2>2, <2>3, <2>4, <2>7, <2>8 DEF IdsNew
  <2> QED BY <1>1, <1>2, <2>6, <2>9 DEF Rivals, Tables, HalfGone
<1>4. CASE EmptyHeightFile \/ WriteHeightFile \/ EmptyTopFile \/ WriteTopFile
  <2>1. blockchain_db' = blockchain_db /\ chain_pc # "put" /\ chain_pc' # "put"
    BY <1>4 DEF EmptyHeightFile, WriteHeightFile, EmptyTopFile, WriteTopFile
  <2>2. /\ JustStored /\ JustStored' /\ ~NotStored'
        /\ LeftInPools' = LeftInPools /\ LeftInMempool' = LeftInMempool
    BY <1>1, <1>2, <2>1 DEF NotStored, JustStored, LeftInPools, LeftInMempool
  <2>3. StoredSpent' = StoredSpent /\ IdsOf(blockchain_db)' = IdsOf(blockchain_db)
    BY <2>1 DEF StoredSpent, StoredTxs, IdsOf
  <2>4. SpentGone'
    BY <1>1, <1>2, <2>2, <2>3 DEF Rivals, SpentGone
  <2>5. IdsNew'
    BY <1>1, <1>2, <2>2, <2>3 DEF Rivals, IdsNew
  <2> QED BY <1>1, <1>2, <2>4, <2>5 DEF Rivals, Tables, HalfGone
<1> QED BY <1>3, <1>4 DEF AddToChain, AddStep

-----------------------------------------------------------------------------
(* The pools.                                                              *)

LEMMA BeginPoolsRivals ==
  ASSUME Rivals, OwnersInv, BeginPools
  PROVE  Rivals'
<1>1. /\ UNCHANGED <<blockchain_db, utxo_pool, wallet_pool, mempool, utxo_to_tx, exited, building, block>>
      /\ cmd = "adding" /\ cmd' = "pools" /\ chain_pc = "ready" /\ half' = FALSE
      /\ pool_tx' = 1 /\ pool_in' = 1
  BY DEF BeginPools, StartUpdatePools, chainVars, diskVars, poolDisk, buildVars, memVars
<1>2. /\ StoredSpent' = StoredSpent /\ IdsOf(blockchain_db)' = IdsOf(blockchain_db)
      /\ InHand' = InHand /\ AllTxs(block)' = AllTxs(block) /\ Claimed' = Claimed
  BY <1>1 DEF StoredSpent, StoredTxs, IdsOf, InHand, AllTxs, Claimed
<1>3. InHand \subseteq ToRemove'
  <2> SUFFICES ASSUME NEW tx \in AllTxs(block), NEW out \in SpentOutpoints(tx)
               PROVE  out \in ToRemove'
    BY DEF InHand
  <2>1. PICK i \in DOMAIN block.txs, k \in DOMAIN tx.inputs :
          tx = block.txs[i] /\ out = tx.inputs[k].prev
    BY DEF AllTxs, SpentOutpoints
  <2>2. i >= 1 /\ k >= 1
    BY DEF OwnersInv, BlockOwned, Shaped, IsList
  <2> QED BY <1>1, <2>1, <2>2 DEF ToRemove, TxsAhead
<1>4. /\ LeftInPools = InHand /\ LeftInMempool = InHand
      /\ LeftInPools' = ToRemove' /\ LeftInMempool' = InHand
      /\ JustStored /\ ~NotStored' /\ Accepting /\ Accepting' /\ ~Building'
  BY <1>1, <1>2 DEF LeftInPools, LeftInMempool, JustStored, NotStored, Accepting, Building
<1>5. SpentGone'
  BY <1>1, <1>2, <1>3, <1>4, GoneStill DEF Rivals
<1>6. IdsNew'
  BY <1>1, <1>2, <1>4 DEF Rivals, IdsNew
<1> QED BY <1>1, <1>2, <1>5, <1>6 DEF Rivals, Tables, HalfGone

\* What the loop over the outputs and inputs does: an output that is made has
\* a new id, one that is spent goes.
LEMMA UpdatePoolsRivals ==
  ASSUME Rivals, OwnersInv, Control, Counters, UpdatePools
  PROVE  Rivals'
<1>1. /\ UNCHANGED <<blockchain_db, mempool, utxo_to_tx, exited, building, block, cmd, chain_pc>>
      /\ cmd = "pools" /\ ~PoolsDone /\ (PutOutput \/ DeleteInput \/ NextPoolTx)
  BY DEF UpdatePools, WritePools, PutOutput, DeleteInput, NextPoolTx, poolDisk, chainVars,
     diskVars, buildVars, memVars
<1>2. /\ StoredSpent' = StoredSpent /\ IdsOf(blockchain_db)' = IdsOf(blockchain_db)
      /\ InHand' = InHand /\ AllTxs(block)' = AllTxs(block) /\ Claimed' = Claimed
      /\ JustStored' = JustStored /\ NotStored' = NotStored /\ Accepting' = Accepting
      /\ Building' = Building /\ M!InMempool(building.id)' = M!InMempool(building.id)
  BY <1>1 DEF StoredSpent, StoredTxs, IdsOf, InHand, AllTxs, Claimed, JustStored, NotStored,
     Accepting, Building, M!InMempool
<1>3. IdsNew' /\ (~exited' => Tables')
  BY <1>1, <1>2 DEF Rivals, IdsNew, Tables
<1>4. /\ LeftInPools = ToRemove /\ LeftInPools' = ToRemove'
      /\ LeftInMempool = InHand /\ LeftInMempool' = InHand
  BY <1>1, <1>2 DEF LeftInPools, LeftInMempool
<1>5. /\ pool_tx \in DOMAIN block.txs /\ pool_tx <= Len(block.txs)
      /\ CurrentTx \in AllTxs(block) /\ Shaped(CurrentTx)
      /\ \A i \in DOMAIN block.txs : i \in Int /\ Shaped(block.txs[i])
  <2>1. pool_tx \in DOMAIN block.txs /\ pool_tx <= Len(block.txs)
    BY <1>1 DEF OwnersInv, BlockOwned, PoolsDone, Counters
  <2> QED BY <2>1 DEF CurrentTx, AllTxs, OwnersInv, BlockOwned
<1>6. \A out : out \in ToRemove <=>
        \E i \in DOMAIN block.txs : \E k \in DOMAIN block.txs[i].inputs :
          i >= pool_tx /\ (i > pool_tx \/ k >= pool_in) /\ out = block.txs[i].inputs[k].prev
  BY <1>1 DEF ToRemove, TxsAhead
<1>7. \A out : out \in ToRemove' <=>
        \E i \in DOMAIN block.txs : \E k \in DOMAIN block.txs[i].inputs :
          i >= pool_tx' /\ (i > pool_tx' \/ k >= pool_in') /\ out = block.txs[i].inputs[k].prev
  BY <1>1 DEF ToRemove, TxsAhead
<1>8. CASE PutOutput
  <2> DEFINE out == Outpoint(CurrentTx, pool_out)
  <2>1. /\ UNCHANGED <<pool_tx, pool_in>> /\ pool_out <= Len(CurrentTx.outputs)
        /\ DOMAIN utxo_pool' \subseteq DOMAIN utxo_pool \cup {out}
        /\ DOMAIN wallet_pool' \subseteq DOMAIN wallet_pool \cup {out}
        /\ half' => pool_out' = pool_out
    BY <1>8 DEF PutOutput, Put
  <2>2. out \notin StoredSpent
    BY <1>1, <1>5 DEF Rivals, IdsNew, Outpoint
  <2> HIDE DEF out
  <2>3. ToRemove' = ToRemove
    BY <1>1, <2>1 DEF ToRemove, TxsAhead
  <2>4. SpentGone'
    BY <1>1, <1>2, <1>4, <2>1, <2>2, <2>3 DEF Rivals, SpentGone
  <2>5. HalfGone'
    <3>1. Len(CurrentTx.outputs)' = Len(CurrentTx.outputs) /\ Len(CurrentTx.outputs) \in Nat
      BY <1>1, <1>5, <2>1 DEF CurrentTx, Shaped, IsList
    <3> QED BY <2>1, <3>1 DEF HalfGone, Counters
  <2> QED BY <1>3, <2>4, <2>5 DEF Rivals
<1>9. CASE DeleteInput
  <2> DEFINE out == CurrentTx.inputs[pool_in].prev
  <2>1. /\ UNCHANGED <<pool_tx, pool_out>> /\ pool_out > Len(CurrentTx.outputs)
        /\ pool_in <= Len(CurrentTx.inputs)
        /\ CurrentTx' = CurrentTx
        /\ \/ ~half /\ half' /\ pool_in' = pool_in /\ wallet_pool' = wallet_pool
              /\ DOMAIN utxo_pool' = DOMAIN utxo_pool \ {out}
           \/ half /\ ~half' /\ pool_in' = pool_in + 1 /\ utxo_pool' = utxo_pool
              /\ DOMAIN wallet_pool' = DOMAIN wallet_pool \ {out}
    BY <1>1, <1>9 DEF DeleteInput, Delete, CurrentTx
  <2>2. CASE ~half /\ half' /\ pool_in' = pool_in /\ wallet_pool' = wallet_pool
             /\ DOMAIN utxo_pool' = DOMAIN utxo_pool \ {out}
    <3>1. ToRemove' = ToRemove
      BY <1>1, <2>1, <2>2 DEF ToRemove, TxsAhead
    <3>2. SpentGone'
      BY <1>1, <1>2, <1>4, <2>2, <3>1 DEF Rivals, SpentGone
    <3>3. HalfGone'
      BY <2>1, <2>2 DEF HalfGone
    <3> QED BY <1>3, <3>2, <3>3 DEF Rivals
  <2>3. CASE half /\ ~half' /\ pool_in' = pool_in + 1 /\ utxo_pool' = utxo_pool
             /\ DOMAIN wallet_pool' = DOMAIN wallet_pool \ {out}
    <3>1. out \notin DOMAIN utxo_pool
      BY <1>1, <1>5, <2>1, <2>3 DEF Rivals, HalfGone
    <3>2. ASSUME NEW o \in ToRemove, o # out
          PROVE  o \in ToRemove'
      <4>1. PICK i \in DOMAIN block.txs : \E k \in DOMAIN block.txs[i].inputs :
              i >= pool_tx /\ (i > pool_tx \/ k >= pool_in) /\ o = block.txs[i].inputs[k].prev
        BY <1>6
      <4>2. PICK k \in DOMAIN block.txs[i].inputs :
              i >= pool_tx /\ (i > pool_tx \/ k >= pool_in) /\ o = block.txs[i].inputs[k].prev
        BY <4>1
      <4>3. i \in Int /\ k \in Int
        BY <1>5 DEF Shaped, IsList
      <4>4. i = pool_tx => k # pool_in
        BY <3>2, <4>2 DEF CurrentTx
      <4>5. i > pool_tx \/ k >= pool_in + 1
        BY <4>2, <4>4, <4>3 DEF Counters
      <4> QED BY <1>7, <2>1, <2>3, <4>2, <4>5
    <3>3. SpentGone'
      BY <1>1, <1>2, <1>4, <2>3, <3>1, <3>2 DEF Rivals, SpentGone
    <3> QED BY <1>3, <2>3, <3>3 DEF Rivals, HalfGone
  <2> QED BY <2>1, <2>2, <2>3
<1>10. CASE NextPoolTx
  <2>1. /\ UNCHANGED <<utxo_pool, wallet_pool, half>>
        /\ pool_out > Len(CurrentTx.outputs) /\ pool_in > Len(CurrentTx.inputs)
        /\ pool_tx' = pool_tx + 1 /\ pool_in' = 1
    BY <1>10 DEF NextPoolTx, poolDisk
  <2>2. ~half
    <3>1. Len(CurrentTx.inputs) \in Nat
      BY <1>5 DEF Shaped, IsList
    <3> QED BY <1>1, <1>5, <2>1, <3>1 DEF Rivals, HalfGone, Counters
  <2>3. ToRemove \subseteq ToRemove'
    <3> SUFFICES ASSUME NEW o \in ToRemove
                 PROVE  o \in ToRemove'
      OBVIOUS
    <3>1. PICK i \in DOMAIN block.txs : \E k \in DOMAIN block.txs[i].inputs :
            i >= pool_tx /\ (i > pool_tx \/ k >= pool_in) /\ o = block.txs[i].inputs[k].prev
      BY <1>6
    <3>2. PICK k \in DOMAIN block.txs[i].inputs :
            i >= pool_tx /\ (i > pool_tx \/ k >= pool_in) /\ o = block.txs[i].inputs[k].prev
      BY <3>1
    <3>3. i \in Int /\ k \in Int /\ k >= 1 /\ k <= Len(block.txs[i].inputs)
      BY <1>5 DEF Shaped, IsList
    <3>4. i # pool_tx
      <4>1. Len(CurrentTx.inputs) \in Nat
        BY <1>5 DEF Shaped, IsList
      <4> QED BY <2>1, <3>3, <3>2, <4>1 DEF CurrentTx, Counters
    <3>5. i >= pool_tx + 1
      BY <3>3, <3>4, <3>2 DEF Counters
    <3> QED BY <1>7, <2>1, <3>3, <3>5, <3>2
  <2>4. SpentGone'
    BY <1>1, <1>2, <1>4, <2>1, <2>3 DEF Rivals, SpentGone
  <2> QED BY <1>3, <2>1, <2>2, <2>4 DEF Rivals, HalfGone
<1> QED BY <1>1, <1>8, <1>9, <1>10

-----------------------------------------------------------------------------
(* The mempool.                                                            *)

LEMMA BeginMempoolRivals ==
  ASSUME Rivals, OwnersInv, Counters, BeginMempool
  PROVE  Rivals'
<1>1. /\ UNCHANGED <<blockchain_db, utxo_pool, wallet_pool, mempool, utxo_to_tx, exited, building, block>>
      /\ cmd = "pools" /\ cmd' = "mempool" /\ PoolsDone
      /\ cur_tx' = 1 /\ cur_in' = 1
  BY DEF BeginMempool, StartUpdatePools, M!StartUpdate, chainVars, diskVars, poolDisk, buildVars
<1>2. /\ StoredSpent' = StoredSpent /\ IdsOf(blockchain_db)' = IdsOf(blockchain_db)
      /\ InHand' = InHand /\ AllTxs(block)' = AllTxs(block) /\ Claimed' = Claimed
  BY <1>1 DEF StoredSpent, StoredTxs, IdsOf, InHand, AllTxs, Claimed
<1>3. InHand \subseteq ToPurge'
  <2> SUFFICES ASSUME NEW tx \in AllTxs(block), NEW out \in SpentOutpoints(tx)
               PROVE  out \in ToPurge'
    BY DEF InHand
  <2>1. PICK i \in DOMAIN block.txs, k \in DOMAIN tx.inputs :
          tx = block.txs[i] /\ out = tx.inputs[k].prev
    BY DEF AllTxs, SpentOutpoints
  <2>2. i >= 1 /\ k >= 1
    BY DEF OwnersInv, BlockOwned, Shaped, IsList
  <2> QED BY <1>1, <2>1, <2>2 DEF ToPurge
<1>4. ToRemove = {}
  <2>1. \A i \in DOMAIN block.txs : ~(i >= pool_tx)
    <3>1. Len(block.txs) \in Nat /\ DOMAIN block.txs = 1..Len(block.txs)
      BY DEF OwnersInv, BlockOwned
    <3> QED BY <1>1, <3>1 DEF PoolsDone, Counters
  <2> QED BY <2>1 DEF ToRemove, TxsAhead
<1>5. /\ LeftInPools = ToRemove /\ LeftInMempool = InHand
      /\ LeftInPools' = {} /\ LeftInMempool' = ToPurge'
      /\ ~JustStored' /\ ~NotStored' /\ Accepting /\ Accepting' /\ ~Building'
  BY <1>1, <1>2 DEF LeftInPools, LeftInMempool, JustStored, NotStored, Accepting, Building
<1>6. SpentGone'
  BY <1>1, <1>2, <1>3, <1>4, <1>5, GoneStill DEF Rivals
<1>7. IdsNew'
  BY <1>1, <1>2, <1>5 DEF Rivals, IdsNew
<1> QED BY <1>1, <1>2, <1>6, <1>7 DEF Rivals, Tables, HalfGone

\* One turn of either loop: an outpoint that was visited is not claimed.
LEMMA UpdateMempoolRivals ==
  ASSUME Rivals, OwnersInv, Control, Counters, ~exited, UpdateMempool
  PROVE  Rivals'
<1>1. /\ UNCHANGED <<blockchain_db, utxo_pool, wallet_pool, building, block, cmd, chain_pc, confirmed>>
      /\ cmd = "mempool" /\ (M!VisitInput \/ M!NextConfirmedTx) /\ confirmed = block.txs
  BY DEF UpdateMempool, M!VisitInput, M!NextConfirmedTx, chainVars, diskVars, walletDisk, buildVars,
     blockVars, Control
<1>2. /\ StoredSpent' = StoredSpent /\ IdsOf(blockchain_db)' = IdsOf(blockchain_db)
      /\ AllTxs(block)' = AllTxs(block)
      /\ ~JustStored' /\ ~NotStored' /\ Accepting /\ Accepting' /\ ~Building'
      /\ LeftInPools = {} /\ LeftInPools' = {}
      /\ LeftInMempool = ToPurge /\ LeftInMempool' = ToPurge'
  BY <1>1 DEF StoredSpent, StoredTxs, IdsOf, AllTxs, JustStored, NotStored, Accepting, Building,
     LeftInPools, LeftInMempool
<1>3. /\ cur_tx \in Int /\ cur_in \in Int
      /\ \A i \in DOMAIN block.txs : i \in Int /\ Shaped(block.txs[i])
  BY DEF Counters, OwnersInv, BlockOwned, AllTxs
<1>4. \A out : out \in ToPurge <=>
        \E i \in DOMAIN block.txs : \E k \in DOMAIN block.txs[i].inputs :
          i >= cur_tx /\ (i > cur_tx \/ k >= cur_in) /\ out = block.txs[i].inputs[k].prev
  BY DEF ToPurge
<1>5. \A out : out \in ToPurge' <=>
        \E i \in DOMAIN block.txs : \E k \in DOMAIN block.txs[i].inputs :
          i >= cur_tx' /\ (i > cur_tx' \/ k >= cur_in') /\ out = block.txs[i].inputs[k].prev
  BY <1>1 DEF ToPurge
<1>6. ASSUME ~exited' => Tables', ToSet(mempool') \subseteq ToSet(mempool),
             \A out \in ToPurge : out \in Claimed' => out \in ToPurge'
      PROVE  Rivals'
  <2>1. Claimed' \subseteq Claimed
    BY <1>6 DEF Claimed
  <2>2. SpentGone'
    BY <1>1, <1>2, <1>6, <2>1 DEF Rivals, SpentGone
  <2>3. IdsNew'
    BY <1>1, <1>2, <1>6 DEF Rivals, IdsNew
  <2> QED BY <1>1, <1>6, <2>2, <2>3 DEF Rivals, HalfGone
<1>7. CASE M!VisitInput
  <2> DEFINE out == block.txs[cur_tx].inputs[cur_in].prev
  <2>1. /\ cur_tx' = cur_tx /\ cur_in' = cur_in + 1
        /\ IF out \in DOMAIN utxo_to_tx THEN M!MempoolRemove(utxo_to_tx[out])
                                        ELSE UNCHANGED <<mempool, utxo_to_tx, exited>>
    BY <1>1, <1>7 DEF M!VisitInput, M!poolVars
  <2>2. Tables
    BY DEF Rivals
  <2>3. /\ ~exited' => Tables'
        /\ ToSet(mempool') \subseteq ToSet(mempool)
        /\ out \notin Claimed'
    <3>1. CASE out \in DOMAIN utxo_to_tx
      <4>1. /\ Tables'
            /\ \A tx : tx \in ToSet(mempool') <=> tx \in ToSet(mempool) /\ tx.id # utxo_to_tx[out]
        BY <2>1, <2>2, <3>1, EvictTables
      <4>2. \A tx \in ToSet(mempool) : out \in SpentOutpoints(tx) => tx.id = utxo_to_tx[out]
        BY <2>2 DEF Tables
      <4> QED BY <4>1, <4>2 DEF Claimed
    <3>2. CASE out \notin DOMAIN utxo_to_tx
      <4>1. UNCHANGED <<mempool, utxo_to_tx, exited>>
        BY <2>1, <3>2
      <4> QED BY <2>2, <3>2, <4>1 DEF Tables, Claimed
    <3> QED BY <3>1, <3>2
  <2>4. ASSUME NEW o \in ToPurge, o # out
        PROVE  o \in ToPurge'
    <3>1. PICK i \in DOMAIN block.txs : \E k \in DOMAIN block.txs[i].inputs :
            i >= cur_tx /\ (i > cur_tx \/ k >= cur_in) /\ o = block.txs[i].inputs[k].prev
      BY <1>4
    <3>2. PICK k \in DOMAIN block.txs[i].inputs :
            i >= cur_tx /\ (i > cur_tx \/ k >= cur_in) /\ o = block.txs[i].inputs[k].prev
      BY <3>1
    <3>3. i \in Int /\ k \in Int
      BY <1>3 DEF Shaped, IsList
    <3>4. i = cur_tx => k # cur_in
      BY <2>4, <3>2
    <3>5. i > cur_tx \/ k >= cur_in + 1
      BY <1>3, <3>2, <3>3, <3>4
    <3> QED BY <1>5, <2>1, <3>2, <3>5
  <2>5. \A o \in ToPurge : o \in Claimed' => o \in ToPurge'
    <3> HIDE DEF out
    <3> QED BY <2>3, <2>4
  <2> QED BY <1>6, <2>3, <2>5
<1>8. CASE M!NextConfirmedTx
  <2>1. /\ UNCHANGED <<mempool, utxo_to_tx, exited>>
        /\ cur_tx' = cur_tx + 1 /\ cur_in' = 1
        /\ cur_tx <= Len(block.txs) /\ cur_in > Len(block.txs[cur_tx].inputs)
    <3>1. Len(block.txs) \in Nat
      BY DEF OwnersInv, BlockOwned
    <3> QED BY <1>1, <1>3, <1>8, <3>1 DEF M!NextConfirmedTx, M!UpdateDone
  <2>2. (~exited' => Tables') /\ Claimed' = Claimed
    BY <2>1 DEF Rivals, Tables, Claimed
  <2>3. ASSUME NEW o \in ToPurge
        PROVE  o \in ToPurge'
    <3>1. PICK i \in DOMAIN block.txs : \E k \in DOMAIN block.txs[i].inputs :
            i >= cur_tx /\ (i > cur_tx \/ k >= cur_in) /\ o = block.txs[i].inputs[k].prev
      BY <1>4
    <3>2. PICK k \in DOMAIN block.txs[i].inputs :
            i >= cur_tx /\ (i > cur_tx \/ k >= cur_in) /\ o = block.txs[i].inputs[k].prev
      BY <3>1
    <3>3. i \in Int /\ k \in Int /\ k >= 1 /\ k <= Len(block.txs[i].inputs)
          /\ Len(block.txs[i].inputs) \in Nat
      BY <1>3 DEF Shaped, IsList
    <3>4. i # cur_tx
      BY <1>3, <2>1, <3>2, <3>3
    <3>5. i >= cur_tx + 1
      BY <1>3, <3>2, <3>3, <3>4
    <3> QED BY <1>5, <2>1, <3>2, <3>3, <3>5
  <2> QED BY <1>6, <2>1, <2>2, <2>3
<1> QED BY <1>1, <1>7, <1>8

\* All have been visited: nobody waits who is in the chain.
LEMMA MineDoneRivals ==
  ASSUME Rivals, OwnersInv, Control, Counters, MineDone
  PROVE  Rivals'
<1>1. /\ UNCHANGED <<blockchain_db, utxo_pool, wallet_pool, mempool, utxo_to_tx, exited, building>>
      /\ cmd = "mempool" /\ cmd' = "idle" /\ M!UpdateDone /\ confirmed = block.txs
      /\ block \in blockchain_db
  BY DEF MineDone, chainVars, diskVars, walletDisk, buildVars, Control, Accepting
<1>2. /\ StoredSpent' = StoredSpent /\ IdsOf(blockchain_db)' = IdsOf(blockchain_db)
      /\ Claimed' = Claimed
      /\ ~JustStored' /\ ~NotStored' /\ ~Building'
      /\ LeftInPools = {} /\ LeftInPools' = {}
      /\ LeftInMempool = ToPurge /\ LeftInMempool' = {}
  BY <1>1 DEF StoredSpent, StoredTxs, IdsOf, Claimed, JustStored, NotStored, Building,
     LeftInPools, LeftInMempool
<1>3. ToPurge = {}
  <2>1. \A i \in DOMAIN block.txs : ~(i >= cur_tx)
    <3>1. Len(block.txs) \in Nat /\ DOMAIN block.txs = 1..Len(block.txs) /\ cur_tx \in Int
      BY DEF OwnersInv, BlockOwned, Counters
    <3> QED BY <1>1, <3>1 DEF M!UpdateDone
  <2> QED BY <2>1 DEF ToPurge
<1>4. SpentGone'
  BY <1>1, <1>2, <1>3 DEF Rivals, SpentGone
<1>5. ASSUME NEW pending \in ToSet(mempool), pending.id \in IdsOf(blockchain_db)
      PROVE  FALSE
  <2>1. pending \in AllTxs(block) /\ pending.inputs # <<>>
    BY <1>5 DEF Rivals, IdsNew
  <2>2. SpentOutpoints(pending) \subseteq StoredSpent
    BY <1>1, <2>1 DEF StoredSpent, StoredTxs
  <2>3. SpentOutpoints(pending) \subseteq Claimed
    BY DEF Claimed
  <2>4. \E out : out \in SpentOutpoints(pending)
    <3>1. IsList(pending.inputs)
      BY DEF OwnersInv, PendingOwned, Shaped
    <3>2. 1 \in DOMAIN pending.inputs
      BY <2>1, <3>1 DEF IsList
    <3> QED BY <3>2 DEF SpentOutpoints
  <2> QED BY <1>2, <1>3, <2>2, <2>3, <2>4 DEF Rivals, SpentGone
<1>6. IdsNew'
  BY <1>1, <1>2, <1>5 DEF Rivals, IdsNew
<1> QED BY <1>1, <1>2, <1>4, <1>6 DEF Rivals, Tables, HalfGone

-----------------------------------------------------------------------------
(* RivalsInv is inductive.                                                 *)

LEMMA RivalsInit == Init => RivalsInv
<1> SUFFICES ASSUME Init
             PROVE  Rivals
  BY DEF RivalsInv
<1>1. /\ blockchain_db = {} /\ utxo_pool = <<>> /\ wallet_pool = <<>> /\ mempool = <<>>
      /\ utxo_to_tx = <<>> /\ exited = FALSE /\ building = NoTx /\ block = NoBlock /\ cmd = "boot"
  BY DEF Init, ChainInit, WalletInit, HandleBlockInit, M!MempoolInit
<1>2. ToSet(mempool) = {} /\ Claimed = {} /\ StoredSpent = {} /\ IdsOf(blockchain_db) = {}
  BY <1>1, NothingInHand DEF Claimed, StoredSpent, StoredTxs, IdsOf
<1>3. Tables
  <2>1. mempool \in Seq(ToSet(mempool)) /\ DOMAIN mempool = {} /\ DOMAIN utxo_to_tx = {}
    BY <1>1, NothingOwed
  <2> QED BY <1>1, <1>2, <2>1 DEF Tables
<1>4. SpentGone /\ IdsNew
  BY <1>1, <1>2 DEF SpentGone, IdsNew, NotStored, JustStored, Building
<1> QED BY <1>1, <1>3, <1>4 DEF Rivals, HalfGone

LEMMA RivalsStep ==
  ASSUME RivalsInv, OwnersInv, OwnersInv', Control, Counters, [PeersNext]_vars
  PROVE  RivalsInv'
<1> SUFFICES ASSUME ~torn'
             PROVE  Rivals'
  BY DEF RivalsInv
<1>1. Rivals /\ (Kill => Idle)
  BY TornStays DEF RivalsInv
<1>2. CASE UNCHANGED vars
  <2>1. UNCHANGED <<blockchain_db, chain_pc, utxo_pool, wallet_pool, mempool, utxo_to_tx, exited,
                    building, block, pool_tx, pool_out, pool_in, half, cur_tx, cur_in, cmd>>
    BY <1>2 DEF vars, chainVars, walletDisk, buildVars, blockVars, poolLoop, memVars
  <2>2. /\ StoredSpent' = StoredSpent /\ IdsOf(blockchain_db)' = IdsOf(blockchain_db)
        /\ InHand' = InHand /\ AllTxs(block)' = AllTxs(block) /\ Claimed' = Claimed
        /\ ToRemove' = ToRemove /\ ToPurge' = ToPurge /\ CurrentTx' = CurrentTx
    BY <2>1 DEF StoredSpent, StoredTxs, IdsOf, InHand, AllTxs, Claimed, ToRemove, TxsAhead, ToPurge,
       CurrentTx
  <2>3. /\ JustStored' = JustStored /\ NotStored' = NotStored /\ Accepting' = Accepting
        /\ Building' = Building /\ M!InMempool(building.id)' = M!InMempool(building.id)
    BY <2>1 DEF JustStored, NotStored, Accepting, Building, M!InMempool
  <2>4. LeftInPools' = LeftInPools /\ LeftInMempool' = LeftInMempool
    BY <2>1, <2>2, <2>3 DEF LeftInPools, LeftInMempool
  <2>5. SpentGone' /\ HalfGone' /\ (~exited' => Tables')
    BY <1>1, <2>1, <2>2, <2>4 DEF Rivals, SpentGone, HalfGone, Tables
  <2>6. IdsNew'
    BY <1>1, <2>1, <2>2, <2>3 DEF Rivals, IdsNew
  <2> QED BY <2>5, <2>6 DEF Rivals
<1>3. CASE Boot
  BY <1>1, <1>3, StartRivals
<1>4. CASE Kill
  BY <1>1, <1>4, HaltRivals DEF Kill
<1>5. CASE ~exited /\ Command
  <2>1. ASSUME NEW why, Idle, Halt(why)
        PROVE  Rivals'
    BY <1>1, <2>1, HaltRivals
  <2>2. CASE Mine
    BY <1>1, <1>5, <2>1, <2>2, MineRivals DEF Mine
  <2>3. CASE ShellExit \/ \E amt \in AMOUNTS, fee \in FEES : CreateTxExits(amt, fee)
    BY <2>1, <2>3 DEF ShellExit, CreateTxExits
  <2>4. CASE \E dest \in Dests, amt \in AMOUNTS, fee \in FEES : CreateTx(dest, amt, fee)
    BY <1>1, <2>4, PaymentRivals
  <2> QED BY <1>5, <2>2, <2>3, <2>4 DEF Command
<1>6. CASE ~exited /\ Run
  <2>1. CASE BootStep \/ InitDone
    BY <1>1, <2>1, StartRivals
  <2>2. CASE AcceptBlock \/ RejectBlock \/ AddToChain
    BY <1>1, <2>2, AcceptRivals, RejectRivals, AddToChainRivals
  <2>3. CASE BeginPools \/ UpdatePools
    BY <1>1, <2>3, BeginPoolsRivals, UpdatePoolsRivals
  <2>4. CASE BeginMempool \/ UpdateMempool \/ MineDone
    BY <1>1, <1>6, <2>4, BeginMempoolRivals, UpdateMempoolRivals, MineDoneRivals
  <2>5. CASE BuildStep \/ BuildDone \/ Offer
    BY <1>1, <1>6, <2>5, PaymentRivals, OfferRivals
  <2> QED BY <1>6, <2>1, <2>2, <2>3, <2>4, <2>5 DEF Run
<1>7. CASE ~exited /\ Receive
  BY <1>1, <1>7, ReceiveRivals
<1> QED BY <1>2, <1>3, <1>4, <1>5, <1>6, <1>7 DEF PeersNext, Next

\* What the chain has spent is in no pool and claimed by nobody, but for what
\* the block in hand spends and accept_block has still to come to.
THEOREM RivalsInvariant == PeersSpec => [](~torn => Rivals)
<1>1. OwnersInv /\ OwnersInv' /\ Control /\ Counters /\ RivalsInv /\ [PeersNext]_vars => RivalsInv'
  BY RivalsStep
<1>2. PeersSpec => []RivalsInv
  BY <1>1, RivalsInit, OwnersInvariant, PeersChainInvariant, PTL DEF PeersSpec
<1>3. RivalsInv => (~torn => Rivals)
  BY DEF RivalsInv
<1> QED BY <1>2, <1>3, PTL

\* As long as no command is cut in the middle, nobody waits to spend what the
\* chain has spent: a block of the others takes every rival of its
\* transactions out of the mempool, and mempool_add lets none in again.
THEOREM NobodyWaitsInVain == PeersSpec => [](~torn => PendingNotInChain)
<1>1. Control /\ ChainInv /\ (~torn => Rivals) => (~torn => PendingNotInChain)
  <2> SUFFICES ASSUME Control, ChainInv, Rivals, ~torn, Idle, NEW tx \in ChainTxs
               PROVE  SpentOutpoints(tx) \cap Claimed = {}
    BY DEF PendingNotInChain
  <2>1. DatabaseSound /\ FilesFollow /\ Up /\ chain_pc = "ready"
    BY DEF ChainInv, Idle, Control
  <2>2. OneChain(blockchain_db, top_block_header_hash)
    BY <2>1 DEF DatabaseSound, FilesFollow, Tip
  <2>3. tx \in StoredTxs
    BY <2>2, ChainHasAll
  <2>4. StoredSpent \cap Claimed = {}
    BY NothingLeft DEF Rivals, Idle
  <2> QED BY <2>3, <2>4 DEF StoredSpent
<1> QED BY <1>1, PeersChainInvariant, RivalsInvariant, PTL
=============================================================================

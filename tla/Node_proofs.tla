---------------------------- MODULE Node_proofs ----------------------------
(***************************************************************************)
(* What build_inputs selects, for every wallet: the iterator visits the    *)
(* entries in the order of their keys, so the inputs of a payment are      *)
(* entries that were not marked, each of them once, and the second loop    *)
(* marks every one of them.                                                *)
(*                                                                         *)
(* For all amounts, fees, bounds and numbers of kills: whatever was to be  *)
(* the node's own, in a block on disk, a block in hand or a pending        *)
(* payment, is locked with a key that is on disk (KeysKept).               *)
(*                                                                         *)
(* KeysKept is not inductive: a payment under construction and the block   *)
(* being added bring outputs into it, so KeysInv speaks of them, too; and  *)
(* until StoreChangeKey a payment may pay to one key that is not stored.   *)
(*                                                                         *)
(* No output is ever spent twice (SpentOnce), what the wallet would spend  *)
(* is there (UnspentBacked), and neither of the node's hard exits over its *)
(* own payments is ever taken.  Ids are fresh, so a block brings outputs   *)
(* nobody has seen (Past).  A payment takes only entries that are not      *)
(* marked, and marks them before it is offered; marks are on disk, where   *)
(* they outlive the payment (Marks).  So nothing that is pending, mined or *)
(* in the chain shares an output with anything else (Owners, Apart).       *)
(*                                                                         *)
(* The blocks of the database are one chain (OneChain), unless a kill came *)
(* in the middle of a command.                                             *)
(***************************************************************************)
EXTENDS Node, SequenceTheorems, FiniteSetTheorems, FunctionTheorems, TLAPS

Before(out, outs) == {o \in outs : KeyBefore(o, out)}
Rank(out, outs) == Cardinality(Before(out, outs))

-----------------------------------------------------------------------------
(* A finite set of outpoints can be numbered.                              *)

\* An output has fewer before it than there are, and more than those before it.
LEMMA RankInOrder ==
  ASSUME NEW outs, IsFiniteSet(outs), outs \subseteq Int \X Int
  PROVE  /\ \A out \in outs : Rank(out, outs) \in 0..(Cardinality(outs) - 1)
         /\ \A a, b \in outs : KeyBefore(a, b) => Rank(a, outs) < Rank(b, outs)
<1>1. ASSUME NEW S, NEW T, IsFiniteSet(T), S \subseteq T, S # T
      PROVE  /\ Cardinality(S) \in Nat /\ Cardinality(T) \in Nat
             /\ Cardinality(S) < Cardinality(T)
  <2>1. IsFiniteSet(S) /\ Cardinality(S) <= Cardinality(T) /\ Cardinality(S) # Cardinality(T)
    BY <1>1, FS_Subset
  <2> QED BY <1>1, <2>1, FS_CardinalityType
<1>2. ASSUME NEW out \in outs
      PROVE  /\ IsFiniteSet(Before(out, outs))
             /\ Rank(out, outs) \in 0..(Cardinality(outs) - 1)
  <2>1. Before(out, outs) \subseteq outs /\ out \notin Before(out, outs)
    BY DEF Before, KeyBefore
  <2>2. IsFiniteSet(Before(out, outs))
    BY <2>1, FS_Subset
  <2>3. Before(out, outs) # outs
    BY <2>1
  <2> HIDE DEF Before
  <2>4. /\ Rank(out, outs) \in Nat /\ Cardinality(outs) \in Nat
        /\ Rank(out, outs) < Cardinality(outs)
    BY <1>1, <2>1, <2>3 DEF Rank
  <2> QED BY <2>2, <2>4
<1>3. ASSUME NEW a \in outs, NEW b \in outs, KeyBefore(a, b)
      PROVE  Rank(a, outs) < Rank(b, outs)
  <2>1. a \in Before(b, outs) /\ a \notin Before(a, outs)
    BY <1>3 DEF Before, KeyBefore
  <2>2. ASSUME NEW o \in Before(a, outs)
        PROVE  o \in Before(b, outs)
    <3>1. o \in outs /\ KeyBefore(o, a)
      BY DEF Before
    <3>2. KeyBefore(o, b)
      BY <1>3, <3>1 DEF KeyBefore
    <3> QED BY <3>1, <3>2 DEF Before
  <2>3. Before(a, outs) \subseteq Before(b, outs) /\ Before(a, outs) # Before(b, outs)
    BY <2>1, <2>2
  <2>4. IsFiniteSet(Before(b, outs))
    BY <1>2
  <2> QED BY <1>1, <2>3, <2>4 DEF Rank
<1> QED BY <1>2, <1>3

\* InKeyOrder lists every element once.
LEMMA InKeyOrderLists ==
  ASSUME NEW outs, IsFiniteSet(outs), outs \subseteq Int \X Int
  PROVE  /\ InKeyOrder(outs) \in Seq(outs)
         /\ ToSet(InKeyOrder(outs)) = outs
         /\ \A k, l \in DOMAIN InKeyOrder(outs) :
              InKeyOrder(outs)[k] = InKeyOrder(outs)[l] => k = l
<1> DEFINE count == Cardinality(outs)
           rank == [out \in outs |-> Rank(out, outs)]
           list == InKeyOrder(outs)
<1>1. count \in Nat
  BY FS_CardinalityType
<1>2. \A a, b \in outs : a = b \/ KeyBefore(a, b) \/ KeyBefore(b, a)
  BY DEF KeyBefore
<1>3. \A a, b \in outs : Rank(a, outs) = Rank(b, outs) => a = b
  <2>1. \A a \in outs : Rank(a, outs) \in Int
    BY RankInOrder
  <2>2. \A a, b \in outs : KeyBefore(a, b) => Rank(a, outs) < Rank(b, outs)
    BY RankInOrder
  <2> QED BY <1>2, <2>1, <2>2
<1>4. \A n \in 1..count : \E out \in outs : Rank(out, outs) = n - 1
  <2>1. rank \in [outs -> 0..(count - 1)]
    BY RankInOrder
  <2>2. rank \in Injection(outs, 0..(count - 1))
    BY <1>3, <2>1 DEF Injection, IsInjective
  <2>3. IsFiniteSet(0..(count - 1)) /\ Cardinality(0..(count - 1)) = count
    <3>1. count - 1 \in Int /\ (count - 1) - 0 + 1 = count /\ (0 > count - 1 => count = 0)
      BY <1>1
    <3> HIDE DEF count
    <3> QED BY <3>1, FS_Interval
  <2>4. rank \in Surjection(outs, 0..(count - 1))
    BY <2>2, <2>3, FS_Injection
  <2>5. \A n \in 0..(count - 1) : \E out \in outs : rank[out] = n
    BY <2>4 DEF Surjection
  <2> QED BY <1>1, <2>5
<1>5. /\ list = [n \in 1..count |-> CHOOSE out \in outs : Rank(out, outs) = n - 1]
      /\ DOMAIN list = 1..count
  BY DEF InKeyOrder, Rank, Before
<1>6. \A n \in 1..count : list[n] \in outs /\ Rank(list[n], outs) = n - 1
  BY <1>4, <1>5
<1>7. list \in Seq(outs)
  <2>1. list \in [1..count -> outs]
    BY <1>5, <1>6
  <2> QED BY <1>1, <2>1
<1>8. \A out \in outs : \E n \in 1..count : list[n] = out
  <2> SUFFICES ASSUME NEW out \in outs
               PROVE  \E n \in 1..count : list[n] = out
    OBVIOUS
  <2>1. Rank(out, outs) + 1 \in 1..count /\ (Rank(out, outs) + 1) - 1 = Rank(out, outs)
    BY <1>1, RankInOrder
  <2> QED BY <1>3, <1>6, <2>1
<1>9. \A k, l \in 1..count : list[k] = list[l] => k = l
  <2> SUFFICES ASSUME NEW k \in 1..count, NEW l \in 1..count, list[k] = list[l]
               PROVE  k = l
    OBVIOUS
  <2>1. k - 1 = l - 1
    BY <1>6
  <2> QED BY <1>1, <2>1
<1>10. ToSet(list) = outs
  <2> HIDE DEF list, count
  <2> QED BY <1>5, <1>6, <1>8 DEF ToSet
<1> QED BY <1>5, <1>7, <1>9, <1>10

-----------------------------------------------------------------------------
(* build_inputs                                                            *)

\* The wallet is a finite set of entries under keys that can be ordered.
WalletShape ==
  /\ IsFiniteSet(DOMAIN wallet_pool)
  /\ DOMAIN wallet_pool \subseteq Int \X Int
  /\ \A out \in DOMAIN wallet_pool : DOMAIN wallet_pool[out] = {"amt", "key", "spent"}

\* What is selected is visited, in the wallet, not marked, and is selected once.
LEMMA SelectedOnce ==
  ASSUME WalletShape, NEW out_total
  PROVE  /\ Selected(out_total) \in Seq(Unspent(DOMAIN wallet_pool))
         /\ \A k, l \in DOMAIN Selected(out_total) :
              Selected(out_total)[k] = Selected(out_total)[l] => k = l
<1> DEFINE outs == Unspent(Visited(out_total))
<1>1. Visited(out_total) \subseteq DOMAIN wallet_pool
  BY DEF Visited, SeenAt
<1>2. outs \subseteq Unspent(DOMAIN wallet_pool) /\ outs \subseteq DOMAIN wallet_pool
  BY <1>1 DEF Unspent
<1>3. IsFiniteSet(outs) /\ outs \subseteq Int \X Int
  BY <1>2, FS_Subset DEF WalletShape
<1>4. Selected(out_total) = InKeyOrder(outs)
  BY DEF Selected
<1> HIDE DEF outs
<1>5. /\ Selected(out_total) \in Seq(outs)
      /\ \A k, l \in DOMAIN Selected(out_total) :
           Selected(out_total)[k] = Selected(out_total)[l] => k = l
  BY <1>3, <1>4, InKeyOrderLists
<1> QED BY <1>2, <1>5

\* What is selected is marked, and nothing is marked twice.
LEMMA SelectedIsMarked ==
  ASSUME WalletShape, NEW out_total
  PROVE  /\ Marked(out_total) \in Seq(Unspent(DOMAIN wallet_pool))
         /\ ToSet(Selected(out_total)) \subseteq ToSet(Marked(out_total))
<1> DEFINE unspent == Unspent(DOMAIN wallet_pool)
<1>1. CASE Unspent(Visited(out_total)) = {} /\ unspent # {}
  <2>1. Marked(out_total) = <<InKeyOrder(unspent)[1]>>
    BY <1>1 DEF Marked
  <2>2. IsFiniteSet(unspent) /\ unspent \subseteq Int \X Int
    BY FS_Subset DEF Unspent, WalletShape
  <2>3. InKeyOrder(unspent) \in Seq(unspent) /\ ToSet(InKeyOrder(unspent)) = unspent
    BY <2>2, InKeyOrderLists
  <2>4. InKeyOrder(unspent)[1] \in unspent
    <3> HIDE DEF unspent
    <3> QED BY <1>1, <2>3 DEF ToSet
  <2>5. IsFiniteSet({}) /\ {} \subseteq Int \X Int
    BY FS_EmptySet
  <2>6. ToSet(Selected(out_total)) = {}
    BY <1>1, <2>5, InKeyOrderLists DEF Selected
  <2>7. <<InKeyOrder(unspent)[1]>> \in Seq(unspent)
    <3> HIDE DEF unspent
    <3> QED BY <2>4
  <2> QED BY <2>1, <2>6, <2>7
<1>2. CASE ~(Unspent(Visited(out_total)) = {} /\ unspent # {})
  BY <1>2, SelectedOnce DEF Marked
<1> QED BY <1>1, <1>2

-----------------------------------------------------------------------------
(* The keys of the outputs.                                                *)

Keyed(tx, keys) ==
  \A n \in DOMAIN tx.outputs : tx.outputs[n].key # Foreign => tx.outputs[n].key \in keys

KeyedBlock(b, keys) == \A n \in DOMAIN b.txs : Keyed(b.txs[n], keys)

KeyedMempool(pending, keys) ==
  /\ pending \in Seq(ToSet(pending))
  /\ \A n \in DOMAIN pending : Keyed(pending[n], keys)

KeyedBuilding ==
  /\ Keyed(building, key_pool \cup {building.id})
  /\ cmd = "offer" => Keyed(building, key_pool)

KeysInv ==
  /\ \A b \in blockchain_db : KeyedBlock(b, key_pool)
  /\ KeyedBlock(adding, key_pool)
  /\ KeyedBlock(block, key_pool)
  /\ KeyedMempool(mempool, key_pool)
  /\ KeyedBuilding

-----------------------------------------------------------------------------
(* Lemmas.                                                                 *)

\* Keys are only added, and that breaks nothing.
LEMMA MoreKeys ==
  ASSUME NEW keys, NEW more, keys \subseteq more
  PROVE  /\ \A tx : Keyed(tx, keys) => Keyed(tx, more)
         /\ \A b : KeyedBlock(b, keys) => KeyedBlock(b, more)
         /\ \A s : KeyedMempool(s, keys) => KeyedMempool(s, more)
BY DEF Keyed, KeyedBlock, KeyedMempool

\* What holds no output needs no key.
LEMMA NothingKeyed ==
  ASSUME NEW keys
  PROVE  /\ Keyed(NoTx, keys) /\ KeyedBlock(NoBlock, keys)
         /\ KeyedBlock(GenesisBlock, keys) /\ KeyedMempool(<<>>, keys)
BY DEF Keyed, KeyedBlock, KeyedMempool, NoTx, NoBlock, GenesisBlock

\* A sequence is one over any set that has its elements.
LEMMA SeqOfElements ==
  ASSUME NEW S, NEW s \in Seq(S)
  PROVE  s \in Seq(ToSet(s))
BY DEF ToSet

\* An output, and perhaps one more.
LEMMA OneOrTwo ==
  ASSUME NEW first, NEW second, NEW two \in BOOLEAN
  PROVE  <<first>> \o (IF two THEN <<second>> ELSE <<>>) \in Seq({first, second})
<1>1. <<first>> \in Seq({first, second})
  OBVIOUS
<1>2. <<second>> \in Seq({first, second}) /\ <<>> \in Seq({first, second})
  BY EmptySeq
<1>3. (IF two THEN <<second>> ELSE <<>>) \in Seq({first, second})
  BY <1>2, Zenon
<1> QED BY <1>1, <1>3, ConcatProperties

\* What mempool_remove leaves is keyed as it was.
LEMMA RemoveKeyed ==
  ASSUME NEW keys, NEW pending, KeyedMempool(pending, keys), NEW k \in DOMAIN pending
  PROVE  KeyedMempool(RemoveAt(pending, k), keys)
<1> DEFINE rest == RemoveAt(pending, k)
<1>1. pending \in Seq(ToSet(pending)) /\ k \in 1..Len(pending)
  BY DEF KeyedMempool
<1>2. /\ SubSeq(pending, 1, k - 1) \in Seq(ToSet(pending))
      /\ SubSeq(pending, k + 1, Len(pending)) \in Seq(ToSet(pending))
  BY <1>1
<1>3. rest \in Seq(ToSet(pending))
  BY <1>2 DEF RemoveAt
<1>4. \A n \in DOMAIN rest : rest[n] \in ToSet(pending)
  BY <1>3
<1>5. \A tx \in ToSet(pending) : Keyed(tx, keys)
  BY DEF KeyedMempool, ToSet
<1>6. rest \in Seq(ToSet(rest))
  BY <1>3, SeqOfElements
<1> QED BY <1>4, <1>5, <1>6 DEF KeyedMempool

\* What mempool_add makes is keyed if the transaction is.
LEMMA AppendKeyed ==
  ASSUME NEW keys, NEW pending, KeyedMempool(pending, keys), NEW tx, Keyed(tx, keys)
  PROVE  KeyedMempool(Append(pending, tx), keys)
<1> DEFINE more == Append(pending, tx)
<1>1. pending \in Seq(ToSet(pending))
  BY DEF KeyedMempool
<1>2. more \in Seq(ToSet(pending) \cup {tx})
  BY <1>1
<1>3. \A n \in DOMAIN more : more[n] \in ToSet(pending) \cup {tx}
  BY <1>2
<1>4. \A t \in ToSet(pending) \cup {tx} : Keyed(t, keys)
  BY DEF KeyedMempool, ToSet
<1>5. more \in Seq(ToSet(more))
  BY <1>2, SeqOfElements
<1> QED BY <1>3, <1>4, <1>5 DEF KeyedMempool

\* A block put together from the mempool is keyed once its coinbase key is stored.
LEMMA NewBlockKeyed ==
  ASSUME KeyedMempool(mempool, key_pool), NEW id
  PROVE  KeyedBlock(NewBlock(id), key_pool \cup {id})
<1> DEFINE keys == key_pool \cup {id}
           txs == <<CoinbaseTx(id)>> \o TxsFromMempool
<1>1. mempool \in Seq(ToSet(mempool))
  BY DEF KeyedMempool
<1>2. TxsFromMempool \in Seq(ToSet(mempool))
  <2> DEFINE n == Smaller(DESIRED_NUM_TX, Len(mempool))
  <2>1. \A j \in 1..n : j \in 1..Len(mempool)
    BY <1>1, TargetAssumption DEF Smaller
  <2>2. n \in Int
    BY <1>1, TargetAssumption DEF Smaller
  <2> QED BY <1>1, <2>1, <2>2 DEF TxsFromMempool
<1>3. Keyed(CoinbaseTx(id), keys)
  BY DEF Keyed, CoinbaseTx
<1>4. \A tx \in ToSet(mempool) : Keyed(tx, keys)
  BY DEF KeyedMempool, Keyed, ToSet
<1>5. txs \in Seq(ToSet(mempool) \cup {CoinbaseTx(id)})
  BY <1>2
<1>6. \A n \in DOMAIN txs : txs[n] \in ToSet(mempool) \cup {CoinbaseTx(id)}
  <2> HIDE DEF txs
  <2> QED BY <1>5
<1>7. \A n \in DOMAIN txs : Keyed(txs[n], keys)
  BY <1>3, <1>4, <1>6
<1>8. NewBlock(id).txs = txs
  BY DEF NewBlock
<1> QED BY <1>7, <1>8 DEF KeyedBlock

\* A payment pays to keys that are stored, and to the one made for it.
LEMMA BuiltTxKeyed ==
  ASSUME NEW id, NEW dest \in Dests, NEW amt, NEW fee
  PROVE  Keyed(BuiltTx(id, dest, amt, fee), key_pool \cup {id})
<1> DEFINE out_total == OutTotal(amt, fee)
           paid == [amt |-> amt, key |-> dest]
           left == [amt |-> ChangeAmount(out_total), key |-> id]
           outputs == BuiltTx(id, dest, amt, fee).outputs
<1>1. outputs = <<paid>> \o (IF HasChange(out_total) THEN <<left>> ELSE <<>>)
  BY DEF BuiltTx
<1>2. \A n \in DOMAIN outputs : outputs[n] \in {paid, left}
  <2> HIDE DEF paid, left, outputs
  <2>1. outputs \in Seq({paid, left})
    BY <1>1, OneOrTwo
  <2> QED BY <2>1
<1>3. dest # Foreign => dest \in key_pool
  BY DEF Dests
<1> QED BY <1>2, <1>3 DEF Keyed

-----------------------------------------------------------------------------
(* KeysInv is inductive.                                                   *)

LEMMA KeysInit == Init => KeysInv
BY NothingKeyed DEF Init, ChainInit, WalletInit, HandleBlockInit, M!MempoolInit, KeysInv,
   KeyedBuilding

\* The end of the process, of whatever kind.
LEMMA HaltKeeps ==
  ASSUME KeysInv, NEW why, Halt(why)
  PROVE  KeysInv'
BY NothingKeyed DEF Halt, ChainCrash, diskVars, walletDisk, KeysInv, KeyedBuilding

\* Start-up and blockchain_add_leveldb.
LEMMA ChainStepKeeps ==
  ASSUME KeysInv, Boot \/ BootStep \/ InitDone \/ AcceptBlock \/ AddToChain
  PROVE  KeysInv'
<1>1. CASE Boot
  BY <1>1, NothingKeyed
     DEF Boot, BlockchainInit, UseExisting, RefuseFiles, AddGenesis, diskVars, walletDisk,
         buildVars, blockVars, memVars, KeysInv, KeyedBuilding
<1>2. ASSUME AddStep, UNCHANGED <<walletDisk, buildVars, blockVars, memVars, cmd>>
      PROVE  KeysInv'
  <2>1. adding' = adding /\ blockchain_db' \subseteq blockchain_db \cup {adding}
    BY <1>2 DEF AddStep, PutBlock, EmptyHeightFile, WriteHeightFile, EmptyTopFile, WriteTopFile
  <2> QED BY <1>2, <2>1 DEF walletDisk, buildVars, blockVars, memVars, KeysInv, KeyedBuilding
<1>3. CASE BootStep \/ AddToChain
  BY <1>2, <1>3 DEF BootStep, AddToChain
<1>4. CASE InitDone
  BY <1>4, NothingKeyed DEF InitDone, chainVars, walletDisk, buildVars, blockVars, KeysInv,
     KeyedBuilding
<1>5. CASE AcceptBlock
  BY <1>5 DEF AcceptBlock, StartAdd, diskVars, walletDisk, buildVars, blockVars, memVars,
     KeysInv, KeyedBuilding
<1> QED BY <1>1, <1>3, <1>4, <1>5

\* mine, but for the block store: the coinbase key is stored with the block.
LEMMA MineKeeps ==
  ASSUME KeysInv, Mine \/ RejectBlock \/ BeginPools \/ UpdatePools \/ BeginMempool \/ MineDone
  PROVE  KeysInv'
<1>1. CASE Mine /\ FeesKnown
  <2>1. PICK id \in UnusedIds : CreateBlock(id)
    BY <1>1 DEF Mine
  <2>2. /\ key_pool' = key_pool \cup {id} /\ block' = NewBlock(id)
        /\ cmd' = "mined"
        /\ UNCHANGED <<blockchain_db, adding, mempool, building>>
    BY <1>1, <2>1 DEF Mine, CreateBlock, chainVars, buildVars, memVars
  <2>3. KeyedBlock(block', key_pool')
    BY <2>2, NewBlockKeyed DEF KeysInv
  <2>4. /\ key_pool \subseteq key_pool'
        /\ key_pool \cup {building.id} \subseteq key_pool' \cup {building'.id}
    BY <2>2
  <2> QED BY <2>2, <2>3, <2>4, MoreKeys DEF KeysInv, KeyedBuilding
<1>2. CASE Mine /\ ~FeesKnown
  BY <1>2, HaltKeeps DEF Mine
<1>3. CASE RejectBlock
  BY <1>3, NothingKeyed DEF RejectBlock, chainVars, walletDisk, buildVars, memVars, KeysInv,
     KeyedBuilding
<1>4. CASE BeginPools
  BY <1>4 DEF BeginPools, StartUpdatePools, poolDisk, chainVars, buildVars, memVars, KeysInv,
     KeyedBuilding
<1>5. CASE UpdatePools
  BY <1>5 DEF UpdatePools, WritePools, PutOutput, DeleteInput, NextPoolTx, poolDisk,
     chainVars, buildVars, memVars, KeysInv, KeyedBuilding
<1>6. CASE BeginMempool
  BY <1>6 DEF BeginMempool, StartUpdatePools, poolDisk, chainVars, buildVars, KeysInv, KeyedBuilding
<1>7. CASE MineDone
  BY <1>7, NothingKeyed DEF MineDone, chainVars, walletDisk, buildVars, KeysInv, KeyedBuilding
<1> QED BY <1>1, <1>2, <1>3, <1>4, <1>5, <1>6, <1>7

\* update_mempool evicts, and adds nothing.
LEMMA UpdateMempoolKeeps ==
  ASSUME KeysInv, UpdateMempool
  PROVE  KeysInv'
<1>1. mempool' = mempool \/ \E k \in DOMAIN mempool : mempool' = RemoveAt(mempool, k)
  <2>1. ASSUME NEW id, M!MempoolRemove(id)
        PROVE  mempool' = mempool \/ \E k \in DOMAIN mempool : mempool' = RemoveAt(mempool, k)
    <3>1. CASE UNCHANGED M!poolVars
      BY <3>1 DEF M!poolVars
    <3>2. \A k : M!RemoveAt(mempool, k) = RemoveAt(mempool, k)
      BY DEF M!RemoveAt, RemoveAt
    <3>3. UNCHANGED M!poolVars \/ \E k \in DOMAIN mempool : mempool' = M!RemoveAt(mempool, k)
      BY <2>1, Zenon DEF M!MempoolRemove
    <3> QED BY <3>1, <3>2, <3>3
  <2>2. CASE M!VisitInput
    BY <2>1, <2>2 DEF M!VisitInput, M!poolVars
  <2>3. CASE M!NextConfirmedTx
    BY <2>3 DEF M!NextConfirmedTx
  <2> QED BY <2>2, <2>3 DEF UpdateMempool
<1>2. KeyedMempool(mempool', key_pool)
  BY <1>1, RemoveKeyed DEF KeysInv
<1> QED BY <1>2 DEF UpdateMempool, chainVars, walletDisk, buildVars, blockVars, KeysInv, KeyedBuilding

\* create_tx: the change key is stored before the payment is offered.
LEMMA CreateTxKeeps ==
  ASSUME KeysInv,
         \/ \E dest \in Dests, amt \in AMOUNTS, fee \in FEES : CreateTx(dest, amt, fee)
         \/ BuildStep \/ BuildDone \/ Offer
  PROVE  KeysInv'
<1>1. ASSUME NEW dest \in Dests, NEW amt \in AMOUNTS, NEW fee \in FEES, CreateTx(dest, amt, fee)
      PROVE  KeysInv'
  <2>1. PICK id : building' = BuiltTx(id, dest, amt, fee)
    BY <1>1 DEF CreateTx, StartBuild
  <2>2. building'.id = id /\ cmd' = "build"
    BY <1>1, <2>1 DEF CreateTx, BuiltTx
  <2>3. UNCHANGED <<blockchain_db, adding, block, mempool, key_pool>>
    BY <1>1 DEF CreateTx, StartBuild, walletDisk, chainVars, blockVars, memVars
  <2>4. Keyed(building', key_pool' \cup {building'.id})
    BY <2>1, <2>2, <2>3, BuiltTxKeyed
  <2> QED BY <2>2, <2>3, <2>4 DEF KeysInv, KeyedBuilding
<1>2. CASE BuildStep
  BY <1>2 DEF BuildStep, MarkSpent, chainVars, blockVars, memVars, KeysInv, KeyedBuilding
<1>3. CASE BuildDone
  <2>1. /\ key_pool' = IF ChangeKeyMade THEN key_pool \cup {building.id} ELSE key_pool
        /\ UNCHANGED <<blockchain_db, adding, block, mempool, building>>
    BY <1>3 DEF BuildDone, StoreChangeKey, chainVars, blockVars, memVars
  <2>2. Keyed(building', key_pool')
    BY <2>1 DEF ChangeKeyMade, KeysInv, KeyedBuilding, Keyed
  <2>3. key_pool \subseteq key_pool' /\ key_pool' \subseteq key_pool' \cup {building'.id}
    BY <2>1
  <2> QED BY <2>1, <2>2, <2>3, MoreKeys DEF KeysInv, KeyedBuilding
<1>4. CASE Offer
  <2>1. mempool' = mempool \/ mempool' = Append(mempool, building)
    BY <1>4 DEF Offer, M!MempoolAdd, M!poolVars
  <2>2. KeyedMempool(mempool', key_pool)
    BY <1>4, <2>1, AppendKeyed DEF Offer, KeysInv, KeyedBuilding
  <2> QED BY <1>4, <2>2, NothingKeyed DEF Offer, chainVars, walletDisk, blockVars, KeysInv,
          KeyedBuilding
<1> QED BY <1>1, <1>2, <1>3, <1>4

LEMMA KeysStep ==
  ASSUME KeysInv, [Next]_vars
  PROVE  KeysInv'
<1>1. CASE Boot
  BY <1>1, ChainStepKeeps
<1>2. CASE Command
  <2>1. CASE Mine
    BY <2>1, MineKeeps
  <2>2. CASE \E dest \in Dests, amt \in AMOUNTS, fee \in FEES : CreateTx(dest, amt, fee)
    BY <2>2, CreateTxKeeps
  <2>3. CASE (\E amt \in AMOUNTS, fee \in FEES : CreateTxExits(amt, fee)) \/ ShellExit
    BY <2>3, HaltKeeps DEF CreateTxExits, ShellExit
  <2> QED BY <1>2, <2>1, <2>2, <2>3 DEF Command
<1>3. CASE Run
  BY <1>3, ChainStepKeeps, MineKeeps, UpdateMempoolKeeps, CreateTxKeeps DEF Run
<1>4. CASE Kill
  BY <1>4, HaltKeeps DEF Kill
<1>5. CASE UNCHANGED vars
  BY <1>5 DEF vars, chainVars, walletDisk, buildVars, blockVars, memVars, KeysInv, KeyedBuilding
<1> QED BY <1>1, <1>2, <1>3, <1>4, <1>5 DEF Next

\* The invariant, whatever the operator does and whenever the process is killed.
THEOREM KeysInvariant == Spec => []KeysInv
<1>1. KeysInv /\ [Next]_vars => KeysInv'
  BY KeysStep
<1> QED BY KeysInit, <1>1, PTL DEF Spec

\* No output is ever made to a key that is not on disk: create_coinbase_tx
\* and build_tx store the key before anybody sees the transaction.
THEOREM KeysAlwaysKept == Spec => []KeysKept
<1>1. KeysInv => KeysKept
  <2> SUFFICES ASSUME KeysInv
               PROVE  KeysKept
    OBVIOUS
  <2>1. \A b \in blockchain_db \cup {block} : \A tx \in AllTxs(b) : Keyed(tx, key_pool)
    BY DEF KeysInv, KeyedBlock, AllTxs
  <2>2. \A tx \in ToSet(mempool) : Keyed(tx, key_pool)
    BY DEF KeysInv, KeyedMempool, ToSet
  <2>3. \A tx \in StoredTxs \cup AllTxs(block) \cup ToSet(mempool) : Keyed(tx, key_pool)
    BY <2>1, <2>2 DEF StoredTxs
  <2> QED BY <2>3 DEF KeysKept, Keyed
<1> QED BY KeysInvariant, <1>1, PTL

-----------------------------------------------------------------------------
(* What is spent.                                                          *)

IsTx(tx) ==
  /\ tx.id \in Int
  /\ tx.inputs \in Seq(ToSet(tx.inputs))
  /\ tx.outputs \in Seq(ToSet(tx.outputs))
  \* no input is repeated
  /\ \A k, l \in DOMAIN tx.inputs : tx.inputs[k].prev = tx.inputs[l].prev => k = l

\* A block is being handled; it may be refused, or is on its way into the
\* chain and the pools.
Accepting == cmd \in {"adding", "pools", "mempool"}
Handling  == cmd = "mined" \/ Accepting
Building  == cmd \in {"build", "offer"}

\* Where the process is says what it has in hand.
Control ==
  /\ cmd \in {"boot", "idle", "build", "offer", "mined", "adding", "pools", "mempool"}
  /\ cmd \notin {"boot", "adding"} => chain_pc = "ready"
  /\ cmd = "adding" => chain_pc \notin {"down", "refused"}
  /\ cmd = "boot" => adding = GenesisBlock /\ mempool = <<>>
  /\ ~Handling => block = NoBlock
  /\ ~Building => building = NoTx
  /\ cmd # "build" => to_mark = <<>>
  /\ cmd = "adding" => adding = block
  /\ Accepting /\ chain_pc # "put" => block \in blockchain_db
  /\ cmd = "mempool" => confirmed = block.txs

\* Who spends outputs, or is about to.
Owners == ToSet(mempool) \cup StoredTxs \cup {building}

\* The tables of the mempool say the same, and say it of transactions.
Tables ==
  /\ ~exited
  /\ mempool \in Seq(ToSet(mempool))
  /\ \A i, j \in DOMAIN mempool : mempool[i].id = mempool[j].id => i = j
  /\ DOMAIN utxo_to_tx = Claimed
  /\ \A tx \in ToSet(mempool) : \A out \in SpentOutpoints(tx) : utxo_to_tx[out] = tx.id

\* The block in hand: a coinbase that spends nothing, and transactions of the
\* mempool, which spend something if the block is any good.
BlockShape ==
  Handling =>
    /\ block.txs \in Seq(ToSet(block.txs))
    /\ Len(block.txs) > 0
    /\ \A i \in DOMAIN block.txs : IsTx(block.txs[i])
    /\ block.txs[1].inputs = <<>> /\ Len(block.txs[1].outputs) = 1
    /\ \A tx \in ToSet(mempool) : tx.id # block.txs[1].id
    /\ \A i \in 2..Len(block.txs) :
         /\ cmd # "mempool" => block.txs[i] \in ToSet(mempool)
         /\ Accepting => block.txs[i].inputs # <<>>
    /\ \A i, j \in DOMAIN block.txs : block.txs[i].id = block.txs[j].id => i = j

IdsOf(blocks) == {tx.id : tx \in UNION {AllTxs(b) : b \in blocks}}

\* The transactions whose outputs can be known to anybody: those of the chain,
\* but for the block that is being handled.
Past == IF cmd \in {"mined", "adding", "pools"}
        THEN IdsOf(blockchain_db \ {block}) ELSE IdsOf(blockchain_db)

\* Those whose outputs can be in the UTXO pool.
Seen == IF cmd = "pools" THEN IdsOf(blockchain_db) ELSE Past

\* A transaction waits although it is in the chain only as long as the purge
\* has not come to it.
StillToPurge(tx) ==
  /\ Accepting
  /\ \E i \in 2..Len(block.txs) :
       /\ tx = block.txs[i]
       /\ cmd = "mempool" => cur_tx < i \/ (cur_tx = i /\ cur_in = 1)

Fresh ==
  /\ cmd \in {"mined", "adding", "pools"} => \A tx \in AllTxs(block) : tx.id \notin Past
  /\ \A tx \in ToSet(mempool) : tx.id \in IdsOf(blockchain_db) => StillToPurge(tx)
  /\ Building => building.id \notin IdsOf(blockchain_db)

\* The outputs of the block in hand the wallet has been told of.
Written(out) ==
  /\ cmd = "pools"
  /\ \E i \in DOMAIN block.txs : \E n \in DOMAIN block.txs[i].outputs :
       /\ out = Outpoint(block.txs[i], n)
       /\ i < pool_tx \/ (i = pool_tx /\ n < pool_out)

\* Nothing speaks of an output before it is made.
OnlyPast ==
  /\ \A tx \in Owners : \A out \in SpentOutpoints(tx) : out[1] \in Past
  /\ \A out \in DOMAIN wallet_pool : out[1] \in Past \/ Written(out)
  /\ \A out \in DOMAIN utxo_pool : out[1] \in Seen

\* What is spent is marked, or will be before the payment is offered.
Marks ==
  /\ to_mark \in Seq(ToSet(to_mark))
  /\ \A tx \in Owners : \A out \in SpentOutpoints(tx) :
       out \in DOMAIN wallet_pool =>
         wallet_pool[out].spent \/ (tx = building /\ out \in ToSet(to_mark))

Apart ==
  \A t, u \in Owners : t # u => SpentOutpoints(t) \cap SpentOutpoints(u) = {}

\* Between two writes the first has been made; between two transactions none
\* is under way.
HalfWritten ==
  cmd = "pools" /\ half /\ pool_tx <= Len(block.txs) =>
    IF pool_out <= Len(CurrentTx.outputs)
    THEN LET out == Outpoint(CurrentTx, pool_out)
         IN  out \in DOMAIN utxo_pool /\ utxo_pool[out] = CurrentTx.outputs[pool_out]
    ELSE /\ pool_in <= Len(CurrentTx.inputs)
         /\ CurrentTx.inputs[pool_in].prev \notin DOMAIN utxo_pool

\* The counters of the loop over the block.
Counters ==
  /\ pool_tx \in Nat \ {0} /\ pool_out \in Nat \ {0} /\ pool_in \in Nat \ {0}
  /\ cur_tx \in Nat \ {0} /\ cur_in \in Nat \ {0}

\* A payment under construction can be mined.
BuildingPayable ==
  \A k \in DOMAIN building.inputs :
    LET in == building.inputs[k]
    IN  in.signed /\ in.prev \in DOMAIN utxo_pool /\ in.key = utxo_pool[in.prev].key

\* As long as it waits, so can a pending one.
MempoolPayable ==
  \A tx \in ToSet(mempool) : tx.id \notin IdsOf(blockchain_db) =>
    \A k \in DOMAIN tx.inputs :
      LET in == tx.inputs[k]
      IN  in.signed /\ in.prev \in DOMAIN utxo_pool /\ in.key = utxo_pool[in.prev].key

SpendInv ==
  /\ Control /\ Counters /\ Tables /\ BlockShape /\ Fresh /\ OnlyPast
  /\ WalletShape /\ Marks /\ Apart /\ HalfWritten /\ UnspentBacked
  /\ BuildingPayable /\ MempoolPayable
  /\ \A tx \in Owners : IsTx(tx)

-----------------------------------------------------------------------------
(* Lemmas about the operators.                                             *)

LEMMA IdsOfBlocks ==
  ASSUME NEW blocks, NEW id
  PROVE  id \in IdsOf(blocks) <=> \E b \in blocks : \E tx \in AllTxs(b) : tx.id = id
BY DEF IdsOf

\* More blocks, more ids; and a block with no new id may be left out.
LEMMA MoreBlocks ==
  ASSUME NEW blocks, NEW more, blocks \subseteq more
  PROVE  IdsOf(blocks) \subseteq IdsOf(more)
BY DEF IdsOf

LEMMA OneMoreBlock ==
  ASSUME NEW blocks, NEW b, NEW id
  PROVE  id \in IdsOf(blocks \cup {b}) <=> id \in IdsOf(blocks) \/ \E tx \in AllTxs(b) : tx.id = id
BY IdsOfBlocks

LEMMA NothingInHand ==
  /\ SpentOutpoints(NoTx) = {} /\ IsTx(NoTx)
  /\ AllTxs(GenesisBlock) = {} /\ AllTxs(NoBlock) = {}
  /\ ToSet(<<>>) = {}
  /\ \A tx : tx.inputs = <<>> => SpentOutpoints(tx) = {}
<1>1. ToSet(<<>>) = {} /\ <<>> \in Seq({})
  BY DEF ToSet
<1>2. IsTx(NoTx)
  BY <1>1 DEF IsTx, NoTx
<1>3. \A tx : tx.inputs = <<>> => SpentOutpoints(tx) = {}
  BY DEF SpentOutpoints
<1> QED BY <1>1, <1>2, <1>3 DEF NoTx, AllTxs, GenesisBlock, NoBlock

-----------------------------------------------------------------------------
(* Where the process is.                                                   *)

LEMMA ControlInit == Init => Control /\ Counters
BY DEF Init, ChainInit, WalletInit, HandleBlockInit, M!MempoolInit, M!LoopInit, Control, Counters,
   Handling, Accepting, Building

LEMMA HaltControl ==
  ASSUME NEW why, Halt(why)
  PROVE  Control' /\ Counters'
BY DEF Halt, ChainCrash, Control, Counters, Handling, Accepting, Building

LEMMA AddStepControl ==
  ASSUME Control, Counters, AddStep, cmd \in {"boot", "adding"},
         UNCHANGED <<cmd, block, building, to_mark, mempool, poolLoop, cur_tx, cur_in, confirmed>>
  PROVE  Control' /\ Counters'
<1>1. /\ adding' = adding /\ chain_pc' \notin {"down", "refused", "put"}
      /\ blockchain_db' = IF chain_pc = "put" THEN blockchain_db \cup {adding} ELSE blockchain_db
  BY DEF AddStep, PutBlock, EmptyHeightFile, WriteHeightFile, EmptyTopFile, WriteTopFile
<1> QED BY <1>1 DEF Control, Counters, Handling, Accepting, Building, poolLoop

LEMMA RunControl ==
  ASSUME Control, Counters, Boot \/ Run
  PROVE  Control' /\ Counters'
<1> USE DEF Control, Counters, Handling, Accepting, Building
<1>1. CASE Boot
  BY <1>1 DEF Boot, BlockchainInit, UseExisting, RefuseFiles, AddGenesis, diskVars, walletDisk,
     buildVars, blockVars, memVars, poolLoop
<1>2. CASE BootStep \/ AddToChain
  BY <1>2, AddStepControl DEF BootStep, AddToChain, walletDisk, buildVars, blockVars, memVars
<1>3. CASE InitDone
  BY <1>3 DEF InitDone, chainVars, walletDisk, buildVars, blockVars, poolLoop
<1>4. CASE AcceptBlock
  BY <1>4 DEF AcceptBlock, StartAdd, diskVars, walletDisk, buildVars, blockVars, memVars, poolLoop
<1>5. CASE RejectBlock
  BY <1>5 DEF RejectBlock, chainVars, walletDisk, buildVars, memVars, poolLoop
<1>6. CASE BeginPools
  BY <1>6 DEF BeginPools, StartUpdatePools, poolDisk, chainVars, buildVars, memVars
<1>7. CASE UpdatePools
  BY <1>7 DEF UpdatePools, WritePools, PutOutput, DeleteInput, NextPoolTx, poolDisk,
     chainVars, buildVars, memVars
<1>8. CASE BeginMempool
  BY <1>8 DEF BeginMempool, StartUpdatePools, M!StartUpdate, poolDisk, chainVars, buildVars
<1>9. CASE UpdateMempool
  BY <1>9 DEF UpdateMempool, M!VisitInput, M!NextConfirmedTx, chainVars, walletDisk, buildVars,
     blockVars, poolLoop
<1>10. CASE MineDone
  BY <1>10 DEF MineDone, M!StartUpdate, chainVars, walletDisk, buildVars, poolLoop
<1>11. CASE BuildStep
  BY <1>11 DEF BuildStep, MarkSpent, chainVars, blockVars, memVars, poolLoop
<1>12. CASE BuildDone
  BY <1>12 DEF BuildDone, StoreChangeKey, chainVars, blockVars, memVars, poolLoop
<1>13. CASE Offer
  BY <1>13 DEF Offer, chainVars, walletDisk, blockVars, poolLoop
<1> QED BY <1>1, <1>2, <1>3, <1>4, <1>5, <1>6, <1>7, <1>8, <1>9, <1>10, <1>11, <1>12, <1>13 DEF Run

LEMMA ControlStep ==
  ASSUME Control, Counters, [Next]_vars
  PROVE  Control' /\ Counters'
<1> USE DEF Control, Counters, Handling, Accepting, Building
<1>1. CASE Boot \/ Run
  BY <1>1, RunControl
<1>2. CASE Mine /\ FeesKnown
  BY <1>2 DEF Mine, CreateBlock, Idle, Up, chainVars, buildVars, memVars, poolLoop
<1>3. ASSUME NEW dest \in Dests, NEW amt \in AMOUNTS, NEW fee \in FEES, CreateTx(dest, amt, fee)
      PROVE  Control' /\ Counters'
  BY <1>3 DEF CreateTx, StartBuild, Idle, Up, chainVars, blockVars, memVars, poolLoop
<1>4. CASE \/ Mine /\ ~FeesKnown
           \/ \E amt \in AMOUNTS, fee \in FEES : CreateTxExits(amt, fee)
           \/ ShellExit \/ Kill
  BY <1>4, HaltControl DEF Mine, CreateTxExits, ShellExit, Kill
<1>5. CASE UNCHANGED vars
  BY <1>5 DEF vars, chainVars, buildVars, blockVars, memVars, poolLoop
<1> QED BY <1>1, <1>2, <1>3, <1>4, <1>5 DEF Next, Command

-----------------------------------------------------------------------------
(* Steps that write neither to the UTXO pool nor to the wallet.            *)

\* All that is said of outputs stays true if no transaction comes in that
\* spends something, and what was known of a transaction's outputs is not
\* forgotten.
LEMMA SameOutputs ==
  ASSUME SpendInv, UNCHANGED <<wallet_pool, utxo_pool>>,
         Past \subseteq Past', Seen \subseteq Seen', to_mark' \in {to_mark, <<>>},
         \A out : Written(out) => out[1] \in Past' \/ Written(out)',
         \A tx \in Owners' :
           \/ SpentOutpoints(tx) = {} /\ IsTx(tx)
           \/ /\ tx \in Owners
              /\ tx = building /\ to_mark # <<>> => building' = building /\ to_mark' = to_mark
  PROVE  /\ OnlyPast' /\ WalletShape' /\ Marks' /\ Apart' /\ UnspentBacked'
         /\ (\A tx \in Owners : IsTx(tx))'
<1>1. OnlyPast'
  BY DEF SpendInv, OnlyPast
<1>2. WalletShape' /\ UnspentBacked'
  BY DEF SpendInv, WalletShape, UnspentBacked
<1>3. Marks'
  <2>1. to_mark = <<>> => ToSet(to_mark) = {}
    BY NothingInHand
  <2>2. <<>> \in Seq(ToSet(<<>>))
    BY EmptySeq
  <2> QED BY <2>1, <2>2 DEF SpendInv, Marks
<1>4. Apart'
  BY DEF SpendInv, Apart
<1>5. (\A tx \in Owners : IsTx(tx))'
  BY DEF SpendInv
<1> QED BY <1>1, <1>2, <1>3, <1>4, <1>5

\* The process ends: nothing is in hand and nothing waits.
LEMMA HaltSpend ==
  ASSUME SpendInv, NEW why, Halt(why)
  PROVE  SpendInv'
<1>1. /\ mempool' = <<>> /\ utxo_to_tx' = <<>> /\ exited' = FALSE
      /\ block' = NoBlock /\ building' = NoTx /\ to_mark' = <<>> /\ cmd' = "boot"
      /\ UNCHANGED <<blockchain_db, utxo_pool, wallet_pool>>
  BY DEF Halt, ChainCrash, diskVars, walletDisk
<1>2. Control' /\ Counters'
  BY HaltControl
<1>3. Owners' = StoredTxs \cup {NoTx}
  BY <1>1, NothingInHand DEF Owners, StoredTxs
<1>4. Past' = IdsOf(blockchain_db) /\ Seen' = IdsOf(blockchain_db)
  BY <1>1 DEF Past, Seen
<1>5. Past \subseteq IdsOf(blockchain_db) /\ Seen \subseteq IdsOf(blockchain_db)
  BY MoreBlocks DEF Past, Seen
<1>6. ASSUME NEW out, Written(out)
      PROVE  out[1] \in IdsOf(blockchain_db)
  <2>1. block \in blockchain_db
    BY <1>6 DEF Written, SpendInv, Control, Accepting
  <2>2. PICK i \in DOMAIN block.txs : out[1] = block.txs[i].id
    BY <1>6 DEF Written, Outpoint
  <2> QED BY <2>1, <2>2, IdsOfBlocks DEF AllTxs
<1>7. ASSUME to_mark # <<>>
      PROVE  building \notin StoredTxs
  <2>1. building.id \notin IdsOf(blockchain_db)
    BY <1>7 DEF SpendInv, Control, Fresh, Building
  <2> QED BY <2>1, IdsOfBlocks DEF StoredTxs
<1>8. /\ OnlyPast' /\ WalletShape' /\ Marks' /\ Apart' /\ UnspentBacked'
      /\ (\A tx \in Owners : IsTx(tx))'
  <2>1. \A tx \in Owners' : tx = NoTx \/ (tx \in Owners /\ (tx = building => to_mark = <<>>))
    BY <1>3, <1>7 DEF Owners
  <2> QED BY <1>1, <1>4, <1>5, <1>6, <2>1, NothingInHand, SameOutputs
<1>9. Tables'
  <2>1. Claimed' = {}
    BY <1>1, NothingInHand DEF Claimed
  <2>2. <<>> \in Seq({}) /\ DOMAIN <<>> = {}
    OBVIOUS
  <2> QED BY <1>1, <2>1, <2>2, NothingInHand DEF Tables
<1>10. BlockShape' /\ Fresh' /\ HalfWritten'
  BY <1>1, NothingInHand DEF BlockShape, Fresh, HalfWritten, Handling, Accepting, Building
<1>11. BuildingPayable' /\ MempoolPayable'
  BY <1>1, NothingInHand DEF BuildingPayable, MempoolPayable, NoTx
<1> QED BY <1>2, <1>8, <1>9, <1>10, <1>11 DEF SpendInv

\* Nothing changes that the invariant speaks of, but the block store's own state.
LEMMA QuietSpend ==
  ASSUME SpendInv, Control', Counters',
         UNCHANGED <<blockchain_db, wallet_pool, utxo_pool, building, block, poolLoop, mempool,
                     utxo_to_tx, exited, cur_tx, cur_in>>,
         \/ UNCHANGED <<cmd, to_mark>>
         \/ cmd = "boot" /\ cmd' = "idle"
         \/ cmd = "build" /\ cmd' = "offer" /\ to_mark = <<>>
  PROVE  SpendInv'
<1>1. Owners' = Owners /\ Past' = Past /\ Seen' = Seen
  BY DEF Owners, StoredTxs, Past, Seen
<1>2. \A out : Written(out) => Written(out)'
  BY DEF Written, poolLoop
<1>3. /\ OnlyPast' /\ WalletShape' /\ Marks' /\ Apart' /\ UnspentBacked'
      /\ (\A tx \in Owners : IsTx(tx))'
  <2>1. to_mark' \in {to_mark, <<>>} /\ (to_mark # <<>> => to_mark' = to_mark)
    BY DEF SpendInv, Control
  <2> QED BY <1>1, <1>2, <2>1, SameOutputs
<1>4. Tables'
  BY DEF SpendInv, Tables, Claimed
<1>5. BlockShape' /\ Fresh'
  <2>1. Handling' = Handling /\ Accepting' = Accepting /\ (Building' => Building)
    BY DEF Handling, Accepting, Building
  <2>2. \A tx : StillToPurge(tx)' <=> StillToPurge(tx)
    BY DEF StillToPurge, Accepting
  <2>3. BlockShape'
    BY <2>1 DEF SpendInv, BlockShape, Accepting
  <2>4. Fresh'
    BY <1>1, <2>1, <2>2 DEF SpendInv, Fresh
  <2> QED BY <2>3, <2>4
<1>6. HalfWritten' /\ BuildingPayable' /\ MempoolPayable'
  BY DEF SpendInv, HalfWritten, CurrentTx, BuildingPayable, MempoolPayable, poolLoop
<1> QED BY <1>3, <1>4, <1>5, <1>6 DEF SpendInv

\* Start-up, and the end of build_tx.  The genesis block brings no transaction.
LEMMA BootSpend ==
  ASSUME SpendInv, Boot \/ BootStep \/ InitDone \/ BuildDone
  PROVE  SpendInv'
<1>1. Control' /\ Counters'
  BY RunControl DEF SpendInv, Run
<1>2. CASE Boot
  <2>1. UNCHANGED <<blockchain_db, wallet_pool, utxo_pool, building, block, poolLoop, mempool,
                    utxo_to_tx, exited, cur_tx, cur_in, cmd, to_mark>>
    BY <1>2 DEF Boot, BlockchainInit, UseExisting, RefuseFiles, AddGenesis, diskVars,
       walletDisk, buildVars, blockVars, memVars
  <2> QED BY <1>1, <2>1, QuietSpend
<1>3. CASE InitDone
  <2>1. /\ UNCHANGED <<blockchain_db, wallet_pool, utxo_pool, building, block, poolLoop, mempool,
                       utxo_to_tx, exited, cur_tx, cur_in, to_mark>>
        /\ cmd = "boot" /\ cmd' = "idle"
    BY <1>3 DEF InitDone, SpendInv, Control, chainVars, walletDisk, buildVars, blockVars
  <2> QED BY <1>1, <2>1, QuietSpend
<1>4. CASE BuildDone
  <2>1. /\ UNCHANGED <<blockchain_db, wallet_pool, utxo_pool, building, block, poolLoop, mempool,
                       utxo_to_tx, exited, cur_tx, cur_in, to_mark>>
        /\ cmd = "build" /\ cmd' = "offer" /\ to_mark = <<>>
    BY <1>4 DEF BuildDone, StoreChangeKey, chainVars, blockVars, memVars
  <2> QED BY <1>1, <2>1, QuietSpend
<1>5. CASE BootStep
  <2>1. /\ UNCHANGED <<wallet_pool, utxo_pool, building, block, poolLoop, mempool, utxo_to_tx,
                       exited, cur_tx, cur_in, cmd, to_mark>>
        /\ blockchain_db' = blockchain_db \/ blockchain_db' = blockchain_db \cup {adding}
        /\ cmd = "boot"
    BY <1>5 DEF BootStep, AddStep, PutBlock, EmptyHeightFile, WriteHeightFile, EmptyTopFile,
       WriteTopFile, walletDisk, buildVars, blockVars, memVars
  <2>2. CASE blockchain_db' = blockchain_db
    BY <1>1, <2>1, <2>2, QuietSpend
  <2>3. CASE blockchain_db' = blockchain_db \cup {adding}
    <3>1. AllTxs(adding) = {}
      BY <2>1, NothingInHand DEF SpendInv, Control
    <3>2. \A id : id \in IdsOf(blockchain_db') <=> id \in IdsOf(blockchain_db)
      BY <2>3, <3>1, OneMoreBlock
    <3>3. Past' = IdsOf(blockchain_db') /\ Seen' = IdsOf(blockchain_db')
          /\ Past = IdsOf(blockchain_db) /\ Seen = IdsOf(blockchain_db)
      BY <2>1 DEF Past, Seen
    <3>4. Owners' = Owners
      BY <2>1, <2>3, <3>1 DEF Owners, StoredTxs
    <3>5. \A out : ~Written(out)
      BY <2>1 DEF Written
    <3>6. /\ OnlyPast' /\ WalletShape' /\ Marks' /\ Apart' /\ UnspentBacked'
          /\ (\A tx \in Owners : IsTx(tx))'
      BY <2>1, <3>2, <3>3, <3>4, <3>5, SameOutputs
    <3>7. Tables' /\ BlockShape'
      BY <2>1 DEF SpendInv, Tables, Claimed, BlockShape, Handling, Accepting
    <3>8. Fresh' /\ MempoolPayable'
      BY <2>1, <3>2 DEF SpendInv, Fresh, MempoolPayable, StillToPurge, Accepting, Building
    <3>9. HalfWritten' /\ BuildingPayable'
      BY <2>1 DEF SpendInv, HalfWritten, BuildingPayable
    <3> QED BY <1>1, <3>6, <3>7, <3>8, <3>9 DEF SpendInv
  <2> QED BY <2>1, <2>2, <2>3
<1> QED BY <1>2, <1>3, <1>4, <1>5

-----------------------------------------------------------------------------
(* A block.                                                                *)

\* The miner takes transactions of the mempool from its front.
LEMMA FrontOfMempool ==
  ASSUME mempool \in Seq(ToSet(mempool)), NEW id
  PROVE  LET n == Smaller(DESIRED_NUM_TX, Len(mempool))
             txs == NewBlock(id).txs
         IN  /\ n \in 0..Len(mempool)
             /\ TxsFromMempool \in Seq(ToSet(mempool)) /\ Len(TxsFromMempool) = n
             /\ \A i \in 1..n : TxsFromMempool[i] = mempool[i]
             /\ txs \in Seq(ToSet(txs)) /\ Len(txs) = n + 1
             /\ txs[1] = CoinbaseTx(id)
             /\ \A i \in 2..(n + 1) : i - 1 \in 1..Len(mempool) /\ txs[i] = mempool[i - 1]
<1> DEFINE n == Smaller(DESIRED_NUM_TX, Len(mempool))
           txs == <<CoinbaseTx(id)>> \o TxsFromMempool
<1>1. mempool \in Seq(ToSet(mempool)) /\ n \in 0..Len(mempool)
  BY TargetAssumption DEF Smaller
<1>2. /\ TxsFromMempool \in Seq(ToSet(mempool)) /\ Len(TxsFromMempool) = n
      /\ \A i \in 1..n : TxsFromMempool[i] = mempool[i]
  BY <1>1 DEF TxsFromMempool
<1>3. /\ txs \in Seq(ToSet(mempool) \cup {CoinbaseTx(id)}) /\ Len(txs) = n + 1
      /\ txs[1] = CoinbaseTx(id)
      /\ \A i \in 2..(n + 1) : txs[i] = TxsFromMempool[i - 1]
  <2> HIDE DEF n
  <2> QED BY <1>1, <1>2
<1>4. txs \in Seq(ToSet(txs))
  BY <1>3, SeqOfElements
<1>5. NewBlock(id).txs = txs
  BY DEF NewBlock
<1>6. \A i \in 2..(n + 1) : i - 1 \in 1..Len(mempool) /\ i - 1 \in 1..n
  BY <1>1
<1> HIDE DEF txs, n
<1>7. \A i \in 2..(n + 1) : txs[i] = mempool[i - 1]
  BY <1>2, <1>3, <1>6
<1> QED BY <1>1, <1>2, <1>3, <1>4, <1>5, <1>6, <1>7 DEF n

\* create_block: the coinbase is new, the rest is in the mempool.
LEMMA MineSpend ==
  ASSUME SpendInv, Mine, FeesKnown
  PROVE  SpendInv'
<1>1. Control' /\ Counters'
  <2>1. [Next]_vars \/ exited
    BY DEF Next, Command
  <2> QED BY <2>1, ControlStep DEF SpendInv, Tables
<1>2. PICK id \in UnusedIds : CreateBlock(id)
  BY DEF Mine
<1>3. /\ block' = NewBlock(id) /\ cmd = "idle" /\ cmd' = "mined"
      /\ UNCHANGED <<blockchain_db, utxo_pool, wallet_pool, building, to_mark, mempool, utxo_to_tx,
                     exited, poolLoop>>
  BY <1>2 DEF Mine, Idle, CreateBlock, chainVars, buildVars, memVars
<1>4. /\ id \in Int
      /\ \A b \in blockchain_db : \A tx \in AllTxs(b) : tx.id # id
      /\ \A tx \in ToSet(mempool) : tx.id # id
  BY IdAssumption DEF UnusedIds, AllTxs, M!InMempool, ToSet
<1>5. /\ CoinbaseTx(id).id = id /\ CoinbaseTx(id).inputs = <<>>
      /\ Len(CoinbaseTx(id).outputs) = 1 /\ IsTx(CoinbaseTx(id))
  <2> DEFINE out == [amt |-> CoinbaseAmount(MinerFees(TxsFromMempool, utxo_pool)), key |-> id]
  <2>1. CoinbaseTx(id) = [id |-> id, inputs |-> <<>>, outputs |-> <<out>>]
    BY DEF CoinbaseTx
  <2> HIDE DEF out
  <2>2. <<>> \in Seq(ToSet(<<>>)) /\ <<out>> \in Seq(ToSet(<<out>>))
    <3>1. <<out>> \in Seq({out}) /\ <<>> \in Seq({})
      OBVIOUS
    <3> QED BY <3>1, SeqOfElements
  <2> QED BY <1>4, <2>1, <2>2 DEF IsTx
<1> DEFINE txs == NewBlock(id).txs
<1>6. /\ txs \in Seq(ToSet(txs)) /\ Len(txs) > 0
      /\ txs[1] = CoinbaseTx(id)
      /\ \A i \in 2..Len(txs) : i - 1 \in DOMAIN mempool /\ txs[i] = mempool[i - 1]
  BY FrontOfMempool DEF SpendInv, Tables
<1>7. \A i \in 2..Len(txs) : txs[i] \in ToSet(mempool)
  BY <1>6 DEF ToSet
<1>8. \A tx \in AllTxs(block') : tx = CoinbaseTx(id) \/ tx \in ToSet(mempool)
  <2> HIDE DEF txs
  <2>1. \A i \in DOMAIN txs : i = 1 \/ i \in 2..Len(txs)
    BY <1>6
  <2>2. AllTxs(block') = {txs[i] : i \in DOMAIN txs}
    BY <1>3 DEF AllTxs, txs
  <2> QED BY <1>6, <1>7, <2>1, <2>2
<1>9. block' \notin blockchain_db /\ blockchain_db \ {block'} = blockchain_db
  <2>1. CoinbaseTx(id) \in AllTxs(block')
    BY <1>3, <1>6 DEF AllTxs
  <2> QED BY <1>4, <1>5, <2>1
<1>10. /\ Past = IdsOf(blockchain_db) /\ Seen = IdsOf(blockchain_db)
       /\ Past' = IdsOf(blockchain_db) /\ Seen' = IdsOf(blockchain_db)
  BY <1>3, <1>9 DEF Past, Seen
<1>11. Owners' = Owners /\ \A out : ~Written(out)
  BY <1>3 DEF Owners, StoredTxs, Written
<1>12. /\ OnlyPast' /\ WalletShape' /\ Marks' /\ Apart' /\ UnspentBacked'
       /\ (\A tx \in Owners : IsTx(tx))'
  BY <1>3, <1>10, <1>11, SameOutputs
<1>13. Tables'
  BY <1>3 DEF SpendInv, Tables, Claimed
<1>14. BlockShape'
  <2>1. \A i \in DOMAIN txs : IsTx(txs[i])
    <3> HIDE DEF txs
    <3>1. \A i \in DOMAIN txs : i = 1 \/ i \in 2..Len(txs)
      BY <1>6
    <3> QED BY <1>5, <1>6, <1>7, <3>1 DEF SpendInv, Owners
  <2>2. \A i, j \in DOMAIN txs : txs[i].id = txs[j].id => i = j
    <3> HIDE DEF txs
    <3>1. \A i \in DOMAIN txs : i \in Int /\ (i = 1 \/ i \in 2..Len(txs))
      BY <1>6
    <3>2. \A i, j \in 2..Len(txs) : txs[i].id = txs[j].id => i - 1 = j - 1
      BY <1>6 DEF SpendInv, Tables
    <3> QED BY <1>4, <1>5, <1>6, <1>7, <3>1, <3>2
  <2>3. block'.txs = txs
    BY <1>3
  <2>4. \A tx \in ToSet(mempool) : tx.id # txs[1].id
    BY <1>4, <1>5, <1>6
  <2> HIDE DEF txs
  <2> QED BY <1>3, <1>5, <1>6, <1>7, <2>1, <2>2, <2>3, <2>4 DEF BlockShape, Accepting
<1>15. Fresh'
  <2>1. \A tx \in ToSet(mempool) : tx.id \notin IdsOf(blockchain_db)
    BY <1>3 DEF SpendInv, Fresh, StillToPurge, Accepting
  <2>2. id \notin IdsOf(blockchain_db)
    BY <1>4, IdsOfBlocks
  <2> QED BY <1>3, <1>5, <1>8, <1>10, <2>1, <2>2 DEF Fresh, Building
<1>16. HalfWritten' /\ BuildingPayable' /\ MempoolPayable'
  BY <1>3 DEF SpendInv, HalfWritten, BuildingPayable, MempoolPayable
<1> QED BY <1>1, <1>12, <1>13, <1>14, <1>15, <1>16 DEF SpendInv

\* A block that passes validate_block has no second transaction that spends nothing.
LEMMA ValidSpends ==
  ASSUME NEW b, ValidateBlock(b) = 0, NEW i \in 2..Len(b.txs)
  PROVE  b.txs[i].inputs # <<>>
<1>1. ValidateIncomingBlockTxs(b.txs, utxo_pool) = 0
  BY DEF ValidateBlock
<1>2. ValidateTxShared(b.txs[i], utxo_pool) = 0
  BY <1>1 DEF ValidateIncomingBlockTxs
<1> QED BY <1>2 DEF ValidateTxShared

LEMMA ValidateSpend ==
  ASSUME SpendInv, AcceptBlock \/ RejectBlock
  PROVE  SpendInv'
<1>1. Control' /\ Counters'
  BY RunControl DEF SpendInv, Run
<1>2. /\ UNCHANGED <<blockchain_db, utxo_pool, wallet_pool, building, to_mark, mempool, utxo_to_tx,
                     exited, poolLoop>>
      /\ cmd = "mined"
      /\ \/ cmd' = "adding" /\ block' = block /\ ValidateBlock(block) = 0
         \/ cmd' = "idle" /\ block' = NoBlock
  BY DEF AcceptBlock, RejectBlock, StartAdd, diskVars, chainVars, walletDisk, buildVars,
     blockVars, memVars
<1>3. Past \subseteq Past' /\ Seen \subseteq Seen'
  BY <1>2, MoreBlocks DEF Past, Seen
<1>4. Owners' = Owners /\ \A out : ~Written(out)
  BY <1>2 DEF Owners, StoredTxs, Written
<1>5. /\ OnlyPast' /\ WalletShape' /\ Marks' /\ Apart' /\ UnspentBacked'
      /\ (\A tx \in Owners : IsTx(tx))'
  BY <1>2, <1>3, <1>4, SameOutputs
<1>6. Tables'
  BY <1>2 DEF SpendInv, Tables, Claimed
<1>7. BlockShape'
  <2>1. ValidateBlock(block) = 0 => \A i \in 2..Len(block.txs) : block.txs[i].inputs # <<>>
    BY ValidSpends
  <2> QED BY <1>2, <2>1 DEF SpendInv, BlockShape, Handling, Accepting
<1>8. Fresh'
  <2>1. \A tx \in ToSet(mempool) : tx.id \notin IdsOf(blockchain_db)
    BY <1>2 DEF SpendInv, Fresh, StillToPurge, Accepting
  <2>2. cmd' = "adding" => Past' = Past
    BY <1>2 DEF Past
  <2> QED BY <1>2, <2>1, <2>2 DEF SpendInv, Fresh, Building
<1>9. HalfWritten' /\ BuildingPayable' /\ MempoolPayable'
  BY <1>2 DEF SpendInv, HalfWritten, BuildingPayable, MempoolPayable
<1> QED BY <1>1, <1>5, <1>6, <1>7, <1>8, <1>9 DEF SpendInv

\* The block comes into the database: its payments still wait, and are purged later.
LEMMA AddSpend ==
  ASSUME SpendInv, AddToChain
  PROVE  SpendInv'
<1>1. Control' /\ Counters'
  BY RunControl DEF SpendInv, Run
<1>2. /\ UNCHANGED <<block, utxo_pool, wallet_pool, building, to_mark, mempool, utxo_to_tx,
                     exited, poolLoop, cmd, cur_tx, cur_in>>
      /\ blockchain_db' = blockchain_db \/ blockchain_db' = blockchain_db \cup {adding}
      /\ cmd = "adding"
  BY DEF AddToChain, AddStep, PutBlock, EmptyHeightFile, WriteHeightFile, EmptyTopFile,
     WriteTopFile, walletDisk, buildVars, blockVars, memVars
<1>3. CASE blockchain_db' = blockchain_db
  BY <1>1, <1>2, <1>3, QuietSpend
<1>4. CASE blockchain_db' = blockchain_db \cup {block}
  <2>1. /\ Past = IdsOf(blockchain_db \ {block}) /\ Seen = Past
        /\ Past' = IdsOf(blockchain_db' \ {block}) /\ Seen' = Past'
        /\ blockchain_db' \ {block} = blockchain_db \ {block}
    BY <1>2, <1>4 DEF Past, Seen
  <2>2. \A tx \in AllTxs(block) :
          \/ tx = block.txs[1] /\ SpentOutpoints(tx) = {} /\ IsTx(tx)
          \/ tx \in ToSet(mempool) /\ \E i \in 2..Len(block.txs) : tx = block.txs[i]
    <3>1. /\ block.txs \in Seq(ToSet(block.txs)) /\ Len(block.txs) > 0
          /\ \A i \in DOMAIN block.txs : IsTx(block.txs[i])
          /\ block.txs[1].inputs = <<>>
          /\ \A i \in 2..Len(block.txs) : block.txs[i] \in ToSet(mempool)
      BY <1>2 DEF SpendInv, BlockShape, Handling, Accepting
    <3>2. \A i \in DOMAIN block.txs : i = 1 \/ i \in 2..Len(block.txs)
      BY <3>1
    <3> QED BY <3>1, <3>2, NothingInHand DEF AllTxs
  <2>3. \A tx \in Owners' : tx \in Owners \/ (SpentOutpoints(tx) = {} /\ IsTx(tx))
    BY <1>2, <1>4, <2>2 DEF Owners, StoredTxs
  <2>4. to_mark = <<>> /\ \A out : ~Written(out)
    BY <1>2 DEF SpendInv, Control, Written
  <2>5. /\ OnlyPast' /\ WalletShape' /\ Marks' /\ Apart' /\ UnspentBacked'
        /\ (\A tx \in Owners : IsTx(tx))'
    BY <1>2, <2>1, <2>3, <2>4, SameOutputs
  <2>6. Tables' /\ BlockShape'
    BY <1>2 DEF SpendInv, Tables, Claimed, BlockShape, Handling, Accepting
  <2>7. Fresh'
    <3>1. ASSUME NEW tx \in ToSet(mempool), tx.id \in IdsOf(blockchain_db')
          PROVE  StillToPurge(tx)
      <4>1. CASE tx.id \in IdsOf(blockchain_db)
        BY <4>1 DEF SpendInv, Fresh
      <4>2. CASE tx.id \notin IdsOf(blockchain_db)
        <5>1. PICK u \in AllTxs(block) : u.id = tx.id
          BY <1>4, <3>1, <4>2, OneMoreBlock
        <5>2. tx.id # block.txs[1].id
          BY <1>2 DEF SpendInv, BlockShape, Handling, Accepting
        <5>3. u \in ToSet(mempool) /\ \E i \in 2..Len(block.txs) : u = block.txs[i]
          BY <2>2, <5>1, <5>2
        <5>4. u = tx
          BY <5>1, <5>3 DEF SpendInv, Tables, ToSet
        <5> QED BY <1>2, <5>3, <5>4 DEF StillToPurge, Accepting
      <4> QED BY <4>1, <4>2
    <3>2. \A tx : StillToPurge(tx)' <=> StillToPurge(tx)
      BY <1>2 DEF StillToPurge, Accepting
    <3> QED BY <1>2, <2>1, <3>1, <3>2 DEF SpendInv, Fresh, Building
  <2>8. HalfWritten' /\ BuildingPayable'
    BY <1>2 DEF SpendInv, HalfWritten, BuildingPayable
  <2>9. MempoolPayable'
    <3>1. IdsOf(blockchain_db) \subseteq IdsOf(blockchain_db')
      BY <1>4, MoreBlocks
    <3> QED BY <1>2, <3>1 DEF SpendInv, MempoolPayable
  <2> QED BY <1>1, <2>5, <2>6, <2>7, <2>8, <2>9 DEF SpendInv
<1>5. adding = block
  BY <1>2 DEF SpendInv, Control
<1> QED BY <1>2, <1>3, <1>4, <1>5

\* accept_block goes from one of its parts to the next.
LEMMA NextPartSpend ==
  ASSUME SpendInv, BeginPools \/ BeginMempool
  PROVE  SpendInv'
<1>1. Control' /\ Counters'
  BY RunControl DEF SpendInv, Run
<1>2. /\ UNCHANGED <<blockchain_db, block, utxo_pool, wallet_pool, building, to_mark, mempool,
                     utxo_to_tx, exited>>
      /\ pool_tx' = 1 /\ pool_out' = 1 /\ half' = FALSE
      /\ \/ cmd = "adding" /\ cmd' = "pools" /\ chain_pc = "ready"
         \/ cmd = "pools" /\ cmd' = "mempool" /\ cur_tx' = 1
  BY DEF BeginPools, BeginMempool, StartUpdatePools, M!StartUpdate, poolDisk, chainVars,
     buildVars, memVars
<1>3. Past \subseteq Past' /\ Seen \subseteq Seen'
  BY <1>2, MoreBlocks DEF Past, Seen
<1>4. Owners' = Owners
  BY <1>2 DEF Owners, StoredTxs
<1>5. ASSUME NEW out, Written(out)
      PROVE  out[1] \in Past'
  <2>1. cmd = "pools" /\ block \in blockchain_db /\ Past' = IdsOf(blockchain_db)
    BY <1>2, <1>5 DEF Written, SpendInv, Control, Accepting, Past
  <2>2. PICK i \in DOMAIN block.txs : out[1] = block.txs[i].id
    BY <1>5 DEF Written, Outpoint
  <2> QED BY <2>1, <2>2, IdsOfBlocks DEF AllTxs
<1>6. /\ OnlyPast' /\ WalletShape' /\ Marks' /\ Apart' /\ UnspentBacked'
      /\ (\A tx \in Owners : IsTx(tx))'
  BY <1>2, <1>3, <1>4, <1>5, SameOutputs
<1>7. Tables' /\ BlockShape'
  BY <1>2 DEF SpendInv, Tables, Claimed, BlockShape, Handling, Accepting
<1>8. Fresh'
  <2>1. \A tx : StillToPurge(tx) => StillToPurge(tx)'
    BY <1>2 DEF StillToPurge, Accepting
  <2>2. cmd' = "pools" => Past' = Past
    BY <1>2 DEF Past
  <2> QED BY <1>2, <2>1, <2>2 DEF SpendInv, Fresh, Building
<1>9. HalfWritten' /\ BuildingPayable' /\ MempoolPayable'
  BY <1>2 DEF SpendInv, HalfWritten, BuildingPayable, MempoolPayable
<1> QED BY <1>1, <1>6, <1>7, <1>8, <1>9 DEF SpendInv

-----------------------------------------------------------------------------
(* The writes of update_UTXO_pool_and_wallet_pool.                         *)

\* What does not change as long as they are made.
LEMMA UpdatePoolsFrame ==
  ASSUME SpendInv, UpdatePools
  PROVE  /\ UNCHANGED <<cmd, blockchain_db, block, building, to_mark, mempool, utxo_to_tx, exited,
                        cur_tx, cur_in>>
         /\ cmd = "pools" /\ building = NoTx /\ block \in blockchain_db
         /\ pool_tx \in DOMAIN block.txs /\ CurrentTx = block.txs[pool_tx]
         /\ CurrentTx \in AllTxs(block) /\ CurrentTx \in Owners
         /\ IsTx(CurrentTx) /\ CurrentTx.id \in IdsOf(blockchain_db) /\ CurrentTx.id \notin Past
         /\ pool_tx \in Nat \ {0} /\ pool_out \in Nat \ {0} /\ pool_in \in Nat \ {0}
         /\ PutOutput \/ DeleteInput \/ NextPoolTx
         /\ Control' /\ Counters'
         /\ Owners' = Owners /\ Past' = Past /\ Seen' = Seen /\ Seen = IdsOf(blockchain_db)
         /\ Tables' /\ BlockShape' /\ Fresh' /\ BuildingPayable'
         /\ (\A tx \in Owners : IsTx(tx))'
<1>1. /\ UNCHANGED <<cmd, blockchain_db, block, building, to_mark, mempool, utxo_to_tx, exited,
                     cur_tx, cur_in>>
      /\ cmd = "pools" /\ ~PoolsDone /\ (PutOutput \/ DeleteInput \/ NextPoolTx)
  BY DEF UpdatePools, WritePools, PutOutput, DeleteInput, NextPoolTx, poolDisk, chainVars,
     buildVars, memVars
<1>2. building = NoTx /\ block \in blockchain_db
  BY <1>1 DEF SpendInv, Control, Building, Accepting
<1>3. /\ pool_tx \in Nat \ {0} /\ pool_out \in Nat \ {0} /\ pool_in \in Nat \ {0}
      /\ pool_tx \in DOMAIN block.txs /\ IsTx(block.txs[pool_tx])
  BY <1>1 DEF SpendInv, Counters, BlockShape, Handling, Accepting, PoolsDone
<1>4. CurrentTx = block.txs[pool_tx] /\ CurrentTx \in AllTxs(block) /\ CurrentTx \in StoredTxs
  BY <1>2, <1>3 DEF CurrentTx, AllTxs, StoredTxs
<1>5. CurrentTx.id \in IdsOf(blockchain_db) /\ CurrentTx.id \notin Past
  BY <1>1, <1>2, <1>4, IdsOfBlocks DEF SpendInv, Fresh
<1>6. Control' /\ Counters'
  BY RunControl DEF SpendInv, Run
<1>7. Owners' = Owners /\ Past' = Past /\ Seen' = Seen /\ Seen = IdsOf(blockchain_db)
  BY <1>1 DEF Owners, StoredTxs, Past, Seen
<1>8. Tables' /\ BlockShape'
  BY <1>1 DEF SpendInv, Tables, Claimed, BlockShape, Handling, Accepting
<1>9. Fresh'
  <2>1. \A tx : StillToPurge(tx)' <=> StillToPurge(tx)
    BY <1>1 DEF StillToPurge, Accepting
  <2> QED BY <1>1, <1>7, <2>1 DEF SpendInv, Fresh, Building
<1>10. BuildingPayable'
  BY <1>1, <1>2 DEF BuildingPayable, NoTx
<1>11. (\A tx \in Owners : IsTx(tx))'
  BY <1>7 DEF SpendInv
<1> QED BY <1>1, <1>2, <1>3, <1>4, <1>5, <1>6, <1>7, <1>8, <1>9, <1>10, <1>11 DEF Owners

\* An output goes to the UTXO pool, then to the wallet: nobody has heard of it.
LEMMA PutOutputSpend ==
  ASSUME SpendInv, UpdatePools, PutOutput
  PROVE  SpendInv'
<1> DEFINE out == Outpoint(CurrentTx, pool_out)
           output == CurrentTx.outputs[pool_out]
<1>1. pool_out \in DOMAIN CurrentTx.outputs /\ pool_out <= Len(CurrentTx.outputs)
  BY UpdatePoolsFrame DEF PutOutput, IsTx
<1>2. out[1] = CurrentTx.id /\ out[2] = pool_out - 1 /\ out \in Int \X Int
  BY UpdatePoolsFrame DEF Outpoint, IsTx
<1>3. out[1] \notin Past /\ out[1] \in IdsOf(blockchain_db)
  BY <1>2, UpdatePoolsFrame
<1>4. ~Written(out)
  <2> SUFFICES ASSUME NEW i \in DOMAIN block.txs, NEW n \in DOMAIN block.txs[i].outputs,
                      out = Outpoint(block.txs[i], n),
                      i < pool_tx \/ (i = pool_tx /\ n < pool_out)
               PROVE  FALSE
    BY DEF Written
  <2>1. block.txs[i].id = block.txs[pool_tx].id /\ n - 1 = pool_out - 1
    BY <1>2, UpdatePoolsFrame DEF Outpoint
  <2>2. i = pool_tx
    BY <2>1, UpdatePoolsFrame DEF SpendInv, BlockShape, Handling, Accepting
  <2>3. n \in Int
    BY <2>2, UpdatePoolsFrame DEF IsTx
  <2> QED BY <2>1, <2>2, <2>3, UpdatePoolsFrame
<1>5. out \notin DOMAIN wallet_pool
  BY <1>3, <1>4 DEF SpendInv, OnlyPast
<1>6. \A tx \in Owners : out \notin SpentOutpoints(tx)
  BY <1>3 DEF SpendInv, OnlyPast
<1>7. UNCHANGED <<pool_tx, pool_in, key_pool>>
  BY DEF PutOutput
<1>8. \A o : Written(o) => Written(o)'
  <2>1. pool_out' = pool_out \/ pool_out' = pool_out + 1
    BY DEF PutOutput
  <2>2. \A i \in DOMAIN block.txs : IsTx(block.txs[i])
    BY UpdatePoolsFrame DEF SpendInv, BlockShape, Handling, Accepting
  <2>3. \A i \in DOMAIN block.txs : \A n \in DOMAIN block.txs[i].outputs : n \in Int
    BY <2>2 DEF IsTx
  <2> QED BY <1>7, <2>1, <2>3, UpdatePoolsFrame DEF Written
<1>9. Apart'
  BY UpdatePoolsFrame DEF SpendInv, Apart
<1> HIDE DEF out, output
<1>10. CASE ~half
  <2>1. /\ DOMAIN utxo_pool' = DOMAIN utxo_pool \cup {out}
        /\ utxo_pool'[out] = output
        /\ \A o \in DOMAIN utxo_pool : o # out => utxo_pool'[o] = utxo_pool[o]
        /\ wallet_pool' = wallet_pool
        /\ half' => pool_out' = pool_out
    BY <1>10 DEF PutOutput, Put, out, output
  <2>2. OnlyPast'
    BY <1>3, <1>8, <2>1, UpdatePoolsFrame DEF SpendInv, OnlyPast
  <2>3. WalletShape' /\ Marks'
    BY <2>1, UpdatePoolsFrame DEF SpendInv, WalletShape, Marks
  <2>4. UnspentBacked'
    BY <1>5, <2>1 DEF SpendInv, UnspentBacked
  <2>5. HalfWritten'
    BY <1>1, <1>7, <2>1, UpdatePoolsFrame DEF HalfWritten, CurrentTx, out, output
  <2>6. MempoolPayable'
    <3>1. \A tx \in ToSet(mempool) : \A k \in DOMAIN tx.inputs : tx.inputs[k].prev # out
      BY <1>6 DEF Owners, SpentOutpoints
    <3> QED BY <2>1, <3>1, UpdatePoolsFrame DEF SpendInv, MempoolPayable
  <2> QED BY <1>9, <2>2, <2>3, <2>4, <2>5, <2>6, UpdatePoolsFrame DEF SpendInv
<1>11. CASE half
  <2>1. /\ DOMAIN wallet_pool' = DOMAIN wallet_pool \cup {out}
        /\ wallet_pool'[out] = WalletEntry(output)
        /\ \A o \in DOMAIN wallet_pool : o # out => wallet_pool'[o] = wallet_pool[o]
        /\ utxo_pool' = utxo_pool
        /\ ~half' /\ pool_out' = pool_out + 1
    BY <1>11 DEF PutOutput, Put, out, output
  <2>2. out = Outpoint(block.txs[pool_tx], pool_out) /\ pool_out < pool_out + 1
    BY UpdatePoolsFrame DEF out
  <2>3. ASSUME NEW o, o = out
        PROVE  Written(o)'
    <3>1. /\ cmd' = "pools" /\ block' = block /\ pool_tx' = pool_tx /\ pool_out' = pool_out + 1
          /\ pool_tx \in DOMAIN block.txs /\ pool_out \in DOMAIN block.txs[pool_tx].outputs
      BY <1>1, <1>7, <2>1, UpdatePoolsFrame
    <3> QED BY <2>2, <2>3, <3>1 DEF Written
  <2>4. OnlyPast'
    <3>1. \A o \in DOMAIN wallet_pool' : o[1] \in Past' \/ Written(o)'
      BY <1>8, <2>1, <2>3, UpdatePoolsFrame DEF SpendInv, OnlyPast
    <3> QED BY <2>1, <3>1, UpdatePoolsFrame DEF SpendInv, OnlyPast
  <2>5. WalletShape'
    <3>1. IsFiniteSet(DOMAIN wallet_pool')
      BY <2>1, FS_AddElement DEF SpendInv, WalletShape
    <3>2. DOMAIN wallet_pool' \subseteq Int \X Int
      BY <1>2, <2>1 DEF SpendInv, WalletShape, out
    <3> QED BY <2>1, <3>1, <3>2 DEF SpendInv, WalletShape, WalletEntry
  <2>6. Marks'
    BY <1>6, <2>1, UpdatePoolsFrame DEF SpendInv, Marks
  <2>7. UnspentBacked'
    <3>1. out \in DOMAIN utxo_pool /\ utxo_pool[out] = output
      BY <1>1, <1>11, UpdatePoolsFrame DEF SpendInv, HalfWritten, out, output
    <3> QED BY <2>1, <3>1 DEF SpendInv, UnspentBacked, WalletEntry
  <2>8. HalfWritten' /\ MempoolPayable'
    BY <2>1, UpdatePoolsFrame DEF SpendInv, HalfWritten, MempoolPayable
  <2> QED BY <1>9, <2>4, <2>5, <2>6, <2>7, <2>8, UpdatePoolsFrame DEF SpendInv
<1> QED BY <1>10, <1>11

\* An input goes from both; whoever else waits does not need it.
LEMMA DeleteInputSpend ==
  ASSUME SpendInv, UpdatePools, DeleteInput
  PROVE  SpendInv'
<1> DEFINE out == CurrentTx.inputs[pool_in].prev
<1>1. /\ pool_in \in DOMAIN CurrentTx.inputs /\ pool_in <= Len(CurrentTx.inputs)
      /\ pool_out > Len(CurrentTx.outputs) /\ Len(CurrentTx.outputs) \in Int
  BY UpdatePoolsFrame DEF DeleteInput, IsTx
<1>2. out \in SpentOutpoints(CurrentTx)
  BY <1>1 DEF SpentOutpoints
<1>3. UNCHANGED <<pool_tx, pool_out, key_pool>>
  BY DEF DeleteInput
<1>4. \A o : Written(o) => Written(o)'
  BY <1>3, UpdatePoolsFrame DEF Written
<1>5. Apart'
  BY UpdatePoolsFrame DEF SpendInv, Apart
<1> HIDE DEF out
<1>6. CASE ~half
  <2>1. /\ DOMAIN utxo_pool' = DOMAIN utxo_pool \ {out}
        /\ \A o \in DOMAIN utxo_pool' : utxo_pool'[o] = utxo_pool[o]
        /\ wallet_pool' = wallet_pool
        /\ half' /\ pool_in' = pool_in
    BY <1>6 DEF DeleteInput, Delete, out
  <2>2. OnlyPast' /\ WalletShape' /\ Marks'
    BY <1>4, <2>1, UpdatePoolsFrame DEF SpendInv, OnlyPast, WalletShape, Marks
  <2>3. UnspentBacked'
    <3>1. out \in DOMAIN wallet_pool => wallet_pool[out].spent
      <4>1. to_mark = <<>>
        BY UpdatePoolsFrame DEF SpendInv, Control
      <4> QED BY <1>2, <4>1, UpdatePoolsFrame, NothingInHand DEF SpendInv, Marks
    <3> QED BY <2>1, <3>1 DEF SpendInv, UnspentBacked
  <2>4. HalfWritten'
    <3>1. /\ CurrentTx' = CurrentTx /\ pool_out' = pool_out /\ pool_in' = pool_in
          /\ ~(pool_out <= Len(CurrentTx.outputs)) /\ out \notin DOMAIN utxo_pool'
      BY <1>1, <1>3, <2>1, UpdatePoolsFrame DEF CurrentTx
    <3> QED BY <1>1, <3>1 DEF HalfWritten, out
  <2>5. MempoolPayable'
    <3>1. ASSUME NEW tx \in ToSet(mempool), tx.id \notin IdsOf(blockchain_db),
                 NEW k \in DOMAIN tx.inputs
          PROVE  tx.inputs[k].prev # out
      <4>1. tx # CurrentTx /\ tx \in Owners /\ CurrentTx \in Owners
        BY <3>1, UpdatePoolsFrame DEF Owners
      <4>2. SpentOutpoints(tx) \cap SpentOutpoints(CurrentTx) = {}
        BY <4>1 DEF SpendInv, Apart
      <4>3. tx.inputs[k].prev \in SpentOutpoints(tx)
        BY DEF SpentOutpoints
      <4> QED BY <1>2, <4>2, <4>3
    <3> QED BY <2>1, <3>1, UpdatePoolsFrame DEF SpendInv, MempoolPayable
  <2> QED BY <1>5, <2>2, <2>3, <2>4, <2>5, UpdatePoolsFrame DEF SpendInv
<1>7. CASE half
  <2>1. /\ DOMAIN wallet_pool' = DOMAIN wallet_pool \ {out}
        /\ \A o \in DOMAIN wallet_pool' : wallet_pool'[o] = wallet_pool[o]
        /\ utxo_pool' = utxo_pool
        /\ ~half'
    BY <1>7 DEF DeleteInput, Delete, out
  <2>2. OnlyPast' /\ Marks' /\ UnspentBacked'
    BY <1>4, <2>1, UpdatePoolsFrame DEF SpendInv, OnlyPast, Marks, UnspentBacked
  <2>3. WalletShape'
    BY <2>1, FS_Subset DEF SpendInv, WalletShape
  <2>4. HalfWritten' /\ MempoolPayable'
    BY <2>1, UpdatePoolsFrame DEF SpendInv, HalfWritten, MempoolPayable
  <2> QED BY <1>5, <2>2, <2>3, <2>4, UpdatePoolsFrame DEF SpendInv
<1> QED BY <1>6, <1>7

LEMMA NextPoolTxSpend ==
  ASSUME SpendInv, UpdatePools, NextPoolTx
  PROVE  SpendInv'
<1>1. /\ UNCHANGED <<utxo_pool, wallet_pool, half>>
      /\ pool_tx' = pool_tx + 1
      /\ pool_out > Len(CurrentTx.outputs) /\ pool_in > Len(CurrentTx.inputs)
  BY DEF NextPoolTx, poolDisk
<1>2. \A o : Written(o) => Written(o)'
  <2>1. \A i \in DOMAIN block.txs : i \in Int
    BY UpdatePoolsFrame DEF SpendInv, BlockShape, Handling, Accepting
  <2> QED BY <1>1, <2>1, UpdatePoolsFrame DEF Written
<1>3. to_mark = <<>>
  BY UpdatePoolsFrame DEF SpendInv, Control
<1>4. OnlyPast' /\ WalletShape' /\ Marks' /\ Apart' /\ UnspentBacked'
  BY <1>1, <1>2, <1>3, UpdatePoolsFrame, SameOutputs
<1>5. HalfWritten'
  <2>1. Len(CurrentTx.outputs) \in Int /\ Len(CurrentTx.inputs) \in Int
    BY UpdatePoolsFrame DEF IsTx
  <2>2. pool_tx <= Len(block.txs)
    BY UpdatePoolsFrame DEF SpendInv, BlockShape, Handling, Accepting
  <2>3. ~half
    BY <1>1, <2>1, <2>2, UpdatePoolsFrame DEF SpendInv, HalfWritten
  <2> QED BY <1>1, <2>3 DEF HalfWritten
<1>6. MempoolPayable'
  BY <1>1, UpdatePoolsFrame DEF SpendInv, MempoolPayable
<1> QED BY <1>4, <1>5, <1>6, UpdatePoolsFrame DEF SpendInv

-----------------------------------------------------------------------------
(* update_mempool, and the end of accept_block.                            *)

\* RemoveAt takes out one element and keeps the others, and so what ids say.
LEMMA RemoveOne ==
  ASSUME NEW s, s \in Seq(ToSet(s)), NEW n \in DOMAIN s
  PROVE  LET rest == RemoveAt(s, n)
         IN  /\ rest \in Seq(ToSet(rest))
             /\ \A k \in DOMAIN rest : \E m \in DOMAIN s : m # n /\ rest[k] = s[m]
             /\ \A m \in DOMAIN s : m # n => \E k \in DOMAIN rest : rest[k] = s[m]
             /\ (\A l, m \in DOMAIN s : s[l].id = s[m].id => l = m)
                => \A k, l \in DOMAIN rest : rest[k].id = rest[l].id => k = l
<1> DEFINE rest == RemoveAt(s, n)
           front == SubSeq(s, 1, n - 1)
           back == SubSeq(s, n + 1, Len(s))
           from(k) == IF k < n THEN k ELSE k + 1
<1>1. n \in 1..Len(s) /\ Len(s) \in Nat /\ DOMAIN s = 1..Len(s)
  OBVIOUS
<1>2. /\ front \in Seq(ToSet(s)) /\ Len(front) = n - 1
      /\ \A k \in 1..(n - 1) : front[k] = s[k]
  BY <1>1
<1>3. /\ back \in Seq(ToSet(s)) /\ Len(back) = Len(s) - n
      /\ \A k \in 1..(Len(s) - n) : back[k] = s[k + n]
  BY <1>1
<1>4. rest = front \o back
  BY DEF RemoveAt
<1> HIDE DEF rest, front, back
<1>5. /\ rest \in Seq(ToSet(s)) /\ Len(rest) = Len(front) + Len(back)
      /\ \A k \in 1..(Len(front) + Len(back)) :
           rest[k] = IF k <= Len(front) THEN front[k] ELSE back[k - Len(front)]
  BY <1>2, <1>3, <1>4, ConcatProperties
<1>6. Len(rest) = Len(s) - 1 /\ DOMAIN rest = 1..(Len(s) - 1)
  BY <1>1, <1>2, <1>3, <1>5
<1>7. ASSUME NEW k \in 1..(Len(s) - 1)
      PROVE  rest[k] = s[from(k)] /\ from(k) # n /\ from(k) \in 1..Len(s)
  <2>1. CASE k < n
    BY <1>1, <1>2, <1>3, <1>5, <2>1
  <2>2. CASE ~(k < n)
    <3>1. /\ k - (n - 1) \in 1..(Len(s) - n) /\ (k - (n - 1)) + n = k + 1
          /\ k \in 1..(Len(front) + Len(back)) /\ ~(k <= Len(front))
      BY <1>1, <1>2, <1>3, <2>2
    <3>2. rest[k] = back[k - (n - 1)]
      BY <1>2, <1>5, <3>1
    <3> QED BY <1>1, <1>3, <2>2, <3>1, <3>2
  <2> QED BY <2>1, <2>2
<1>8. \A k \in DOMAIN rest : \E m \in DOMAIN s : m # n /\ rest[k] = s[m]
  BY <1>1, <1>6, <1>7
<1>9. ASSUME NEW m \in DOMAIN s, m # n
      PROVE  \E k \in DOMAIN rest : rest[k] = s[m]
  <2>1. CASE m < n
    <3>1. m \in 1..(Len(s) - 1) /\ from(m) = m
      BY <1>1, <2>1
    <3> QED BY <1>6, <1>7, <3>1
  <2>2. CASE ~(m < n)
    <3>1. m - 1 \in 1..(Len(s) - 1) /\ from(m - 1) = m
      BY <1>1, <1>9, <2>2
    <3> QED BY <1>6, <1>7, <3>1
  <2> QED BY <2>1, <2>2
<1>10. ASSUME \A l, m \in DOMAIN s : s[l].id = s[m].id => l = m,
              NEW k \in DOMAIN rest, NEW l \in DOMAIN rest, rest[k].id = rest[l].id
       PROVE  k = l
  <2>1. k \in 1..(Len(s) - 1) /\ l \in 1..(Len(s) - 1)
    BY <1>6
  <2>2. from(k) = from(l)
    BY <1>1, <1>7, <1>10, <2>1
  <2> QED BY <1>1, <2>1, <2>2
<1>11. rest \in Seq(ToSet(rest))
  BY <1>5, SeqOfElements
<1> QED BY <1>8, <1>9, <1>10, <1>11 DEF rest

\* mempool_remove: the others wait on, and the table knows them.
LEMMA EvictTables ==
  ASSUME Tables, NEW id, M!MempoolRemove(id)
  PROVE  /\ Tables'
         /\ \A tx : tx \in ToSet(mempool') <=> tx \in ToSet(mempool) /\ tx.id # id
<1>1. CASE ~M!InMempool(id) /\ UNCHANGED M!poolVars
  <2>1. \A tx \in ToSet(mempool) : tx.id # id
    BY <1>1 DEF M!InMempool, ToSet
  <2> QED BY <1>1, <2>1 DEF M!poolVars, Tables, Claimed
<1>2. ASSUME NEW n \in DOMAIN mempool, mempool[n].id = id,
             mempool' = RemoveAt(mempool, n), exited' = exited,
             utxo_to_tx' = [out \in DOMAIN utxo_to_tx \ SpentOutpoints(mempool[n]) |-> utxo_to_tx[out]]
      PROVE  /\ Tables'
             /\ \A tx : tx \in ToSet(mempool') <=> tx \in ToSet(mempool) /\ tx.id # id
  <2> DEFINE gone == mempool[n]
  <2>1. /\ mempool \in Seq(ToSet(mempool))
        /\ \A i, j \in DOMAIN mempool : mempool[i].id = mempool[j].id => i = j
        /\ DOMAIN utxo_to_tx = Claimed
        /\ \A tx \in ToSet(mempool) : \A out \in SpentOutpoints(tx) : utxo_to_tx[out] = tx.id
        /\ ~exited
    BY DEF Tables
  <2>2. /\ mempool' \in Seq(ToSet(mempool'))
        /\ \A k \in DOMAIN mempool' : \E m \in DOMAIN mempool : m # n /\ mempool'[k] = mempool[m]
        /\ \A m \in DOMAIN mempool : m # n => \E k \in DOMAIN mempool' : mempool'[k] = mempool[m]
        /\ \A i, j \in DOMAIN mempool' : mempool'[i].id = mempool'[j].id => i = j
    <3> DEFINE rest == RemoveAt(mempool, n)
    <3>1. /\ rest \in Seq(ToSet(rest))
          /\ \A k \in DOMAIN rest : \E m \in DOMAIN mempool : m # n /\ rest[k] = mempool[m]
          /\ \A m \in DOMAIN mempool : m # n => \E k \in DOMAIN rest : rest[k] = mempool[m]
          /\ \A i, j \in DOMAIN rest : rest[i].id = rest[j].id => i = j
      BY <2>1, RemoveOne
    <3> QED BY <1>2, <3>1
  <2>3. ASSUME NEW tx
        PROVE  tx \in ToSet(mempool') <=> tx \in ToSet(mempool) /\ tx.id # id
    <3>1. ASSUME tx \in ToSet(mempool')
          PROVE  tx \in ToSet(mempool) /\ tx.id # id
      <4>1. PICK k \in DOMAIN mempool' : tx = mempool'[k]
        BY <3>1 DEF ToSet
      <4> QED BY <1>2, <2>1, <2>2, <4>1 DEF ToSet
    <3>2. ASSUME tx \in ToSet(mempool), tx.id # id
          PROVE  tx \in ToSet(mempool')
      <4>1. PICK k \in DOMAIN mempool : tx = mempool[k]
        BY <3>2 DEF ToSet
      <4> QED BY <1>2, <2>2, <3>2, <4>1 DEF ToSet
    <3> QED BY <3>1, <3>2
  <2>4. gone \in ToSet(mempool) /\ \A tx \in ToSet(mempool') : tx # gone /\ tx \in ToSet(mempool)
    BY <1>2, <2>3 DEF ToSet
  <2>5. ASSUME NEW out
        PROVE  out \in Claimed' <=> out \in Claimed /\ out \notin SpentOutpoints(gone)
    <3>1. \A tx \in ToSet(mempool) : tx = gone \/ tx \in ToSet(mempool')
      <4>1. \A k \in DOMAIN mempool : k = n \/ mempool[k] \in ToSet(mempool')
        BY <2>2 DEF ToSet
      <4> QED BY <4>1 DEF ToSet
    <3>2. \A tx \in ToSet(mempool') : out \in SpentOutpoints(tx) => out \notin SpentOutpoints(gone)
      BY <1>2, <2>1, <2>3, <2>4
    <3>3. /\ out \in Claimed <=> \E tx \in ToSet(mempool) : out \in SpentOutpoints(tx)
          /\ out \in Claimed' <=> \E tx \in ToSet(mempool') : out \in SpentOutpoints(tx)
      BY DEF Claimed
    <3> QED BY <2>4, <3>1, <3>2, <3>3
  <2>6. DOMAIN utxo_to_tx' = Claimed'
    BY <1>2, <2>1, <2>5
  <2>7. ASSUME NEW tx \in ToSet(mempool'), NEW out \in SpentOutpoints(tx)
         PROVE  utxo_to_tx'[out] = tx.id
    <3>1. out \in DOMAIN utxo_to_tx'
      BY <2>6 DEF Claimed
    <3>2. utxo_to_tx'[out] = utxo_to_tx[out]
      BY <1>2, <3>1
    <3> QED BY <2>1, <2>4, <3>2
  <2> QED BY <1>2, <2>1, <2>2, <2>3, <2>6, <2>7 DEF Tables
<1>3. \A k : M!RemoveAt(mempool, k) = RemoveAt(mempool, k)
  BY DEF M!RemoveAt, RemoveAt
<1>4. \A tx : M!Outpoints(tx) = SpentOutpoints(tx)
  BY DEF M!Outpoints, SpentOutpoints
<1>5. CASE ~(~M!InMempool(id) /\ UNCHANGED M!poolVars)
  <2>1. PICK n \in DOMAIN mempool :
          /\ mempool[n].id = id
          /\ mempool' = M!RemoveAt(mempool, n)
          /\ utxo_to_tx' = [out \in DOMAIN utxo_to_tx \ M!Outpoints(mempool[n]) |-> utxo_to_tx[out]]
          /\ UNCHANGED exited
    BY <1>5, Zenon DEF M!MempoolRemove
  <2> QED BY <1>2, <1>3, <1>4, <2>1
<1> QED BY <1>1, <1>5

LEMMA EvictOne ==
  ASSUME SpendInv, NEW id, M!MempoolRemove(id)
  PROVE  /\ Tables'
         /\ \A tx : tx \in ToSet(mempool') <=> tx \in ToSet(mempool) /\ tx.id # id
BY EvictTables DEF SpendInv

\* The first input of a mined transaction that still waits evicts it, so none
\* waits when the loop is past it.
LEMMA PurgeSpend ==
  ASSUME SpendInv, UpdateMempool
  PROVE  SpendInv'
<1>1. Control' /\ Counters'
  BY RunControl DEF SpendInv, Run
<1>2. /\ UNCHANGED <<blockchain_db, block, utxo_pool, wallet_pool, building, to_mark, cmd, poolLoop>>
      /\ cmd = "mempool" /\ confirmed = block.txs /\ building = NoTx /\ to_mark = <<>>
      /\ block \in blockchain_db
  BY DEF UpdateMempool, chainVars, walletDisk, buildVars, blockVars, SpendInv, Control, Building,
     Accepting
<1>3. /\ block.txs \in Seq(ToSet(block.txs))
      /\ \A i \in DOMAIN block.txs : IsTx(block.txs[i])
      /\ \A i \in 2..Len(block.txs) : block.txs[i].inputs # <<>>
      /\ block.txs[1].inputs = <<>>
  BY <1>2 DEF SpendInv, BlockShape, Handling, Accepting
<1>4. /\ Tables'
      /\ \A tx \in ToSet(mempool') : tx \in ToSet(mempool)
      /\ \A tx \in ToSet(mempool') : StillToPurge(tx) => StillToPurge(tx)'
  <2>1. CASE M!NextConfirmedTx
    <3>1. /\ UNCHANGED <<mempool, utxo_to_tx, exited, confirmed>>
          /\ cur_tx' = cur_tx + 1 /\ cur_in' = 1
          /\ cur_tx <= Len(block.txs) /\ cur_in > Len(block.txs[cur_tx].inputs)
          /\ cur_tx \in Nat \ {0} /\ cur_in \in Nat \ {0}
      BY <1>2, <1>3, <2>1 DEF M!NextConfirmedTx, M!UpdateDone, SpendInv, Counters
    <3>2. cur_tx \in 2..Len(block.txs) => cur_in # 1
      <4>1. ASSUME cur_tx \in 2..Len(block.txs)
            PROVE  Len(block.txs[cur_tx].inputs) >= 1
        <5>1. block.txs[cur_tx].inputs \in Seq(ToSet(block.txs[cur_tx].inputs))
          BY <1>3, <4>1 DEF IsTx
        <5> QED BY <1>3, <4>1, <5>1
      <4> QED BY <1>3, <3>1, <4>1
    <3>3. \A i \in 2..Len(block.txs) :
            (cur_tx < i \/ (cur_tx = i /\ cur_in = 1)) => (cur_tx + 1 < i \/ cur_tx + 1 = i)
      BY <3>1, <3>2
    <3>4. Tables'
      BY <3>1 DEF SpendInv, Tables, Claimed
    <3> QED BY <1>2, <3>1, <3>3, <3>4 DEF StillToPurge, Accepting
  <2>2. CASE M!VisitInput
    <3> DEFINE out == block.txs[cur_tx].inputs[cur_in].prev
    <3>1. /\ UNCHANGED <<confirmed, cur_tx>> /\ cur_in' = cur_in + 1
          /\ cur_tx <= Len(block.txs) /\ cur_in <= Len(block.txs[cur_tx].inputs)
          /\ cur_tx \in Nat \ {0} /\ cur_in \in Nat \ {0}
          /\ IF out \in DOMAIN utxo_to_tx THEN M!MempoolRemove(utxo_to_tx[out])
             ELSE UNCHANGED M!poolVars
      BY <1>2, <1>3, <2>2 DEF M!VisitInput, M!UpdateDone, SpendInv, Counters
    <3>2. out \in SpentOutpoints(block.txs[cur_tx])
      <4>1. cur_tx \in DOMAIN block.txs
        BY <1>3, <3>1
      <4>2. block.txs[cur_tx].inputs \in Seq(ToSet(block.txs[cur_tx].inputs))
        BY <1>3, <4>1 DEF IsTx
      <4>3. cur_in \in DOMAIN block.txs[cur_tx].inputs
        BY <3>1, <4>2
      <4> QED BY <4>3 DEF SpentOutpoints
    <3> HIDE DEF out
    <3>3. /\ Tables'
          /\ \A tx \in ToSet(mempool') : tx \in ToSet(mempool)
          /\ out \in DOMAIN utxo_to_tx => \A tx \in ToSet(mempool') : tx.id # utxo_to_tx[out]
      <4>1. CASE out \in DOMAIN utxo_to_tx
        BY <3>1, <4>1, EvictOne
      <4>2. CASE out \notin DOMAIN utxo_to_tx
        BY <3>1, <4>2 DEF SpendInv, Tables, Claimed, M!poolVars
      <4> QED BY <4>1, <4>2
    <3>4. block.txs[cur_tx] \notin ToSet(mempool')
      <4> SUFFICES ASSUME block.txs[cur_tx] \in ToSet(mempool')
                   PROVE  FALSE
        OBVIOUS
      <4>1. block.txs[cur_tx] \in ToSet(mempool)
        BY <3>3
      <4>2. out \in DOMAIN utxo_to_tx /\ utxo_to_tx[out] = block.txs[cur_tx].id
        BY <3>2, <4>1 DEF SpendInv, Tables, Claimed
      <4> QED BY <3>3, <4>2
    <3>5. \A tx \in ToSet(mempool') : StillToPurge(tx) => StillToPurge(tx)'
      BY <1>2, <3>1, <3>4 DEF StillToPurge, Accepting
    <3> QED BY <3>3, <3>5
  <2> QED BY <2>1, <2>2 DEF UpdateMempool
<1>5. /\ Past = IdsOf(blockchain_db) /\ Past' = Past /\ Seen' = Seen
      /\ Owners' \subseteq Owners /\ \A out : ~Written(out)
  BY <1>2, <1>4 DEF Past, Seen, Owners, StoredTxs, Written
<1>6. /\ OnlyPast' /\ WalletShape' /\ Marks' /\ Apart' /\ UnspentBacked'
      /\ (\A tx \in Owners : IsTx(tx))'
  BY <1>2, <1>5, SameOutputs
<1>7. BlockShape'
  BY <1>2, <1>4 DEF SpendInv, BlockShape, Handling, Accepting
<1>8. Fresh'
  BY <1>2, <1>4 DEF SpendInv, Fresh, Building
<1>9. HalfWritten' /\ BuildingPayable' /\ MempoolPayable'
  BY <1>2, <1>4 DEF SpendInv, HalfWritten, BuildingPayable, MempoolPayable
<1> QED BY <1>1, <1>4, <1>6, <1>7, <1>8, <1>9 DEF SpendInv

\* update_mempool returns: no mined transaction waits.
LEMMA MineDoneSpend ==
  ASSUME SpendInv, MineDone
  PROVE  SpendInv'
<1>1. Control' /\ Counters'
  BY RunControl DEF SpendInv, Run
<1>2. /\ UNCHANGED <<blockchain_db, utxo_pool, wallet_pool, building, to_mark, mempool, utxo_to_tx,
                     exited>>
      /\ cmd = "mempool" /\ cmd' = "idle" /\ block' = NoBlock
      /\ cur_tx > Len(block.txs)
  BY DEF MineDone, M!UpdateDone, chainVars, walletDisk, buildVars, SpendInv, Control
<1>3. /\ Owners' = Owners /\ Past' = Past /\ Seen' = Seen /\ \A out : ~Written(out)
  BY <1>2 DEF Owners, StoredTxs, Past, Seen, Written
<1>4. /\ OnlyPast' /\ WalletShape' /\ Marks' /\ Apart' /\ UnspentBacked'
      /\ (\A tx \in Owners : IsTx(tx))'
  BY <1>2, <1>3, SameOutputs
<1>5. \A tx : ~StillToPurge(tx)
  <2>1. Len(block.txs) \in Nat /\ cur_tx \in Nat
    BY <1>2 DEF SpendInv, BlockShape, Handling, Accepting, Counters
  <2> QED BY <1>2, <2>1 DEF StillToPurge
<1>6. Tables' /\ BlockShape' /\ Fresh'
  BY <1>2, <1>5 DEF SpendInv, Tables, Claimed, BlockShape, Handling, Accepting, Fresh, Building
<1>7. HalfWritten' /\ BuildingPayable' /\ MempoolPayable'
  BY <1>2 DEF SpendInv, HalfWritten, BuildingPayable, MempoolPayable
<1> QED BY <1>1, <1>4, <1>6, <1>7 DEF SpendInv

-----------------------------------------------------------------------------
(* A payment.                                                              *)

\* It takes entries of the wallet that are not marked, each once, shows their
\* keys, and all of them will be marked.
LEMMA BuiltTxFits ==
  ASSUME WalletShape, NEW id \in Int, NEW dest, NEW amt, NEW fee
  PROVE  LET tx == BuiltTx(id, dest, amt, fee)
         IN  /\ IsTx(tx) /\ tx.id = id
             /\ SpentOutpoints(tx) \subseteq Unspent(DOMAIN wallet_pool)
             /\ SpentOutpoints(tx) \subseteq ToSet(Marked(OutTotal(amt, fee)))
             /\ \A k \in DOMAIN tx.inputs :
                  tx.inputs[k].signed /\ tx.inputs[k].key = wallet_pool[tx.inputs[k].prev].key
<1> DEFINE tx == BuiltTx(id, dest, amt, fee)
           total == OutTotal(amt, fee)
           selected == Selected(total)
           input(k) == [prev |-> selected[k], key |-> wallet_pool[selected[k]].key, signed |-> TRUE]
           paid == [amt |-> amt, key |-> dest]
           left == [amt |-> ChangeAmount(total), key |-> id]
<1>1. /\ tx.id = id
      /\ tx.inputs = [k \in DOMAIN selected |-> input(k)]
      /\ tx.outputs = <<paid>> \o (IF HasChange(total) THEN <<left>> ELSE <<>>)
  BY DEF BuiltTx
<1>2. /\ selected \in Seq(Unspent(DOMAIN wallet_pool))
      /\ \A k, l \in DOMAIN selected : selected[k] = selected[l] => k = l
      /\ ToSet(selected) \subseteq ToSet(Marked(total))
  BY SelectedOnce, SelectedIsMarked
<1>3. tx.inputs \in Seq(ToSet(tx.inputs))
  <2>1. DOMAIN selected = 1..Len(selected) /\ Len(selected) \in Nat
    BY <1>2
  <2> HIDE DEF selected, tx, input
  <2>2. DOMAIN tx.inputs = 1..Len(selected)
    BY <1>1, <2>1
  <2>3. tx.inputs \in [1..Len(selected) -> ToSet(tx.inputs)]
    BY <1>1, <2>1, <2>2 DEF ToSet
  <2> QED BY <2>1, <2>3
<1>4. tx.outputs \in Seq(ToSet(tx.outputs))
  <2> HIDE DEF paid, left, tx, total
  <2>1. tx.outputs \in Seq({paid, left})
    BY <1>1, OneOrTwo
  <2> QED BY <2>1, SeqOfElements
<1>5. DOMAIN tx.inputs = DOMAIN selected /\ \A k \in DOMAIN selected : tx.inputs[k] = input(k)
  <2> HIDE DEF selected, tx, input
  <2> QED BY <1>1
<1>6. \A k \in DOMAIN selected :
        /\ tx.inputs[k].prev = selected[k] /\ tx.inputs[k].signed
        /\ tx.inputs[k].key = wallet_pool[selected[k]].key
  <2> SUFFICES ASSUME NEW k \in DOMAIN selected
               PROVE  /\ tx.inputs[k].prev = selected[k] /\ tx.inputs[k].signed = TRUE
                      /\ tx.inputs[k].key = wallet_pool[selected[k]].key
    OBVIOUS
  <2> DEFINE key == wallet_pool[selected[k]].key
  <2>1. tx.inputs[k] = [prev |-> selected[k], key |-> key, signed |-> TRUE]
    BY <1>5
  <2> HIDE DEF selected, tx, key
  <2>2. /\ tx.inputs[k].prev = selected[k] /\ tx.inputs[k].key = key
        /\ tx.inputs[k].signed = TRUE
    BY <2>1
  <2> QED BY <2>2 DEF key
<1> HIDE DEF tx, selected, total
<1>7. SpentOutpoints(tx) = ToSet(selected)
  BY <1>5, <1>6 DEF SpentOutpoints, ToSet
<1>8. ToSet(selected) \subseteq Unspent(DOMAIN wallet_pool)
  BY <1>2 DEF ToSet
<1>9. IsTx(tx)
  BY <1>1, <1>2, <1>3, <1>4, <1>5, <1>6 DEF IsTx
<1> QED BY <1>1, <1>2, <1>5, <1>6, <1>7, <1>8, <1>9 DEF tx, total

\* The id of a new payment is no mined transaction's.
LEMMA IdIsNew ==
  ASSUME SpendInv, Idle, NEW dest, NEW amt, NEW fee, NEW id \in IdsFor(dest, amt, fee)
  PROVE  id \in Int /\ id \notin IdsOf(blockchain_db)
<1>1. CASE id \in UnusedIds
  <2>1. id \in Int /\ \A b \in blockchain_db : \A tx \in AllTxs(b) : tx.id # id
    BY <1>1, IdAssumption DEF UnusedIds, AllTxs
  <2> QED BY <2>1, IdsOfBlocks
<1>2. CASE id \notin UnusedIds
  <2>1. /\ id \in 1..MAX_TX_ID
        /\ \E n \in DOMAIN mempool : mempool[n] = BuiltTx(id, dest, amt, fee)
    BY <1>2 DEF IdsFor
  <2>2. PICK tx \in ToSet(mempool) : tx.id = id
    BY <2>1 DEF ToSet, BuiltTx
  <2>3. ~StillToPurge(tx)
    BY DEF Idle, StillToPurge, Accepting
  <2> QED BY <2>1, <2>2, <2>3, IdAssumption DEF SpendInv, Fresh
<1> QED BY <1>1, <1>2

\* build_inputs: nobody else spends what is not marked.
LEMMA CreateTxSpend ==
  ASSUME SpendInv, NEW dest \in Dests, NEW amt \in AMOUNTS, NEW fee \in FEES,
         CreateTx(dest, amt, fee)
  PROVE  SpendInv'
<1>1. Control' /\ Counters'
  <2>1. Next \/ exited
    BY DEF Next, Command
  <2> QED BY <2>1, ControlStep DEF SpendInv, Tables
<1>2. PICK id \in IdsFor(dest, amt, fee) : StartBuild(id, dest, amt, fee)
  BY DEF CreateTx
<1> DEFINE tx == BuiltTx(id, dest, amt, fee)
<1>3. /\ UNCHANGED <<blockchain_db, block, utxo_pool, wallet_pool, mempool, utxo_to_tx, exited,
                     poolLoop>>
      /\ Idle /\ cmd = "idle" /\ cmd' = "build" /\ building = NoTx /\ to_mark = <<>>
      /\ building' = tx /\ to_mark' = Marked(OutTotal(amt, fee))
  BY <1>2 DEF CreateTx, StartBuild, Idle, chainVars, blockVars, memVars, walletDisk, SpendInv,
     Control, Building
<1>4. id \in Int /\ id \notin IdsOf(blockchain_db)
  BY <1>3, IdIsNew
<1>5. /\ IsTx(tx) /\ tx.id = id
      /\ SpentOutpoints(tx) \subseteq Unspent(DOMAIN wallet_pool)
      /\ SpentOutpoints(tx) \subseteq ToSet(Marked(OutTotal(amt, fee)))
      /\ \A k \in DOMAIN tx.inputs :
           tx.inputs[k].signed /\ tx.inputs[k].key = wallet_pool[tx.inputs[k].prev].key
  BY <1>4, BuiltTxFits DEF SpendInv
<1> HIDE DEF tx
<1>6. /\ Past = IdsOf(blockchain_db) /\ Past' = Past /\ Seen = Past /\ Seen' = Seen
      /\ \A t \in Owners' : t \in Owners \/ t = tx
      /\ \A out : ~Written(out)
  BY <1>3 DEF Past, Seen, Owners, StoredTxs, Written
<1>7. OnlyPast'
  <2>1. \A out \in SpentOutpoints(tx) : out[1] \in Past
    BY <1>5, <1>6 DEF SpendInv, OnlyPast, Unspent
  <2> QED BY <1>3, <1>6, <2>1 DEF SpendInv, OnlyPast
<1>8. \A t \in Owners : \A out \in SpentOutpoints(t) :
        out \in DOMAIN wallet_pool => wallet_pool[out].spent
  BY <1>3, NothingInHand DEF SpendInv, Marks
<1>9. Marks'
  <2>1. to_mark' \in Seq(ToSet(to_mark'))
    BY <1>3, SelectedIsMarked, SeqOfElements DEF SpendInv
  <2>2. \A t \in Owners' : \A out \in SpentOutpoints(t) :
          out \in DOMAIN wallet_pool => wallet_pool[out].spent \/ (t = tx /\ out \in ToSet(to_mark'))
    BY <1>3, <1>5, <1>6, <1>8
  <2> QED BY <1>3, <2>1, <2>2 DEF Marks
<1>10. Apart'
  <2>1. \A t \in Owners : SpentOutpoints(t) \cap SpentOutpoints(tx) = {}
    BY <1>5, <1>8 DEF Unspent
  <2> QED BY <1>6, <2>1 DEF SpendInv, Apart
<1>11. (\A t \in Owners : IsTx(t))'
  BY <1>5, <1>6 DEF SpendInv
<1>12. WalletShape' /\ UnspentBacked' /\ Tables' /\ BlockShape'
  BY <1>3 DEF SpendInv, WalletShape, UnspentBacked, Tables, Claimed, BlockShape, Handling, Accepting
<1>13. Fresh'
  <2>1. \A t : ~StillToPurge(t)
    BY <1>3 DEF StillToPurge, Accepting
  <2> QED BY <1>3, <1>4, <1>5, <2>1 DEF SpendInv, Fresh
<1>14. HalfWritten' /\ MempoolPayable'
  BY <1>3 DEF SpendInv, HalfWritten, MempoolPayable
<1>15. BuildingPayable'
  <2>1. \A k \in DOMAIN tx.inputs : tx.inputs[k].prev \in Unspent(DOMAIN wallet_pool)
    BY <1>5 DEF SpentOutpoints
  <2>2. \A out \in Unspent(DOMAIN wallet_pool) :
          out \in DOMAIN utxo_pool /\ utxo_pool[out].key = wallet_pool[out].key
    BY DEF SpendInv, UnspentBacked, Unspent
  <2> QED BY <1>3, <1>5, <2>1, <2>2 DEF BuildingPayable
<1> QED BY <1>1, <1>7, <1>9, <1>10, <1>11, <1>12, <1>13, <1>14, <1>15 DEF SpendInv

\* One more entry is marked.
LEMMA BuildStepSpend ==
  ASSUME SpendInv, BuildStep
  PROVE  SpendInv'
<1>1. Control' /\ Counters'
  BY RunControl DEF SpendInv, Run
<1>2. /\ UNCHANGED <<blockchain_db, block, utxo_pool, building, mempool, utxo_to_tx, exited,
                     poolLoop, cmd, cur_tx, cur_in>>
      /\ to_mark # <<>> /\ to_mark' = Tail(to_mark) /\ cmd = "build"
      /\ wallet_pool' = [wallet_pool EXCEPT ![Head(to_mark)].spent = TRUE]
  BY DEF BuildStep, MarkSpent, chainVars, blockVars, memVars
<1>3. /\ DOMAIN wallet_pool' = DOMAIN wallet_pool
      /\ \A out \in DOMAIN wallet_pool :
           /\ wallet_pool'[out].amt = wallet_pool[out].amt
           /\ wallet_pool'[out].key = wallet_pool[out].key
           /\ DOMAIN wallet_pool'[out] = {"amt", "key", "spent"}
           /\ wallet_pool[out].spent => wallet_pool'[out].spent
           /\ out = Head(to_mark) => wallet_pool'[out].spent
           /\ out # Head(to_mark) => wallet_pool'[out].spent = wallet_pool[out].spent
  BY <1>2 DEF SpendInv, WalletShape
<1>4. /\ Past' = Past /\ Seen' = Seen /\ Owners' = Owners
      /\ \A out : ~Written(out)
  BY <1>2 DEF Past, Seen, Owners, StoredTxs, Written
<1>5. OnlyPast' /\ WalletShape' /\ Apart' /\ UnspentBacked' /\ (\A tx \in Owners : IsTx(tx))'
  BY <1>2, <1>3, <1>4 DEF SpendInv, OnlyPast, WalletShape, Apart, UnspentBacked
<1>6. Marks'
  <2>1. \A out \in ToSet(to_mark) : out = Head(to_mark) \/ out \in ToSet(to_mark')
    <3>1. to_mark \in Seq(ToSet(to_mark))
      BY <1>2 DEF SpendInv, Marks
    <3>2. \A k \in DOMAIN to_mark : k = 1 \/ (k - 1 \in DOMAIN to_mark' /\ to_mark'[k - 1] = to_mark[k])
      BY <1>2, <3>1
    <3> QED BY <3>1, <3>2 DEF ToSet
  <2>2. to_mark' \in Seq(ToSet(to_mark'))
    <3>1. to_mark' \in Seq(ToSet(to_mark))
      BY <1>2 DEF SpendInv, Marks
    <3> QED BY <3>1, SeqOfElements
  <2> QED BY <1>2, <1>3, <1>4, <2>1, <2>2 DEF SpendInv, Marks
<1>7. Tables' /\ BlockShape' /\ HalfWritten' /\ BuildingPayable' /\ MempoolPayable'
  BY <1>2 DEF SpendInv, Tables, Claimed, BlockShape, Handling, Accepting, HalfWritten,
     BuildingPayable, MempoolPayable
<1>8. Fresh'
  <2>1. \A tx : StillToPurge(tx)' <=> StillToPurge(tx)
    BY <1>2 DEF StillToPurge, Accepting
  <2> QED BY <1>2, <1>4, <2>1 DEF SpendInv, Fresh, Building
<1> QED BY <1>1, <1>5, <1>6, <1>7, <1>8 DEF SpendInv

\* mempool_add: the new payment is in nobody's way.
LEMMA OfferSpend ==
  ASSUME SpendInv, Offer
  PROVE  SpendInv'
<1>1. Control' /\ Counters'
  BY RunControl DEF SpendInv, Run
<1>2. /\ UNCHANGED <<blockchain_db, block, utxo_pool, wallet_pool, to_mark, poolLoop, cur_tx, cur_in>>
      /\ cmd = "offer" /\ cmd' = "idle" /\ building' = NoTx /\ to_mark = <<>>
      /\ M!MempoolAdd(building)
  BY DEF Offer, chainVars, walletDisk, blockVars, SpendInv, Control
<1>3. CASE M!InMempool(building.id)
  <2>1. UNCHANGED <<mempool, utxo_to_tx, exited>>
    BY <1>2, <1>3 DEF M!MempoolAdd, M!poolVars
  <2>2. /\ Past' = Past /\ Seen' = Seen /\ \A out : ~Written(out)
        /\ \A tx \in Owners' : tx \in Owners \/ tx = NoTx
    BY <1>2, <2>1 DEF Past, Seen, Owners, StoredTxs, Written
  <2>3. /\ OnlyPast' /\ WalletShape' /\ Marks' /\ Apart' /\ UnspentBacked'
        /\ (\A tx \in Owners : IsTx(tx))'
    BY <1>2, <2>2, NothingInHand, SameOutputs
  <2>4. Tables' /\ BlockShape' /\ HalfWritten' /\ MempoolPayable'
    BY <1>2, <2>1 DEF SpendInv, Tables, Claimed, BlockShape, Handling, Accepting, HalfWritten,
       MempoolPayable
  <2>5. Fresh'
    BY <1>2, <2>1 DEF SpendInv, Fresh, Building, StillToPurge, Accepting
  <2>6. BuildingPayable'
    BY <1>2 DEF BuildingPayable, NoTx
  <2> QED BY <1>1, <2>3, <2>4, <2>5, <2>6 DEF SpendInv
<1>4. CASE ~M!InMempool(building.id)
  <2>1. /\ mempool' = Append(mempool, building)
        /\ M!UtxoToTxAddTx(building)
    BY <1>2, <1>4 DEF M!MempoolAdd
  <2>2. /\ mempool \in Seq(ToSet(mempool))
        /\ \A tx \in ToSet(mempool) : tx.id # building.id /\ tx # building
    BY <1>4 DEF SpendInv, Tables, M!InMempool, ToSet
  <2>3. /\ mempool' \in Seq(ToSet(mempool'))
        /\ Len(mempool') = Len(mempool) + 1 /\ mempool'[Len(mempool) + 1] = building
        /\ \A k \in 1..Len(mempool) : mempool'[k] = mempool[k]
    <3>1. mempool' \in Seq(ToSet(mempool) \cup {building})
      BY <2>1, <2>2
    <3>2. mempool' \in Seq(ToSet(mempool'))
      BY <3>1, SeqOfElements
    <3> QED BY <2>1, <2>2, <3>2, AppendProperties
  <2>4. \A tx : tx \in ToSet(mempool') <=> tx \in ToSet(mempool) \/ tx = building
    <3>1. /\ DOMAIN mempool' = 1..(Len(mempool) + 1) /\ DOMAIN mempool = 1..Len(mempool)
          /\ Len(mempool) \in Nat
      BY <2>2, <2>3
    <3>2. \A k \in DOMAIN mempool' : k \in DOMAIN mempool \/ k = Len(mempool) + 1
      BY <3>1
    <3> QED BY <2>3, <3>1, <3>2 DEF ToSet
  <2>5. \A out \in SpentOutpoints(building) : out \notin DOMAIN utxo_to_tx
    BY <2>2 DEF SpendInv, Tables, Claimed, Apart, Owners
  <2>6. /\ DOMAIN utxo_to_tx' = DOMAIN utxo_to_tx \cup SpentOutpoints(building)
        /\ \A out \in DOMAIN utxo_to_tx : utxo_to_tx'[out] = utxo_to_tx[out]
        /\ \A out \in SpentOutpoints(building) : utxo_to_tx'[out] = building.id
        /\ ~exited'
    <3>1. IsTx(building)
      BY DEF SpendInv, Owners
    <3>2. \A k \in DOMAIN building.inputs : \A j \in 1..k : ~M!Taken(building, j)
      <4> SUFFICES ASSUME NEW k \in DOMAIN building.inputs, NEW j \in 1..k, M!Taken(building, j)
                   PROVE  FALSE
        OBVIOUS
      <4>1. /\ j \in DOMAIN building.inputs
            /\ \A i \in 1..(j - 1) : i \in DOMAIN building.inputs /\ i # j
        BY <3>1 DEF IsTx
      <4>2. building.inputs[j].prev \notin DOMAIN utxo_to_tx
        BY <2>5, <4>1 DEF SpentOutpoints
      <4> QED BY <3>1, <4>1, <4>2 DEF M!Taken, IsTx
    <3>3. M!MappedInputs(building) = DOMAIN building.inputs
      BY <3>2 DEF M!MappedInputs
    <3>4. {building.inputs[k].prev : k \in M!MappedInputs(building)} = SpentOutpoints(building)
      BY <3>3 DEF SpentOutpoints
    <3>5. /\ utxo_to_tx' = [out \in DOMAIN utxo_to_tx \cup SpentOutpoints(building) |->
                             IF out \in SpentOutpoints(building) THEN building.id ELSE utxo_to_tx[out]]
          /\ ~exited'
      BY <2>1, <3>3, <3>4 DEF M!UtxoToTxAddTx
    <3> QED BY <2>5, <3>5
  <2>7. Tables'
    <3>1. \A out : out \in Claimed' <=> out \in Claimed \/ out \in SpentOutpoints(building)
      BY <2>4 DEF Claimed
    <3>2. DOMAIN utxo_to_tx' = Claimed'
      BY <2>6, <3>1 DEF SpendInv, Tables
    <3>3. ASSUME NEW tx \in ToSet(mempool'), NEW out \in SpentOutpoints(tx)
          PROVE  utxo_to_tx'[out] = tx.id
      BY <2>4, <2>6 DEF SpendInv, Tables, Claimed
    <3>4. ASSUME NEW i \in DOMAIN mempool', NEW j \in DOMAIN mempool', mempool'[i].id = mempool'[j].id
          PROVE  i = j
      <4>1. /\ i \in 1..Len(mempool) \/ i = Len(mempool) + 1
            /\ j \in 1..Len(mempool) \/ j = Len(mempool) + 1
        BY <2>2, <2>3
      <4>2. \A k \in 1..Len(mempool) : k \in DOMAIN mempool /\ mempool[k] \in ToSet(mempool)
        BY <2>2 DEF ToSet
      <4>3. \A k \in 1..Len(mempool) : mempool'[k].id # building.id
        BY <2>2, <2>3, <4>2
      <4> QED BY <2>3, <3>4, <4>1, <4>2, <4>3 DEF SpendInv, Tables
    <3> QED BY <2>3, <2>6, <3>2, <3>3, <3>4 DEF Tables
  <2>8. /\ Past' = Past /\ Seen' = Seen /\ \A out : ~Written(out)
        /\ \A tx \in Owners' : tx \in Owners \/ tx = NoTx
    BY <1>2, <2>4 DEF Past, Seen, Owners, StoredTxs, Written
  <2>9. /\ OnlyPast' /\ WalletShape' /\ Marks' /\ Apart' /\ UnspentBacked'
        /\ (\A tx \in Owners : IsTx(tx))'
    BY <1>2, <2>8, NothingInHand, SameOutputs
  <2>10. BlockShape' /\ HalfWritten'
    BY <1>2 DEF BlockShape, Handling, Accepting, HalfWritten
  <2>11. Fresh'
    BY <1>2, <2>4 DEF SpendInv, Fresh, Building, StillToPurge, Accepting
  <2>12. BuildingPayable'
    BY <1>2 DEF BuildingPayable, NoTx
  <2>13. MempoolPayable'
    BY <1>2, <2>4 DEF SpendInv, MempoolPayable, BuildingPayable
  <2> QED BY <1>1, <2>7, <2>9, <2>10, <2>11, <2>12, <2>13 DEF SpendInv
<1> QED BY <1>3, <1>4

-----------------------------------------------------------------------------
(* The invariant, and what follows from it.                                *)

LEMMA SpendInit == Init => SpendInv
<1> SUFFICES ASSUME Init
             PROVE  SpendInv
  OBVIOUS
<1>1. /\ blockchain_db = {} /\ utxo_pool = <<>> /\ wallet_pool = <<>> /\ mempool = <<>>
      /\ utxo_to_tx = <<>> /\ ~exited /\ building = NoTx /\ to_mark = <<>> /\ cmd = "boot"
  BY DEF Init, ChainInit, WalletInit, HandleBlockInit, M!MempoolInit
<1>2. Control /\ Counters
  BY ControlInit
<1>3. /\ DOMAIN <<>> = {} /\ <<>> \in Seq({}) /\ ToSet(<<>>) = {}
  BY EmptySeq, NothingInHand
<1>4. Owners = {NoTx}
  BY <1>1, <1>3 DEF Owners, StoredTxs
<1>5. Tables /\ BlockShape /\ Fresh /\ HalfWritten /\ MempoolPayable
  BY <1>1, <1>3 DEF Tables, Claimed, BlockShape, Fresh, HalfWritten, MempoolPayable, Handling,
     Accepting, Building
<1>6. OnlyPast /\ Marks /\ Apart /\ \A tx \in Owners : IsTx(tx)
  BY <1>1, <1>3, <1>4, NothingInHand DEF OnlyPast, Marks, Apart
<1>7. WalletShape /\ UnspentBacked
  BY <1>1, <1>3, FS_EmptySet DEF WalletShape, UnspentBacked
<1>8. BuildingPayable
  BY <1>1, <1>3 DEF BuildingPayable, NoTx
<1> QED BY <1>2, <1>5, <1>6, <1>7, <1>8 DEF SpendInv

LEMMA SpendStep ==
  ASSUME SpendInv, [Next]_vars
  PROVE  SpendInv'
<1>1. CASE Boot
  BY <1>1, BootSpend
<1>2. CASE Command
  <2>1. CASE Mine /\ FeesKnown
    BY <2>1, MineSpend
  <2>2. CASE \E dest \in Dests, amt \in AMOUNTS, fee \in FEES : CreateTx(dest, amt, fee)
    BY <2>2, CreateTxSpend
  <2>3. CASE \/ Mine /\ ~FeesKnown
             \/ \E amt \in AMOUNTS, fee \in FEES : CreateTxExits(amt, fee)
             \/ ShellExit
    BY <2>3, HaltSpend DEF Mine, CreateTxExits, ShellExit
  <2> QED BY <1>2, <2>1, <2>2, <2>3 DEF Command
<1>3. CASE Run
  <2>1. CASE UpdatePools
    BY <2>1, PutOutputSpend, DeleteInputSpend, NextPoolTxSpend DEF UpdatePools, WritePools
  <2> QED BY <1>3, <2>1, BootSpend, ValidateSpend, AddSpend, NextPartSpend, PurgeSpend,
          MineDoneSpend, BuildStepSpend, OfferSpend DEF Run
<1>4. CASE Kill
  BY <1>4, HaltSpend DEF Kill
<1>5. CASE UNCHANGED vars
  <2>1. UNCHANGED <<blockchain_db, wallet_pool, utxo_pool, building, block, poolLoop, mempool,
                    utxo_to_tx, exited, cur_tx, cur_in, cmd, to_mark>>
    BY <1>5 DEF vars, chainVars, walletDisk, buildVars, blockVars, memVars
  <2>2. Control' /\ Counters'
    BY <1>5, ControlStep DEF SpendInv
  <2> QED BY <2>1, <2>2, QuietSpend
<1> QED BY <1>1, <1>2, <1>3, <1>4, <1>5 DEF Next

\* The invariant, whatever the operator does and whenever the process is killed.
THEOREM SpendInvariant == Spec => []SpendInv
<1>1. SpendInv /\ [Next]_vars => SpendInv'
  BY SpendStep
<1> QED BY SpendInit, <1>1, PTL DEF Spec

\* Money the wallet would spend is there: build_inputs never selects an entry
\* without its UTXO, nor one with another amount or key, and a kill between two
\* writes of accept_block does not change that.
THEOREM UnspentAlwaysBacked == Spec => []UnspentBacked
<1>1. SpendInv => UnspentBacked
  BY DEF SpendInv
<1> QED BY SpendInvariant, <1>1, PTL

\* A transaction without repeated inputs spends as many outputs as it has inputs.
LEMMA AllInputsCount ==
  ASSUME NEW tx, IsTx(tx)
  PROVE  Cardinality(SpentOutpoints(tx)) = Len(tx.inputs)
<1> DEFINE n == Len(tx.inputs)
           f == [k \in 1..n |-> tx.inputs[k].prev]
<1>1. n \in Nat /\ DOMAIN tx.inputs = 1..n
  BY DEF IsTx
<1>2. f \in [1..n -> SpentOutpoints(tx)]
  BY <1>1 DEF SpentOutpoints
<1>3. \A k, l \in 1..n : f[k] = f[l] => k = l
  BY <1>1 DEF IsTx
<1>4. \A out \in SpentOutpoints(tx) : \E k \in 1..n : f[k] = out
  BY <1>1 DEF SpentOutpoints
<1> HIDE DEF f, n
<1>5. f \in Bijection(1..n, SpentOutpoints(tx))
  BY <1>2, <1>3, <1>4 DEF Bijection, Injection, Surjection, IsInjective
<1>6. ExistsBijection(1..n, SpentOutpoints(tx))
  BY <1>5 DEF ExistsBijection
<1>7. IsFiniteSet(1..n) /\ Cardinality(1..n) = n
  BY <1>1, FS_Interval
<1>8. Cardinality(SpentOutpoints(tx)) = n
  BY <1>6, <1>7, FS_Bijection
<1> QED BY <1>8 DEF n

\* No output is spent twice by what the node makes, mines and keeps: neither by
\* two blocks, nor by a block and a payment that waits, nor within one, and
\* no kill changes that, since the marks of build_inputs are on disk.
THEOREM SpentAlwaysOnce == Spec => []SpentOnce
<1>1. ASSUME SpendInv
      PROVE  SpentOnce
  <2>1. \A tx \in StoredTxs \cup ToSet(mempool) : tx \in Owners
    BY DEF Owners
  <2>2. \A tx \in StoredTxs \cup ToSet(mempool) :
          Cardinality(SpentOutpoints(tx)) = Len(tx.inputs)
    BY <1>1, <2>1, AllInputsCount DEF SpendInv
  <2> QED BY <1>1, <2>1, <2>2 DEF SpendInv, Apart, SpentOnce
<1> QED BY SpendInvariant, <1>1, PTL

\* The exit(1) of utxo_to_tx_add_tx, for an output that is claimed already, is
\* never reached by a payment that build_tx made.
NeverExits == ~exited

\* From the tables of the mempool in SpendInv: the process is never at that exit.
THEOREM NeverExited == Spec => []NeverExits
<1>1. SpendInv => NeverExits
  BY DEF SpendInv, Tables, NeverExits
<1> QED BY SpendInvariant, <1>1, PTL

\* Nor is the exit of calc_tx_fees: whatever waits, the miner finds its inputs,
\* also after a kill in the middle of an update of the pools.
FeesAlwaysKnown == Idle => FeesKnown

\* What waits is not mined yet, so MempoolPayable finds its inputs.
THEOREM FeesNeverUnknown == Spec => []FeesAlwaysKnown
<1>1. ASSUME SpendInv, Idle
      PROVE  FeesKnown
  <2>1. \A tx \in ToSet(mempool) : FeesComputable(tx, utxo_pool)
    <3>1. \A tx \in ToSet(mempool) : tx.id \notin IdsOf(blockchain_db)
      BY <1>1 DEF SpendInv, Fresh, StillToPurge, Accepting, Idle
    <3> QED BY <1>1, <3>1 DEF SpendInv, MempoolPayable, FeesComputable, SpentOutpoints
  <2>2. TxsFromMempool \in Seq(ToSet(mempool))
    BY <1>1, FrontOfMempool DEF SpendInv, Tables
  <2>3. \A n \in DOMAIN TxsFromMempool : TxsFromMempool[n] \in ToSet(mempool)
    BY <2>2
  <2> QED BY <2>1, <2>3 DEF FeesKnown
<1>2. SpendInv => FeesAlwaysKnown
  BY <1>1 DEF FeesAlwaysKnown
<1> QED BY SpendInvariant, <1>2, PTL

-----------------------------------------------------------------------------
(* The chain.                                                              *)
(*                                                                         *)
(* The database is a set of blocks; the chain is read from it backwards,   *)
(* from the top, by a recursive function.  What is kept is that there is   *)
(* exactly one such function and that its list for the top has every       *)
(* block, once: a new block on top of the last extends both.  All of it    *)
(* rests on where the process is (Control) and not on what is spent.       *)

Hashes == {b.hash : b \in blockchain_db}
HashesIn(db) == {b.hash : b \in db}
BlockIn(db, h) == CHOOSE b \in db : b.hash = h

\* f gives for each hash the list of blocks from the genesis block to it.
Lists(f, db) ==
  f = [h \in HashesIn(db) |->
         IF h = Genesis THEN <<BlockIn(db, h)>>
         ELSE Append(f[BlockIn(db, h).prev], BlockIn(db, h))]

\* The blocks from the genesis block to top are all there are.
OneChain(db, top) ==
  \E f : /\ Lists(f, db) /\ \A g : Lists(g, db) => g = f
         /\ top \in HashesIn(db)
         /\ f[top] \in Seq(db) /\ ToSet(f[top]) = db /\ Len(f[top]) = Cardinality(db)

\* The list to top.
TopList(db, top) == (CHOOSE f : Lists(f, db))[top]

\* Every hash names one block, whose parent is there.
Linked(db) ==
  /\ \A b, c \in db : b.hash = c.hash => b = c
  /\ \A b \in db : b.hash = Genesis \/ b.prev \in HashesIn(db)

LEMMA BlockOfHash ==
  ASSUME NEW db, Linked(db), NEW b \in db
  PROVE  BlockIn(db, b.hash) = b
BY DEF Linked, BlockIn

LEMMA ListsAt ==
  ASSUME NEW db, NEW f, Lists(f, db)
  PROVE  /\ DOMAIN f = HashesIn(db)
         /\ f = [h \in HashesIn(db) |-> f[h]]
         /\ \A h \in HashesIn(db) :
              f[h] = IF h = Genesis THEN <<BlockIn(db, h)>>
                     ELSE Append(f[BlockIn(db, h).prev], BlockIn(db, h))
<1> DEFINE R == [h \in HashesIn(db) |->
                   IF h = Genesis THEN <<BlockIn(db, h)>>
                   ELSE Append(f[BlockIn(db, h).prev], BlockIn(db, h))]
<1>1. f = R
  BY DEF Lists
<1>2. DOMAIN R = HashesIn(db) /\ R = [h \in HashesIn(db) |-> R[h]]
  OBVIOUS
<1>3. DOMAIN f = HashesIn(db) /\ f = [h \in HashesIn(db) |-> f[h]]
  BY <1>1, <1>2
<1>4. ASSUME NEW h \in HashesIn(db)
      PROVE  f[h] = IF h = Genesis THEN <<BlockIn(db, h)>>
                    ELSE Append(f[BlockIn(db, h).prev], BlockIn(db, h))
  BY <1>1
<1> QED BY <1>3, <1>4

LEMMA ListsBy ==
  ASSUME NEW db, NEW f, f = [h \in HashesIn(db) |-> f[h]],
         \A h \in HashesIn(db) :
           f[h] = IF h = Genesis THEN <<BlockIn(db, h)>>
                  ELSE Append(f[BlockIn(db, h).prev], BlockIn(db, h))
  PROVE  Lists(f, db)
BY DEF Lists

\* The list of a block whose parent's list is there.
LEMMA OneMoreListed ==
  ASSUME NEW db, NEW b, NEW f, Linked(db), Lists(f, db), b.hash \notin HashesIn(db),
         b.hash # Genesis, b.prev \in HashesIn(db)
  PROVE  /\ Linked(db \cup {b})
         /\ Lists([h \in HashesIn(db \cup {b}) |->
                     IF h = b.hash THEN Append(f[b.prev], b) ELSE f[h]], db \cup {b})
<1> DEFINE more == db \cup {b}
           g == [h \in HashesIn(more) |-> IF h = b.hash THEN Append(f[b.prev], b) ELSE f[h]]
<1>1. HashesIn(more) = HashesIn(db) \cup {b.hash}
  BY DEF HashesIn
<1>2. Linked(more)
  BY <1>1 DEF Linked, HashesIn
<1>3. \A h \in HashesIn(db) :
        h # b.hash /\ BlockIn(more, h) = BlockIn(db, h) /\ BlockIn(db, h) \in db
        /\ BlockIn(db, h).hash = h /\ (h # Genesis => BlockIn(db, h).prev \in HashesIn(db))
  <2> SUFFICES ASSUME NEW h \in HashesIn(db)
               PROVE  /\ h # b.hash /\ BlockIn(more, h) = BlockIn(db, h)
                      /\ BlockIn(db, h) \in db /\ BlockIn(db, h).hash = h
                      /\ h # Genesis => BlockIn(db, h).prev \in HashesIn(db)
    OBVIOUS
  <2>1. PICK c \in db : c.hash = h
    BY DEF HashesIn
  <2>2. BlockIn(db, h) = c
    BY <2>1, BlockOfHash
  <2>3. BlockIn(more, h) = c
    BY <1>2, <2>1, BlockOfHash
  <2> QED BY <2>1, <2>2, <2>3 DEF Linked
<1>4. BlockIn(more, b.hash) = b
  BY <1>2, BlockOfHash
<1>5. \A h \in HashesIn(db) : g[h] = f[h]
  BY <1>1, <1>3
<1>6. g[b.hash] = Append(f[b.prev], b)
  BY <1>1
<1>7. g = [h \in HashesIn(more) |-> g[h]]
  OBVIOUS
<1> HIDE DEF g, more
<1>8. ASSUME NEW h \in HashesIn(more)
      PROVE  g[h] = IF h = Genesis THEN <<BlockIn(more, h)>>
                    ELSE Append(g[BlockIn(more, h).prev], BlockIn(more, h))
  <2>1. CASE h = b.hash
    BY <1>4, <1>5, <1>6, <2>1
  <2>2. CASE h # b.hash
    <3>1. h \in HashesIn(db)
      BY <1>1, <2>2
    <3>2. f[h] = IF h = Genesis THEN <<BlockIn(db, h)>>
                 ELSE Append(f[BlockIn(db, h).prev], BlockIn(db, h))
      BY <3>1, ListsAt
    <3> QED BY <1>3, <1>5, <3>1, <3>2
  <2> QED BY <2>1, <2>2
<1>9. Lists(g, more)
  BY <1>7, <1>8, ListsBy
<1> QED BY <1>2, <1>9 DEF g, more

LEMMA OneMoreOnTop ==
  ASSUME NEW db, NEW b, IsFiniteSet(db), Linked(db), OneChain(db, b.prev),
         b.hash \notin HashesIn(db), b.hash # Genesis
  PROVE  /\ Linked(db \cup {b}) /\ OneChain(db \cup {b}, b.hash)
         /\ TopList(db \cup {b}, b.hash) = Append(TopList(db, b.prev), b)
<1> DEFINE more == db \cup {b}
<1>1. PICK f : /\ Lists(f, db) /\ \A g : Lists(g, db) => g = f
               /\ b.prev \in HashesIn(db)
               /\ f[b.prev] \in Seq(db) /\ ToSet(f[b.prev]) = db
               /\ Len(f[b.prev]) = Cardinality(db)
  BY DEF OneChain
<1> DEFINE F == [h \in HashesIn(more) |-> IF h = b.hash THEN Append(f[b.prev], b) ELSE f[h]]
<1>2. Linked(more) /\ Lists(F, more)
  BY <1>1, OneMoreListed
<1>3. HashesIn(more) = HashesIn(db) \cup {b.hash}
  BY DEF HashesIn
<1>4. F[b.hash] = Append(f[b.prev], b)
  BY <1>3
<1>5. ASSUME NEW g, Lists(g, more)
      PROVE  g = F
  <2> DEFINE r == [h \in HashesIn(db) |-> g[h]]
  <2>1. \A h \in HashesIn(more) :
          g[h] = IF h = Genesis THEN <<BlockIn(more, h)>>
                 ELSE Append(g[BlockIn(more, h).prev], BlockIn(more, h))
    BY <1>5, ListsAt
  <2>2. ASSUME NEW h \in HashesIn(db)
        PROVE  r[h] = IF h = Genesis THEN <<BlockIn(db, h)>>
                      ELSE Append(r[BlockIn(db, h).prev], BlockIn(db, h))
    <3>1. PICK c \in db : c.hash = h
      BY DEF HashesIn
    <3>2. BlockIn(db, h) = c /\ BlockIn(more, h) = c
      BY <1>2, <3>1, BlockOfHash
    <3>3. h # Genesis => c.prev \in HashesIn(db)
      BY <3>1 DEF Linked
    <3>4. g[h] = IF h = Genesis THEN <<c>> ELSE Append(g[c.prev], c)
      BY <1>3, <2>1, <3>2
    <3>5. r[h] = g[h] /\ (h # Genesis => r[c.prev] = g[c.prev])
      BY <3>3
    <3> QED BY <3>2, <3>4, <3>5
  <2>3. r = [h \in HashesIn(db) |-> r[h]]
    OBVIOUS
  <2>4. r = f
    <3> HIDE DEF r
    <3> QED BY <1>1, <2>2, <2>3, ListsBy
  <2>5. \A h \in HashesIn(db) : g[h] = f[h]
    BY <2>4
  <2>6. g[b.hash] = Append(f[b.prev], b)
    <3>1. BlockIn(more, b.hash) = b
      BY <1>2, BlockOfHash
    <3>2. b.hash \in HashesIn(more)
      BY <1>3
    <3> HIDE DEF more
    <3>3. g[b.hash] = Append(g[b.prev], b)
      BY <2>1, <3>1, <3>2
    <3>4. g[b.prev] = f[b.prev]
      BY <1>1, <2>5
    <3> QED BY <3>3, <3>4
  <2>7. g = [h \in HashesIn(more) |-> g[h]]
    BY <1>5, ListsAt
  <2>8. \A h \in HashesIn(more) : g[h] = IF h = b.hash THEN Append(f[b.prev], b) ELSE f[h]
    BY <1>3, <2>5, <2>6
  <2> QED BY <2>7, <2>8
<1>6. /\ Append(f[b.prev], b) \in Seq(more) /\ ToSet(Append(f[b.prev], b)) = more
      /\ Len(Append(f[b.prev], b)) = Cardinality(more)
  <2> DEFINE s == f[b.prev]
  <2>1. s \in Seq(db) /\ ToSet(s) = db /\ Len(s) = Cardinality(db)
    BY <1>1
  <2>0. Cardinality(more) = Cardinality(db) + 1
    <3>1. b \notin db
      BY DEF HashesIn
    <3> QED BY <3>1, FS_AddElement
  <2> HIDE DEF s
  <2>2. s \in Seq(more) /\ b \in more
    BY <2>1
  <2>3. /\ Append(s, b) \in Seq(more) /\ Len(Append(s, b)) = Len(s) + 1
        /\ \A i \in 1..Len(s) : Append(s, b)[i] = s[i]
        /\ Append(s, b)[Len(s) + 1] = b
    BY <2>2
  <2>4. DOMAIN Append(s, b) = DOMAIN s \cup {Len(s) + 1} /\ DOMAIN s = 1..Len(s)
    BY <2>2, <2>3
  <2>5. ToSet(Append(s, b)) = ToSet(s) \cup {b}
    BY <2>3, <2>4 DEF ToSet
  <2> QED BY <2>0, <2>1, <2>3, <2>5 DEF s
<1> HIDE DEF F
<1>7. TopList(db, b.prev) = f[b.prev] /\ TopList(more, b.hash) = F[b.hash]
  <2>1. (CHOOSE g : Lists(g, db)) = f
    BY <1>1
  <2>2. (CHOOSE g : Lists(g, more)) = F
    BY <1>2, <1>5
  <2> QED BY <2>1, <2>2 DEF TopList
<1> QED BY <1>2, <1>3, <1>4, <1>5, <1>6, <1>7 DEF OneChain

\* The genesis block alone.
LEMMA GenesisAlone ==
  /\ Linked({GenesisBlock}) /\ OneChain({GenesisBlock}, Genesis)
  /\ TopList({GenesisBlock}, Genesis) = <<GenesisBlock>>
<1> DEFINE db == {GenesisBlock}
           f == [h \in {Genesis} |-> <<GenesisBlock>>]
<1>1. GenesisBlock.hash = Genesis
  BY DEF GenesisBlock
<1>2. Linked(db)
  BY <1>1 DEF Linked
<1>3. HashesIn(db) = {Genesis} /\ BlockIn(db, Genesis) = GenesisBlock
  <2>1. GenesisBlock \in db
    OBVIOUS
  <2>2. HashesIn(db) = {Genesis}
    BY <1>1 DEF HashesIn
  <2> QED BY <1>1, <1>2, <2>1, <2>2, BlockOfHash
<1>4. Lists(f, db)
  <2>1. f = [h \in HashesIn(db) |-> f[h]] /\ \A h \in HashesIn(db) : h = Genesis /\ f[h] = <<GenesisBlock>>
    BY <1>3
  <2> HIDE DEF f, db
  <2> QED BY <1>3, <2>1, ListsBy
<1>5. ASSUME NEW g, Lists(g, db)
      PROVE  g = f
  <2>1. g = [h \in {Genesis} |-> g[h]] /\ g[Genesis] = <<GenesisBlock>>
    BY <1>3, <1>5, ListsAt
  <2> QED BY <2>1
<1>6. f[Genesis] \in Seq(db) /\ ToSet(f[Genesis]) = db /\ Len(f[Genesis]) = Cardinality(db)
  <2>1. /\ <<GenesisBlock>> \in Seq(db) /\ DOMAIN <<GenesisBlock>> = {1}
        /\ <<GenesisBlock>>[1] = GenesisBlock /\ Len(<<GenesisBlock>>) = 1
    OBVIOUS
  <2>2. Cardinality(db) = 1
    BY FS_Singleton
  <2> QED BY <2>1, <2>2 DEF ToSet
<1>7. f[Genesis] = <<GenesisBlock>>
  OBVIOUS
<1> HIDE DEF f, db
<1>8. TopList(db, Genesis) = <<GenesisBlock>>
  BY <1>4, <1>5, <1>7 DEF TopList
<1> QED BY <1>2, <1>3, <1>4, <1>5, <1>6, <1>8 DEF OneChain, db

\* Node's Chain is the list to the top, and has every block.
LEMMA ChainHasAll ==
  ASSUME OneChain(blockchain_db, top_block_header_hash)
  PROVE  /\ Chain = TopList(blockchain_db, top_block_header_hash)
         /\ Chain \in Seq(blockchain_db) /\ ToSet(Chain) = blockchain_db /\ Len(Chain) = Count
         /\ ChainTxs = StoredTxs
<1>1. PICK f : /\ Lists(f, blockchain_db) /\ \A g : Lists(g, blockchain_db) => g = f
               /\ f[top_block_header_hash] \in Seq(blockchain_db)
               /\ ToSet(f[top_block_header_hash]) = blockchain_db
               /\ Len(f[top_block_header_hash]) = Cardinality(blockchain_db)
  BY DEF OneChain
<1>2. Chain = TopList(blockchain_db, top_block_header_hash)
  BY Zenon DEF Chain, TopList, Lists, HashesIn, BlockIn, BlockOf
<1>3. (CHOOSE g : Lists(g, blockchain_db)) = f
  BY <1>1
<1>4. Chain \in Seq(blockchain_db) /\ ToSet(Chain) = blockchain_db /\ Len(Chain) = Count
  BY <1>1, <1>2, <1>3 DEF TopList, Count
<1> QED BY <1>2, <1>4 DEF ChainTxs, StoredTxs, ToSet

\* Where the chain ends, or will when what is being written is written.
Tip ==
  IF chain_pc \in {"down", "refused"} THEN top_file
  ELSE IF chain_pc \in {"put", "ready"} THEN top_block_header_hash
  ELSE adding.hash

DatabaseSound ==
  /\ IsFiniteSet(blockchain_db) /\ IsFiniteSet(Hashes) /\ Cardinality(Hashes) = Count
  /\ Hashes \subseteq Nat
  /\ Linked(blockchain_db)
  /\ blockchain_db # {} => Found(Genesis) /\ OneChain(blockchain_db, Tip)

\* What files and globals say of it, and what is about to be added.
FilesFollow ==
  /\ Up => chain_height = Count
  /\ ~Up => (blockchain_db # {} => height_file = Count)
  /\ chain_pc = "put" =>
       IF cmd = "boot" THEN blockchain_db = {}
       ELSE /\ blockchain_db # {}
            /\ ~Found(adding.hash) /\ adding.hash \in Nat /\ adding.prev = Tip
  /\ Up /\ chain_pc # "put" => blockchain_db # {}
  /\ chain_pc \in {"empty_top", "write_top", "ready"} =>
       top_block_header_hash = Tip /\ height_file = Count
  /\ chain_pc = "ready" => top_file = Tip
  /\ cmd = "mined" => ~Found(block.hash) /\ block.hash \in Nat

ChainInv == ~torn => DatabaseSound /\ FilesFollow

LEMMA FoundIs ==
  /\ \A h : Found(h) <=> h \in Hashes
  /\ HashesIn(blockchain_db) = Hashes /\ HashesIn(blockchain_db)' = Hashes'
BY DEF Found, Hashes, HashesIn

LEMMA SameChain ==
  ASSUME DatabaseSound, blockchain_db' = blockchain_db, blockchain_db # {} => Tip' = Tip
  PROVE  DatabaseSound'
<1>1. Hashes' = Hashes /\ Count' = Count /\ (Found(Genesis) => Found(Genesis)')
  BY DEF Hashes, Count, Found
<1>2. \A top, more :
        top = Tip /\ more = blockchain_db => (OneChain(blockchain_db, Tip) => OneChain(more, top))
  OBVIOUS
<1>3. \A more : more = blockchain_db => (Linked(blockchain_db) => Linked(more))
  OBVIOUS
<1>4. Linked(blockchain_db') /\ (blockchain_db # {} => OneChain(blockchain_db', Tip'))
  BY <1>2, <1>3 DEF DatabaseSound
<1> QED BY <1>1, <1>4 DEF DatabaseSound

\* Of Count + 1 numbers one is not the hash of a block.
LEMMA FreshHashIsFresh ==
  ASSUME DatabaseSound
  PROVE  ~Found(FreshHash) /\ FreshHash \in Nat
<1>1. Count \in Nat /\ IsFiniteSet(Hashes) /\ Cardinality(Hashes) = Count
  BY FS_CardinalityType DEF DatabaseSound, Count
<1>2. IsFiniteSet(1..(Count + 1)) /\ Cardinality(1..(Count + 1)) = Count + 1
  BY <1>1, FS_Interval
<1>3. ~(1..(Count + 1) \subseteq Hashes)
  <2>1. 1..(Count + 1) \subseteq Hashes => Cardinality(1..(Count + 1)) <= Cardinality(Hashes)
    BY <1>1, FS_Subset
  <2> QED BY <1>1, <1>2, <2>1
<1>4. \E h \in 1..(Count + 1) : ~Found(h)
  BY <1>3, FoundIs
<1>5. FreshHash \in 1..(Count + 1) /\ ~Found(FreshHash)
  BY <1>4 DEF FreshHash
<1> QED BY <1>1, <1>5

\* A step that leaves the store alone.
LEMMA QuietChain ==
  ASSUME Control, DatabaseSound, FilesFollow, UNCHANGED chainVars,
         chain_pc = "ready" \/ cmd' = cmd,
         cmd' = "mined" => cmd = "mined" /\ block' = block
  PROVE  DatabaseSound' /\ FilesFollow'
<1>1. UNCHANGED <<blockchain_db, height_file, top_file, chain_height, top_block_header_hash,
                  adding, chain_pc>> /\ Tip' = Tip
  BY DEF chainVars, Tip
<1> QED BY <1>1, SameChain DEF FilesFollow, Up, Found, Count

\* Start-up: the files are those of the last command, or there is nothing yet.
LEMMA BootChain ==
  ASSUME Control, DatabaseSound, FilesFollow, Boot
  PROVE  DatabaseSound' /\ FilesFollow'
<1>1. /\ chain_pc \in {"down", "refused"} /\ cmd = "boot" /\ UNCHANGED <<cmd, block, blockchain_db>>
      /\ UNCHANGED <<height_file, top_file>>
  BY DEF Boot, BlockchainInit, UseExisting, RefuseFiles, AddGenesis, diskVars, blockVars, Control
<1>2. blockchain_db # {} => /\ Found(Genesis) /\ top_file \in Hashes /\ top_file \in Nat
                            /\ height_file = Count /\ Count \in Nat /\ Tip = top_file
  BY <1>1, FoundIs, FS_CardinalityType DEF Count, DatabaseSound, OneChain, FilesFollow, Tip, Up
<1>3. CASE ~FilesUsable /\ AddGenesis
  <2>1. blockchain_db = {}
    <3>1. blockchain_db # {} => FilesUsable
      BY <1>2, FileAssumption DEF FilesUsable, ReadTopHash, ReadChain
    <3> QED BY <1>3, <3>1
  <2>2. chain_pc' = "put" /\ chain_height' = 0
    BY <1>3 DEF AddGenesis
  <2>3. Count = 0 /\ Count' = 0
    BY <1>1, <2>1, FS_EmptySet DEF Count
  <2> QED BY <1>1, <2>1, <2>2, <2>3, SameChain DEF FilesFollow, Up
<1>4. ASSUME FilesUsable, NEW hash \in ReadTopHash, UseExisting(hash)
      PROVE  DatabaseSound' /\ FilesFollow'
  <2>1. hash = top_file
    <3>1. hash \in Hashes /\ Hashes \subseteq Nat
      BY <1>4, FoundIs DEF UseExisting, FilesAgree, DatabaseSound
    <3>2. Garbage \notin Nat
      BY FileAssumption
    <3> QED BY <1>4, <3>1, <3>2 DEF ReadTopHash
  <2>2. blockchain_db # {}
    BY <1>4 DEF FilesUsable, Found
  <2>3. chain_pc' = "ready" /\ top_block_header_hash' = top_file /\ chain_height' = Count
    BY <1>2, <1>4, <2>1, <2>2, FileAssumption DEF UseExisting, ReadChain
  <2>4. Tip' = Tip
    BY <1>1, <2>3 DEF Tip
  <2> QED BY <1>1, <1>2, <2>2, <2>3, <2>4, SameChain DEF FilesFollow, Up, Tip, Count
<1>5. ASSUME NEW hash, RefuseFiles(hash)
      PROVE  DatabaseSound' /\ FilesFollow'
  <2>1. chain_pc' = "refused" /\ Tip' = Tip
    BY <1>1, <1>5 DEF RefuseFiles, Tip
  <2> QED BY <1>1, <2>1, SameChain DEF FilesFollow, Up, Count
<1> QED BY <1>3, <1>4, <1>5 DEF Boot, BlockchainInit

\* blockchain_add_leveldb, of the genesis block or of a block on top.
LEMMA AddChain ==
  ASSUME Control, DatabaseSound, FilesFollow, AddStep, cmd \in {"boot", "adding"},
         UNCHANGED <<cmd, block>>
  PROVE  DatabaseSound' /\ FilesFollow'
<1>1. CASE PutBlock
  <2>1. /\ chain_pc = "put" /\ chain_pc' = "empty_height" /\ adding' = adding
        /\ blockchain_db' = blockchain_db \cup {adding}
        /\ chain_height' = chain_height + 1
    BY <1>1 DEF PutBlock
  <2>2. Tip' = adding.hash
    BY <2>1 DEF Tip
  <2>3. adding.hash \notin Hashes /\ adding.hash \in Nat
    <3>1. CASE cmd = "boot"
      <4>1. adding = GenesisBlock /\ blockchain_db = {}
        BY <2>1, <3>1 DEF Control, FilesFollow
      <4> QED BY <4>1, FileAssumption DEF GenesisBlock, Hashes
    <3>2. CASE cmd = "adding"
      BY <2>1, <3>2, FoundIs DEF FilesFollow
    <3> QED BY <3>1, <3>2
  <2>4. adding \notin blockchain_db /\ Hashes' = Hashes \cup {adding.hash}
    BY <2>1, <2>3 DEF Hashes
  <2>5. /\ IsFiniteSet(blockchain_db') /\ IsFiniteSet(Hashes') /\ Cardinality(Hashes') = Count'
        /\ Hashes' \subseteq Nat
    <3>1. /\ IsFiniteSet(blockchain_db') /\ Cardinality(blockchain_db') = Cardinality(blockchain_db) + 1
          /\ IsFiniteSet(Hashes') /\ Cardinality(Hashes') = Cardinality(Hashes) + 1
      BY <2>1, <2>3, <2>4, FS_AddElement DEF DatabaseSound
    <3> QED BY <2>3, <2>4, <3>1 DEF DatabaseSound, Count
  <2>6. Found(Genesis)' /\ Linked(blockchain_db') /\ OneChain(blockchain_db', adding.hash)
    <3>1. CASE cmd = "boot"
      <4>1. adding = GenesisBlock /\ blockchain_db' = {GenesisBlock}
        BY <2>1, <3>1 DEF Control, FilesFollow
      <4>2. GenesisBlock.hash = Genesis
        BY DEF GenesisBlock
      <4> QED BY <4>1, <4>2, GenesisAlone DEF Found
    <3>2. CASE cmd = "adding"
      <4>1. blockchain_db # {} /\ adding.prev = Tip /\ adding.hash \notin Hashes
        BY <2>1, <2>3, <3>2 DEF FilesFollow
      <4>2. /\ Found(Genesis) /\ OneChain(blockchain_db, adding.prev) /\ Linked(blockchain_db)
            /\ IsFiniteSet(blockchain_db)
        BY <4>1 DEF DatabaseSound
      <4>3. adding.hash # Genesis
        BY <4>1, <4>2, FoundIs
      <4>4. Found(Genesis)'
        BY <2>1, <4>2 DEF Found
      <4> QED BY <2>1, <4>1, <4>2, <4>3, <4>4, FoundIs, OneMoreOnTop
    <3> QED BY <3>1, <3>2
  <2>7. DatabaseSound'
    BY <2>2, <2>5, <2>6 DEF DatabaseSound
  <2>8. chain_height' = Count'
    <3>1. Count' = Count + 1
      BY <2>1, <2>4, FS_AddElement DEF DatabaseSound, Count
    <3>2. chain_height = Count
      BY <2>1 DEF FilesFollow, Up
    <3> QED BY <2>1, <3>1, <3>2
  <2> QED BY <2>1, <2>7, <2>8 DEF FilesFollow, Up
<1>2. ASSUME blockchain_db' = blockchain_db, Tip' = Tip
      PROVE  DatabaseSound'
  BY <1>2, SameChain
<1>3. CASE EmptyHeightFile
  <2>1. blockchain_db' = blockchain_db /\ Tip' = Tip
    BY <1>3 DEF EmptyHeightFile, Tip
  <2> QED BY <1>2, <1>3, <2>1 DEF EmptyHeightFile, FilesFollow, Up, Count
<1>4. CASE WriteHeightFile
  <2>1. blockchain_db' = blockchain_db /\ Tip' = Tip
    BY <1>4 DEF WriteHeightFile, Tip
  <2> QED BY <1>2, <1>4, <2>1 DEF WriteHeightFile, FilesFollow, Up, Tip, Count
<1>5. CASE EmptyTopFile
  <2>1. blockchain_db' = blockchain_db /\ Tip' = Tip
    BY <1>5 DEF EmptyTopFile, Tip
  <2> QED BY <1>2, <1>5, <2>1 DEF EmptyTopFile, FilesFollow, Up, Count
<1>6. CASE WriteTopFile
  <2>1. blockchain_db' = blockchain_db /\ Tip' = Tip
    BY <1>6 DEF WriteTopFile, Tip, FilesFollow
  <2> QED BY <1>2, <1>6, <2>1 DEF WriteTopFile, FilesFollow, Up, Count
<1> QED BY <1>1, <1>3, <1>4, <1>5, <1>6 DEF AddStep

\* A block is made on top of the chain, and accepted if it still is.
LEMMA MineChain ==
  ASSUME Control, DatabaseSound, FilesFollow, (Mine /\ FeesKnown) \/ AcceptBlock
  PROVE  DatabaseSound' /\ FilesFollow'
<1>1. CASE Mine /\ FeesKnown
  <2>1. PICK id \in UnusedIds : CreateBlock(id)
    BY <1>1 DEF Mine
  <2>2. UNCHANGED chainVars /\ cmd' = "mined" /\ block'.hash = FreshHash
    BY <1>1, <2>1 DEF Mine, CreateBlock, NewBlock
  <2>3. cmd = "idle" /\ chain_pc = "ready"
    BY <1>1 DEF Mine, Idle, Control
  <2>4. UNCHANGED <<blockchain_db, height_file, top_file, chain_height, top_block_header_hash,
                    adding, chain_pc>> /\ Tip' = Tip
    BY <2>2 DEF chainVars, Tip
  <2>5. DatabaseSound'
    BY <2>4, SameChain
  <2>6. ~Found(block.hash)' /\ block'.hash \in Nat
    BY <2>2, <2>4, FreshHashIsFresh DEF Found
  <2> QED BY <2>2, <2>3, <2>4, <2>5, <2>6 DEF FilesFollow, Up, Count
<1>2. CASE AcceptBlock
  <2>1. /\ cmd = "mined" /\ cmd' = "adding" /\ chain_pc = "ready" /\ chain_pc' = "put"
        /\ adding' = block /\ ValidateBlock(block) = 0
        /\ UNCHANGED <<blockchain_db, height_file, top_file, chain_height, top_block_header_hash>>
    BY <1>2 DEF AcceptBlock, StartAdd, diskVars
  <2>2. block.prev = top_block_header_hash
    BY <2>1 DEF ValidateBlock, ValidatePrevBlockExists
  <2>3. Tip = top_block_header_hash /\ Tip' = Tip
    BY <2>1 DEF Tip
  <2>4. DatabaseSound'
    BY <2>1, <2>3, SameChain
  <2> QED BY <2>1, <2>2, <2>3, <2>4 DEF FilesFollow, Up, Found, Count
<1> QED BY <1>1, <1>2

LEMMA HaltChain ==
  ASSUME Control, DatabaseSound, FilesFollow, Idle, NEW why, Halt(why)
  PROVE  DatabaseSound' /\ FilesFollow'
<1>1. /\ chain_pc = "ready" /\ chain_pc' = "down" /\ cmd' = "boot"
      /\ UNCHANGED <<blockchain_db, height_file, top_file>>
  BY DEF Halt, ChainCrash, diskVars, Idle, Control
<1>2. Tip' = Tip
  BY <1>1 DEF Tip, FilesFollow
<1>3. DatabaseSound'
  BY <1>1, <1>2, SameChain
<1> QED BY <1>1, <1>3 DEF FilesFollow, Up, Count

LEMMA ChainInit0 == Init => ChainInv
<1> SUFFICES ASSUME Init
             PROVE  DatabaseSound /\ FilesFollow
  BY DEF ChainInv
<1>1. blockchain_db = {} /\ chain_pc = "down" /\ cmd = "boot" /\ block = NoBlock
  BY DEF Init, ChainInit, HandleBlockInit
<1>2. Hashes = {}
  BY <1>1 DEF Hashes
<1>3. DatabaseSound
  BY <1>1, <1>2, FS_EmptySet DEF DatabaseSound, Count, Linked
<1> QED BY <1>1, <1>3 DEF FilesFollow, Up

LEMMA ChainStep ==
  ASSUME Control, ChainInv, [Next]_vars
  PROVE  ChainInv'
<1> SUFFICES ASSUME ~torn'
             PROVE  DatabaseSound' /\ FilesFollow'
  BY DEF ChainInv
<1>1. ~torn /\ (Kill => Idle)
  <2>1. Kill => ~torn /\ Idle
    BY DEF Kill
  <2>2. Boot \/ Run => torn' = torn
    BY DEF Run, Boot, BootStep, InitDone, AcceptBlock, RejectBlock, AddToChain,
       BeginPools, UpdatePools, BeginMempool, UpdateMempool, MineDone, BuildStep, BuildDone, Offer,
       history
  <2>3. Command => torn' = torn
    BY DEF Command, Mine, CreateTx, CreateTxExits, ShellExit, history
  <2>4. UNCHANGED vars => torn' = torn
    BY DEF vars, history
  <2> QED BY <2>1, <2>2, <2>3, <2>4 DEF Next
<1>2. DatabaseSound /\ FilesFollow
  BY <1>1 DEF ChainInv
<1>3. CASE Boot
  BY <1>2, <1>3, BootChain
<1>4. CASE BootStep \/ AddToChain
  BY <1>2, <1>4, AddChain DEF BootStep, AddToChain, blockVars
<1>5. CASE (Mine /\ FeesKnown) \/ AcceptBlock
  BY <1>2, <1>5, MineChain
<1>6. CASE \/ Mine /\ ~FeesKnown
           \/ \E amt \in AMOUNTS, fee \in FEES : CreateTxExits(amt, fee)
           \/ ShellExit \/ Kill
  BY <1>1, <1>2, <1>6, HaltChain DEF Mine, CreateTxExits, ShellExit, Kill
<1>7. CASE \/ InitDone \/ RejectBlock \/ BeginPools \/ UpdatePools \/ BeginMempool
           \/ UpdateMempool \/ MineDone \/ BuildStep \/ BuildDone \/ Offer
           \/ \E dest \in Dests, amt \in AMOUNTS, fee \in FEES : CreateTx(dest, amt, fee)
  <2>1. UNCHANGED chainVars /\ cmd' # "mined" /\ (chain_pc = "ready" \/ cmd' = cmd)
    <3>1. UNCHANGED chainVars /\ cmd' # "mined" /\ (cmd = "boot" => InitDone)
      BY <1>7 DEF InitDone, RejectBlock, BeginPools, UpdatePools, BeginMempool, UpdateMempool,
         MineDone, BuildStep, BuildDone, Offer, CreateTx, Idle
    <3>2. cmd = "adding" => BeginPools
      BY <1>7 DEF InitDone, RejectBlock, BeginPools, UpdatePools, BeginMempool, UpdateMempool,
         MineDone, BuildStep, BuildDone, Offer, CreateTx, Idle
    <3> QED BY <3>1, <3>2 DEF InitDone, BeginPools, Control
  <2> QED BY <1>2, <2>1, QuietChain
<1>8. CASE UNCHANGED vars
  <2>1. UNCHANGED <<cmd, block>> /\ UNCHANGED chainVars
    BY <1>8 DEF vars, blockVars
  <2> QED BY <1>2, <2>1, QuietChain
<1> QED BY <1>3, <1>4, <1>5, <1>6, <1>7, <1>8 DEF Next, Command, Run

\* Unless a kill came within a command, one list leads from the genesis block to
\* the top and has every block of the database.
THEOREM ChainInvariant == Spec => []ChainInv
<1>1. SpendInv /\ ChainInv /\ [Next]_vars => ChainInv'
  BY ChainStep DEF SpendInv
<1> QED BY <1>1, ChainInit0, SpendInvariant, PTL DEF Spec
=============================================================================

------------------------------- MODULE Peers -------------------------------
(***************************************************************************)
(* A Node that is also handed transactions and blocks made by others, the  *)
(* way the tests do it: validate_tx_incoming before handle_tx, and         *)
(* handle_new_block.  The others (external) hold the Foreign keys; they    *)
(* see the chain and the pending transactions, and no more.  What they     *)
(* send may be wrong in any one way validation looks at.                   *)
(***************************************************************************)
EXTENDS Node

\* check_inputs_not_in_mempool
CheckInputsNotInMempool(tx) ==
  IF \E k \in DOMAIN tx.inputs : tx.inputs[k].prev \in DOMAIN utxo_to_tx THEN 1 ELSE 0

\* Mutant of ValidateTxIncoming: the UTXO pool is not looked at.
ValidateTxIncomingUnfunded(tx) == CheckInputsNotInMempool(tx)

ValidateTxIncoming(tx) ==
  IF ValidateTxShared(tx, utxo_pool) # 0 THEN 1
  ELSE IF CheckTxDoubleSpent(tx) # 0 THEN 2
  ELSE IF CheckInputsNotInMempool(tx) # 0 THEN 3 ELSE 0

-----------------------------------------------------------------------------
(* What the others make.                                                   *)

\* The outputs the chain's transactions made, spent or not, and their keys.
ChainOutputs ==
  UNION {{[out |-> Outpoint(tx, n), key |-> tx.outputs[n].key] : n \in DOMAIN tx.outputs} :
           tx \in ChainTxs}
TheirOutputs == {o.out : o \in {p \in ChainOutputs : p.key = Foreign}}
OurOutputs   == {o.out : o \in {p \in ChainOutputs : p.key # Foreign}}

\* A payment of theirs: one or two inputs, one output among themselves.
PeerTx(id, outs, amt) ==
  [id |-> id,
   inputs |-> [k \in DOMAIN outs |-> [prev |-> outs[k], key |-> Foreign, signed |-> TRUE]],
   outputs |-> <<[amt |-> amt, key |-> Foreign]>>]

PeerTxs(id) ==
  {PeerTx(id, outs, amt) : amt \in AMOUNTS,
     outs \in UNION {[1..n -> TheirOutputs] : n \in 1..2}}

\* What is wrong with a transaction: no inputs, no outputs; a signature that
\* does not fit; an output nobody made; an output of this node, with their
\* key or with its own, which they cannot sign for; too much given out.
FlawedTxs(id) ==
  LET amt == CHOOSE a \in AMOUNTS : TRUE
  IN  {PeerTx(id, <<>>, amt), PeerTx(id, << <<id, 0>> >>, amt)}
      \cup {[PeerTx(id, <<out>>, amt) EXCEPT !.outputs = <<>>] : out \in TheirOutputs}
      \cup {[PeerTx(id, <<out>>, amt) EXCEPT !.inputs[1].signed = FALSE] : out \in TheirOutputs}
      \cup {PeerTx(id, <<out>>, amt) : out \in OurOutputs}
      \cup {[PeerTx(id, <<o.out>>, amt) EXCEPT !.inputs[1].key = o.key, !.inputs[1].signed = FALSE] :
              o \in {p \in ChainOutputs : p.key # Foreign}}
      \cup {PeerTx(id, <<out>>, BLOCK_REWARD + amt) : out \in TheirOutputs}

\* Their coinbase takes what validate_coinbase_tx will grant.
PeerCoinbase(id, txs) ==
  LET known == \A n \in DOMAIN txs : FeesComputable(txs[n], utxo_pool)
      fees == IF known THEN ValidatorFees(txs, utxo_pool) ELSE 0
  IN  [id |-> id, inputs |-> <<>>,
       outputs |-> <<[amt |-> Ulong(fees + BLOCK_REWARD), key |-> Foreign]>>]

PeerBlock(id, txs) ==
  [hash |-> FreshHash, prev |-> top_block_header_hash, txs |-> <<PeerCoinbase(id, txs)>> \o txs,
   hash_met |-> TRUE, all_tx_match |-> TRUE]

\* What is wrong with a block: its own hash, its parent, the hash of its
\* transactions; a coinbase that takes too much, spends, or pays twice.
FlawedBlocks(b) ==
  {[b EXCEPT !.hash_met = FALSE], [b EXCEPT !.all_tx_match = FALSE],
   [b EXCEPT !.txs[1].outputs[1].amt = @ + 1],
   [b EXCEPT !.txs[1].outputs = @ \o @]}
  \cup {[b EXCEPT !.prev = h] :
          h \in ({o.hash : o \in blockchain_db} \cup {ZeroHash}) \ {top_block_header_hash}}
  \cup {[b EXCEPT !.txs[1].inputs = <<[prev |-> out, key |-> Foreign, signed |-> TRUE]>>] :
          out \in TheirOutputs}

-----------------------------------------------------------------------------
(* Receipt.  A transaction that fails validation changes nothing; a block  *)
(* is handled as the node's own are, from validate_block on.               *)

ReceiveTx(tx) ==
  /\ ValidateTxIncoming(tx) = 0
  /\ M!MempoolAdd(tx)
  /\ UNCHANGED <<chainVars, walletDisk, buildVars, blockVars, confirmed, cur_tx,
                 cur_in, cmd, reason, history>>

ReceiveBlock(b) ==
  /\ block' = b
  /\ cmd' = "mined"
  /\ UNCHANGED <<chainVars, walletDisk, buildVars, utxo_pool, poolLoop, memVars,
                 reason, history>>

\* Up to two transactions for a block: pending ones, or a new one of theirs.
\* An id is a hash: it is that of one transaction.
PeerTxLists(id) ==
  {txs \in UNION {[1..n -> ToSet(mempool) \cup PeerTxs(id)] : n \in 0..2} :
     \A i, j \in DOMAIN txs : txs[i].id = txs[j].id => txs[i] = txs[j]}

\* Two ids nobody uses, the smaller one for the coinbase.
PeerIds == {pair \in UnusedIds \X UnusedIds : pair[1] < pair[2]}

Receive ==
  /\ Idle
  /\ \E ids \in PeerIds :
       \/ \E tx \in PeerTxs(ids[2]) \cup FlawedTxs(ids[2]) : ReceiveTx(tx)
       \/ /\ Count < MAX_BLOCKS
          /\ \/ \E txs \in PeerTxLists(ids[2]) : ReceiveBlock(PeerBlock(ids[1], txs))
             \/ \E tx \in FlawedTxs(ids[2]) : ReceiveBlock(PeerBlock(ids[1], <<tx>>))
             \/ \E b \in FlawedBlocks(PeerBlock(ids[1], <<>>)) : ReceiveBlock(b)

PeersNext == Next \/ (~exited /\ Receive)

PeersSpec == Init /\ [][PeersNext]_vars

-----------------------------------------------------------------------------
(* Properties.                                                             *)

\* A pending transaction is not in the chain already: the block that brought
\* it, or a rival, took it out of the mempool.
PendingNotInChain ==
  Idle => \A tx \in ChainTxs : tx.inputs # <<>> =>
            SpentOutpoints(tx) \cap Claimed = {}

\* Whatever the others send, no output is spent but by the holder of its key:
\* the inputs of every transaction in the chain and in the mempool name
\* outputs of earlier blocks and show their keys, with signatures that fit.
OwnersSpend ==
  Idle =>
    \A i \in DOMAIN Chain \cup {Len(Chain) + 1} :
      LET before == UNION {ToSet(Chain[j].txs) : j \in 1..(i - 1)}
          txs == IF i \in DOMAIN Chain THEN ToSet(Chain[i].txs) ELSE ToSet(mempool)
      IN  \A tx \in txs : \A k \in DOMAIN tx.inputs :
            /\ tx.inputs[k].signed
            /\ \E made \in before : \E n \in DOMAIN made.outputs :
                 tx.inputs[k].prev = Outpoint(made, n) /\ tx.inputs[k].key = made.outputs[n].key

\* No block of the others makes a branch: the database is one chain.
NoBranches == Idle => Len(Chain) = Count /\ Count = chain_height

\* "0 if added successfully, 1 if iem was already in set": so that no accepted
\* block spends an output twice.
ChainSpendsOnce ==
  LET txs == FlattenSeq([i \in DOMAIN Chain |-> Chain[i].txs])
  IN  Idle => \A i, j \in DOMAIN txs :
                i # j => SpentOutpoints(txs[i]) \cap SpentOutpoints(txs[j]) = {}
=============================================================================

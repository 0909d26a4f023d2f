---------------------------- MODULE Pools_proofs ----------------------------
(***************************************************************************)
(* What the pools mean: seen from outside, however many writes a block     *)
(* takes, the node is a Ledger (LedgerSpec) and keeps what a Ledger        *)
(* promises of the payments that wait; and between two commands the        *)
(* wallet has exactly the node's own entries of the UTXO pool              *)
(* (WalletMirrorsPool), unless a kill came in the middle of a command.     *)
(*                                                                         *)
(* What sums of amounts say about the node, for all amounts and fees the   *)
(* operator asks for: the types of everything that is stored, that every   *)
(* payment that waits is worth what it pays, that the node's own block is  *)
(* refused only when the two ways of adding up the fees differ, and that   *)
(* an entry is marked only for a payment that waits.                       *)
(***************************************************************************)
EXTENDS Node_proofs, Induction

Maker(out) == CHOOSE tx \in AllTxs(block) : tx.id = out[1]

\* All that the block in hand spends.
SpentByBlock == UNION {SpentOutpoints(tx) : tx \in AllTxs(block)}

-----------------------------------------------------------------------------
(* The refinement mapping.                                                 *)

\* The pool as it will be: before, and after a step.
LEMMA PoolWritten ==
  /\ DOMAIN PoolWhenWritten = (DOMAIN utxo_pool \cup ToAdd) \ ToRemove
  /\ \A out \in DOMAIN PoolWhenWritten :
       PoolWhenWritten[out] = IF out \in ToAdd THEN Maker(out).outputs[out[2] + 1] ELSE utxo_pool[out]
BY DEF PoolWhenWritten, Maker

LEMMA PoolWrittenNext ==
  /\ DOMAIN PoolWhenWritten' = (DOMAIN utxo_pool' \cup ToAdd') \ ToRemove'
  /\ \A out \in DOMAIN PoolWhenWritten' :
       PoolWhenWritten'[out] =
         IF out \in ToAdd' THEN (Maker(out).outputs[out[2] + 1])' ELSE utxo_pool'[out]
BY DEF PoolWhenWritten, Maker

\* It is a function: what it says of every output is all it says.
LEMMA SamePool ==
  ASSUME DOMAIN PoolWhenWritten' = DOMAIN PoolWhenWritten,
         \A out \in DOMAIN PoolWhenWritten : PoolWhenWritten'[out] = PoolWhenWritten[out]
  PROVE  PoolWhenWritten' = PoolWhenWritten
<1>1. PoolWhenWritten = [out \in DOMAIN PoolWhenWritten |-> PoolWhenWritten[out]]
  BY DEF PoolWhenWritten
<1>2. PoolWhenWritten' = [out \in DOMAIN PoolWhenWritten' |-> PoolWhenWritten'[out]]
  BY DEF PoolWhenWritten
<1> HIDE DEF PoolWhenWritten
<1> QED BY <1>1, <1>2

\* What is to be added and removed is the rest of the block.
LEMMA AheadOfLoop ==
  ASSUME NEW out
  PROVE  /\ out \in ToAdd <=>
              /\ cmd = "pools"
              /\ \E i \in DOMAIN block.txs : i >= pool_tx /\ \E n \in DOMAIN block.txs[i].outputs :
                   (i > pool_tx \/ n >= pool_out) /\ out = Outpoint(block.txs[i], n)
         /\ out \in ToRemove <=>
              /\ cmd = "pools"
              /\ \E i \in DOMAIN block.txs : i >= pool_tx /\ \E k \in DOMAIN block.txs[i].inputs :
                   (i > pool_tx \/ k >= pool_in) /\ out = block.txs[i].inputs[k].prev
BY DEF ToAdd, ToRemove, TxsAhead

LEMMA AheadOfLoopNext ==
  ASSUME NEW out
  PROVE  /\ out \in ToAdd' <=>
              /\ cmd' = "pools"
              /\ \E i \in DOMAIN block'.txs : i >= pool_tx' /\ \E n \in DOMAIN block'.txs[i].outputs :
                   (i > pool_tx' \/ n >= pool_out') /\ out = Outpoint(block'.txs[i], n)
         /\ out \in ToRemove' <=>
              /\ cmd' = "pools"
              /\ \E i \in DOMAIN block'.txs : i >= pool_tx' /\ \E k \in DOMAIN block'.txs[i].inputs :
                   (i > pool_tx' \/ k >= pool_in') /\ out = block'.txs[i].inputs[k].prev
BY DEF ToAdd, ToRemove, TxsAhead

\* Outside of update_UTXO_pool_and_wallet_pool nothing is.
LEMMA PoolElsewhere ==
  /\ cmd # "pools" => /\ ToAdd = {} /\ ToRemove = {}
                      /\ PoolWhenWritten = [out \in DOMAIN utxo_pool |-> utxo_pool[out]]
  /\ cmd' # "pools" => /\ ToAdd' = {} /\ ToRemove' = {}
                       /\ PoolWhenWritten' = [out \in DOMAIN utxo_pool' |-> utxo_pool'[out]]
<1>1. cmd # "pools" => /\ ToAdd = {} /\ ToRemove = {}
                       /\ PoolWhenWritten = [out \in DOMAIN utxo_pool |-> utxo_pool[out]]
  <2>1. cmd # "pools" => ToAdd = {} /\ ToRemove = {}
    BY AheadOfLoop
  <2> QED BY <2>1 DEF PoolWhenWritten
<1>2. cmd' # "pools" => /\ ToAdd' = {} /\ ToRemove' = {}
                        /\ PoolWhenWritten' = [out \in DOMAIN utxo_pool' |-> utxo_pool'[out]]
  <2>1. cmd' # "pools" => ToAdd' = {} /\ ToRemove' = {}
    BY AheadOfLoopNext
  <2> QED BY <2>1 DEF PoolWhenWritten
<1> QED BY <1>1, <1>2

\* The transactions of the block have different ids.
LEMMA MakerIs ==
  ASSUME SpendInv, Handling, NEW i \in DOMAIN block.txs, NEW n
  PROVE  Maker(Outpoint(block.txs[i], n)) = block.txs[i]
<1>1. \A tx \in AllTxs(block) : tx.id = block.txs[i].id => tx = block.txs[i]
  BY DEF SpendInv, BlockShape, AllTxs
<1> QED BY <1>1 DEF Maker, Outpoint, AllTxs

-----------------------------------------------------------------------------
(* The steps that change nothing for the Ledger.                           *)

Unseen == PoolWhenWritten' = PoolWhenWritten /\ PendingWhenUpdated' = PendingWhenUpdated

LEMMA PendingIs ==
  /\ cmd \notin {"pools", "mempool"} => PendingWhenUpdated = ToSet(mempool)
  /\ cmd \in {"pools", "mempool"} =>
       PendingWhenUpdated = {tx \in ToSet(mempool) : SpentOutpoints(tx) \cap SpentByBlock = {}}
  /\ cmd' \notin {"pools", "mempool"} => PendingWhenUpdated' = ToSet(mempool')
  /\ cmd' \in {"pools", "mempool"} =>
       PendingWhenUpdated' = {tx \in ToSet(mempool') : SpentOutpoints(tx) \cap SpentByBlock' = {}}
BY DEF PendingWhenUpdated, SpentByBlock

\* A step outside of accept_block that leaves the UTXO pool and the mempool alone.
LEMMA QuietUnseen ==
  ASSUME UNCHANGED <<utxo_pool, mempool>>,
         cmd \notin {"pools", "mempool"}, cmd' \notin {"pools", "mempool"}
  PROVE  Unseen
BY PoolElsewhere, PendingIs DEF Unseen

\* A write to a pool.
LEMMA UpdatePoolsUnseen ==
  ASSUME SpendInv, UpdatePools
  PROVE  Unseen
<1>1. /\ UNCHANGED <<cmd, block, mempool>> /\ cmd = "pools" /\ Handling
      /\ pool_tx \in DOMAIN block.txs /\ CurrentTx = block.txs[pool_tx]
      /\ pool_tx \in Nat \ {0} /\ pool_out \in Nat \ {0} /\ pool_in \in Nat \ {0}
      /\ IsTx(CurrentTx) /\ CurrentTx.id \notin Past
      /\ block.txs \in Seq(ToSet(block.txs))
  BY UpdatePoolsFrame DEF SpendInv, BlockShape, Handling, Accepting
<1>2. PendingWhenUpdated' = PendingWhenUpdated
  BY <1>1, PendingIs DEF SpentByBlock
<1>3. \A out : Maker(out)' = Maker(out)
  BY <1>1 DEF Maker
<1>4. \A i \in DOMAIN block.txs : /\ i \in Int
                                  /\ \A n \in DOMAIN block.txs[i].outputs : n \in Int
                                  /\ \A k \in DOMAIN block.txs[i].inputs : k \in Int
  <2>1. \A i \in DOMAIN block.txs : i \in Int /\ IsTx(block.txs[i])
    BY <1>1 DEF SpendInv, BlockShape
  <2> QED BY <2>1 DEF IsTx
<1>5. CASE PutOutput
  <2> DEFINE out == Outpoint(CurrentTx, pool_out)
             output == CurrentTx.outputs[pool_out]
  <2>1. /\ pool_out <= Len(CurrentTx.outputs) /\ pool_out \in DOMAIN CurrentTx.outputs
        /\ UNCHANGED <<pool_tx, pool_in>>
    BY <1>1, <1>5 DEF PutOutput, IsTx
  <2>2. /\ out[1] = CurrentTx.id /\ out[2] + 1 = pool_out
        /\ Maker(out) = CurrentTx /\ Maker(out).outputs[out[2] + 1] = output
    BY <1>1, MakerIs DEF Outpoint
  <2>3. out \in ToAdd
    BY <1>1, <1>4, <2>1, AheadOfLoop
  <2>4. \A o : o \in ToRemove' <=> o \in ToRemove
    BY <1>1, <2>1, AheadOfLoop, AheadOfLoopNext
  <2>5. \A i \in DOMAIN block.txs : \A n \in DOMAIN block.txs[i].outputs :
          Outpoint(block.txs[i], n) = out <=> i = pool_tx /\ n = pool_out
    <3> SUFFICES ASSUME NEW i \in DOMAIN block.txs, NEW n \in DOMAIN block.txs[i].outputs
                 PROVE  Outpoint(block.txs[i], n) = out <=> i = pool_tx /\ n = pool_out
      OBVIOUS
    <3>1. block.txs[i].id = CurrentTx.id => i = pool_tx
      BY <1>1 DEF SpendInv, BlockShape
    <3>2. n \in Int /\ (n - 1 = pool_out - 1 <=> n = pool_out)
      BY <1>1, <1>4
    <3> QED BY <1>1, <3>1, <3>2 DEF Outpoint
  <2> HIDE DEF out, output
  <2>6. CASE pool_out' = pool_out
    <3>1. \A o : o \in ToAdd' <=> o \in ToAdd
      BY <1>1, <2>1, <2>6, AheadOfLoop, AheadOfLoopNext
    <3>2. /\ DOMAIN utxo_pool' \in {DOMAIN utxo_pool, DOMAIN utxo_pool \cup {out}}
          /\ \A o \in DOMAIN utxo_pool : o # out => utxo_pool'[o] = utxo_pool[o]
      BY <1>5 DEF PutOutput, Put, out
    <3>3. DOMAIN PoolWhenWritten' = DOMAIN PoolWhenWritten
      BY <2>3, <2>4, <3>1, <3>2, PoolWritten, PoolWrittenNext
    <3>4. \A o \in DOMAIN PoolWhenWritten : PoolWhenWritten'[o] = PoolWhenWritten[o]
      BY <1>3, <2>3, <3>1, <3>2, <3>3, PoolWritten, PoolWrittenNext
    <3> QED BY <1>2, <3>3, <3>4, SamePool DEF Unseen
  <2>7. CASE pool_out' = pool_out + 1
    <3>1. \A o : o \in ToAdd' <=> o \in ToAdd /\ o # out
      <4> SUFFICES ASSUME NEW o
                   PROVE  o \in ToAdd' <=> o \in ToAdd /\ o # out
        OBVIOUS
      <4>1. \A i \in DOMAIN block.txs : \A n \in DOMAIN block.txs[i].outputs :
              i >= pool_tx => ((i > pool_tx \/ n >= pool_out + 1) <=>
                                 (i > pool_tx \/ n >= pool_out) /\ ~(i = pool_tx /\ n = pool_out))
        BY <1>1, <1>4
      <4> QED BY <1>1, <2>1, <2>5, <2>7, <4>1, AheadOfLoop, AheadOfLoopNext
    <3>2. /\ DOMAIN utxo_pool' = DOMAIN utxo_pool \cup {out} /\ utxo_pool'[out] = output
          /\ \A o \in DOMAIN utxo_pool : o # out => utxo_pool'[o] = utxo_pool[o]
      <4>1. CASE ~half
        BY <1>5, <4>1 DEF PutOutput, Put, out, output
      <4>2. CASE half
        <5>1. out \in DOMAIN utxo_pool /\ utxo_pool[out] = output
          <6>1. pool_tx <= Len(block.txs)
            BY <1>1
          <6> QED BY <1>1, <2>1, <4>2, <6>1 DEF SpendInv, HalfWritten, out, output
        <5>2. utxo_pool' = utxo_pool
          BY <1>5, <4>2 DEF PutOutput
        <5> QED BY <5>1, <5>2
      <4> QED BY <4>1, <4>2
    <3>3. DOMAIN PoolWhenWritten' = DOMAIN PoolWhenWritten
      BY <2>3, <2>4, <3>1, <3>2, PoolWritten, PoolWrittenNext
    <3>4. \A o \in DOMAIN PoolWhenWritten : PoolWhenWritten'[o] = PoolWhenWritten[o]
      <4> SUFFICES ASSUME NEW o \in DOMAIN PoolWhenWritten
                   PROVE  PoolWhenWritten'[o] = PoolWhenWritten[o]
        OBVIOUS
      <4>1. CASE o = out
        BY <2>2, <2>3, <3>1, <3>2, <3>3, <4>1, PoolWritten, PoolWrittenNext
      <4>2. CASE o # out
        <5>1. (Maker(o).outputs[o[2] + 1])' = Maker(o).outputs[o[2] + 1]
          BY <1>3
        <5>2. o \in ToAdd' <=> o \in ToAdd
          BY <3>1, <4>2
        <5>3. o \notin ToAdd => o \in DOMAIN utxo_pool /\ utxo_pool'[o] = utxo_pool[o]
          BY <3>2, <4>2, PoolWritten
        <5> QED BY <3>3, <5>1, <5>2, <5>3, PoolWritten, PoolWrittenNext
      <4> QED BY <4>1, <4>2
    <3> QED BY <1>2, <3>3, <3>4, SamePool DEF Unseen
  <2> QED BY <1>5, <2>6, <2>7 DEF PutOutput
<1>6. CASE DeleteInput
  <2> DEFINE out == CurrentTx.inputs[pool_in].prev
  <2>1. /\ pool_in <= Len(CurrentTx.inputs) /\ pool_in \in DOMAIN CurrentTx.inputs
        /\ ~(pool_out <= Len(CurrentTx.outputs))
        /\ UNCHANGED <<pool_tx, pool_out>>
    BY <1>1, <1>6 DEF DeleteInput, IsTx
  <2>2. \A o : o \in ToAdd' <=> o \in ToAdd
    BY <1>1, <2>1, AheadOfLoop, AheadOfLoopNext
  <2>3. out \in ToRemove /\ out \in SpentOutpoints(CurrentTx)
    BY <1>1, <1>4, <2>1, AheadOfLoop DEF SpentOutpoints
  <2>4. out \notin ToAdd
    <3>1. out[1] \in Past
      BY <2>3, UpdatePoolsFrame DEF SpendInv, OnlyPast
    <3>2. \A i \in DOMAIN block.txs : block.txs[i].id \notin Past
      BY <1>1 DEF SpendInv, Fresh, AllTxs
    <3> QED BY <3>1, <3>2, AheadOfLoop DEF Outpoint
  <2>5. \A o : (Maker(o).outputs[o[2] + 1])' = Maker(o).outputs[o[2] + 1]
    BY <1>3
  <2> HIDE DEF out
  <2>6. CASE ~half
    <3>1. /\ DOMAIN utxo_pool' = DOMAIN utxo_pool \ {out} /\ pool_in' = pool_in
          /\ \A o \in DOMAIN utxo_pool' : utxo_pool'[o] = utxo_pool[o]
      BY <1>6, <2>6 DEF DeleteInput, Delete, out
    <3>2. \A o : o \in ToRemove' <=> o \in ToRemove
      BY <1>1, <2>1, <3>1, AheadOfLoop, AheadOfLoopNext
    <3>3. DOMAIN PoolWhenWritten' = DOMAIN PoolWhenWritten
      BY <2>2, <2>3, <3>1, <3>2, PoolWritten, PoolWrittenNext
    <3>4. \A o \in DOMAIN PoolWhenWritten : PoolWhenWritten'[o] = PoolWhenWritten[o]
      BY <2>2, <2>5, <3>1, <3>3, PoolWritten, PoolWrittenNext
    <3> QED BY <1>2, <3>3, <3>4, SamePool DEF Unseen
  <2>7. CASE half
    <3>1. utxo_pool' = utxo_pool /\ pool_in' = pool_in + 1
      BY <1>6, <2>7 DEF DeleteInput
    <3>2. out \notin DOMAIN utxo_pool
      <4>1. pool_tx <= Len(block.txs)
        BY <1>1
      <4> QED BY <1>1, <2>1, <2>7, <4>1 DEF SpendInv, HalfWritten, out
    <3>3. \A o : o # out => (o \in ToRemove' <=> o \in ToRemove)
      <4>0. SUFFICES ASSUME NEW o, o # out
                     PROVE  o \in ToRemove' <=> o \in ToRemove
        OBVIOUS
      <4>1. \A i \in DOMAIN block.txs : \A k \in DOMAIN block.txs[i].inputs :
              i >= pool_tx => ((i > pool_tx \/ k >= pool_in + 1) <=>
                                 (i > pool_tx \/ k >= pool_in) /\ ~(i = pool_tx /\ k = pool_in))
        BY <1>1, <1>4
      <4>2. block.txs[pool_tx].inputs[pool_in].prev = out
        BY <1>1 DEF out
      <4>3. \A i \in DOMAIN block.txs : \A k \in DOMAIN block.txs[i].inputs :
              i >= pool_tx /\ o = block.txs[i].inputs[k].prev =>
                ((i > pool_tx \/ k >= pool_in + 1) <=> (i > pool_tx \/ k >= pool_in))
        <5>1. \A i \in DOMAIN block.txs : \A k \in DOMAIN block.txs[i].inputs :
                o = block.txs[i].inputs[k].prev => ~(i = pool_tx /\ k = pool_in)
          BY <4>0, <4>2
        <5> QED BY <4>1, <5>1
      <4>4. o \in ToRemove' <=>
              \E i \in DOMAIN block.txs : i >= pool_tx /\ \E k \in DOMAIN block.txs[i].inputs :
                (i > pool_tx \/ k >= pool_in + 1) /\ o = block.txs[i].inputs[k].prev
        BY <1>1, <2>1, <3>1, AheadOfLoopNext
      <4> QED BY <1>1, <4>3, <4>4, AheadOfLoop
    <3>4. DOMAIN PoolWhenWritten' = DOMAIN PoolWhenWritten
      BY <2>2, <2>3, <2>4, <3>1, <3>2, <3>3, PoolWritten, PoolWrittenNext
    <3>5. \A o \in DOMAIN PoolWhenWritten : PoolWhenWritten'[o] = PoolWhenWritten[o]
      BY <2>2, <2>5, <3>1, <3>4, PoolWritten, PoolWrittenNext
    <3> QED BY <1>2, <3>4, <3>5, SamePool DEF Unseen
  <2> QED BY <2>6, <2>7
<1>7. CASE NextPoolTx
  <2>1. /\ utxo_pool' = utxo_pool /\ pool_tx' = pool_tx + 1 /\ pool_out' = 1 /\ pool_in' = 1
        /\ pool_out > Len(CurrentTx.outputs) /\ pool_in > Len(CurrentTx.inputs)
    BY <1>7 DEF NextPoolTx, poolDisk
  <2>2. \A i \in DOMAIN block.txs :
          /\ \A n \in DOMAIN block.txs[i].outputs :
               i >= pool_tx /\ (i > pool_tx \/ n >= pool_out) <=>
                 i >= pool_tx + 1 /\ (i > pool_tx + 1 \/ n >= 1)
          /\ \A k \in DOMAIN block.txs[i].inputs :
               i >= pool_tx /\ (i > pool_tx \/ k >= pool_in) <=>
                 i >= pool_tx + 1 /\ (i > pool_tx + 1 \/ k >= 1)
    <3> SUFFICES ASSUME NEW i \in DOMAIN block.txs
                 PROVE  /\ \A n \in DOMAIN block.txs[i].outputs :
                             i >= pool_tx /\ (i > pool_tx \/ n >= pool_out) <=>
                               i >= pool_tx + 1 /\ (i > pool_tx + 1 \/ n >= 1)
                        /\ \A k \in DOMAIN block.txs[i].inputs :
                             i >= pool_tx /\ (i > pool_tx \/ k >= pool_in) <=>
                               i >= pool_tx + 1 /\ (i > pool_tx + 1 \/ k >= 1)
      OBVIOUS
    <3>1. i \in Int /\ IsTx(block.txs[i])
      BY <1>1, <1>4 DEF SpendInv, BlockShape
    <3>2. \A n \in DOMAIN block.txs[i].outputs : n \in 1..Len(block.txs[i].outputs)
      BY <3>1 DEF IsTx
    <3>3. \A k \in DOMAIN block.txs[i].inputs : k \in 1..Len(block.txs[i].inputs)
      BY <3>1 DEF IsTx
    <3>4. Len(block.txs[i].outputs) \in Nat /\ Len(block.txs[i].inputs) \in Nat
      BY <3>1 DEF IsTx
    <3> QED BY <1>1, <2>1, <3>1, <3>2, <3>3, <3>4
  <2>3. \A o : (o \in ToAdd' <=> o \in ToAdd) /\ (o \in ToRemove' <=> o \in ToRemove)
    <3> SUFFICES ASSUME NEW o
                 PROVE  (o \in ToAdd' <=> o \in ToAdd) /\ (o \in ToRemove' <=> o \in ToRemove)
      OBVIOUS
    <3>1. o \in ToAdd' <=> o \in ToAdd
      BY <1>1, <2>1, <2>2, AheadOfLoop, AheadOfLoopNext
    <3>2. o \in ToRemove' <=> o \in ToRemove
      BY <1>1, <2>1, <2>2, AheadOfLoop, AheadOfLoopNext
    <3> QED BY <3>1, <3>2
  <2>4. DOMAIN PoolWhenWritten' = DOMAIN PoolWhenWritten
    BY <2>1, <2>3, PoolWritten, PoolWrittenNext
  <2>5. \A o : (Maker(o).outputs[o[2] + 1])' = Maker(o).outputs[o[2] + 1]
    BY <1>3
  <2>6. \A o \in DOMAIN PoolWhenWritten : PoolWhenWritten'[o] = PoolWhenWritten[o]
    BY <2>1, <2>3, <2>4, <2>5, PoolWritten, PoolWrittenNext
  <2> QED BY <1>2, <2>4, <2>6, SamePool DEF Unseen
<1> QED BY <1>5, <1>6, <1>7, UpdatePoolsFrame

\* update_mempool begins, evicts, and returns: what it evicts was not counted.
LEMMA UpdateMempoolUnseen ==
  ASSUME SpendInv, BeginMempool \/ UpdateMempool \/ MineDone
  PROVE  Unseen
<1>1. CASE BeginMempool
  <2>1. /\ UNCHANGED <<utxo_pool, block, mempool>> /\ cmd = "pools" /\ cmd' = "mempool"
        /\ pool_tx > Len(block.txs)
    BY <1>1 DEF BeginMempool, StartUpdatePools, PoolsDone, poolDisk, chainVars, buildVars
  <2>2. block.txs \in Seq(ToSet(block.txs)) /\ pool_tx \in Nat
    BY <2>1 DEF SpendInv, BlockShape, Handling, Accepting, Counters
  <2>3. \A o : o \notin ToAdd /\ o \notin ToRemove
    <3>1. \A i \in DOMAIN block.txs : ~(i >= pool_tx)
      BY <2>1, <2>2
    <3> QED BY <3>1, AheadOfLoop
  <2>4. ToAdd' = {} /\ ToRemove' = {}
    BY <2>1, PoolElsewhere
  <2>5. DOMAIN PoolWhenWritten' = DOMAIN PoolWhenWritten
    BY <2>1, <2>3, <2>4, PoolWritten, PoolWrittenNext
  <2>6. \A o \in DOMAIN PoolWhenWritten : PoolWhenWritten'[o] = PoolWhenWritten[o]
    BY <2>1, <2>3, <2>4, <2>5, PoolWritten, PoolWrittenNext
  <2>7. PendingWhenUpdated' = PendingWhenUpdated
    BY <2>1, PendingIs DEF SpentByBlock
  <2> QED BY <2>5, <2>6, <2>7, SamePool DEF Unseen
<1>2. CASE UpdateMempool
  <2>1. /\ UNCHANGED <<utxo_pool, block, cmd>> /\ cmd = "mempool" /\ confirmed = block.txs
        /\ block.txs \in Seq(ToSet(block.txs))
        /\ \A i \in DOMAIN block.txs : IsTx(block.txs[i])
        /\ cur_tx \in Nat \ {0} /\ cur_in \in Nat \ {0}
    BY <1>2 DEF UpdateMempool, walletDisk, blockVars, chainVars, SpendInv, Control, BlockShape,
       Handling, Accepting, Counters
  <2>2. PoolWhenWritten' = PoolWhenWritten
    BY <2>1, PoolElsewhere
  <2>3. ASSUME NEW tx, SpentOutpoints(tx) \cap SpentByBlock = {}
        PROVE  tx \in ToSet(mempool') <=> tx \in ToSet(mempool)
    <3>1. CASE M!NextConfirmedTx
      BY <3>1 DEF M!NextConfirmedTx
    <3>2. CASE M!VisitInput
      <4> DEFINE out == block.txs[cur_tx].inputs[cur_in].prev
      <4>1. /\ cur_tx <= Len(block.txs) /\ cur_in <= Len(block.txs[cur_tx].inputs)
            /\ IF out \in DOMAIN utxo_to_tx THEN M!MempoolRemove(utxo_to_tx[out])
               ELSE UNCHANGED M!poolVars
        BY <2>1, <3>2 DEF M!VisitInput, M!UpdateDone
      <4>2. out \in SpentByBlock
        <5>1. cur_tx \in DOMAIN block.txs
          BY <2>1, <4>1
        <5>2. cur_in \in DOMAIN block.txs[cur_tx].inputs
          BY <2>1, <4>1, <5>1 DEF IsTx
        <5> QED BY <5>1, <5>2 DEF SpentByBlock, AllTxs, SpentOutpoints
      <4> HIDE DEF out
      <4>3. CASE out \notin DOMAIN utxo_to_tx
        BY <4>1, <4>3 DEF M!poolVars
      <4>4. CASE out \in DOMAIN utxo_to_tx
        <5>1. PICK t \in ToSet(mempool) : out \in SpentOutpoints(t)
          BY <4>4 DEF SpendInv, Tables, Claimed
        <5>2. utxo_to_tx[out] = t.id
          BY <5>1 DEF SpendInv, Tables
        <5>3. t # tx
          BY <2>3, <4>2, <5>1
        <5>4. tx \in ToSet(mempool) => tx.id # t.id
          BY <5>1, <5>3 DEF SpendInv, Tables, ToSet
        <5> QED BY <4>1, <4>4, <5>2, <5>4, EvictOne
      <4> QED BY <4>3, <4>4
    <3> QED BY <1>2, <3>1, <3>2 DEF UpdateMempool
  <2>4. SpentByBlock' = SpentByBlock
    BY <2>1 DEF SpentByBlock
  <2>5. PendingWhenUpdated' = PendingWhenUpdated
    BY <2>1, <2>3, <2>4, PendingIs
  <2> QED BY <2>2, <2>5 DEF Unseen
<1>3. CASE MineDone
  <2>1. /\ UNCHANGED <<utxo_pool, mempool>> /\ cmd = "mempool" /\ cmd' = "idle"
        /\ block \in blockchain_db /\ cur_tx > Len(block.txs)
    BY <1>3 DEF MineDone, M!UpdateDone, chainVars, SpendInv, Control, Accepting
  <2>2. PoolWhenWritten' = PoolWhenWritten
    BY <2>1, PoolElsewhere
  <2>3. \A tx : ~StillToPurge(tx)
    <3>1. Len(block.txs) \in Nat /\ cur_tx \in Nat
      BY <2>1 DEF SpendInv, BlockShape, Handling, Accepting, Counters
    <3> QED BY <2>1, <3>1 DEF StillToPurge
  <2>4. ASSUME NEW tx \in ToSet(mempool), NEW u \in AllTxs(block)
        PROVE  SpentOutpoints(tx) \cap SpentOutpoints(u) = {}
    <3>1. u.id \in IdsOf(blockchain_db) /\ tx.id \notin IdsOf(blockchain_db)
      BY <2>1, <2>3, IdsOfBlocks DEF SpendInv, Fresh
    <3>2. tx \in Owners /\ u \in Owners
      BY <2>1 DEF Owners, StoredTxs
    <3> QED BY <3>1, <3>2 DEF SpendInv, Apart
  <2>5. \A tx \in ToSet(mempool) : SpentOutpoints(tx) \cap SpentByBlock = {}
    BY <2>4 DEF SpentByBlock
  <2>6. PendingWhenUpdated' = PendingWhenUpdated
    BY <2>1, <2>5, PendingIs
  <2> QED BY <2>2, <2>6 DEF Unseen
<1> QED BY <1>1, <1>2, <1>3

-----------------------------------------------------------------------------
(* The steps of the Ledger.                                                *)

\* What transactions make.
MadeBy(txs) == UNION {{Outpoint(tx, n) : n \in DOMAIN tx.outputs} : tx \in txs}

\* The whole block is ahead of the loop that begins.
LEMMA WholeBlockAhead ==
  ASSUME SpendInv, BeginPools
  PROVE  /\ ToAdd' = MadeBy(AllTxs(block)) /\ ToRemove' = SpentByBlock
         /\ \A out \in ToAdd' : out[1] \notin Past
         /\ \A out \in SpentByBlock : out[1] \in Past
         /\ \A out \in DOMAIN utxo_pool : out[1] \in Past
<1>1. /\ UNCHANGED <<block, utxo_pool>> /\ block \in blockchain_db
      /\ cmd = "adding" /\ cmd' = "pools" /\ pool_tx' = 1 /\ pool_out' = 1 /\ pool_in' = 1
  BY DEF BeginPools, StartUpdatePools, poolDisk, SpendInv, Control, Accepting
<1>2. block.txs \in Seq(ToSet(block.txs)) /\ \A i \in DOMAIN block.txs : IsTx(block.txs[i])
  BY <1>1 DEF SpendInv, BlockShape, Handling, Accepting
<1>3. \A i \in DOMAIN block.txs : /\ i >= 1
                                  /\ \A n \in DOMAIN block.txs[i].outputs : n >= 1
                                  /\ \A k \in DOMAIN block.txs[i].inputs : k >= 1
  BY <1>2 DEF IsTx
<1>4. ASSUME NEW out
      PROVE  out \in ToAdd' <=> out \in MadeBy(AllTxs(block))
  <2>1. out \in ToAdd' <=> \E i \in DOMAIN block.txs : \E n \in DOMAIN block.txs[i].outputs :
                             out = Outpoint(block.txs[i], n)
    BY <1>1, <1>3, AheadOfLoopNext
  <2> QED BY <2>1 DEF MadeBy, AllTxs
<1>5. ASSUME NEW out
      PROVE  out \in ToRemove' <=> out \in SpentByBlock
  <2>1. out \in ToRemove' <=> \E i \in DOMAIN block.txs : \E k \in DOMAIN block.txs[i].inputs :
                                out = block.txs[i].inputs[k].prev
    BY <1>1, <1>3, AheadOfLoopNext
  <2> QED BY <2>1 DEF SpentByBlock, AllTxs, SpentOutpoints
<1>6. \A out \in ToAdd' : out[1] \notin Past
  <2>1. \A out \in MadeBy(AllTxs(block)) : \E tx \in AllTxs(block) : out[1] = tx.id
    BY DEF MadeBy, Outpoint
  <2> QED BY <1>1, <1>4, <2>1 DEF SpendInv, Fresh
<1>7. (\A out \in SpentByBlock : out[1] \in Past) /\ (\A out \in DOMAIN utxo_pool : out[1] \in Past)
  <2>1. \A tx \in AllTxs(block) : tx \in Owners
    BY <1>1 DEF Owners, StoredTxs
  <2>2. Seen = Past
    BY <1>1 DEF Seen
  <2> QED BY <2>1, <2>2 DEF SpendInv, OnlyPast, SpentByBlock
<1> QED BY <1>4, <1>5, <1>6, <1>7

\* Once the block is in the chain the pools are as good as updated.
LEMMA BeginPoolsAccepts ==
  ASSUME SpendInv, BeginPools
  PROVE  \E txs \in SUBSET PendingWhenUpdated,
            reward \in DOMAIN PoolWhenWritten' \ DOMAIN PoolWhenWritten : L!Accept(txs, reward)
<1> DEFINE txs == {block.txs[i] : i \in 2..Len(block.txs)}
           coinbase == block.txs[1]
           reward == Outpoint(coinbase, 1)
<1>1. /\ UNCHANGED <<utxo_pool, mempool, block, blockchain_db, torn>>
      /\ cmd = "adding" /\ cmd' = "pools" /\ block \in blockchain_db
      /\ pool_tx' = 1 /\ pool_out' = 1 /\ pool_in' = 1
  BY DEF BeginPools, StartUpdatePools, poolDisk, chainVars, memVars, history, SpendInv, Control,
     Accepting
<1>2. /\ block.txs \in Seq(ToSet(block.txs)) /\ Len(block.txs) > 0
      /\ \A i \in DOMAIN block.txs : IsTx(block.txs[i])
      /\ coinbase.inputs = <<>> /\ Len(coinbase.outputs) = 1
      /\ \A i \in 2..Len(block.txs) : /\ block.txs[i] \in ToSet(mempool)
                                      /\ block.txs[i].inputs # <<>>
      /\ \A i, j \in DOMAIN block.txs : block.txs[i].id = block.txs[j].id => i = j
  BY <1>1 DEF SpendInv, BlockShape, Handling, Accepting
<1>3. \A i \in DOMAIN block.txs : i \in Int /\ i >= 1 /\ (i = 1 \/ i \in 2..Len(block.txs))
  BY <1>2
<1>4. /\ \A tx \in txs : tx \in AllTxs(block) /\ tx \in ToSet(mempool) /\ tx.inputs # <<>>
      /\ coinbase \in AllTxs(block) /\ coinbase \notin txs
      /\ \A tx \in AllTxs(block) : tx = coinbase \/ tx \in txs
      /\ \A tx \in AllTxs(block) : tx.id \notin Past
      /\ \A t, u \in AllTxs(block) : t.id = u.id => t = u
  <2>1. \A i \in 2..Len(block.txs) : i \in DOMAIN block.txs /\ block.txs[i].id # coinbase.id
    BY <1>2
  <2> QED BY <1>1, <1>2, <1>3, <2>1 DEF AllTxs, SpendInv, Fresh
<1>5. SpentByBlock = (UNION {SpentOutpoints(tx) : tx \in txs})
  BY <1>2, <1>4, NothingInHand DEF SpentByBlock
<1> HIDE DEF txs
<1>6. \A tx : L!Spends(tx) = SpentOutpoints(tx)
  BY DEF L!Spends, SpentOutpoints
<1>7. L!SpentBy(txs) = SpentByBlock
  BY <1>5, <1>6 DEF L!SpentBy
<1>8. ASSUME NEW tx, NEW out
      PROVE  out \in L!Makes(tx) <=> \E n \in DOMAIN tx.outputs : out = Outpoint(tx, n)
  BY DEF L!Makes, Outpoint
<1>9. ASSUME NEW out
      PROVE  out \in ToAdd' <=> out \in L!MadeBy(txs) \/ out = reward
  <2>1. out \in ToAdd' <=> out \in MadeBy(AllTxs(block))
    BY WholeBlockAhead
  <2>2. out \in ToAdd' <=> \E tx \in AllTxs(block) : out \in L!Makes(tx)
    BY <1>8, <2>1 DEF MadeBy
  <2>3. out \in L!Makes(coinbase) <=> out = reward
    <3>1. DOMAIN coinbase.outputs = {1}
      <4>1. IsTx(coinbase)
        BY <1>2
      <4>2. coinbase.outputs \in Seq(ToSet(coinbase.outputs))
        BY <4>1 DEF IsTx
      <4> HIDE DEF coinbase
      <4>3. DOMAIN coinbase.outputs = 1..1
        BY <1>2, <4>2
      <4> QED BY <4>3
    <3> QED BY <1>8, <3>1
  <2>4. out \in L!MadeBy(txs) <=> \E tx \in txs : out \in L!Makes(tx)
    BY DEF L!MadeBy
  <2> QED BY <1>4, <2>2, <2>3, <2>4
<1>10. ToRemove' = SpentByBlock
  BY WholeBlockAhead
<1>11. \A out \in ToAdd' : out[1] \notin Past
  BY WholeBlockAhead
<1>12. (\A out \in SpentByBlock : out[1] \in Past) /\ (\A out \in DOMAIN utxo_pool : out[1] \in Past)
  BY WholeBlockAhead
<1>13. PoolWhenWritten = [out \in DOMAIN utxo_pool |-> utxo_pool[out]]
  BY <1>1, PoolElsewhere
<1>14. DOMAIN PoolWhenWritten' = (DOMAIN PoolWhenWritten \ L!SpentBy(txs)) \cup L!MadeBy(txs) \cup {reward}
  BY <1>1, <1>7, <1>9, <1>10, <1>11, <1>12, <1>13, PoolWrittenNext
<1>15. ASSUME NEW out \in L!MadeBy(txs)
       PROVE  PoolWhenWritten'[out] = L!OutputOf(out, txs)
  <2>1. PICK tx \in txs : out \in L!Makes(tx)
    BY DEF L!MadeBy
  <2>2. \A t \in AllTxs(block) : out \in L!Makes(t) => t.id = out[1]
    BY DEF L!Makes
  <2>3. tx \in AllTxs(block) /\ tx.id = out[1]
    BY <1>4, <2>1, <2>2
  <2>4. \A t \in AllTxs(block) : t.id = out[1] => t = tx
    BY <1>4, <2>3
  <2>5. Maker(out)' = tx
    BY <1>1, <2>3, <2>4 DEF Maker
  <2>6. (CHOOSE t \in txs : out \in L!Makes(t)) = tx
    BY <1>4, <2>1, <2>2, <2>4
  <2>7. out \in ToAdd' /\ out \in DOMAIN PoolWhenWritten'
    BY <1>9, <1>14
  <2>8. PoolWhenWritten'[out] = (Maker(out).outputs[out[2] + 1])'
    BY <2>7, PoolWrittenNext
  <2> QED BY <2>5, <2>6, <2>8 DEF L!OutputOf
<1>16. ASSUME NEW out \in DOMAIN PoolWhenWritten' , out \in DOMAIN PoolWhenWritten
       PROVE  PoolWhenWritten'[out] = PoolWhenWritten[out]
  <2>1. out \notin ToAdd' /\ out \in DOMAIN utxo_pool
    BY <1>11, <1>12, <1>13, <1>16
  <2> QED BY <1>1, <1>13, <2>1, PoolWrittenNext
<1>17. reward \in DOMAIN PoolWhenWritten' \ DOMAIN PoolWhenWritten
  <2>1. reward \in ToAdd'
    BY <1>9
  <2> QED BY <1>11, <1>12, <1>13, <1>14, <2>1
<1>18. PendingWhenUpdated = ToSet(mempool) /\ txs \subseteq PendingWhenUpdated
  BY <1>1, <1>4, PendingIs
<1>19. PendingWhenUpdated' = PendingWhenUpdated \ txs
  <2>1. PendingWhenUpdated' = {tx \in ToSet(mempool) : SpentOutpoints(tx) \cap SpentByBlock = {}}
    BY <1>1, PendingIs DEF SpentByBlock
  <2>2. ASSUME NEW tx \in txs
        PROVE  SpentOutpoints(tx) \cap SpentByBlock # {}
    <3>1. IsTx(tx) /\ tx.inputs # <<>>
      BY <1>2, <1>4 DEF AllTxs
    <3>2. tx.inputs[1].prev \in SpentOutpoints(tx)
      BY <3>1 DEF IsTx, SpentOutpoints
    <3>3. tx.inputs[1].prev \in SpentByBlock
      BY <1>5, <3>2 DEF SpentByBlock
    <3> QED BY <3>2, <3>3
  <2>3. ASSUME NEW tx \in ToSet(mempool), tx \notin txs
        PROVE  SpentOutpoints(tx) \cap SpentByBlock = {}
    <3>1. \A u \in txs : SpentOutpoints(tx) \cap SpentOutpoints(u) = {}
      <4>1. tx \in Owners /\ \A u \in txs : u \in Owners /\ u # tx
        BY <1>4, <2>3 DEF Owners
      <4> QED BY <4>1 DEF SpendInv, Apart
    <3> QED BY <1>5, <3>1
  <2> QED BY <1>18, <2>1, <2>2, <2>3
<1>20. PoolWhenWritten' =
         [out \in (DOMAIN PoolWhenWritten \ L!SpentBy(txs)) \cup L!MadeBy(txs) \cup {reward} |->
            IF out \in DOMAIN PoolWhenWritten THEN PoolWhenWritten[out]
            ELSE IF out \in L!MadeBy(txs) THEN L!OutputOf(out, txs)
            ELSE PoolWhenWritten'[out]]
  <2>1. PoolWhenWritten' = [out \in DOMAIN PoolWhenWritten' |-> PoolWhenWritten'[out]]
    BY DEF PoolWhenWritten
  <2> HIDE DEF reward
  <2> QED BY <1>14, <1>15, <1>16, <2>1
<1>21. L!Accept(txs, reward)
  BY <1>1, <1>19, <1>20 DEF L!Accept
<1> QED BY <1>17, <1>18, <1>21

\* mempool_add adds to the set of what waits, and to nothing else.
LEMMA OneMoreWaits ==
  ASSUME SpendInv, Offer
  PROVE  \/ M!InMempool(building.id) /\ mempool' = mempool
         \/ /\ ~M!InMempool(building.id)
            /\ \A tx : tx \in ToSet(mempool') <=> tx \in ToSet(mempool) \/ tx = building
<1>1. CASE M!InMempool(building.id)
  BY <1>1 DEF Offer, M!MempoolAdd, M!poolVars
<1>2. CASE ~M!InMempool(building.id)
  <2>1. mempool' = Append(mempool, building) /\ mempool \in Seq(ToSet(mempool))
    BY <1>2 DEF Offer, M!MempoolAdd, SpendInv, Tables
  <2>2. /\ DOMAIN mempool' = 1..(Len(mempool) + 1) /\ DOMAIN mempool = 1..Len(mempool)
        /\ Len(mempool) \in Nat
        /\ mempool'[Len(mempool) + 1] = building
        /\ \A k \in 1..Len(mempool) : mempool'[k] = mempool[k]
    BY <2>1, AppendProperties
  <2>3. \A k \in DOMAIN mempool' : k \in DOMAIN mempool \/ k = Len(mempool) + 1
    BY <2>2
  <2> QED BY <1>2, <2>2, <2>3 DEF ToSet
<1> QED BY <1>1, <1>2

\* mempool_add: the payment can be mined, with all the others.
LEMMA OfferOffers ==
  ASSUME SpendInv, Offer
  PROVE  Unseen \/ \E tx \in PendingWhenUpdated' \ PendingWhenUpdated : L!Offer(tx)
<1>1. /\ UNCHANGED <<utxo_pool, torn>> /\ cmd = "offer" /\ cmd' = "idle"
      /\ M!MempoolAdd(building)
  BY DEF Offer, blockVars, history
<1>2. PoolWhenWritten' = PoolWhenWritten /\ PoolWhenWritten = [out \in DOMAIN utxo_pool |-> utxo_pool[out]]
  BY <1>1, PoolElsewhere
<1>3. PendingWhenUpdated = ToSet(mempool) /\ PendingWhenUpdated' = ToSet(mempool')
  BY <1>1, PendingIs
<1>4. CASE M!InMempool(building.id)
  BY <1>1, <1>2, <1>3, <1>4 DEF M!MempoolAdd, M!poolVars, Unseen
<1>5. CASE ~M!InMempool(building.id)
  <2>1. \A tx \in ToSet(mempool) : tx # building
    BY <1>5 DEF M!InMempool, ToSet
  <2>3. \A tx : tx \in ToSet(mempool') <=> tx \in ToSet(mempool) \/ tx = building
    BY <1>5, OneMoreWaits
  <2>4. \A tx : L!Spends(tx) = SpentOutpoints(tx)
    BY DEF L!Spends, SpentOutpoints
  <2>5. L!Payable(building)
    <3>1. L!Cardinality(L!Spends(building)) = Len(building.inputs)
      <4>1. Cardinality(L!Spends(building)) = Len(building.inputs)
        BY <2>4, AllInputsCount DEF SpendInv, Owners
      <4>2. L!Cardinality(L!Spends(building)) = Cardinality(L!Spends(building))
        BY DEF L!Cardinality, Cardinality
      <4> QED BY <4>1, <4>2
    <3>2. \A k \in DOMAIN building.inputs :
            /\ building.inputs[k].prev \in DOMAIN PoolWhenWritten
            /\ building.inputs[k].key = PoolWhenWritten[building.inputs[k].prev].key
            /\ building.inputs[k].signed
      BY <1>2 DEF SpendInv, BuildingPayable
    <3> QED BY <3>1, <3>2 DEF L!Payable
  <2>6. L!Spends(building) \cap L!SpentBy(PendingWhenUpdated) = {}
    <3>1. \A tx \in ToSet(mempool) : SpentOutpoints(building) \cap SpentOutpoints(tx) = {}
      BY <2>1 DEF SpendInv, Apart, Owners
    <3> QED BY <1>3, <2>4, <3>1 DEF L!SpentBy
  <2>7. PendingWhenUpdated' = PendingWhenUpdated \cup {building}
    BY <1>3, <2>3
  <2>8. building \in PendingWhenUpdated' \ PendingWhenUpdated
    BY <1>3, <2>1, <2>7
  <2>9. L!Offer(building)
    BY <1>1, <1>2, <2>5, <2>6, <2>7 DEF L!Offer
  <2> QED BY <2>8, <2>9
<1> QED BY <1>4, <1>5

\* The end of the process: at the prompt, or in the middle of a command.
LEMMA HaltForgets ==
  ASSUME SpendInv, NEW why, Halt(why), Idle
  PROVE  PoolWhenWritten' = PoolWhenWritten /\ PendingWhenUpdated' = {}
<1>1. utxo_pool' = utxo_pool /\ mempool' = <<>> /\ cmd = "idle" /\ cmd' = "boot"
  BY DEF Halt, Idle
<1> QED BY <1>1, PoolElsewhere, PendingIs, NothingInHand

LedgerUnchanged == UNCHANGED <<PoolWhenWritten, PendingWhenUpdated, ~torn>>

LEMMA StepIsLedger ==
  ASSUME SpendInv, [Next]_vars
  PROVE  L!Next \/ LedgerUnchanged
<1>1. ASSUME Unseen, torn' = torn
      PROVE  LedgerUnchanged
  BY <1>1 DEF Unseen, LedgerUnchanged
<1>2. ASSUME torn, torn'
      PROVE  L!Next
  BY <1>2 DEF L!Next
<1>3. CASE Boot \/ BootStep \/ InitDone \/ AcceptBlock \/ RejectBlock \/ AddToChain
  <2>1. /\ UNCHANGED <<utxo_pool, mempool, torn>>
        /\ cmd \notin {"pools", "mempool"} /\ cmd' \notin {"pools", "mempool"}
    <3>1. CASE Boot
      BY <3>1 DEF Boot, BlockchainInit, blockVars, memVars, history, SpendInv, Control
    <3>2. CASE BootStep \/ AddToChain
      BY <3>2 DEF BootStep, AddToChain, blockVars, memVars, history
    <3>3. CASE InitDone
      BY <3>3 DEF InitDone, blockVars, history, SpendInv, Control
    <3>4. CASE AcceptBlock \/ RejectBlock
      BY <3>4 DEF AcceptBlock, StartAdd, RejectBlock, blockVars, memVars, history
    <3> QED BY <1>3, <3>1, <3>2, <3>3, <3>4
  <2> QED BY <1>1, <2>1, QuietUnseen
<1>4. CASE \/ Mine /\ FeesKnown
           \/ \E dest \in Dests, amt \in AMOUNTS, fee \in FEES : CreateTx(dest, amt, fee)
           \/ BuildStep \/ BuildDone
  <2>1. /\ UNCHANGED <<utxo_pool, mempool, torn>>
        /\ cmd \notin {"pools", "mempool"} /\ cmd' \notin {"pools", "mempool"}
    BY <1>4 DEF Mine, CreateBlock, CreateTx, BuildStep, BuildDone, Idle, blockVars, memVars, history
  <2> QED BY <1>1, <2>1, QuietUnseen
<1>5. CASE UpdatePools
  BY <1>1, <1>5, UpdatePoolsUnseen DEF UpdatePools, history
<1>6. CASE BeginMempool \/ UpdateMempool \/ MineDone
  BY <1>1, <1>6, UpdateMempoolUnseen DEF BeginMempool, UpdateMempool, MineDone, history
<1>7. CASE BeginPools
  <2>1. torn' = torn
    BY <1>7 DEF BeginPools, history
  <2> QED BY <1>2, <1>7, <2>1, BeginPoolsAccepts DEF L!Next
<1>8. CASE Offer
  <2>1. torn' = torn
    BY <1>8 DEF Offer, history
  <2> QED BY <1>1, <1>2, <1>8, <2>1, OfferOffers DEF L!Next
<1>9. ASSUME NEW why, Halt(why), Idle, torn' = torn
      PROVE  L!Next
  <2>1. PoolWhenWritten' = PoolWhenWritten /\ PendingWhenUpdated' = {}
    BY <1>9, HaltForgets
  <2>2. L!Forget
    BY <1>9, <2>1 DEF L!Forget
  <2> QED BY <1>2, <1>9, <2>2 DEF L!Next
<1>10. CASE Mine /\ ~FeesKnown
  BY <1>9, <1>10 DEF Mine
<1>11. CASE (\E amt \in AMOUNTS, fee \in FEES : CreateTxExits(amt, fee)) \/ ShellExit
  BY <1>9, <1>11 DEF CreateTxExits, ShellExit
<1>12. CASE Kill
  <2>1. Halt("killed") /\ torn' = (torn \/ ~Idle)
    BY <1>12 DEF Kill
  <2>2. CASE torn
    BY <1>2, <2>1, <2>2
  <2>3. CASE ~torn /\ ~Idle
    <3>1. L!Lose
      BY <2>1, <2>3 DEF L!Lose
    <3> QED BY <2>3, <3>1 DEF L!Next
  <2>4. CASE ~torn /\ Idle
    <3>1. L!Forget
      BY <2>1, <2>4, HaltForgets DEF L!Forget
    <3> QED BY <2>4, <3>1 DEF L!Next
  <2> QED BY <2>2, <2>3, <2>4
<1>13. CASE UNCHANGED vars
  <2>1. UNCHANGED <<utxo_pool, mempool, torn, block, cmd, poolLoop>>
    BY <1>13 DEF vars, blockVars, memVars, history
  <2>2. Unseen
    BY <2>1 DEF Unseen, PoolWhenWritten, PendingWhenUpdated, ToAdd, ToRemove, TxsAhead, poolLoop
  <2> QED BY <1>1, <2>1, <2>2
<1> QED BY <1>3, <1>4, <1>5, <1>6, <1>7, <1>8, <1>10, <1>11, <1>12, <1>13 DEF Next, Command, Run

\* However many writes accept_block makes, a block replaces the unspent outputs
\* and the waiting payments in one step, taken when update_local_blockchain has
\* returned; a payment is only taken on if it can be mined with all the others;
\* and a restart between two commands only forgets what waits.
THEOREM NodeImplementsLedger == Spec => LedgerSpec
<1>1. Init => L!Init
  <2> SUFFICES ASSUME Init
               PROVE  L!Init
    OBVIOUS
  <2>1. utxo_pool = <<>> /\ mempool = <<>> /\ cmd = "boot" /\ torn = FALSE
    BY DEF Init, HandleBlockInit, M!MempoolInit
  <2>2. PoolWhenWritten = <<>>
    <3>1. PoolWhenWritten = [out \in {} |-> utxo_pool[out]]
      BY <2>1, PoolElsewhere
    <3> QED BY <3>1
  <2>3. PendingWhenUpdated = {}
    BY <2>1, PendingIs, NothingInHand
  <2> QED BY <2>1, <2>2, <2>3 DEF L!Init
<1>2. SpendInv /\ [Next]_vars => L!Next \/ LedgerUnchanged
  BY StepIsLedger
<1>3. LedgerUnchanged => UNCHANGED L!vars
  BY DEF LedgerUnchanged, L!vars
<1> QED BY <1>1, <1>2, <1>3, SpendInvariant, PTL DEF Spec, LedgerSpec, L!Spec

-----------------------------------------------------------------------------
(* What a Ledger promises of the payments that wait, and so the node does. *)

Waiting == PendingWhenUpdated

\* No two of them spend the same output, and each can be mined.
WaitingDisjoint == \A t, u \in Waiting : t # u => L!Spends(t) \cap L!Spends(u) = {}
WaitingPayable  == \A tx \in Waiting : L!Payable(tx)

WaitInv == ~torn => WaitingDisjoint /\ WaitingPayable

\* A block leaves what a payment that is not in it spends.
LEMMA AcceptSpares ==
  ASSUME WaitingDisjoint, NEW txs \in SUBSET Waiting, NEW reward, L!Accept(txs, reward),
         NEW tx \in Waiting \ txs, L!Payable(tx)
  PROVE  L!Payable(tx)'
<1>1. ASSUME NEW out \in L!Spends(tx)
      PROVE  out \in DOMAIN PoolWhenWritten' /\ PoolWhenWritten'[out] = PoolWhenWritten[out]
  <2>1. out \in DOMAIN PoolWhenWritten
    BY <1>1 DEF L!Payable, L!Spends
  <2>2. out \notin L!SpentBy(txs)
    <3>1. \A u \in txs : out \notin L!Spends(u)
      BY <1>1 DEF WaitingDisjoint
    <3> QED BY <3>1 DEF L!SpentBy
  <2> QED BY <2>1, <2>2, Zenon DEF L!Accept
<1>2. \A k \in DOMAIN tx.inputs : tx.inputs[k].prev \in L!Spends(tx)
  BY DEF L!Spends
<1> QED BY <1>1, <1>2 DEF L!Payable, L!Spends

LEMMA WaitInit == L!Init => WaitInv
BY DEF L!Init, WaitInv, Waiting, WaitingDisjoint, WaitingPayable

LEMMA WaitStep ==
  ASSUME WaitInv, [L!Next]_(L!vars)
  PROVE  WaitInv'
<1> SUFFICES ASSUME ~torn'
             PROVE  WaitingDisjoint' /\ WaitingPayable'
  BY DEF WaitInv
<1>1. ASSUME ~torn, NEW tx, L!Offer(tx)
      PROVE  WaitingDisjoint' /\ WaitingPayable'
  <2>1. \A u \in Waiting : L!Spends(tx) \cap L!Spends(u) = {}
    BY <1>1 DEF L!Offer, L!SpentBy, Waiting
  <2>2. WaitingDisjoint'
    BY <1>1, <2>1 DEF L!Offer, WaitInv, WaitingDisjoint, Waiting
  <2>3. \A t : L!Payable(t) => L!Payable(t)'
    BY <1>1 DEF L!Offer, L!Payable, L!Spends
  <2>4. WaitingPayable'
    BY <1>1, <2>3 DEF L!Offer, WaitInv, WaitingPayable, Waiting
  <2> QED BY <2>2, <2>4
<1>2. ASSUME ~torn, NEW txs \in SUBSET Waiting, NEW reward, L!Accept(txs, reward)
      PROVE  WaitingDisjoint' /\ WaitingPayable'
  <2>1. Waiting' = Waiting \ txs
    BY <1>2 DEF L!Accept, Waiting
  <2>2. WaitingDisjoint'
    BY <1>2, <2>1 DEF WaitInv, WaitingDisjoint
  <2>3. WaitingPayable'
    BY <1>2, <2>1, AcceptSpares DEF WaitInv, WaitingPayable
  <2> QED BY <2>2, <2>3
<1>3. CASE L!Forget
  BY <1>3 DEF L!Forget, Waiting, WaitingDisjoint, WaitingPayable
<1>4. CASE UNCHANGED L!vars
  BY <1>4 DEF L!vars, WaitInv, Waiting, WaitingDisjoint, WaitingPayable, L!Payable, L!Spends
<1> QED BY <1>1, <1>2, <1>3, <1>4 DEF L!Next, L!Lose, Waiting

\* What a Ledger promises, whatever its blocks leave out: every payment that waits
\* shows the keys of outputs that are there and takes nothing away from another.
THEOREM LedgerKeepsPayable == LedgerSpec => []WaitInv
<1>1. WaitInv /\ [L!Next]_(L!vars) => WaitInv'
  BY WaitStep
<1> QED BY WaitInit, <1>1, PTL DEF LedgerSpec, L!Spec

\* The node is a Ledger, so it keeps that promise as long as nothing is torn: the
\* miner can take any number of the payments that wait, and calc_tx_fees and
\* validate_input find what each of them spends.
THEOREM AlwaysPayable == Spec => [](~torn => WaitingDisjoint /\ WaitingPayable)
<1>1. WaitInv => (~torn => WaitingDisjoint /\ WaitingPayable)
  BY DEF WaitInv
<1> QED BY NodeImplementsLedger, LedgerKeepsPayable, <1>1, PTL

-----------------------------------------------------------------------------
(* The wallet and the UTXO pool.                                           *)
(*                                                                         *)
(* WalletMirrorsPool speaks of the time between two commands.  Within one, *)
(* the wallet lags behind the UTXO pool by the one output the loop has     *)
(* half written; and the node's own outputs stay its own when a key is     *)
(* made, because nothing was ever locked with a key that did not exist.    *)

IsOutput(output) == output = [amt |-> output.amt, key |-> output.key]

\* In the UTXO pool already, and not yet in the wallet.
Entering(out) ==
  /\ cmd = "pools" /\ half /\ pool_tx <= Len(block.txs)
  /\ pool_out <= Len(CurrentTx.outputs)
  /\ out = Outpoint(CurrentTx, pool_out)

\* Gone from the UTXO pool, and still in the wallet.
Leaving(out) ==
  /\ cmd = "pools" /\ half /\ pool_tx <= Len(block.txs)
  /\ ~(pool_out <= Len(CurrentTx.outputs))
  /\ out = CurrentTx.inputs[pool_in].prev

\* Every output in the pool is, for all time, the node's own or a stranger's.
Decided ==
  /\ \A out \in DOMAIN utxo_pool :
       /\ IsOutput(utxo_pool[out])
       /\ utxo_pool[out].key = Foreign \/ utxo_pool[out].key \in key_pool
  /\ \A out : Entering(out) => CurrentTx.outputs[pool_out].key \in key_pool
  /\ building.id \in Nat

\* What can come to the pool is an output.
OutputsOnly ==
  \A tx \in ToSet(mempool) \cup AllTxs(block) \cup {building} :
    \A n \in DOMAIN tx.outputs : IsOutput(tx.outputs[n])

Mirrored ==
  \A out :
    /\ out \in DOMAIN wallet_pool /\ ~Leaving(out) <=>
         out \in DOMAIN utxo_pool /\ ~Entering(out) /\ utxo_pool[out].key \in key_pool
    /\ out \in DOMAIN wallet_pool /\ out \in DOMAIN utxo_pool =>
         wallet_pool[out].amt = utxo_pool[out].amt /\ wallet_pool[out].key = utxo_pool[out].key

MirrorInv == Decided /\ OutputsOnly /\ (~torn => Mirrored)

\* Nothing is half written outside of the loop.
LEMMA NotBetween ==
  /\ cmd # "pools" \/ ~half \/ ~(pool_tx <= Len(block.txs)) =>
       \A out : ~Entering(out) /\ ~Leaving(out)
  /\ cmd' # "pools" \/ ~half' \/ ~(pool_tx' <= Len(block'.txs)) =>
       \A out : ~Entering(out)' /\ ~Leaving(out)'
BY DEF Entering, Leaving

\* Marks do not matter, nor does a new key.
LEMMA SameMirror ==
  ASSUME MirrorInv, OutputsOnly', utxo_pool' = utxo_pool,
         DOMAIN wallet_pool' = DOMAIN wallet_pool,
         \A out \in DOMAIN wallet_pool : /\ wallet_pool'[out].amt = wallet_pool[out].amt
                                         /\ wallet_pool'[out].key = wallet_pool[out].key,
         \A out : ~Entering(out) /\ ~Leaving(out),
         \A out : ~Entering(out)' /\ ~Leaving(out)',
         NEW id \in Nat, key_pool' \in {key_pool, key_pool \cup {id}},
         building'.id \in Nat, torn => torn'
  PROVE  MirrorInv'
<1>1. \A out \in DOMAIN utxo_pool : utxo_pool[out].key \in key_pool' <=> utxo_pool[out].key \in key_pool
  BY ForeignAssumption DEF MirrorInv, Decided
<1>2. Decided'
  BY <1>1 DEF MirrorInv, Decided
<1>3. ~torn' => Mirrored'
  BY <1>1 DEF MirrorInv, Mirrored
<1> QED BY <1>2, <1>3 DEF MirrorInv

\* The output a write is about to add is new to the wallet.
LEMMA NewToWallet ==
  ASSUME SpendInv, UpdatePools, pool_out \in DOMAIN CurrentTx.outputs
  PROVE  Outpoint(CurrentTx, pool_out) \notin DOMAIN wallet_pool
<1> DEFINE out == Outpoint(CurrentTx, pool_out)
<1>1. /\ CurrentTx.id \notin Past /\ CurrentTx = block.txs[pool_tx] /\ pool_tx \in DOMAIN block.txs
      /\ pool_tx \in Nat /\ pool_out \in Nat /\ cmd = "pools" /\ Handling
  BY UpdatePoolsFrame DEF Handling, Accepting
<1>2. ~Written(out)
  <2>1. ASSUME NEW i \in DOMAIN block.txs, NEW n \in DOMAIN block.txs[i].outputs,
               out = Outpoint(block.txs[i], n)
        PROVE  i = pool_tx /\ n = pool_out
    <3>1. block.txs[i].id = CurrentTx.id /\ n - 1 = pool_out - 1
      BY <2>1 DEF Outpoint
    <3>2. i = pool_tx
      BY <1>1, <3>1 DEF SpendInv, BlockShape
    <3>3. n \in Int
      BY <1>1, <2>1 DEF SpendInv, BlockShape, IsTx
    <3> QED BY <1>1, <3>1, <3>2, <3>3
  <2> QED BY <1>1, <2>1 DEF Written
<1>3. out[1] = CurrentTx.id
  BY DEF Outpoint
<1> QED BY <1>1, <1>2, <1>3 DEF SpendInv, OnlyPast

\* A write to a pool: the wallet follows.
LEMMA UpdatePoolsMirror ==
  ASSUME SpendInv, KeysInv, MirrorInv, UpdatePools
  PROVE  MirrorInv'
<1>1. /\ UNCHANGED <<cmd, block, building, mempool, key_pool, torn>>
      /\ cmd = "pools" /\ Handling
      /\ pool_tx \in DOMAIN block.txs /\ CurrentTx = block.txs[pool_tx] /\ CurrentTx \in AllTxs(block)
      /\ IsTx(CurrentTx) /\ block.txs \in Seq(ToSet(block.txs))
      /\ pool_tx \in Nat \ {0} /\ pool_out \in Nat \ {0} /\ pool_in \in Nat \ {0}
      /\ PutOutput \/ DeleteInput \/ NextPoolTx
  BY UpdatePoolsFrame
     DEF UpdatePools, history, PutOutput, DeleteInput, NextPoolTx, poolDisk, SpendInv, BlockShape,
         Handling, Accepting
<1>2. pool_tx <= Len(block.txs)
  <2>1. pool_tx \in DOMAIN block.txs /\ block.txs \in Seq(ToSet(block.txs))
    BY UpdatePoolsFrame DEF SpendInv, BlockShape, Handling, Accepting
  <2> QED BY <2>1
<1>3. OutputsOnly'
  BY <1>1 DEF MirrorInv, OutputsOnly, AllTxs
<1>4. pool_tx' = pool_tx => CurrentTx' = CurrentTx
  BY <1>1 DEF CurrentTx
<1>5. CASE PutOutput
  <2> DEFINE out == Outpoint(CurrentTx, pool_out)
             output == CurrentTx.outputs[pool_out]
  <2>1. /\ pool_out <= Len(CurrentTx.outputs) /\ pool_out \in DOMAIN CurrentTx.outputs
        /\ pool_tx' = pool_tx /\ CurrentTx' = CurrentTx
        /\ half' = (~half /\ output.key \in key_pool)
        /\ half' => pool_out' = pool_out
    BY <1>1, <1>4, <1>5 DEF PutOutput, IsTx, Unlockable
  <2>2. IsOutput(output) /\ (output.key = Foreign \/ output.key \in key_pool)
    BY <1>1, <2>1 DEF MirrorInv, OutputsOnly, KeysInv, KeyedBlock, Keyed
  <2>3. out \notin DOMAIN wallet_pool
    BY <2>1, NewToWallet
  <2>4. \A o : /\ Entering(o)' <=> half' /\ o = out
               /\ ~Leaving(o)' /\ ~Leaving(o)
               /\ Entering(o) <=> half /\ o = out
    <3>1. \A o : Entering(o)' <=> half' /\ o = out
      BY <1>1, <1>2, <2>1 DEF Entering
    <3>2. \A o : ~Leaving(o)'
      BY <1>1, <2>1 DEF Leaving
    <3>3. \A o : ~Leaving(o) /\ (Entering(o) <=> half /\ o = out)
      BY <1>1, <1>2, <2>1 DEF Entering, Leaving
    <3> QED BY <3>1, <3>2, <3>3
  <2>5. CASE ~half
    <3>1. /\ wallet_pool' = wallet_pool
          /\ DOMAIN utxo_pool' = DOMAIN utxo_pool \cup {out} /\ utxo_pool'[out] = output
          /\ \A o \in DOMAIN utxo_pool : o # out => utxo_pool'[o] = utxo_pool[o]
      BY <1>5, <2>5 DEF PutOutput, Put
    <3>2. \A o : Entering(o)' => CurrentTx'.outputs[pool_out'].key \in key_pool'
      BY <1>1, <2>1, <2>4
    <3> HIDE DEF out, output
    <3>3. Decided'
      BY <1>1, <2>2, <3>1, <3>2 DEF MirrorInv, Decided
    <3>4. ~torn' => Mirrored'
      BY <1>1, <2>1, <2>2, <2>3, <2>4, <2>5, <3>1 DEF MirrorInv, Mirrored
    <3> QED BY <1>3, <3>3, <3>4 DEF MirrorInv
  <2>6. CASE half
    <3>1. /\ utxo_pool' = utxo_pool
          /\ DOMAIN wallet_pool' = DOMAIN wallet_pool \cup {out}
          /\ wallet_pool'[out] = WalletEntry(output)
          /\ \A o \in DOMAIN wallet_pool : o # out => wallet_pool'[o] = wallet_pool[o]
      BY <1>5, <2>6 DEF PutOutput, Put
    <3>2. out \in DOMAIN utxo_pool /\ utxo_pool[out] = output
      BY <1>1, <1>2, <2>1, <2>6 DEF SpendInv, HalfWritten
    <3>3. output.key \in key_pool
      BY <2>4, <2>6 DEF MirrorInv, Decided
    <3>4. wallet_pool'[out].amt = output.amt /\ wallet_pool'[out].key = output.key
      BY <3>1 DEF WalletEntry
    <3>5. ~half'
      BY <2>1, <2>6
    <3> HIDE DEF out, output
    <3>6. Decided'
      BY <1>1, <2>4, <3>1, <3>5 DEF MirrorInv, Decided
    <3>7. ~torn' => Mirrored'
      BY <1>1, <2>3, <2>4, <2>6, <3>1, <3>2, <3>3, <3>4, <3>5 DEF MirrorInv, Mirrored
    <3> QED BY <1>3, <3>6, <3>7 DEF MirrorInv
  <2> QED BY <2>5, <2>6
<1>6. CASE DeleteInput
  <2> DEFINE out == CurrentTx.inputs[pool_in].prev
  <2>1. /\ ~(pool_out <= Len(CurrentTx.outputs)) /\ pool_in <= Len(CurrentTx.inputs)
        /\ UNCHANGED <<pool_tx, pool_out>> /\ CurrentTx' = CurrentTx
        /\ half' = ~half
        /\ ~half => pool_in' = pool_in
    BY <1>1, <1>4, <1>6 DEF DeleteInput, IsTx
  <2>2. \A o : /\ Leaving(o)' <=> half' /\ o = out
               /\ ~Entering(o)' /\ ~Entering(o)
               /\ Leaving(o) <=> half /\ o = out
    <3>1. \A o : Leaving(o)' <=> half' /\ o = out
      BY <1>1, <1>2, <2>1 DEF Leaving
    <3>2. \A o : ~Entering(o)' /\ ~Entering(o)
      BY <1>1, <2>1 DEF Entering
    <3>3. \A o : Leaving(o) <=> half /\ o = out
      BY <1>1, <1>2, <2>1 DEF Leaving
    <3> QED BY <3>1, <3>2, <3>3
  <2>3. CASE ~half
    <3>1. /\ wallet_pool' = wallet_pool
          /\ DOMAIN utxo_pool' = DOMAIN utxo_pool \ {out}
          /\ \A o \in DOMAIN utxo_pool' : utxo_pool'[o] = utxo_pool[o]
      BY <1>6, <2>3 DEF DeleteInput, Delete
    <3> HIDE DEF out
    <3>2. Decided'
      BY <1>1, <2>2, <3>1 DEF MirrorInv, Decided
    <3>3. ~torn' => Mirrored'
      BY <1>1, <2>1, <2>2, <2>3, <3>1 DEF MirrorInv, Mirrored
    <3> QED BY <1>3, <3>2, <3>3 DEF MirrorInv
  <2>4. CASE half
    <3>1. /\ utxo_pool' = utxo_pool
          /\ DOMAIN wallet_pool' = DOMAIN wallet_pool \ {out}
          /\ \A o \in DOMAIN wallet_pool' : wallet_pool'[o] = wallet_pool[o]
      BY <1>6, <2>4 DEF DeleteInput, Delete
    <3>2. out \notin DOMAIN utxo_pool
      BY <1>1, <1>2, <2>1, <2>4 DEF SpendInv, HalfWritten
    <3> HIDE DEF out
    <3>3. Decided'
      BY <1>1, <2>2, <3>1 DEF MirrorInv, Decided
    <3>4. ~torn' => Mirrored'
      BY <1>1, <2>1, <2>2, <2>4, <3>1, <3>2 DEF MirrorInv, Mirrored
    <3> QED BY <1>3, <3>3, <3>4 DEF MirrorInv
  <2> QED BY <2>3, <2>4
<1>7. CASE NextPoolTx
  <2>1. /\ pool_out > Len(CurrentTx.outputs) /\ pool_in > Len(CurrentTx.inputs)
        /\ half' = half /\ UNCHANGED <<utxo_pool, wallet_pool>>
    BY <1>7 DEF NextPoolTx, poolDisk
  <2>2. Len(CurrentTx.outputs) \in Nat /\ Len(CurrentTx.inputs) \in Nat
    BY <1>1 DEF IsTx
  <2>3. ~half
    BY <1>1, <1>2, <2>1, <2>2 DEF SpendInv, HalfWritten
  <2>4. ~half'
    BY <2>1, <2>3
  <2>5. \A out : ~Entering(out) /\ ~Leaving(out)
    BY <2>3, NotBetween
  <2>6. \A out : ~Entering(out)' /\ ~Leaving(out)'
    BY <2>4, NotBetween
  <2> QED BY <1>1, <1>3, <2>1, <2>5, <2>6, SameMirror DEF MirrorInv, Decided
<1> QED BY <1>1, <1>5, <1>6, <1>7

\* Whatever is in hand comes from the mempool or from the node's own builders.
LEMMA FewerOutputs ==
  ASSUME MirrorInv,
         \A tx \in ToSet(mempool') \cup AllTxs(block') \cup {building'} :
           \/ tx \in ToSet(mempool) \cup AllTxs(block) \cup {building}
           \/ \A n \in DOMAIN tx.outputs : IsOutput(tx.outputs[n])
  PROVE  OutputsOnly'
BY DEF MirrorInv, OutputsOnly

LEMMA NothingOut == \A n \in DOMAIN NoTx.outputs : IsOutput(NoTx.outputs[n])
BY DEF NoTx

\* The process ends; if it was in the middle of a command, torn.
LEMMA HaltMirror ==
  ASSUME MirrorInv, NEW why, Halt(why), torn => torn', torn' \/ Idle
  PROVE  MirrorInv'
<1>1. /\ mempool' = <<>> /\ block' = NoBlock /\ building' = NoTx /\ cmd' = "boot"
      /\ UNCHANGED <<utxo_pool, wallet_pool, key_pool>>
  BY DEF Halt, walletDisk
<1>2. OutputsOnly'
  BY <1>1, NothingInHand, NothingOut, FewerOutputs
<1>3. \A out : ~Entering(out)'
  BY <1>1, NotBetween
<1>4. Decided'
  BY <1>1, <1>3 DEF MirrorInv, Decided, NoTx
<1>5. CASE torn'
  BY <1>2, <1>4, <1>5 DEF MirrorInv
<1>6. CASE Idle
  <2>1. /\ \A out : ~Entering(out) /\ ~Leaving(out)
        /\ \A out : ~Entering(out)' /\ ~Leaving(out)'
    BY <1>1, <1>6, NotBetween DEF Idle
  <2>2. building'.id \in Nat
    BY <1>1 DEF NoTx
  <2> QED BY <1>1, <1>2, <1>6, <2>1, <2>2, SameMirror
<1> QED BY <1>5, <1>6

\* Steps that write to none of the databases and bring no transaction.
LEMMA QuietMirror ==
  ASSUME MirrorInv, UNCHANGED <<utxo_pool, wallet_pool, key_pool, torn>>,
         mempool' \in {mempool, <<>>}, block' \in {block, NoBlock}, building' \in {building, NoTx},
         cmd # "pools" \/ ~(pool_tx <= Len(block.txs)),
         cmd' # "pools" \/ ~half'
  PROVE  MirrorInv'
<1>1. OutputsOnly'
  BY NothingInHand, NothingOut, FewerOutputs
<1>2. building'.id \in Nat
  BY DEF MirrorInv, Decided, NoTx
<1>3. \A out : ~Entering(out) /\ ~Leaving(out)
  BY NotBetween
<1>4. \A out : ~Entering(out)' /\ ~Leaving(out)'
  BY NotBetween
<1> QED BY <1>1, <1>2, <1>3, <1>4, SameMirror

\* create_block: the coinbase goes to a new key.
LEMMA MineMirror ==
  ASSUME SpendInv, MirrorInv, Mine, FeesKnown
  PROVE  MirrorInv'
<1>1. PICK id \in UnusedIds : CreateBlock(id)
  BY DEF Mine
<1>2. /\ block' = NewBlock(id) /\ cmd = "idle" /\ cmd' = "mined"
      /\ key_pool' = key_pool \cup {id}
      /\ UNCHANGED <<utxo_pool, wallet_pool, building, mempool, torn>>
  BY <1>1 DEF Mine, Idle, CreateBlock, buildVars, memVars, history
<1>3. id \in Nat
  BY IdAssumption DEF UnusedIds
<1>4. \A n \in DOMAIN CoinbaseTx(id).outputs : IsOutput(CoinbaseTx(id).outputs[n])
  <2> DEFINE out == [amt |-> CoinbaseAmount(MinerFees(TxsFromMempool, utxo_pool)), key |-> id]
  <2>1. CoinbaseTx(id).outputs = <<out>>
    BY DEF CoinbaseTx
  <2>2. IsOutput(out)
    BY DEF IsOutput
  <2> HIDE DEF out
  <2> QED BY <2>1, <2>2
<1> DEFINE txs == NewBlock(id).txs
<1>5. /\ txs \in Seq(ToSet(txs)) /\ txs[1] = CoinbaseTx(id)
      /\ \A i \in 2..Len(txs) : i - 1 \in DOMAIN mempool /\ txs[i] = mempool[i - 1]
  BY FrontOfMempool DEF SpendInv, Tables
<1>6. \A tx \in AllTxs(block') : tx = CoinbaseTx(id) \/ tx \in ToSet(mempool)
  <2>1. AllTxs(block') = {txs[i] : i \in DOMAIN txs}
    BY <1>2 DEF AllTxs
  <2> HIDE DEF txs
  <2>2. \A i \in 2..Len(txs) : txs[i] \in ToSet(mempool)
    BY <1>5 DEF ToSet
  <2>3. \A i \in DOMAIN txs : i = 1 \/ i \in 2..Len(txs)
    BY <1>5
  <2> QED BY <1>5, <2>1, <2>2, <2>3
<1>7. OutputsOnly'
  BY <1>2, <1>4, <1>6, FewerOutputs
<1>8. /\ \A out : ~Entering(out) /\ ~Leaving(out)
      /\ \A out : ~Entering(out)' /\ ~Leaving(out)'
  BY <1>2, NotBetween
<1> QED BY <1>2, <1>3, <1>7, <1>8, SameMirror DEF MirrorInv, Decided

\* build_tx: what it makes are outputs, and the change goes to a new key.
LEMMA CreateTxMirror ==
  ASSUME MirrorInv, NEW dest \in Dests, NEW amt \in AMOUNTS, NEW fee \in FEES,
         CreateTx(dest, amt, fee)
  PROVE  MirrorInv'
<1>1. PICK id \in IdsFor(dest, amt, fee) : StartBuild(id, dest, amt, fee)
  BY DEF CreateTx
<1>2. /\ building' = BuiltTx(id, dest, amt, fee) /\ cmd = "idle" /\ cmd' = "build"
      /\ UNCHANGED <<utxo_pool, wallet_pool, key_pool, mempool, block, torn>>
  BY <1>1 DEF CreateTx, StartBuild, Idle, walletDisk, blockVars, memVars, history
<1>3. id \in Nat /\ building'.id = id
  <2>1. id \in 1..MAX_TX_ID
    BY <1>1 DEF IdsFor, UnusedIds
  <2> QED BY <1>2, <2>1, IdAssumption DEF BuiltTx
<1>4. \A n \in DOMAIN building'.outputs : IsOutput(building'.outputs[n])
  <2> DEFINE out_total == OutTotal(amt, fee)
             paid == [amt |-> amt, key |-> dest]
             left == [amt |-> ChangeAmount(out_total), key |-> id]
  <2>1. building'.outputs = <<paid>> \o (IF HasChange(out_total) THEN <<left>> ELSE <<>>)
    BY <1>2 DEF BuiltTx
  <2>2. IsOutput(paid) /\ IsOutput(left)
    BY DEF IsOutput
  <2> HIDE DEF paid, left, out_total
  <2>3. building'.outputs \in Seq({paid, left})
    BY <2>1, OneOrTwo
  <2>4. \A n \in DOMAIN building'.outputs : building'.outputs[n] \in {paid, left}
    BY <2>3
  <2> QED BY <2>2, <2>4
<1>5. OutputsOnly'
  BY <1>2, <1>4, FewerOutputs
<1>6. /\ \A out : ~Entering(out) /\ ~Leaving(out)
      /\ \A out : ~Entering(out)' /\ ~Leaving(out)'
  BY <1>2, NotBetween
<1> QED BY <1>2, <1>3, <1>5, <1>6, SameMirror

\* The marks, and the change key.
LEMMA BuildMirror ==
  ASSUME SpendInv, MirrorInv, BuildStep \/ BuildDone
  PROVE  MirrorInv'
<1>1. /\ UNCHANGED <<utxo_pool, building, mempool, block, torn>>
      /\ cmd = "build" /\ cmd' \in {"build", "offer"}
      /\ key_pool' \in {key_pool, key_pool \cup {building.id}}
      /\ \/ wallet_pool' = wallet_pool
         \/ wallet_pool' = [wallet_pool EXCEPT ![Head(to_mark)].spent = TRUE]
  BY DEF BuildStep, BuildDone, MarkSpent, StoreChangeKey, blockVars, memVars, history
<1>2. /\ DOMAIN wallet_pool' = DOMAIN wallet_pool
      /\ \A out \in DOMAIN wallet_pool : /\ wallet_pool'[out].amt = wallet_pool[out].amt
                                         /\ wallet_pool'[out].key = wallet_pool[out].key
  BY <1>1 DEF SpendInv, WalletShape
<1>3. OutputsOnly'
  BY <1>1, FewerOutputs
<1>4. /\ \A out : ~Entering(out) /\ ~Leaving(out)
      /\ \A out : ~Entering(out)' /\ ~Leaving(out)'
  BY <1>1, NotBetween
<1>5. building.id \in Nat
  BY DEF MirrorInv, Decided
<1> QED BY <1>1, <1>2, <1>3, <1>4, <1>5, SameMirror

\* mempool_add, and the evictions of update_mempool.
LEMMA MempoolMirror ==
  ASSUME SpendInv, MirrorInv, Offer \/ UpdateMempool
  PROVE  MirrorInv'
<1>1. /\ UNCHANGED <<utxo_pool, wallet_pool, key_pool, block, torn>>
      /\ cmd # "pools" /\ cmd' # "pools" /\ building' \in {building, NoTx}
  BY DEF Offer, UpdateMempool, walletDisk, buildVars, blockVars, history
<1>2. \A tx \in ToSet(mempool') : tx \in ToSet(mempool) \/ tx = building
  <2>1. CASE Offer
    BY <2>1, OneMoreWaits
  <2>2. CASE UpdateMempool
    <3>1. ASSUME NEW id, M!MempoolRemove(id)
          PROVE  \A tx \in ToSet(mempool') : tx \in ToSet(mempool)
      BY <3>1, EvictOne
    <3>2. mempool' = mempool \/ \E id : M!MempoolRemove(id)
      BY <2>2 DEF UpdateMempool, M!VisitInput, M!NextConfirmedTx, M!poolVars
    <3> QED BY <3>1, <3>2
  <2> QED BY <2>1, <2>2
<1>3. OutputsOnly'
  BY <1>1, <1>2, NothingOut, FewerOutputs
<1>4. building'.id \in Nat
  BY <1>1 DEF MirrorInv, Decided, NoTx
<1>5. /\ \A out : ~Entering(out) /\ ~Leaving(out)
      /\ \A out : ~Entering(out)' /\ ~Leaving(out)'
  BY <1>1, NotBetween
<1> QED BY <1>1, <1>3, <1>4, <1>5, SameMirror

LEMMA MirrorInit == Init => MirrorInv
<1> SUFFICES ASSUME Init
             PROVE  MirrorInv
  OBVIOUS
<1>1. /\ utxo_pool = <<>> /\ wallet_pool = <<>> /\ mempool = <<>> /\ block = NoBlock
      /\ building = NoTx /\ cmd = "boot"
  BY DEF Init, WalletInit, HandleBlockInit, M!MempoolInit
<1>2. \A out : ~Entering(out) /\ ~Leaving(out)
  BY <1>1, NotBetween
<1>3. Decided /\ Mirrored
  BY <1>1, <1>2 DEF Decided, Mirrored, NoTx
<1>4. OutputsOnly
  BY <1>1, NothingInHand, NothingOut DEF OutputsOnly
<1> QED BY <1>3, <1>4 DEF MirrorInv

LEMMA MirrorStep ==
  ASSUME SpendInv, KeysInv, MirrorInv, [Next]_vars
  PROVE  MirrorInv'
<1>1. CASE Boot \/ BootStep \/ InitDone \/ AcceptBlock \/ RejectBlock \/ AddToChain \/ MineDone
  <2>1. /\ UNCHANGED <<utxo_pool, wallet_pool, key_pool, torn, building>>
        /\ mempool' \in {mempool, <<>>} /\ block' \in {block, NoBlock}
    BY <1>1 DEF Boot, BlockchainInit, BootStep, InitDone, AcceptBlock, RejectBlock, AddToChain,
       MineDone, walletDisk, buildVars, blockVars, memVars, history
  <2>2. cmd # "pools" /\ cmd' # "pools"
    BY <1>1 DEF Boot, BlockchainInit, BootStep, InitDone, AcceptBlock, RejectBlock, AddToChain,
       MineDone, SpendInv, Control
  <2> QED BY <2>1, <2>2, QuietMirror
<1>2. CASE BeginPools \/ BeginMempool
  <2>1. /\ UNCHANGED <<utxo_pool, wallet_pool, key_pool, torn, building, mempool, block>>
        /\ half' = FALSE
        /\ cmd # "pools" \/ ~(pool_tx <= Len(block.txs))
    <3>1. CASE BeginPools
      BY <3>1 DEF BeginPools, StartUpdatePools, poolDisk, buildVars, memVars, history
    <3>2. CASE BeginMempool
      <4>1. Len(block.txs) \in Nat /\ pool_tx \in Nat
        BY <3>2 DEF BeginMempool, SpendInv, BlockShape, Handling, Accepting, Counters
      <4> QED BY <3>2, <4>1 DEF BeginMempool, StartUpdatePools, PoolsDone, poolDisk, buildVars, history
    <3> QED BY <1>2, <3>1, <3>2
  <2> QED BY <2>1, QuietMirror
<1>3. CASE UpdatePools
  BY <1>3, UpdatePoolsMirror
<1>4. CASE UpdateMempool \/ Offer
  BY <1>4, MempoolMirror
<1>5. CASE BuildStep \/ BuildDone
  BY <1>5, BuildMirror
<1>6. CASE Mine /\ FeesKnown
  BY <1>6, MineMirror
<1>7. ASSUME NEW dest \in Dests, NEW amt \in AMOUNTS, NEW fee \in FEES, CreateTx(dest, amt, fee)
      PROVE  MirrorInv'
  BY <1>7, CreateTxMirror
<1>8. CASE \/ Mine /\ ~FeesKnown
           \/ \E amt \in AMOUNTS, fee \in FEES : CreateTxExits(amt, fee)
           \/ ShellExit
  <2>1. PICK why : Halt(why) /\ Idle /\ torn' = torn
    BY <1>8 DEF Mine, CreateTxExits, ShellExit
  <2> QED BY <2>1, HaltMirror
<1>9. CASE Kill
  <2>1. Halt("killed") /\ torn' = (torn \/ ~Idle)
    BY <1>9 DEF Kill
  <2>2. (torn => torn') /\ (torn' \/ Idle)
    BY <2>1
  <2> QED BY <2>1, <2>2, HaltMirror
<1>10. CASE UNCHANGED vars
  <2>1. UNCHANGED <<utxo_pool, wallet_pool, key_pool, block, building, mempool, torn, cmd,
                    pool_tx, pool_out, pool_in, half>>
    BY <1>10 DEF vars, walletDisk, buildVars, blockVars, memVars, history, poolLoop
  <2>2. Decided' /\ OutputsOnly' /\ (~torn' => Mirrored')
    BY <2>1 DEF MirrorInv, Decided, OutputsOnly, Mirrored, Entering, Leaving, CurrentTx, AllTxs
  <2> QED BY <2>2 DEF MirrorInv
<1> QED BY <1>1, <1>2, <1>3, <1>4, <1>5, <1>6, <1>7, <1>8, <1>9, <1>10 DEF Next, Command, Run

\* The wallet and the UTXO pool agree at every step, up to the output that is
\* being written.
THEOREM MirrorInvariant == Spec => []MirrorInv
<1>1. SpendInv /\ KeysInv /\ MirrorInv /\ [Next]_vars => MirrorInv'
  BY MirrorStep
<1> QED BY MirrorInit, <1>1, SpendInvariant, KeysInvariant, PTL DEF Spec

\* Between two commands the wallet has exactly the outputs of the UTXO pool the
\* node has the key of, with their amounts: none that update_UTXO_pool_and_
\* wallet_pool forgot, none that was spent, whatever was mined and paid.  After
\* a kill in the middle of a command it may not, which is why torn is there.
THEOREM WalletAlwaysMirrors == Spec => []WalletMirrorsPool
<1>1. MirrorInv => WalletMirrorsPool
  <2> SUFFICES ASSUME MirrorInv, Idle, ~torn
               PROVE  Amounts(wallet_pool) =
                        [out \in {o \in DOMAIN utxo_pool : utxo_pool[o].key \in key_pool} |->
                           utxo_pool[out]]
    BY DEF WalletMirrorsPool
  <2>1. Mirrored /\ \A out : ~Entering(out) /\ ~Leaving(out)
    BY NotBetween DEF MirrorInv, Idle
  <2>2. DOMAIN wallet_pool = {o \in DOMAIN utxo_pool : utxo_pool[o].key \in key_pool}
    BY <2>1 DEF Mirrored
  <2>3. \A out \in DOMAIN wallet_pool :
          [amt |-> wallet_pool[out].amt, key |-> wallet_pool[out].key] = utxo_pool[out]
    <3> SUFFICES ASSUME NEW out \in DOMAIN wallet_pool
                 PROVE  [amt |-> wallet_pool[out].amt, key |-> wallet_pool[out].key] = utxo_pool[out]
      OBVIOUS
    <3>1. out \in DOMAIN utxo_pool
      BY <2>2
    <3>2. wallet_pool[out].amt = utxo_pool[out].amt /\ wallet_pool[out].key = utxo_pool[out].key
      BY <2>1, <3>1 DEF Mirrored
    <3>3. utxo_pool[out] = [amt |-> utxo_pool[out].amt, key |-> utxo_pool[out].key]
      BY <3>1 DEF MirrorInv, Decided, IsOutput
    <3> QED BY <3>2, <3>3
  <2> QED BY <2>2, <2>3 DEF Amounts
<1> QED BY MirrorInvariant, <1>1, PTL

-----------------------------------------------------------------------------
(* The UTXO pool and the chain.                                            *)
(*                                                                         *)
(* The account: the pool as it will be is what the transactions of the     *)
(* chain make and do not spend, those of a block on its way into the chain *)
(* not counted.  A block adds to both sides when its pool loop begins.     *)

SpentBy(txs) == UNION {SpentOutpoints(tx) : tx \in txs}
MakerIn(txs, out) == CHOOSE tx \in txs : tx.id = out[1]
LeftOver(txs) ==
  [out \in MadeBy(txs) \ SpentBy(txs) |-> MakerIn(txs, out).outputs[out[2] + 1]]

OneId(txs) == \A t, u \in txs : t.id = u.id => t = u

Settled == IF cmd \in {"mined", "adding"} THEN blockchain_db \ {block} ELSE blockchain_db
SettledTxs == UNION {AllTxs(b) : b \in Settled}

AccountInv ==
  /\ OneId(StoredTxs)
  /\ utxo_pool = [out \in DOMAIN utxo_pool |-> utxo_pool[out]]
  /\ ~torn => PoolWhenWritten = LeftOver(SettledTxs)

LEMMA MakerIsOne ==
  ASSUME NEW txs, OneId(txs), NEW tx \in txs, NEW n
  PROVE  MakerIn(txs, Outpoint(tx, n)) = tx
<1>1. Outpoint(tx, n)[1] = tx.id
  BY DEF Outpoint
<1> QED BY <1>1 DEF OneId, MakerIn

LEMMA LeftOverIs ==
  ASSUME NEW txs, OneId(txs), NEW tx \in txs, NEW n \in DOMAIN tx.outputs,
         Outpoint(tx, n) \notin SpentBy(txs)
  PROVE  /\ Outpoint(tx, n) \in DOMAIN LeftOver(txs)
         /\ LeftOver(txs)[Outpoint(tx, n)] = tx.outputs[Outpoint(tx, n)[2] + 1]
<1>1. Outpoint(tx, n) \in MadeBy(txs) \ SpentBy(txs)
  BY DEF MadeBy
<1>2. MakerIn(txs, Outpoint(tx, n)) = tx
  BY MakerIsOne
<1> QED BY <1>1, <1>2 DEF LeftOver

\* The transactions of the chain and those of the block.
LEMMA SettledAndBlock ==
  ASSUME SpendInv, BeginPools
  PROVE  SettledTxs' = SettledTxs \cup AllTxs(block) /\ SettledTxs' = StoredTxs
<1>1. /\ block \in blockchain_db /\ UNCHANGED <<block, blockchain_db>>
      /\ cmd = "adding" /\ cmd' = "pools"
  BY DEF BeginPools, StartUpdatePools, chainVars, SpendInv, Control, Accepting
<1>2. Settled = blockchain_db \ {block} /\ Settled' = Settled \cup {block} /\ Settled' = blockchain_db
  BY <1>1 DEF Settled
<1> QED BY <1>1, <1>2 DEF SettledTxs, StoredTxs

LEMMA BeginPoolsAccount ==
  ASSUME SpendInv, AccountInv, ~torn, BeginPools
  PROVE  PoolWhenWritten' = LeftOver(SettledTxs')
<1> DEFINE old == SettledTxs
           new == AllTxs(block)
           all == SettledTxs'
<1>1. all = old \cup new /\ OneId(all)
  BY SettledAndBlock DEF AccountInv
<1>2. /\ UNCHANGED <<utxo_pool, block>> /\ cmd = "adding"
      /\ PoolWhenWritten = [out \in DOMAIN utxo_pool |-> utxo_pool[out]]
  BY PoolElsewhere DEF BeginPools, StartUpdatePools, poolDisk
<1>3. /\ ToAdd' = MadeBy(new) /\ ToRemove' = SpentBy(new)
      /\ \A out \in MadeBy(new) : out[1] \notin Past
      /\ \A out \in DOMAIN utxo_pool : out[1] \in Past
  BY WholeBlockAhead DEF SpentByBlock, SpentBy
<1>4. \A out \in SpentBy(old) : out[1] \in Past
  <2>1. \A tx \in old : tx \in Owners
    BY DEF SettledTxs, Settled, Owners, StoredTxs
  <2> QED BY <2>1 DEF SpendInv, OnlyPast, SpentBy
<1>5. utxo_pool = LeftOver(old)
  BY <1>2 DEF AccountInv
<1> HIDE DEF old, new, all
<1>6. MadeBy(all) = MadeBy(old) \cup MadeBy(new) /\ SpentBy(all) = SpentBy(old) \cup SpentBy(new)
  BY <1>1 DEF MadeBy, SpentBy
<1>7. OneId(old) /\ OneId(new)
  BY <1>1 DEF OneId
<1>8. DOMAIN LeftOver(old) = MadeBy(old) \ SpentBy(old) /\ DOMAIN LeftOver(all) = MadeBy(all) \ SpentBy(all)
  BY DEF LeftOver
<1>9. DOMAIN PoolWhenWritten' = DOMAIN LeftOver(all)
  <2>1. DOMAIN PoolWhenWritten' = ((MadeBy(old) \ SpentBy(old)) \cup MadeBy(new)) \ SpentBy(new)
    BY <1>2, <1>3, <1>5, <1>8, PoolWrittenNext
  <2>2. \A out \in MadeBy(new) : out \notin SpentBy(old)
    BY <1>3, <1>4
  <2> QED BY <1>6, <1>8, <2>1, <2>2
<1>10. ASSUME NEW out \in DOMAIN LeftOver(all)
       PROVE  PoolWhenWritten'[out] = LeftOver(all)[out]
  <2>1. out \in MadeBy(all) /\ out \notin SpentBy(all)
    BY <1>8
  <2>2. CASE out \in MadeBy(new)
    <3>0. PICK tx \in new : \E n \in DOMAIN tx.outputs : out = Outpoint(tx, n)
      BY <2>2 DEF MadeBy
    <3>1. PICK n \in DOMAIN tx.outputs : out = Outpoint(tx, n)
      BY <3>0
    <3>2. LeftOver(all)[out] = tx.outputs[out[2] + 1]
      BY <1>1, <2>1, <3>1, LeftOverIs
    <3>3. Maker(out)' = tx
      <4>1. MakerIn(new, out) = tx
        BY <1>7, <3>1, MakerIsOne
      <4> QED BY <1>2, <4>1 DEF Maker, MakerIn, new
    <3>4. PoolWhenWritten'[out] = (Maker(out).outputs[out[2] + 1])'
      BY <1>3, <1>9, <2>2, PoolWrittenNext
    <3> QED BY <3>2, <3>3, <3>4
  <2>3. CASE out \notin MadeBy(new)
    <3>0. PICK tx \in old : \E n \in DOMAIN tx.outputs : out = Outpoint(tx, n)
      BY <1>6, <2>1, <2>3 DEF MadeBy
    <3>1. PICK n \in DOMAIN tx.outputs : out = Outpoint(tx, n)
      BY <3>0
    <3>2. LeftOver(all)[out] = tx.outputs[out[2] + 1] /\ LeftOver(old)[out] = tx.outputs[out[2] + 1]
      BY <1>1, <1>6, <1>7, <2>1, <3>1, LeftOverIs
    <3>3. PoolWhenWritten'[out] = utxo_pool[out]
      BY <1>2, <1>3, <1>9, <2>3, PoolWrittenNext
    <3> QED BY <1>5, <3>2, <3>3
  <2> QED BY <2>2, <2>3
<1>11. PoolWhenWritten' = LeftOver(all)
  <2>1. PoolWhenWritten' = [out \in DOMAIN PoolWhenWritten' |-> PoolWhenWritten'[out]]
    BY DEF PoolWhenWritten
  <2>2. LeftOver(all) = [out \in DOMAIN LeftOver(all) |-> LeftOver(all)[out]]
    BY DEF LeftOver
  <2> QED BY <1>9, <1>10, <2>1, <2>2
<1> QED BY <1>11 DEF all

\* The steps that leave the account as it is.
LEMMA SameAccount ==
  ASSUME AccountInv, PoolWhenWritten' = PoolWhenWritten, UNCHANGED <<utxo_pool, torn>>,
         StoredTxs' = StoredTxs, ~torn => SettledTxs' = SettledTxs
  PROVE  AccountInv'
BY DEF AccountInv, LeftOver, OneId

\* The block comes into the database.
LEMMA AddAccount ==
  ASSUME SpendInv, AccountInv, AddToChain
  PROVE  AccountInv'
<1>1. /\ UNCHANGED <<utxo_pool, block, torn, cmd>> /\ cmd = "adding" /\ adding = block
      /\ blockchain_db' = blockchain_db \/ blockchain_db' = blockchain_db \cup {block}
  BY DEF AddToChain, AddStep, PutBlock, EmptyHeightFile, WriteHeightFile, EmptyTopFile,
     WriteTopFile, blockVars, history, SpendInv, Control
<1>2. PoolWhenWritten' = PoolWhenWritten
  BY <1>1, PoolElsewhere
<1>3. SettledTxs' = SettledTxs
  <2>1. Settled' = Settled
    BY <1>1 DEF Settled
  <2> QED BY <2>1 DEF SettledTxs
<1>4. \A tx \in StoredTxs' : tx \in StoredTxs \/ tx \in AllTxs(block)
  BY <1>1 DEF StoredTxs
<1>5. \A tx \in StoredTxs : tx \in AllTxs(block) \/ tx.id \in Past
  BY <1>1, IdsOfBlocks DEF StoredTxs, Past
<1>6. /\ \A tx \in AllTxs(block) : tx.id \notin Past
      /\ \A t, u \in AllTxs(block) : t.id = u.id => t = u
  BY <1>1 DEF SpendInv, Fresh, BlockShape, Handling, Accepting, AllTxs
<1>7. OneId(StoredTxs')
  BY <1>4, <1>5, <1>6 DEF AccountInv, OneId
<1> QED BY <1>1, <1>2, <1>3, <1>7 DEF AccountInv, LeftOver, OneId

\* A write to a pool: the account is kept, and the pool stays a function.
LEMMA WriteAccount ==
  ASSUME SpendInv, AccountInv, UpdatePools
  PROVE  AccountInv'
<1>1. UNCHANGED <<blockchain_db, cmd, block, torn>> /\ (PutOutput \/ DeleteInput \/ NextPoolTx)
  BY UpdatePoolsFrame DEF UpdatePools, history
<1>2. PoolWhenWritten' = PoolWhenWritten
  BY UpdatePoolsUnseen DEF Unseen
<1>3. StoredTxs' = StoredTxs /\ SettledTxs' = SettledTxs
  BY <1>1 DEF StoredTxs, SettledTxs, Settled
<1>4. utxo_pool' = [out \in DOMAIN utxo_pool' |-> utxo_pool'[out]]
  BY <1>1 DEF AccountInv, PutOutput, DeleteInput, NextPoolTx, Put, Delete, poolDisk
<1> QED BY <1>1, <1>2, <1>3, <1>4 DEF AccountInv, LeftOver, OneId

LEMMA AccountInit == Init => AccountInv
<1> SUFFICES ASSUME Init
             PROVE  AccountInv
  OBVIOUS
<1>1. utxo_pool = <<>> /\ blockchain_db = {} /\ cmd = "boot"
  BY DEF Init, HandleBlockInit, ChainInit
<1>2. StoredTxs = {} /\ SettledTxs = {}
  BY <1>1 DEF StoredTxs, SettledTxs, Settled
<1>3. utxo_pool = [out \in {} |-> utxo_pool[out]] /\ DOMAIN utxo_pool = {}
  BY <1>1
<1>4. PoolWhenWritten = [out \in {} |-> utxo_pool[out]]
  BY <1>1, <1>3, PoolElsewhere
<1>5. MadeBy({}) = {}
  BY DEF MadeBy
<1>6. LeftOver({}) = [out \in {} |-> utxo_pool[out]]
  BY <1>5 DEF LeftOver
<1> QED BY <1>2, <1>3, <1>4, <1>6 DEF AccountInv, OneId

LEMMA AccountStep ==
  ASSUME SpendInv, ChainInv, AccountInv, [Next]_vars
  PROVE  AccountInv'
<1>1. ASSUME PoolWhenWritten' = PoolWhenWritten, UNCHANGED <<utxo_pool, torn, blockchain_db>>,
             ~torn => Settled' = Settled
      PROVE  AccountInv'
  <2>1. StoredTxs' = StoredTxs /\ (~torn => SettledTxs' = SettledTxs)
    BY <1>1 DEF StoredTxs, SettledTxs
  <2> QED BY <1>1, <2>1, SameAccount
<1>2. CASE UpdatePools
  BY <1>2, WriteAccount
<1>3. CASE AddToChain
  BY <1>3, AddAccount
<1>4. CASE BeginPools
  <2>1. UNCHANGED <<torn, utxo_pool, blockchain_db>> /\ StoredTxs' = StoredTxs
    BY <1>4 DEF BeginPools, StartUpdatePools, poolDisk, chainVars, history, StoredTxs
  <2>2. ~torn => PoolWhenWritten' = LeftOver(SettledTxs')
    BY <1>4, BeginPoolsAccount
  <2> QED BY <2>1, <2>2 DEF AccountInv, LeftOver, OneId
<1>5. CASE BootStep
  <2>1. /\ UNCHANGED <<utxo_pool, torn, cmd>> /\ cmd = "boot" /\ adding = GenesisBlock
        /\ blockchain_db' = blockchain_db \/ blockchain_db' = blockchain_db \cup {adding}
    BY <1>5 DEF BootStep, AddStep, PutBlock, EmptyHeightFile, WriteHeightFile, EmptyTopFile,
       WriteTopFile, blockVars, history, SpendInv, Control
  <2>2. PoolWhenWritten' = PoolWhenWritten
    BY <2>1, PoolElsewhere
  <2>3. StoredTxs' = StoredTxs
    BY <2>1, NothingInHand DEF StoredTxs
  <2>4. SettledTxs = StoredTxs /\ SettledTxs' = StoredTxs'
    BY <2>1 DEF SettledTxs, Settled, StoredTxs
  <2> QED BY <2>1, <2>2, <2>3, <2>4, SameAccount
<1>6. CASE \/ Boot \/ InitDone \/ BuildStep \/ BuildDone \/ Offer \/ BeginMempool
           \/ UpdateMempool \/ MineDone
           \/ \E dest \in Dests, amt \in AMOUNTS, fee \in FEES : CreateTx(dest, amt, fee)
  <2>1. UNCHANGED <<utxo_pool, torn, blockchain_db>>
    BY <1>6 DEF Boot, BlockchainInit, UseExisting, RefuseFiles, AddGenesis, diskVars, InitDone,
       BuildStep, BuildDone, Offer, BeginMempool, StartUpdatePools, poolDisk, UpdateMempool,
       MineDone, CreateTx, blockVars, chainVars, history
  <2>2. cmd \notin {"mined", "adding"} /\ cmd' \notin {"mined", "adding"}
    <3>1. CASE Boot
      BY <3>1 DEF Boot, BlockchainInit, SpendInv, Control
    <3>2. CASE ~Boot
      BY <1>6, <3>2 DEF InitDone, BuildStep, BuildDone, Offer, BeginMempool, UpdateMempool,
         MineDone, CreateTx, Idle
    <3> QED BY <3>1, <3>2
  <2>3. PoolWhenWritten' = PoolWhenWritten
    <3>1. CASE BeginMempool \/ UpdateMempool \/ MineDone
      BY <3>1, UpdateMempoolUnseen DEF Unseen
    <3>2. CASE ~(BeginMempool \/ UpdateMempool \/ MineDone)
      <4>1. cmd # "pools" /\ cmd' # "pools"
        <5>1. CASE Boot
          BY <5>1 DEF Boot, BlockchainInit, SpendInv, Control
        <5>2. CASE ~Boot
          BY <1>6, <3>2, <5>2 DEF InitDone, BuildStep, BuildDone, Offer, CreateTx, Idle
        <5> QED BY <5>1, <5>2
      <4> QED BY <2>1, <4>1, PoolElsewhere
    <3> QED BY <3>1, <3>2
  <2>4. Settled' = Settled
    BY <2>1, <2>2 DEF Settled
  <2> QED BY <1>1, <2>1, <2>3, <2>4
<1>7. CASE (Mine /\ FeesKnown) \/ AcceptBlock \/ RejectBlock
  <2>1. /\ UNCHANGED <<utxo_pool, torn, blockchain_db>>
        /\ cmd # "pools" /\ cmd' # "pools"
    BY <1>7 DEF Mine, CreateBlock, AcceptBlock, StartAdd, RejectBlock, diskVars, blockVars,
       chainVars, history, Idle
  <2>2. PoolWhenWritten' = PoolWhenWritten
    BY <2>1, PoolElsewhere
  <2>3. ~torn => Settled' = Settled
    <3>1. CASE Mine /\ FeesKnown
      <4>1. cmd = "idle" /\ cmd' = "mined"
        BY <3>1 DEF Mine, Idle
      <4>2. ~torn => ~Found(block.hash)'
        <5>1. ChainInv'
          BY ChainStep DEF SpendInv
        <5> QED BY <2>1, <4>1, <5>1 DEF ChainInv, FilesFollow
      <4> QED BY <2>1, <4>1, <4>2 DEF Settled, Found
    <3>2. CASE AcceptBlock
      BY <2>1, <3>2 DEF AcceptBlock, blockVars, Settled
    <3>3. CASE RejectBlock
      <4>1. cmd = "mined" /\ cmd' = "idle"
        BY <3>3 DEF RejectBlock
      <4> QED BY <2>1, <4>1 DEF Settled, ChainInv, FilesFollow, Found
    <3> QED BY <1>7, <3>1, <3>2, <3>3
  <2> QED BY <1>1, <2>1, <2>2, <2>3
<1>8. CASE \/ Mine /\ ~FeesKnown
           \/ \E amt \in AMOUNTS, fee \in FEES : CreateTxExits(amt, fee)
           \/ ShellExit \/ Kill
  <2>1. PICK why : Halt(why) /\ ((Idle /\ torn' = torn) \/ Kill)
    BY <1>8 DEF Mine, CreateTxExits, ShellExit, Kill
  <2>2. UNCHANGED <<utxo_pool, blockchain_db>> /\ cmd' = "boot"
    BY <2>1 DEF Halt, ChainCrash, diskVars
  <2>3. CASE Idle /\ torn' = torn
    <3>1. PoolWhenWritten' = PoolWhenWritten
      BY <2>1, <2>3, HaltForgets
    <3>2. Settled' = Settled
      BY <2>2, <2>3 DEF Settled, Idle
    <3> QED BY <1>1, <2>2, <2>3, <3>1, <3>2
  <2>4. CASE ~Idle /\ Kill
    <3>1. torn'
      BY <2>4 DEF Kill
    <3>2. StoredTxs' = StoredTxs
      BY <2>2 DEF StoredTxs
    <3> QED BY <2>2, <3>1, <3>2 DEF AccountInv, OneId
  <2>5. Kill /\ Idle => torn' = (torn \/ FALSE)
    BY DEF Kill
  <2>6. CASE Kill /\ Idle
    <3>1. torn' <=> torn
      BY <2>5, <2>6
    <3>2. PoolWhenWritten' = PoolWhenWritten
      BY <2>1, <2>6, HaltForgets
    <3>3. SettledTxs' = SettledTxs /\ StoredTxs' = StoredTxs
      BY <2>2, <2>6 DEF SettledTxs, Settled, StoredTxs, Idle
    <3> QED BY <2>2, <3>1, <3>2, <3>3 DEF AccountInv, LeftOver, OneId
  <2> QED BY <2>1, <2>3, <2>4, <2>6
<1>9. CASE UNCHANGED vars
  <2>1. UNCHANGED <<utxo_pool, torn, blockchain_db, block, cmd, poolLoop>>
    BY <1>9 DEF vars, blockVars, chainVars, history
  <2>2. PoolWhenWritten' = PoolWhenWritten
    BY <2>1 DEF PoolWhenWritten, ToAdd, ToRemove, TxsAhead, poolLoop
  <2>3. Settled' = Settled
    BY <2>1 DEF Settled
  <2> QED BY <1>1, <2>1, <2>2, <2>3
<1> QED BY <1>2, <1>3, <1>4, <1>5, <1>6, <1>7, <1>8, <1>9 DEF Next, Command, Run

\* Between two commands the UTXO pool is what the chain says (update_local_blockchain
\* and update_UTXO_pool_and_wallet_pool keep step), unless the process was killed
\* in the middle of one.
THEOREM PoolsAlwaysFollowChain == Spec => []PoolsFollowChain
<1>1. SpendInv /\ ChainInv /\ AccountInv /\ [Next]_vars => AccountInv'
  BY AccountStep
<1>2. SpendInv /\ ChainInv /\ AccountInv => PoolsFollowChain
  <2> SUFFICES ASSUME SpendInv, ChainInv, AccountInv, Idle, ~torn
               PROVE  utxo_pool = UnspentOutputs
    BY DEF PoolsFollowChain
  <2>1. chain_pc = "ready" /\ cmd = "idle"
    BY DEF Idle, SpendInv, Control
  <2>2. OneChain(blockchain_db, top_block_header_hash)
    BY <2>1 DEF ChainInv, DatabaseSound, FilesFollow, Up, Tip
  <2>3. ChainTxs = StoredTxs /\ SettledTxs = StoredTxs
    BY <2>1, <2>2, ChainHasAll DEF SettledTxs, StoredTxs, Settled
  <2>4. utxo_pool = LeftOver(StoredTxs)
    BY <2>1, <2>3, PoolElsewhere DEF AccountInv
  <2>5. UnspentOutputs = LeftOver(ChainTxs)
    BY DEF UnspentOutputs, LeftOver, MadeBy, SpentBy, MakerIn
  <2> QED BY <2>3, <2>4, <2>5
<1> QED BY <1>1, <1>2, AccountInit, ChainInvariant, SpendInvariant, PTL DEF Spec

-----------------------------------------------------------------------------
(* Arithmetic of C types.                                                  *)

\* Arithmetic in unsigned long: what fits is kept.
LEMMA UlongIs ==
  ASSUME NEW n \in Int
  PROVE  /\ Ulong(n) \in 0..(ULONG_MOD - 1)
         /\ n \in 0..(ULONG_MOD - 1) => Ulong(n) = n
BY WidthAssumption DEF Ulong

\* And in unsigned int.
LEMMA UintIs ==
  ASSUME NEW n \in Int
  PROVE  Uint(n) \in 0..(UINT_MOD - 1)
BY WidthAssumption DEF Uint

-----------------------------------------------------------------------------
(* The sums of the code are sums: a loop over a list adds from its end, a  *)
(* sum over a set takes any element first.                                 *)

\* g adds the numbers of a list, the last one last.
Running(g, w) ==
  \A S \in SUBSET DOMAIN w : g[S] = IF S = {} THEN 0 ELSE g[S \ {Max(S)}] + w[Max(S)]

NumberList(w) == \E n \in Nat : DOMAIN w = 1..n /\ \A k \in 1..n : w[k] \in Int

\* The numbers of a list can be added up, from its end.
LEMMA ListsAreSummable ==
  ASSUME NEW w, NumberList(w)
  PROVE  /\ Summable(w)
         /\ \A S \in SUBSET DOMAIN w : S # {} => Max(S) \in S
<1>1. PICK n \in Nat : DOMAIN w = 1..n /\ \A k \in 1..n : w[k] \in Int
  BY DEF NumberList
<1>2. IsFiniteSet(1..n)
  BY FS_Interval
<1>3. Summable(w)
  BY <1>1, <1>2 DEF Summable
<1>4. ASSUME NEW S \in SUBSET DOMAIN w, S # {}
      PROVE  Max(S) \in S
  BY <1>1, <1>4, LastIndex
<1> QED BY <1>3, <1>4

\* Their sum is a running sum,
LEMMA SumIsRunning ==
  ASSUME NEW w, NumberList(w), NEW g, g = [S \in SUBSET DOMAIN w |-> Sum(w, S)]
  PROVE  Running(g, w)
<1> SUFFICES ASSUME NEW S \in SUBSET DOMAIN w
             PROVE  g[S] = IF S = {} THEN 0 ELSE g[S \ {Max(S)}] + w[Max(S)]
  BY DEF Running
<1>1. Summable(w) /\ (S # {} => Max(S) \in S)
  BY ListsAreSummable
<1>2. Sum(w, {}) = 0
  BY <1>1, SumIs
<1>3. CASE S # {}
  <2> DEFINE x == Max(S)
  <2>1. x \in S /\ w[x] \in Int /\ Sum(w, S \ {x}) \in Int /\ Sum(w, S) = w[x] + Sum(w, S \ {x})
    BY <1>1, <1>3, SumIs DEF Summable
  <2>2. g[S] = Sum(w, S) /\ g[S \ {x}] = Sum(w, S \ {x})
    OBVIOUS
  <2> HIDE DEF x
  <2>3. g[S] = g[S \ {x}] + w[x]
    BY <2>1, <2>2
  <2> QED BY <1>3, <2>3 DEF x
<1> QED BY <1>2, <1>3

\* and so any running sum is their sum.
LEMMA RunningIsSum ==
  ASSUME NEW w, NumberList(w), NEW g, Running(g, w)
  PROVE  g[DOMAIN w] = Sum(w, DOMAIN w)
<1> DEFINE D == DOMAIN w
           f == [S \in SUBSET D |-> Sum(w, S)]
           c == [S \in SUBSET D |-> Max(S)]
<1>1. Summable(w) /\ Picks(c, D)
  BY ListsAreSummable DEF Picks
<1>2. Running(f, w)
  BY SumIsRunning
<1>3. AgreeOn(f, g, D, c)
  <2> HIDE DEF f
  <2> QED BY <1>2 DEF AgreeOn, Running
<1>4. IsFiniteSet(D)
  BY <1>1 DEF Summable
<1>5. f[D] = g[D]
  <2> HIDE DEF f, c, D
  <2> QED BY <1>1, <1>3, <1>4, FoldUnique
<1> QED BY <1>5

-----------------------------------------------------------------------------
(* What a transaction takes, gives out, and leaves as a fee.               *)

OutAmounts(tx) == [n \in DOMAIN tx.outputs |-> tx.outputs[n].amt]
InAmounts(tx, pool) == [k \in DOMAIN tx.inputs |-> pool[tx.inputs[k].prev].amt]
FeesOf(txs, pool) == [n \in DOMAIN txs |-> CalcTxFees(txs[n], pool)]
Held(outs) == [out \in Unspent(outs) |-> wallet_pool[out].amt]

AddsOutputs(g, tx) ==
  g = [S \in SUBSET DOMAIN tx.outputs |->
         IF S = {} THEN 0 ELSE g[S \ {Max(S)}] + tx.outputs[Max(S)].amt]
AddsInputs(g, tx, pool) ==
  g = [S \in SUBSET DOMAIN tx.inputs |->
         IF S = {} THEN 0 ELSE g[S \ {Max(S)}] + pool[tx.inputs[Max(S)].prev].amt]
AddsFees(g, txs, pool) ==
  g = [S \in SUBSET DOMAIN txs |->
         IF S = {} THEN 0 ELSE g[S \ {Max(S)}] + CalcTxFees(txs[Max(S)], pool)]

\* total_out of a transaction is the sum of its outputs' amounts.
LEMMA TotalOutIs ==
  ASSUME NEW tx, NumberList(OutAmounts(tx))
  PROVE  TotalOut(tx) = Ulong(Sum(OutAmounts(tx), DOMAIN tx.outputs))
<1> DEFINE w == OutAmounts(tx)
           D == DOMAIN tx.outputs
           s == [S \in SUBSET D |-> Sum(w, S)]
           g == CHOOSE g : AddsOutputs(g, tx)
<1>1. TotalOut(tx) = Ulong(g[D])
  BY Zenon DEF TotalOut, Total, FoldLeft, MapThenFoldSet, AddsOutputs
<1>2. DOMAIN w = D /\ \A S \in SUBSET D : S # {} => Max(S) \in D /\ w[Max(S)] = tx.outputs[Max(S)].amt
  <2>1. \A S \in SUBSET DOMAIN w : S # {} => Max(S) \in S
    BY ListsAreSummable
  <2> QED BY <2>1 DEF OutAmounts
<1>3. AddsOutputs(s, tx)
  <2>1. Running(s, w)
    BY <1>2, SumIsRunning
  <2>2. \A S \in SUBSET D : s[S] = IF S = {} THEN 0 ELSE s[S \ {Max(S)}] + tx.outputs[Max(S)].amt
    <3> HIDE DEF s, w, D
    <3> QED BY <1>2, <2>1 DEF Running
  <2> DEFINE r == [S \in SUBSET D |-> IF S = {} THEN 0 ELSE s[S \ {Max(S)}] + tx.outputs[Max(S)].amt]
  <2>3. s = r
    BY <2>2
  <2> HIDE DEF s
  <2> QED BY <2>3 DEF AddsOutputs
<1>4. AddsOutputs(g, tx)
  BY <1>3
<1>5. Running(g, w)
  <2>1. g = [S \in SUBSET D |-> IF S = {} THEN 0 ELSE g[S \ {Max(S)}] + tx.outputs[Max(S)].amt]
    BY <1>4 DEF AddsOutputs
  <2> HIDE DEF g, w, D
  <2>2. \A S \in SUBSET D : g[S] = IF S = {} THEN 0 ELSE g[S \ {Max(S)}] + tx.outputs[Max(S)].amt
    BY <2>1
  <2> QED BY <1>2, <2>2 DEF Running
<1>6. g[D] = Sum(w, D)
  <2> HIDE DEF g, w
  <2> QED BY <1>2, <1>5, RunningIsSum DEF w
<1> QED BY <1>1, <1>6

\* total_in is the sum of what the pool has for its inputs.
LEMMA TotalInIs ==
  ASSUME NEW tx, NEW pool, NumberList(InAmounts(tx, pool))
  PROVE  TotalIn(tx, pool) = Ulong(Sum(InAmounts(tx, pool), DOMAIN tx.inputs))
<1> DEFINE w == InAmounts(tx, pool)
           D == DOMAIN tx.inputs
           s == [S \in SUBSET D |-> Sum(w, S)]
           g == CHOOSE g : AddsInputs(g, tx, pool)
<1>1. TotalIn(tx, pool) = Ulong(g[D])
  BY Zenon DEF TotalIn, Total, FoldLeft, MapThenFoldSet, AddsInputs
<1>2. DOMAIN w = D /\ \A S \in SUBSET D : S # {} => w[Max(S)] = pool[tx.inputs[Max(S)].prev].amt
  <2>1. \A S \in SUBSET DOMAIN w : S # {} => Max(S) \in S
    BY ListsAreSummable
  <2> QED BY <2>1 DEF InAmounts
<1>3. AddsInputs(s, tx, pool)
  <2>1. Running(s, w)
    BY <1>2, SumIsRunning
  <2> DEFINE r == [S \in SUBSET D |->
                     IF S = {} THEN 0 ELSE s[S \ {Max(S)}] + pool[tx.inputs[Max(S)].prev].amt]
  <2>2. \A S \in SUBSET D : s[S] = r[S]
    <3> HIDE DEF s, w, D
    <3> QED BY <1>2, <2>1 DEF Running
  <2>3. s = r
    BY <2>2
  <2> HIDE DEF s
  <2> QED BY <2>3 DEF AddsInputs
<1>4. AddsInputs(g, tx, pool)
  BY <1>3
<1>5. Running(g, w)
  <2>1. g = [S \in SUBSET D |-> IF S = {} THEN 0 ELSE g[S \ {Max(S)}] + pool[tx.inputs[Max(S)].prev].amt]
    BY <1>4 DEF AddsInputs
  <2> HIDE DEF g, w, D
  <2>2. \A S \in SUBSET D : g[S] = IF S = {} THEN 0 ELSE g[S \ {Max(S)}] + pool[tx.inputs[Max(S)].prev].amt
    BY <2>1
  <2> QED BY <1>2, <2>2 DEF Running
<1>6. g[D] = Sum(w, D)
  <2> HIDE DEF g, w
  <2> QED BY <1>2, <1>5, RunningIsSum DEF w
<1> QED BY <1>1, <1>6

\* The sum of MinerFees, before it is cut.
FeeSum(txs, pool) == (CHOOSE g : AddsFees(g, txs, pool))[DOMAIN txs]

\* The miner and the validator cut the same sum of fees.
LEMMA FeeSumIs ==
  ASSUME NEW txs, NEW pool, NumberList(FeesOf(txs, pool))
  PROVE  /\ FeeSum(txs, pool) = Sum(FeesOf(txs, pool), DOMAIN txs)
         /\ MinerFees(txs, pool) = Ulong(FeeSum(txs, pool))
         /\ ValidatorFees(txs, pool) = Uint(FeeSum(txs, pool))
<1> DEFINE w == FeesOf(txs, pool)
           D == DOMAIN txs
           s == [S \in SUBSET D |-> Sum(w, S)]
           g == CHOOSE g : AddsFees(g, txs, pool)
<1>1. MinerFees(txs, pool) = Ulong(g[D]) /\ ValidatorFees(txs, pool) = Uint(g[D])
  <2>1. MinerFees(txs, pool) = Ulong(g[D])
    BY Zenon DEF MinerFees, Total, FoldLeft, MapThenFoldSet, AddsFees
  <2>2. ValidatorFees(txs, pool) = Uint(g[D])
    BY Zenon DEF ValidatorFees, Total, FoldLeft, MapThenFoldSet, AddsFees
  <2> QED BY <2>1, <2>2
<1>2. DOMAIN w = D /\ \A S \in SUBSET D : S # {} => w[Max(S)] = CalcTxFees(txs[Max(S)], pool)
  <2>1. \A S \in SUBSET DOMAIN w : S # {} => Max(S) \in S
    BY ListsAreSummable
  <2> QED BY <2>1 DEF FeesOf
<1>3. AddsFees(s, txs, pool)
  <2>1. Running(s, w)
    BY <1>2, SumIsRunning
  <2> DEFINE r == [S \in SUBSET D |->
                     IF S = {} THEN 0 ELSE s[S \ {Max(S)}] + CalcTxFees(txs[Max(S)], pool)]
  <2>2. \A S \in SUBSET D : s[S] = r[S]
    <3> HIDE DEF s, w, D
    <3> QED BY <1>2, <2>1 DEF Running
  <2>3. s = r
    BY <2>2
  <2> HIDE DEF s
  <2> QED BY <2>3 DEF AddsFees
<1>4. AddsFees(g, txs, pool)
  BY <1>3
<1>5. Running(g, w)
  <2>1. g = [S \in SUBSET D |-> IF S = {} THEN 0 ELSE g[S \ {Max(S)}] + CalcTxFees(txs[Max(S)], pool)]
    BY <1>4 DEF AddsFees
  <2> HIDE DEF g, w, D
  <2>2. \A S \in SUBSET D : g[S] = IF S = {} THEN 0 ELSE g[S \ {Max(S)}] + CalcTxFees(txs[Max(S)], pool)
    BY <2>1
  <2> QED BY <1>2, <2>2 DEF Running
<1>6. g[D] = Sum(w, D)
  <2> HIDE DEF g, w
  <2> QED BY <1>2, <1>5, RunningIsSum DEF w
<1> QED BY <1>1, <1>6 DEF FeeSum

\* build_inputs adds up in the order of the keys, the model in any.
AddsHeld(g, outs) ==
  g = [S \in SUBSET Unspent(outs) |->
         IF S = {} THEN 0
         ELSE wallet_pool[CHOOSE x \in S : TRUE].amt + g[S \ {CHOOSE x \in S : TRUE}]]

\* in_total of build_inputs is the sum of what it has seen unspent.
LEMMA InTotalIs ==
  ASSUME NEW outs, Summable(Held(outs))
  PROVE  InTotal(outs) = Ulong(Sum(Held(outs), Unspent(outs)))
<1> DEFINE w == Held(outs)
           D == Unspent(outs)
           s == [S \in SUBSET D |-> Sum(w, S)]
           c == [S \in SUBSET D |-> CHOOSE x \in S : TRUE]
           g == CHOOSE g : AddsHeld(g, outs)
<1>1. InTotal(outs) = Ulong(g[D])
  BY Zenon DEF InTotal, MapThenSumSet, MapThenFoldSet, AddsHeld
<1>2. DOMAIN w = D /\ Picks(c, D)
  BY DEF Held, Picks
<1>3. \A S \in SUBSET D : S # {} => c[S] \in S /\ w[c[S]] = wallet_pool[CHOOSE x \in S : TRUE].amt
  <2>1. \A x \in D : w[x] = wallet_pool[x].amt
    BY DEF Held
  <2> HIDE DEF w, D
  <2> QED BY <1>2, <2>1
<1>4. AddsHeld(s, outs)
  <2> DEFINE r == [S \in SUBSET D |->
                     IF S = {} THEN 0
                     ELSE wallet_pool[CHOOSE x \in S : TRUE].amt + s[S \ {CHOOSE x \in S : TRUE}]]
  <2>1. \A S \in SUBSET D : S # {} => Sum(w, S) = w[c[S]] + Sum(w, S \ {c[S]})
    <3> HIDE DEF w, c, D
    <3> QED BY <1>2, <1>3, SumIs DEF w
  <2>2. Sum(w, {}) = 0
    <3> HIDE DEF w
    <3> QED BY SumIs DEF w
  <2>3. \A S \in SUBSET D : s[S] = r[S]
    <3> HIDE DEF w, D
    <3> QED BY <1>3, <2>1, <2>2
  <2>4. s = r
    BY <2>3
  <2> HIDE DEF s
  <2> QED BY <2>4 DEF AddsHeld
<1>5. AddsHeld(g, outs)
  BY <1>4
<1>6. AddsUp(g, w, c)
  <2>1. g = [S \in SUBSET D |->
               IF S = {} THEN 0
               ELSE wallet_pool[CHOOSE x \in S : TRUE].amt + g[S \ {CHOOSE x \in S : TRUE}]]
    BY <1>5 DEF AddsHeld
  <2> HIDE DEF g, w, D
  <2>2. \A S \in SUBSET D : g[S] = IF S = {} THEN 0
               ELSE wallet_pool[CHOOSE x \in S : TRUE].amt + g[S \ {CHOOSE x \in S : TRUE}]
    BY <2>1
  <2>3. \A S \in SUBSET D : c[S] = CHOOSE x \in S : TRUE
    OBVIOUS
  <2> QED BY <1>2, <1>3, <2>2, <2>3 DEF AddsUp
<1>7. g[D] = Sum(w, D)
  <2> HIDE DEF g, c, w
  <2> QED BY <1>2, <1>6, SumBy DEF w
<1> QED BY <1>1, <1>7

-----------------------------------------------------------------------------
(* Types.                                                                  *)

Amount == 0..(ULONG_MOD - 1)
KeyHash == {Foreign} \cup (1..MAX_TX_ID)

TypedOutputs(tx) ==
  \A n \in DOMAIN tx.outputs : tx.outputs[n].amt \in Amount /\ tx.outputs[n].key \in KeyHash

TypedPool(pool) == \A out \in DOMAIN pool : pool[out].amt \in Amount

\* What makes up TypeOK, and what it needs: nothing comes to the pools that is
\* not typed already in the mempool, in the block in hand or in the payment
\* under construction.
PoolTypes ==
  \A out \in DOMAIN utxo_pool : utxo_pool[out].amt \in Amount /\ utxo_pool[out].key \in KeyHash
WalletTypes ==
  \A out \in DOMAIN wallet_pool :
    /\ wallet_pool[out].amt \in Amount
    /\ wallet_pool[out].key \in key_pool
    /\ wallet_pool[out].spent \in BOOLEAN
KeyTypes == key_pool \subseteq 1..MAX_TX_ID
TxTypes ==
  /\ \A tx \in ToSet(mempool) \cup AllTxs(block) \cup {building} : TypedOutputs(tx)
  /\ Building => building.id \in 1..MAX_TX_ID
LoopTypes ==
  /\ reason \in {"down", "running", "exit", "killed", "no_funds", "no_utxo"}
  /\ poolLoop # <<1, 1, 1, FALSE>> => cmd = "pools"

TypeInv == PoolTypes /\ WalletTypes /\ KeyTypes /\ TxTypes /\ LoopTypes

\* It is enough for TypeOK.
LEMMA TypeInvIsTypeOK ==
  ASSUME SpendInv, TypeInv
  PROVE  TypeOK
BY DEF SpendInv, Control, TypeInv, PoolTypes, WalletTypes, KeyTypes, LoopTypes, TypeOK, Amount, KeyHash

\* What a transaction takes from a typed pool, and what it gives out.
LEMMA TakesNumbers ==
  ASSUME NEW tx, IsTx(tx), NEW pool, TypedPool(pool), SpentOutpoints(tx) \subseteq DOMAIN pool
  PROVE  NumberList(InAmounts(tx, pool)) /\ TotalIn(tx, pool) \in Amount
<1>1. Len(tx.inputs) \in Nat /\ DOMAIN tx.inputs = 1..Len(tx.inputs)
  BY DEF IsTx
<1>2. \A k \in DOMAIN tx.inputs : InAmounts(tx, pool)[k] \in Int
  BY WidthAssumption DEF InAmounts, SpentOutpoints, TypedPool, Amount
<1>3. NumberList(InAmounts(tx, pool))
  BY <1>1, <1>2 DEF NumberList, InAmounts
<1>4. Sum(InAmounts(tx, pool), DOMAIN tx.inputs) \in Int
  BY <1>3, ListsAreSummable, SumIs DEF InAmounts
<1> QED BY <1>3, <1>4, TotalInIs, UlongIs DEF Amount

\* Amounts that are given out add up to an amount.
LEMMA GivesNumbers ==
  ASSUME NEW tx, IsTx(tx), TypedOutputs(tx)
  PROVE  NumberList(OutAmounts(tx)) /\ TotalOut(tx) \in Amount
<1>1. Len(tx.outputs) \in Nat /\ DOMAIN tx.outputs = 1..Len(tx.outputs)
  BY DEF IsTx
<1>2. \A k \in DOMAIN tx.outputs : OutAmounts(tx)[k] \in Int
  BY WidthAssumption DEF OutAmounts, TypedOutputs, Amount
<1>3. NumberList(OutAmounts(tx))
  BY <1>1, <1>2 DEF NumberList, OutAmounts
<1>4. Sum(OutAmounts(tx), DOMAIN tx.outputs) \in Int
  BY <1>3, ListsAreSummable, SumIs DEF OutAmounts
<1> QED BY <1>3, <1>4, TotalOutIs, UlongIs DEF Amount

\* Fees are numbers, each an unsigned int.
LEMMA FeeIsUint ==
  ASSUME NEW tx, IsTx(tx), TypedOutputs(tx),
         NEW pool, TypedPool(pool), SpentOutpoints(tx) \subseteq DOMAIN pool
  PROVE  CalcTxFees(tx, pool) \in 0..(UINT_MOD - 1)
<1> DEFINE out == IF tx.outputs = <<>> THEN 0 ELSE Len(tx.outputs) * tx.outputs[1].amt
<1>1. TotalIn(tx, pool) \in Int
  BY TakesNumbers, WidthAssumption DEF Amount
<1>2. out \in Int
  <2>1. Len(tx.outputs) \in Nat /\ DOMAIN tx.outputs = 1..Len(tx.outputs)
        /\ (Len(tx.outputs) = 0 => tx.outputs = <<>>)
    BY DEF IsTx
  <2>2. CASE tx.outputs # <<>>
    <3>1. 1 \in DOMAIN tx.outputs
      BY <2>1, <2>2
    <3>2. tx.outputs[1].amt \in Int
      BY <3>1, WidthAssumption DEF TypedOutputs, Amount
    <3> DEFINE a == tx.outputs[1].amt
               l == Len(tx.outputs)
    <3>3. l * a \in Int
      <4>1. a \in Int /\ l \in Int
        BY <2>1, <3>2
      <4> HIDE DEF a, l
      <4> QED BY <4>1
    <3> QED BY <2>2, <3>3
  <2> QED BY <2>2
<1>3. CalcTxFees(tx, pool) = Uint(Ulong(TotalIn(tx, pool) - out))
  BY DEF CalcTxFees
<1> HIDE DEF out
<1>4. TotalIn(tx, pool) - out \in Int
  BY <1>1, <1>2
<1>5. Ulong(TotalIn(tx, pool) - out) \in Int
  BY <1>4, UlongIs, WidthAssumption
<1> QED BY <1>3, <1>5, UintIs

\* The coinbase of a block made from a typed mempool.
LEMMA CoinbaseTyped ==
  ASSUME SpendInv, TypeInv, FeesKnown, NEW id \in 1..MAX_TX_ID
  PROVE  TypedOutputs(CoinbaseTx(id))
<1> DEFINE txs == TxsFromMempool
           w == FeesOf(txs, utxo_pool)
<1>1. txs \in Seq(ToSet(mempool))
  BY FrontOfMempool DEF SpendInv, Tables
<1>2. Len(txs) \in Nat /\ DOMAIN txs = 1..Len(txs) /\ \A n \in DOMAIN txs : txs[n] \in ToSet(mempool)
  BY <1>1
<1>3. TypedPool(utxo_pool)
  BY DEF TypeInv, PoolTypes, TypedPool
<1>4. \A n \in DOMAIN txs : CalcTxFees(txs[n], utxo_pool) \in Int
  <2> SUFFICES ASSUME NEW n \in DOMAIN txs
               PROVE  CalcTxFees(txs[n], utxo_pool) \in Int
    OBVIOUS
  <2>1. IsTx(txs[n]) /\ TypedOutputs(txs[n]) /\ SpentOutpoints(txs[n]) \subseteq DOMAIN utxo_pool
    BY <1>2 DEF SpendInv, Owners, TypeInv, TxTypes, FeesKnown, FeesComputable
  <2> QED BY <1>3, <2>1, FeeIsUint, WidthAssumption
<1>5. NumberList(w)
  <2> HIDE DEF txs
  <2> QED BY <1>2, <1>4 DEF NumberList, FeesOf
<1>6. MinerFees(txs, utxo_pool) \in Int
  <2>1. Sum(w, DOMAIN txs) \in Int
    BY <1>5, ListsAreSummable, SumIs DEF FeesOf
  <2> HIDE DEF txs
  <2> QED BY <1>5, <2>1, FeeSumIs, UlongIs, WidthAssumption
<1>7. CoinbaseAmount(MinerFees(txs, utxo_pool)) \in Amount
  <2>1. MinerFees(txs, utxo_pool) + BLOCK_REWARD \in Int
    BY <1>6, RewardAssumption, WidthAssumption
  <2> QED BY <2>1, UlongIs DEF CoinbaseAmount, Amount
<1> HIDE DEF txs
<1>8. CoinbaseTx(id).outputs = <<[amt |-> CoinbaseAmount(MinerFees(txs, utxo_pool)), key |-> id]>>
  BY DEF CoinbaseTx, txs
<1> DEFINE a == CoinbaseAmount(MinerFees(txs, utxo_pool))
<1> HIDE DEF a
<1>9. TypedOutputs([outputs |-> <<[amt |-> a, key |-> id]>>])
  BY <1>7 DEF TypedOutputs, KeyHash, a
<1> QED BY <1>8, <1>9 DEF TypedOutputs, a

\* What is held adds up.
LEMMA HeldNumbers ==
  ASSUME SpendInv, TypeInv, NEW outs, outs \subseteq DOMAIN wallet_pool
  PROVE  /\ Summable(Held(outs)) /\ Sum(Held(outs), Unspent(outs)) \in Int
         /\ InTotal(outs) \in Amount
<1>1. IsFiniteSet(Unspent(outs)) /\ Unspent(outs) \subseteq DOMAIN wallet_pool
  BY FS_Subset DEF SpendInv, WalletShape, Unspent
<1>2. \A out \in Unspent(outs) : wallet_pool[out].amt \in Int
  BY <1>1, WidthAssumption DEF TypeInv, WalletTypes, Amount
<1>3. Summable(Held(outs)) /\ DOMAIN Held(outs) = Unspent(outs)
  BY <1>1, <1>2 DEF Summable, Held
<1>4. Sum(Held(outs), Unspent(outs)) \in Int
  BY <1>3, SumIs
<1> QED BY <1>3, <1>4, InTotalIs, UlongIs DEF Amount

\* The iterator visits entries of the wallet.
LEMMA VisitedInWallet ==
  ASSUME NEW out_total
  PROVE  Visited(out_total) \subseteq DOMAIN wallet_pool
BY DEF Visited, SeenAt

\* build_outputs
LEMMA BuiltTxTyped ==
  ASSUME SpendInv, TypeInv, NEW dest \in Dests, NEW amt \in AMOUNTS, NEW fee \in FEES,
         NEW id \in 1..MAX_TX_ID
  PROVE  TypedOutputs(BuiltTx(id, dest, amt, fee))
<1> DEFINE total == OutTotal(amt, fee)
           paid == [amt |-> amt, key |-> dest]
           left == [amt |-> ChangeAmount(total), key |-> id]
<1>1. total \in Amount /\ amt \in Amount
  <2>1. amt \in Amount /\ fee + amt \in Int
    BY AmountsAssumption, WidthAssumption DEF Amount
  <2> QED BY <2>1, UlongIs DEF OutTotal, Amount
<1>2. ChangeAmount(total) \in Amount
  <2>1. InTotal(Visited(total)) - total \in Int
    <3>1. InTotal(Visited(total)) \in Amount
      BY VisitedInWallet, HeldNumbers
    <3> HIDE DEF total
    <3> QED BY <1>1, <3>1, WidthAssumption DEF Amount
  <2> HIDE DEF total
  <2> QED BY <2>1, UlongIs DEF ChangeAmount, Amount
<1>3. dest \in KeyHash /\ id \in KeyHash
  BY DEF Dests, TypeInv, KeyTypes, KeyHash
<1>4. BuiltTx(id, dest, amt, fee).outputs = <<paid>> \o (IF HasChange(total) THEN <<left>> ELSE <<>>)
  BY DEF BuiltTx
<1> HIDE DEF total
<1>5. /\ paid.amt \in Amount /\ paid.key \in KeyHash
      /\ left.amt \in Amount /\ left.key \in KeyHash
  BY <1>1, <1>2, <1>3
<1> HIDE DEF paid, left
<1>6. BuiltTx(id, dest, amt, fee).outputs \in Seq({paid, left})
  BY <1>4, OneOrTwo
<1>7. \A n \in DOMAIN BuiltTx(id, dest, amt, fee).outputs :
        BuiltTx(id, dest, amt, fee).outputs[n] \in {paid, left}
  BY <1>6
<1> QED BY <1>5, <1>7 DEF TypedOutputs

\* Nothing is stored at first.
LEMMA TypeInit == Init => TypeInv
<1> SUFFICES ASSUME Init PROVE TypeInv
  OBVIOUS
<1>1. /\ utxo_pool = <<>> /\ wallet_pool = <<>> /\ key_pool = {} /\ mempool = <<>>
      /\ block = NoBlock /\ building = NoTx /\ cmd = "boot" /\ reason = "down"
      /\ pool_tx = 1 /\ pool_out = 1 /\ pool_in = 1 /\ half = FALSE
  BY DEF Init, ChainInit, WalletInit, HandleBlockInit, M!MempoolInit
<1>2. PoolTypes /\ WalletTypes /\ KeyTypes
  BY <1>1 DEF PoolTypes, WalletTypes, KeyTypes
<1>4. LoopTypes
  <2>1. poolLoop = <<1, 1, 1, FALSE>>
    BY <1>1, Zenon DEF poolLoop
  <2> QED BY <1>1, <2>1 DEF LoopTypes
<1>3. TxTypes
  BY <1>1 DEF TxTypes, TypedOutputs, ToSet, AllTxs, NoTx, NoBlock, Building
<1> QED BY <1>2, <1>3, <1>4 DEF TypeInv

\* The databases are left alone and nothing new comes into the hands of the process.
LEMMA QuietTypes ==
  ASSUME TypeInv, UNCHANGED <<utxo_pool, wallet_pool, key_pool>>,
         ToSet(mempool') \subseteq ToSet(mempool) \cup {building},
         block' \in {block, NoBlock}, building' \in {building, NoTx},
         Building' => Building /\ building' = building,
         LoopTypes'
  PROVE  TypeInv'
<1>1. PoolTypes' /\ WalletTypes' /\ KeyTypes'
  BY DEF TypeInv, PoolTypes, WalletTypes, KeyTypes
<1>2. TypedOutputs(NoTx) /\ AllTxs(NoBlock) = {}
  BY DEF TypedOutputs, NoTx, AllTxs, NoBlock
<1>3. \A tx \in ToSet(mempool') \cup AllTxs(block') \cup {building'} :
        tx \in ToSet(mempool) \cup AllTxs(block) \cup {building} \/ tx = NoTx
  <2>1. \A tx \in AllTxs(block') : tx \in AllTxs(block)
    BY <1>2
  <2> QED BY <2>1
<1>4. TxTypes'
  BY <1>2, <1>3 DEF TypeInv, TxTypes
<1> QED BY <1>1, <1>4 DEF TypeInv

\* The process ends.
LEMMA HaltTypes ==
  ASSUME TypeInv, NEW why \in {"exit", "killed", "no_funds", "no_utxo"}, Halt(why)
  PROVE  TypeInv'
<1>1. /\ UNCHANGED <<utxo_pool, wallet_pool, key_pool>> /\ mempool' = <<>> /\ block' = NoBlock
      /\ building' = NoTx /\ cmd' = "boot" /\ reason' = why
      /\ pool_tx' = 1 /\ pool_out' = 1 /\ pool_in' = 1 /\ half' = FALSE
  BY DEF Halt, walletDisk
<1>2. LoopTypes'
  <2>1. poolLoop' = <<1, 1, 1, FALSE>>
    BY <1>1, Zenon DEF poolLoop
  <2> QED BY <1>1, <2>1 DEF LoopTypes
<1>3. ToSet(mempool') = {} /\ ~Building'
  BY <1>1 DEF ToSet, Building
<1> QED BY <1>1, <1>2, <1>3, QuietTypes

\* create_block
LEMMA MineTypes ==
  ASSUME SpendInv, TypeInv, Mine, FeesKnown
  PROVE  TypeInv'
<1>1. PICK id \in UnusedIds : CreateBlock(id)
  BY DEF Mine
<1>2. /\ UNCHANGED <<utxo_pool, wallet_pool, mempool, building, reason, poolLoop>>
      /\ block' = NewBlock(id) /\ key_pool' = key_pool \cup {id}
      /\ cmd = "idle" /\ cmd' = "mined"
  BY <1>1 DEF Mine, Idle, CreateBlock, buildVars, memVars
<1>3. id \in 1..MAX_TX_ID
  BY DEF UnusedIds
<1>4. PoolTypes' /\ WalletTypes' /\ KeyTypes' /\ LoopTypes'
  BY <1>2, <1>3 DEF TypeInv, PoolTypes, WalletTypes, KeyTypes, LoopTypes
<1>5. TypedOutputs(CoinbaseTx(id))
  BY <1>3, CoinbaseTyped
<1>6. \A tx \in AllTxs(block') : tx = CoinbaseTx(id) \/ tx \in ToSet(mempool)
  <2> DEFINE txs == NewBlock(id).txs
  <2>1. /\ txs \in Seq(ToSet(txs)) /\ Len(txs) > 0
        /\ txs[1] = CoinbaseTx(id)
        /\ \A i \in 2..Len(txs) : i - 1 \in DOMAIN mempool /\ txs[i] = mempool[i - 1]
    BY FrontOfMempool DEF SpendInv, Tables
  <2>2. AllTxs(block') = {txs[i] : i \in DOMAIN txs}
    BY <1>2 DEF AllTxs
  <2> HIDE DEF txs
  <2>3. \A i \in DOMAIN txs : i = 1 \/ i \in 2..Len(txs)
    BY <2>1
  <2> QED BY <2>1, <2>2, <2>3 DEF ToSet
<1>7. TxTypes'
  BY <1>2, <1>5, <1>6 DEF TypeInv, TxTypes, Building
<1> QED BY <1>4, <1>7 DEF TypeInv

\* build_tx until its first write
LEMMA CreateTxTypes ==
  ASSUME SpendInv, TypeInv, NEW dest \in Dests, NEW amt \in AMOUNTS, NEW fee \in FEES,
         CreateTx(dest, amt, fee)
  PROVE  TypeInv'
<1>1. PICK id \in IdsFor(dest, amt, fee) : StartBuild(id, dest, amt, fee)
  BY DEF CreateTx
<1>2. /\ UNCHANGED <<utxo_pool, wallet_pool, key_pool, mempool, block, reason, poolLoop>>
      /\ building' = BuiltTx(id, dest, amt, fee) /\ cmd' = "build" /\ cmd = "idle"
  BY <1>1 DEF CreateTx, Idle, StartBuild, blockVars, memVars, walletDisk
<1>3. id \in 1..MAX_TX_ID /\ building'.id = id
  BY <1>2 DEF IdsFor, UnusedIds, BuiltTx
<1>4. PoolTypes' /\ WalletTypes' /\ KeyTypes' /\ LoopTypes'
  BY <1>2 DEF TypeInv, PoolTypes, WalletTypes, KeyTypes, LoopTypes
<1>5. TxTypes'
  BY <1>2, <1>3, BuiltTxTyped DEF TypeInv, TxTypes
<1> QED BY <1>4, <1>5 DEF TypeInv

\* One more mark, one more key.
LEMMA BuildTypes ==
  ASSUME SpendInv, TypeInv, BuildStep \/ BuildDone
  PROVE  TypeInv'
<1>1. /\ UNCHANGED <<utxo_pool, mempool, block, building, reason, poolLoop>>
      /\ Building /\ Building' /\ cmd' # "pools" /\ cmd # "pools"
      /\ \/ /\ UNCHANGED wallet_pool
            /\ key_pool' \in {key_pool, key_pool \cup {building.id}}
         \/ /\ UNCHANGED key_pool
            /\ wallet_pool' = [wallet_pool EXCEPT ![Head(to_mark)].spent = TRUE]
  BY DEF BuildStep, BuildDone, MarkSpent, StoreChangeKey, blockVars, memVars, Building
<1>2. KeyTypes' /\ key_pool \subseteq key_pool'
  BY <1>1 DEF TypeInv, KeyTypes, TxTypes
<1>3. WalletTypes'
  <2>1. CASE UNCHANGED wallet_pool
    BY <1>2, <2>1 DEF TypeInv, WalletTypes
  <2>2. CASE /\ UNCHANGED key_pool
             /\ wallet_pool' = [wallet_pool EXCEPT ![Head(to_mark)].spent = TRUE]
    BY <2>2 DEF TypeInv, WalletTypes, SpendInv, WalletShape
  <2> QED BY <1>1, <2>1, <2>2
<1>4. PoolTypes' /\ LoopTypes' /\ TxTypes'
  BY <1>1 DEF TypeInv, PoolTypes, LoopTypes, TxTypes
<1> QED BY <1>2, <1>3, <1>4 DEF TypeInv

\* A write to the pools: of an output of the block.
LEMMA WriteTypes ==
  ASSUME SpendInv, MirrorInv, TypeInv, UpdatePools
  PROVE  TypeInv'
<1>1. /\ UNCHANGED <<key_pool, mempool, block, building, reason, cmd>> /\ cmd = "pools"
      /\ CurrentTx \in AllTxs(block) /\ IsTx(CurrentTx)
      /\ pool_out \in Nat \ {0} /\ pool_in \in Nat \ {0} /\ pool_tx <= Len(block.txs)
      /\ PutOutput \/ DeleteInput \/ NextPoolTx
  BY UpdatePoolsFrame DEF UpdatePools, WritePools, PutOutput, DeleteInput, NextPoolTx, poolDisk,
     SpendInv, BlockShape, Handling, Accepting
<1>2. KeyTypes' /\ LoopTypes' /\ TxTypes'
  BY <1>1 DEF TypeInv, KeyTypes, LoopTypes, TxTypes, Building
<1>3. CASE PutOutput
  <2> DEFINE out == Outpoint(CurrentTx, pool_out)
             output == CurrentTx.outputs[pool_out]
  <2>1. pool_out \in DOMAIN CurrentTx.outputs /\ pool_out <= Len(CurrentTx.outputs)
    BY <1>1, <1>3 DEF PutOutput, IsTx
  <2>2. output.amt \in Amount /\ output.key \in KeyHash
    BY <1>1, <2>1 DEF TypeInv, TxTypes, TypedOutputs
  <2>3. CASE ~half
    <3>1. utxo_pool' = Put(utxo_pool, out, output) /\ wallet_pool' = wallet_pool
      BY <1>3, <2>3 DEF PutOutput
    <3> HIDE DEF out, output
    <3> QED BY <1>1, <1>2, <2>2, <3>1 DEF TypeInv, PoolTypes, WalletTypes, Put
  <2>4. CASE half
    <3>1. wallet_pool' = Put(wallet_pool, out, WalletEntry(output)) /\ utxo_pool' = utxo_pool
      BY <1>3, <2>4 DEF PutOutput
    <3>2. output.key \in key_pool
      BY <1>1, <2>1, <2>4 DEF MirrorInv, Decided, Entering
    <3>3. WalletEntry(output) = [amt |-> output.amt, key |-> output.key, spent |-> FALSE]
      BY DEF WalletEntry
    <3>4. PoolTypes'
      BY <3>1 DEF TypeInv, PoolTypes
    <3> HIDE DEF out, output
    <3>5. ASSUME NEW o \in DOMAIN wallet_pool'
          PROVE  /\ wallet_pool'[o].amt \in Amount
                 /\ wallet_pool'[o].key \in key_pool
                 /\ wallet_pool'[o].spent \in BOOLEAN
      <4>1. wallet_pool'[o] = IF o = out THEN WalletEntry(output) ELSE wallet_pool[o]
        BY <3>1 DEF Put
      <4>2. CASE o = out
        BY <2>2, <3>2, <3>3, <4>1, <4>2
      <4>3. CASE o # out
        <5>1. o \in DOMAIN wallet_pool
          BY <3>1, <4>3 DEF Put
        <5> QED BY <4>1, <4>3, <5>1 DEF TypeInv, WalletTypes
      <4> QED BY <4>2, <4>3
    <3>6. WalletTypes'
      BY <1>1, <3>5 DEF WalletTypes
    <3> QED BY <1>2, <3>4, <3>6 DEF TypeInv
  <2> QED BY <2>3, <2>4
<1>4. CASE DeleteInput \/ NextPoolTx
  <2>1. /\ DOMAIN utxo_pool' \subseteq DOMAIN utxo_pool
        /\ \A out \in DOMAIN utxo_pool' : utxo_pool'[out] = utxo_pool[out]
        /\ DOMAIN wallet_pool' \subseteq DOMAIN wallet_pool
        /\ \A out \in DOMAIN wallet_pool' : wallet_pool'[out] = wallet_pool[out]
    BY <1>4 DEF DeleteInput, NextPoolTx, Delete, poolDisk
  <2> QED BY <1>1, <1>2, <2>1 DEF TypeInv, PoolTypes, WalletTypes
<1> QED BY <1>1, <1>3, <1>4

\* update_mempool only takes away.
LEMMA PurgeTypes ==
  ASSUME SpendInv, TypeInv, UpdateMempool
  PROVE  TypeInv'
<1>1. /\ UNCHANGED <<utxo_pool, wallet_pool, key_pool, block, building, reason, poolLoop>>
      /\ cmd = "mempool" /\ cmd' = cmd
  BY DEF UpdateMempool, walletDisk, buildVars, blockVars
<1>2. ToSet(mempool') \subseteq ToSet(mempool)
  <2>1. mempool' = mempool \/ \E tx_id : M!MempoolRemove(tx_id)
    BY DEF UpdateMempool, M!VisitInput, M!NextConfirmedTx, M!poolVars
  <2>2. CASE mempool' = mempool
    BY <2>2
  <2>3. ASSUME NEW tx_id, M!MempoolRemove(tx_id)
        PROVE  ToSet(mempool') \subseteq ToSet(mempool)
    BY <2>3, EvictOne
  <2> QED BY <2>1, <2>2, <2>3
<1>3. LoopTypes' /\ ~Building'
  BY <1>1 DEF TypeInv, LoopTypes, Building
<1> QED BY <1>1, <1>2, <1>3, QuietTypes

\* The rest of what the process does by itself.
LEMMA OtherTypes ==
  ASSUME SpendInv, TypeInv,
         \/ Boot \/ BootStep \/ InitDone
         \/ AcceptBlock \/ RejectBlock \/ AddToChain \/ BeginPools \/ BeginMempool \/ MineDone
         \/ Offer
  PROVE  TypeInv'
<1>1. UNCHANGED <<utxo_pool, wallet_pool, key_pool>>
  BY DEF Boot, BootStep, InitDone, AcceptBlock, RejectBlock, AddToChain, BeginPools, BeginMempool,
     MineDone, Offer, StartUpdatePools, walletDisk, blockVars, poolDisk
<1>2. ToSet(mempool') \subseteq ToSet(mempool) \cup {building}
  <2>1. CASE Offer
    BY <2>1, OneMoreWaits
  <2>2. CASE ~Offer
    <3>1. mempool' = mempool \/ mempool' = <<>>
      BY <2>2 DEF Boot, BootStep, InitDone, AcceptBlock, RejectBlock, AddToChain, BeginPools,
         BeginMempool, MineDone, memVars
    <3> QED BY <3>1 DEF ToSet
  <2> QED BY <2>1, <2>2
<1>3. block' \in {block, NoBlock} /\ building' \in {building, NoTx}
  BY DEF Boot, BootStep, InitDone, AcceptBlock, RejectBlock, AddToChain, BeginPools, BeginMempool,
     MineDone, Offer, StartUpdatePools, buildVars, blockVars
<1>4. Building' => Building /\ building' = building
  BY DEF Boot, BootStep, InitDone, AcceptBlock, RejectBlock, AddToChain, BeginPools, BeginMempool,
     MineDone, Offer, buildVars, Building
<1>5. LoopTypes'
  <2>1. reason' = reason \/ reason' = "running"
    BY DEF Boot, BootStep, InitDone, AcceptBlock, RejectBlock, AddToChain, BeginPools,
       BeginMempool, MineDone, Offer
  <2>2. CASE BeginPools \/ BeginMempool
    <3>1. pool_tx' = 1 /\ pool_out' = 1 /\ pool_in' = 1 /\ half' = FALSE
      BY <2>2 DEF BeginPools, BeginMempool, StartUpdatePools
    <3>2. poolLoop' = <<1, 1, 1, FALSE>>
      BY <3>1, Zenon DEF poolLoop
    <3> QED BY <2>1, <3>2 DEF TypeInv, LoopTypes
  <2>3. CASE ~(BeginPools \/ BeginMempool)
    <3>1. poolLoop' = poolLoop /\ cmd # "pools"
      BY <2>3 DEF Boot, BootStep, InitDone, AcceptBlock, RejectBlock, AddToChain, MineDone, Offer,
         blockVars, SpendInv, Control, BlockchainInit
    <3> QED BY <2>1, <3>1 DEF TypeInv, LoopTypes
  <2> QED BY <2>2, <2>3
<1> QED BY <1>1, <1>2, <1>3, <1>4, <1>5, QuietTypes

\* Every step keeps the types.
LEMMA TypeStep ==
  ASSUME SpendInv, MirrorInv, TypeInv, [Next]_vars
  PROVE  TypeInv'
<1>1. CASE Boot
  BY <1>1, OtherTypes
<1>2. CASE Command
  <2>1. CASE Mine /\ FeesKnown
    BY <2>1, MineTypes
  <2>2. CASE \E dest \in Dests, amt \in AMOUNTS, fee \in FEES : CreateTx(dest, amt, fee)
    BY <2>2, CreateTxTypes
  <2>3. CASE \/ Mine /\ ~FeesKnown
             \/ \E amt \in AMOUNTS, fee \in FEES : CreateTxExits(amt, fee)
             \/ ShellExit
    BY <2>3, HaltTypes DEF Mine, CreateTxExits, ShellExit
  <2> QED BY <1>2, <2>1, <2>2, <2>3 DEF Command
<1>3. CASE Run
  BY <1>3, OtherTypes, WriteTypes, PurgeTypes, BuildTypes DEF Run
<1>4. CASE Kill
  BY <1>4, HaltTypes DEF Kill
<1>5. CASE UNCHANGED vars
  <2>1. UNCHANGED <<wallet_pool, utxo_pool, key_pool, building, block, mempool, cmd, reason, poolLoop>>
    BY <1>5 DEF vars, walletDisk, buildVars, blockVars, memVars
  <2>2. LoopTypes' /\ (Building' => Building /\ building' = building)
    BY <2>1 DEF TypeInv, LoopTypes, Building
  <2> QED BY <2>1, <2>2, QuietTypes
<1> QED BY <1>1, <1>2, <1>3, <1>4, <1>5 DEF Next

\* The invariant that TypeOK needs.
THEOREM TypeInvariant == Spec => []TypeInv
<1>1. TypeInv /\ SpendInv /\ MirrorInv /\ [Next]_vars => TypeInv'
  BY TypeStep
<1> QED BY TypeInit, SpendInvariant, MirrorInvariant, <1>1, PTL DEF Spec

\* Whatever amounts of 64 bits the operator asks for, every amount in the two
\* pools fits the type it is stored with, every key is one the node can name,
\* and every entry of the wallet is locked with a key that is on disk.
THEOREM NodeTypeCorrect == Spec => []TypeOK
<1>1. SpendInv /\ TypeInv => TypeOK
  BY TypeInvIsTypeOK
<1> QED BY SpendInvariant, TypeInvariant, <1>1, PTL

-----------------------------------------------------------------------------
(* What a payment is worth.                                                *)

\* It gives out something; it spends something if the operator asked for more than
\* nothing, and takes in as much as it gives out if no sum wrapped around.
Worth(tx) ==
  /\ tx.outputs # <<>>
  /\ Positive => ~NothingPutIn(tx)
  /\ NoWrap => TotalIn(tx, utxo_pool) >= TotalOut(tx)

\* All that is being built or waits to be mined.
WorthInv ==
  /\ Building => Worth(building)
  /\ \A tx \in ToSet(mempool) : tx.id \notin IdsOf(blockchain_db) => Worth(tx)

\* What one output, and what two outputs, pay.
LEMMA OneOutput ==
  ASSUME NEW tx, NEW a, tx.outputs = <<a>>, a.amt \in Amount
  PROVE  TotalOut(tx) = a.amt
<1> DEFINE w == OutAmounts(tx)
<1>1. DOMAIN tx.outputs = 1..1 /\ DOMAIN w = 1..1 /\ w[1] = a.amt
  BY DEF OutAmounts
<1>2. NumberList(w)
  BY <1>1, WidthAssumption DEF NumberList, Amount
<1>3. Sum(w, {1}) = a.amt
  <2>1. Sum(w, {1}) = w[1] + Sum(w, {1} \ {1}) /\ Sum(w, {}) = 0
    BY <1>1, <1>2, ListsAreSummable, SumIs
  <2>2. {1} \ {1} = {} /\ a.amt \in Int
    BY WidthAssumption DEF Amount
  <2> QED BY <1>1, <2>1, <2>2
<1>4. TotalOut(tx) = Ulong(a.amt)
  BY <1>1, <1>2, <1>3, TotalOutIs
<1> QED BY <1>4, UlongIs, WidthAssumption DEF Amount

\* The destination and the change, in this order.
LEMMA BothOutputs ==
  ASSUME NEW first, NEW second
  PROVE  <<first>> \o <<second>> = <<first, second>>
<1> DEFINE s == <<first>>
           t == <<second>>
           both == <<first, second>>
<1>1. /\ s \in Seq({first, second}) /\ t \in Seq({first, second}) /\ both \in Seq({first, second})
      /\ Len(s) = 1 /\ Len(t) = 1 /\ Len(both) = 2
      /\ s[1] = first /\ t[1] = second /\ both[1] = first /\ both[2] = second
  OBVIOUS
<1> HIDE DEF s, t, both
<1>2. /\ s \o t \in Seq({first, second}) /\ Len(s \o t) = 2
      /\ \A i \in 1..2 : (s \o t)[i] = IF i <= 1 THEN s[i] ELSE t[i - 1]
  <2> DEFINE S == {first, second}
  <2>1. s \in Seq(S) /\ t \in Seq(S)
    BY <1>1
  <2> HIDE DEF S
  <2>2. /\ s \o t \in Seq(S) /\ Len(s \o t) = Len(s) + Len(t)
        /\ \A i \in 1..(Len(s) + Len(t)) : (s \o t)[i] = IF i <= Len(s) THEN s[i] ELSE t[i - Len(s)]
    BY <2>1, ConcatProperties
  <2> QED BY <1>1, <2>2 DEF S
<1> DEFINE u == s \o t
<1>3. u[1] = first /\ u[2] = second
  BY <1>1, <1>2
<1> HIDE DEF u
<1>4. u = both
  BY <1>1, <1>2, <1>3 DEF u
<1> QED BY <1>4 DEF u, s, t, both

\* The destination and the change are paid together.
LEMMA TwoOutputs ==
  ASSUME NEW tx, NEW a, NEW b, tx.outputs = <<a, b>>, a.amt \in Int, b.amt \in Int
  PROVE  TotalOut(tx) = Ulong(a.amt + b.amt)
<1> DEFINE w == OutAmounts(tx)
<1>1. DOMAIN tx.outputs = {1, 2} /\ DOMAIN w = 1..2 /\ w[1] = a.amt /\ w[2] = b.amt
  BY DEF OutAmounts
<1>2. NumberList(w)
  BY <1>1 DEF NumberList
<1>3. Sum(w, {1, 2}) = a.amt + b.amt
  <2>1. /\ Sum(w, {1, 2}) = w[1] + Sum(w, {1, 2} \ {1})
        /\ Sum(w, {2}) = w[2] + Sum(w, {2} \ {2}) /\ Sum(w, {}) = 0
    BY <1>1, <1>2, ListsAreSummable, SumIs
  <2>2. {1, 2} \ {1} = {2} /\ {2} \ {2} = {}
    OBVIOUS
  <2>3. w[1] \in Int /\ w[2] \in Int
    BY <1>1
  <2> HIDE DEF w
  <2>4. Sum(w, {1, 2}) = w[1] + (w[2] + 0)
    BY <2>1, <2>2
  <2> QED BY <1>1, <2>3, <2>4
<1> QED BY <1>1, <1>2, <1>3, TotalOutIs

\* What a transaction takes is the same from two pools that have the same for it.
LEMMA SameTotalIn ==
  ASSUME NEW tx, IsTx(tx), NEW pool, NEW more, TypedPool(pool),
         \A out \in SpentOutpoints(tx) : out \in DOMAIN pool /\ more[out] = pool[out]
  PROVE  TotalIn(tx, more) = TotalIn(tx, pool)
<1>1. NumberList(InAmounts(tx, pool))
  BY TakesNumbers
<1>2. InAmounts(tx, more) = InAmounts(tx, pool)
  BY DEF InAmounts, SpentOutpoints
<1> QED BY <1>1, <1>2, TotalInIs

\* The inputs of a payment are the entries that were selected.
LEMMA BuiltInputs ==
  ASSUME SpendInv, NEW id, NEW dest, NEW amt, NEW fee
  PROVE  LET tx == BuiltTx(id, dest, amt, fee)
             selected == Selected(OutTotal(amt, fee))
             from == Unspent(Visited(OutTotal(amt, fee)))
         IN  /\ DOMAIN tx.inputs = DOMAIN selected
             /\ \A k \in DOMAIN selected : tx.inputs[k].prev = selected[k] /\ selected[k] \in from
             /\ {selected[k] : k \in DOMAIN selected} = from
             /\ \A k, l \in DOMAIN selected : selected[k] = selected[l] => k = l
<1> DEFINE tx == BuiltTx(id, dest, amt, fee)
           total == OutTotal(amt, fee)
           selected == Selected(total)
           from == Unspent(Visited(total))
           input(k) == [prev |-> selected[k], key |-> wallet_pool[selected[k]].key, signed |-> TRUE]
<1>1. tx.inputs = [k \in DOMAIN selected |-> input(k)]
  BY DEF BuiltTx
<1>2. IsFiniteSet(from) /\ from \subseteq Int \X Int
  <2>1. from \subseteq DOMAIN wallet_pool
    BY VisitedInWallet DEF Unspent
  <2> QED BY <2>1, FS_Subset DEF SpendInv, WalletShape
<1>3. selected = InKeyOrder(from)
  BY DEF Selected
<1>4. /\ selected \in Seq(from) /\ ToSet(selected) = from
      /\ \A k, l \in DOMAIN selected : selected[k] = selected[l] => k = l
  <2> HIDE DEF selected, from
  <2> QED BY <1>2, <1>3, InKeyOrderLists
<1> HIDE DEF selected, from, tx, total
<1>5. \A k \in DOMAIN selected : tx.inputs[k].prev = selected[k] /\ selected[k] \in from
  BY <1>1, <1>4
<1>6. DOMAIN tx.inputs = DOMAIN selected
  BY <1>1
<1> QED BY <1>4, <1>5, <1>6 DEF ToSet, selected, from, tx, total

\* What they give by the UTXO pool is what they give by the wallet.
LEMMA BuiltTakes ==
  ASSUME SpendInv, TypeInv, NEW id \in Int, NEW dest, NEW amt, NEW fee
  PROVE  TotalIn(BuiltTx(id, dest, amt, fee), utxo_pool) = InTotal(Visited(OutTotal(amt, fee)))
<1> DEFINE tx == BuiltTx(id, dest, amt, fee)
           total == OutTotal(amt, fee)
           selected == Selected(total)
           from == Unspent(Visited(total))
           w == InAmounts(tx, utxo_pool)
           v == Held(Visited(total))
<1>1. /\ DOMAIN tx.inputs = DOMAIN selected
      /\ \A k \in DOMAIN selected : tx.inputs[k].prev = selected[k] /\ selected[k] \in from
      /\ {selected[k] : k \in DOMAIN selected} = from
      /\ \A k, l \in DOMAIN selected : selected[k] = selected[l] => k = l
  BY BuiltInputs
<1>2. Summable(v) /\ DOMAIN v = from
  BY VisitedInWallet, HeldNumbers DEF Held
<1>3. \A out \in from : /\ out \in DOMAIN utxo_pool /\ v[out] = wallet_pool[out].amt
                        /\ utxo_pool[out].amt = wallet_pool[out].amt
  BY VisitedInWallet DEF SpendInv, UnspentBacked, Unspent, Held
<1>4. NumberList(w)
  <2>1. IsTx(tx)
    BY BuiltTxFits DEF SpendInv
  <2>2. TypedPool(utxo_pool)
    BY DEF TypeInv, PoolTypes, TypedPool
  <2>3. SpentOutpoints(tx) \subseteq DOMAIN utxo_pool
    <3> HIDE DEF tx, selected, from, total
    <3> QED BY <1>1, <1>3 DEF SpentOutpoints
  <2> QED BY <2>1, <2>2, <2>3, TakesNumbers
<1>5. \A k \in DOMAIN selected : w[k] = v[selected[k]]
  <2> HIDE DEF tx, selected, from, total, v
  <2> QED BY <1>1, <1>3 DEF InAmounts
<1>6. Sum(w, DOMAIN selected) = Sum(v, from)
  <2>1. Summable(w) /\ DOMAIN w = DOMAIN selected
    BY <1>1, <1>4, ListsAreSummable DEF InAmounts
  <2> HIDE DEF w, v, selected, from
  <2> QED BY <1>1, <1>2, <1>5, <2>1, SumRenamed
<1>7. TotalIn(tx, utxo_pool) = Ulong(Sum(w, DOMAIN selected))
  BY <1>1, <1>4, TotalInIs
<1>8. InTotal(Visited(total)) = Ulong(Sum(v, from))
  BY <1>2, InTotalIs
<1> QED BY <1>6, <1>7, <1>8

\* Nothing selected is nothing put in.
LEMMA SomethingSelected ==
  ASSUME SpendInv, TypeInv, NEW out_total \in Nat, EnoughFunds(out_total), out_total > 0
  PROVE  Unspent(Visited(out_total)) # {}
<1> SUFFICES ASSUME Unspent(Visited(out_total)) = {}
             PROVE  FALSE
  OBVIOUS
<1>1. Summable(Held(Visited(out_total))) /\ Sum(Held(Visited(out_total)), {}) = 0
  BY VisitedInWallet, HeldNumbers, SumIs
<1>2. InTotal(Visited(out_total)) = 0
  BY <1>1, InTotalIs, UlongIs, WidthAssumption
<1> QED BY <1>2 DEF EnoughFunds

\* A payment of more than nothing puts something in.
LEMMA BuiltTxSpends ==
  ASSUME SpendInv, TypeInv, Positive, NEW dest, NEW amt \in AMOUNTS, NEW fee \in FEES,
         NEW id, EnoughFunds(OutTotal(amt, fee))
  PROVE  BuiltTx(id, dest, amt, fee).inputs # <<>>
<1> DEFINE tx == BuiltTx(id, dest, amt, fee)
           total == OutTotal(amt, fee)
<1>1. total > 0 /\ total \in Nat
  <2>1. fee + amt \in Int
    BY AmountsAssumption, WidthAssumption
  <2>2. OutTotal(amt, fee) \in Nat
    BY <2>1, UlongIs, WidthAssumption DEF OutTotal
  <2> QED BY <2>2 DEF Positive
<1>2. Unspent(Visited(total)) # {}
  BY <1>1, SomethingSelected
<1>3. /\ DOMAIN tx.inputs = DOMAIN Selected(total)
      /\ {Selected(total)[k] : k \in DOMAIN Selected(total)} = Unspent(Visited(total))
  <2> HIDE DEF total, tx
  <2>1. total = OutTotal(amt, fee) /\ tx = BuiltTx(id, dest, amt, fee)
    BY DEF total, tx
  <2> QED BY <2>1, BuiltInputs
<1> HIDE DEF tx, total
<1>4. \E k : k \in DOMAIN tx.inputs
  BY <1>2, <1>3
<1> QED BY <1>4 DEF tx

\* What build_tx makes takes in the payment, the fee and the change.
LEMMA BuiltTxPays ==
  ASSUME SpendInv, TypeInv, NoWrap, NEW dest, NEW amt \in AMOUNTS, NEW fee \in FEES,
         NEW id \in 1..MAX_TX_ID, EnoughFunds(OutTotal(amt, fee))
  PROVE  TotalIn(BuiltTx(id, dest, amt, fee), utxo_pool) >= TotalOut(BuiltTx(id, dest, amt, fee))
<1> DEFINE tx == BuiltTx(id, dest, amt, fee)
           total == OutTotal(amt, fee)
           in == InTotal(Visited(total))
           paid == [amt |-> amt, key |-> dest]
           left == [amt |-> ChangeAmount(total), key |-> id]
<1>1. /\ amt \in Amount /\ amt \in Nat /\ fee \in Nat /\ fee + amt < ULONG_MOD
      /\ total = fee + amt /\ total \in Nat
  <2>1. /\ amt \in Amount /\ amt \in Nat /\ fee \in Nat /\ fee + amt \in Int
        /\ fee + amt \in 0..(ULONG_MOD - 1)
    BY AmountsAssumption, WidthAssumption DEF NoWrap, Amount
  <2>2. OutTotal(amt, fee) = fee + amt
    BY <2>1, UlongIs DEF OutTotal
  <2> QED BY <2>1, <2>2, WidthAssumption
<1>2. in \in Amount /\ in >= total
  BY VisitedInWallet, HeldNumbers DEF EnoughFunds
<1>3. TotalIn(tx, utxo_pool) = in
  BY BuiltTakes, IdAssumption
<1>4. tx.outputs = <<paid>> \o (IF HasChange(total) THEN <<left>> ELSE <<>>)
  BY DEF BuiltTx
<1>5. HasChange(total) <=> in # total
  BY DEF HasChange
<1>6. CASE in = total
  <2>1. tx.outputs = <<paid>>
    BY <1>4, <1>5, <1>6
  <2>2. TotalOut(tx) = amt
    <3> HIDE DEF tx
    <3> QED BY <1>1, <2>1, OneOutput
  <2> HIDE DEF tx, total, in
  <2>3. in >= amt
    BY <1>1, <1>2
  <2> QED BY <1>3, <2>2, <2>3 DEF tx
<1>7. CASE in # total
  <2>1. tx.outputs = <<paid, left>>
    <3>1. tx.outputs = <<paid>> \o <<left>>
      BY <1>4, <1>5, <1>7
    <3> HIDE DEF paid, left, tx
    <3> QED BY <3>1, BothOutputs
  <2>2. ChangeAmount(total) = in - total
    <3>1. ChangeAmount(total) = Ulong(in - total)
      BY DEF ChangeAmount
    <3> HIDE DEF in, total
    <3>2. in - total \in 0..(ULONG_MOD - 1) /\ in - total \in Int
      BY <1>1, <1>2, WidthAssumption DEF Amount
    <3> QED BY <3>1, <3>2, UlongIs
  <2>3. left.amt = in - total /\ left.amt \in Int /\ paid.amt = amt
    <3>1. left.amt = in - total /\ paid.amt = amt
      BY <2>2
    <3> HIDE DEF in, total, left, paid
    <3> QED BY <1>1, <1>2, <3>1, WidthAssumption DEF Amount
  <2>4. TotalOut(tx) = Ulong(paid.amt + left.amt)
    <3> HIDE DEF tx, paid, left, total, in
    <3> QED BY <1>1, <2>1, <2>3, TwoOutputs
  <2> HIDE DEF tx, total, in, left, paid
  <2>5. /\ paid.amt + left.amt \in 0..(ULONG_MOD - 1) /\ paid.amt + left.amt \in Int
        /\ paid.amt + left.amt <= in
    BY <1>1, <1>2, <2>3, WidthAssumption DEF Amount
  <2>6. TotalOut(tx) = paid.amt + left.amt
    BY <2>4, <2>5, UlongIs
  <2> QED BY <1>3, <2>5, <2>6 DEF tx
<1> QED BY <1>6, <1>7

\* Both, and an output at least to whom the payment is made.
LEMMA BuiltTxWorth ==
  ASSUME SpendInv, TypeInv, NEW dest, NEW amt \in AMOUNTS, NEW fee \in FEES,
         NEW id \in 1..MAX_TX_ID, EnoughFunds(OutTotal(amt, fee))
  PROVE  Worth(BuiltTx(id, dest, amt, fee))
<1> DEFINE tx == BuiltTx(id, dest, amt, fee)
<1>1. tx.outputs # <<>>
  <2> DEFINE paid == [amt |-> amt, key |-> dest]
             left == [amt |-> ChangeAmount(OutTotal(amt, fee)), key |-> id]
             rest == IF HasChange(OutTotal(amt, fee)) THEN <<left>> ELSE <<>>
  <2>1. tx.outputs = <<paid>> \o rest
    BY DEF BuiltTx
  <2>2. rest \in {<<left>>, <<>>}
    OBVIOUS
  <2> HIDE DEF paid, left, rest, tx
  <2>3. CASE rest = <<left>>
    BY <2>1, <2>3, BothOutputs
  <2>4. CASE rest = <<>>
    BY <2>1, <2>4
  <2> QED BY <2>2, <2>3, <2>4
<1> HIDE DEF tx
<1> QED BY <1>1, BuiltTxSpends, BuiltTxPays DEF Worth, NothingPutIn, tx

-----------------------------------------------------------------------------
(* What waits keeps its worth.                                             *)

\* Nothing comes to the UTXO pool and nothing new waits.
LEMMA QuietWorth ==
  ASSUME WorthInv, UNCHANGED utxo_pool, blockchain_db \subseteq blockchain_db',
         Building' => Building /\ building' = building,
         ToSet(mempool') \subseteq ToSet(mempool) \cup (IF Building THEN {building} ELSE {})
  PROVE  WorthInv'
<1>1. \A tx : Worth(tx)' <=> Worth(tx)
  BY DEF Worth
<1>2. IdsOf(blockchain_db) \subseteq IdsOf(blockchain_db')
  BY MoreBlocks
<1> QED BY <1>1, <1>2 DEF WorthInv

\* Nothing waits after the end of the process.
LEMMA HaltWorth ==
  ASSUME WorthInv, NEW why, Halt(why)
  PROVE  WorthInv'
<1>1. mempool' = <<>> /\ cmd' = "boot" /\ UNCHANGED <<utxo_pool, blockchain_db>>
  BY DEF Halt, ChainCrash, diskVars
<1> QED BY <1>1, NothingInHand, QuietWorth DEF Building

\* A new payment is worth what it pays.
LEMMA CreateTxWorth ==
  ASSUME SpendInv, TypeInv, WorthInv,
         NEW dest, NEW amt \in AMOUNTS, NEW fee \in FEES, CreateTx(dest, amt, fee)
  PROVE  WorthInv'
<1>1. PICK id \in IdsFor(dest, amt, fee) : StartBuild(id, dest, amt, fee)
  BY DEF CreateTx
<1>2. /\ UNCHANGED <<utxo_pool, mempool, blockchain_db>>
      /\ building' = BuiltTx(id, dest, amt, fee) /\ EnoughFunds(OutTotal(amt, fee))
  BY <1>1 DEF CreateTx, StartBuild, chainVars, diskVars, blockVars, memVars
<1>3. id \in 1..MAX_TX_ID
  BY DEF IdsFor, UnusedIds
<1>4. Worth(BuiltTx(id, dest, amt, fee))
  BY <1>2, <1>3, BuiltTxWorth
<1>5. \A tx : Worth(tx)' <=> Worth(tx)
  BY <1>2 DEF Worth
<1> QED BY <1>2, <1>4, <1>5 DEF WorthInv

\* A block brings outputs nobody has spent and takes away only what it spends itself.
LEMMA WriteWorth ==
  ASSUME SpendInv, TypeInv, WorthInv, UpdatePools
  PROVE  WorthInv'
<1>1. /\ UNCHANGED <<cmd, mempool, blockchain_db>> /\ cmd = "pools"
      /\ CurrentTx.id \notin Past
      /\ PutOutput \/ DeleteInput \/ NextPoolTx
  BY UpdatePoolsFrame
<1>2. SpendInv'
  BY PutOutputSpend, DeleteInputSpend, NextPoolTxSpend, <1>1
<1>3. ~Building'
  BY <1>1 DEF Building
<1> SUFFICES ASSUME NEW tx \in ToSet(mempool), tx.id \notin IdsOf(blockchain_db)
             PROVE  Worth(tx)'
  BY <1>1, <1>3 DEF WorthInv
<1>4. tx \in Owners /\ IsTx(tx) /\ Worth(tx)
  BY DEF SpendInv, Owners, WorthInv
<1>5. \A out \in SpentOutpoints(tx) : /\ out \in DOMAIN utxo_pool /\ out \in DOMAIN utxo_pool'
                                      /\ out[1] \in Past
  BY <1>1, <1>2, <1>4 DEF SpendInv, MempoolPayable, OnlyPast, SpentOutpoints
<1>6. \A out \in SpentOutpoints(tx) : utxo_pool'[out] = utxo_pool[out]
  <2> SUFFICES ASSUME NEW out \in SpentOutpoints(tx)
               PROVE  utxo_pool'[out] = utxo_pool[out]
    OBVIOUS
  <2>1. CASE PutOutput
    <3>1. Outpoint(CurrentTx, pool_out) # out
      BY <1>1, <1>5 DEF Outpoint
    <3> QED BY <1>5, <2>1, <3>1 DEF PutOutput, Put
  <2>2. CASE DeleteInput
    <3>1. \/ UNCHANGED utxo_pool
          \/ utxo_pool' = Delete(utxo_pool, CurrentTx.inputs[pool_in].prev)
      BY <2>2 DEF DeleteInput
    <3> QED BY <1>5, <3>1 DEF Delete
  <2>3. CASE NextPoolTx
    BY <2>3 DEF NextPoolTx, poolDisk
  <2> QED BY <1>1, <2>1, <2>2, <2>3
<1>7. TypedPool(utxo_pool)
  BY DEF TypeInv, PoolTypes, TypedPool
<1>8. TotalIn(tx, utxo_pool') = TotalIn(tx, utxo_pool)
  BY <1>4, <1>5, <1>6, <1>7, SameTotalIn
<1> QED BY <1>4, <1>8 DEF Worth

\* update_mempool only takes away.
LEMMA PurgeWorth ==
  ASSUME SpendInv, WorthInv, UpdateMempool
  PROVE  WorthInv'
<1>1. UNCHANGED <<utxo_pool, blockchain_db, cmd>> /\ cmd = "mempool"
  BY DEF UpdateMempool, blockVars, chainVars, diskVars
<1>2. ToSet(mempool') \subseteq ToSet(mempool)
  <2>1. CASE \E id : M!MempoolRemove(id)
    BY <2>1, EvictOne
  <2>2. CASE UNCHANGED mempool
    BY <2>2
  <2> QED BY <2>1, <2>2 DEF UpdateMempool, M!VisitInput, M!NextConfirmedTx, M!poolVars
<1> QED BY <1>1, <1>2, QuietWorth DEF Building

\* The other steps add no payment but the one that was built.
LEMMA OtherWorth ==
  ASSUME SpendInv, WorthInv,
         \/ Boot \/ BootStep \/ InitDone
         \/ Mine /\ FeesKnown
         \/ AcceptBlock \/ RejectBlock \/ AddToChain \/ BeginPools \/ BeginMempool \/ MineDone
         \/ BuildStep \/ BuildDone \/ Offer
  PROVE  WorthInv'
<1>1. CASE Offer
  <2>1. /\ UNCHANGED <<utxo_pool, blockchain_db>> /\ cmd = "offer" /\ cmd' = "idle"
        /\ M!MempoolAdd(building)
    BY <1>1 DEF Offer, chainVars, diskVars, blockVars
  <2>2. ToSet(mempool') \subseteq ToSet(mempool) \cup {building}
    <3>1. CASE UNCHANGED mempool
      BY <3>1
    <3>2. CASE mempool' = Append(mempool, building)
      BY <3>2 DEF SpendInv, Tables, ToSet
    <3> QED BY <2>1, <3>1, <3>2 DEF M!MempoolAdd, M!poolVars
  <2> QED BY <2>1, <2>2, QuietWorth DEF Building
<1>2. CASE BuildStep \/ BuildDone
  <2>1. UNCHANGED <<utxo_pool, blockchain_db, mempool, building>> /\ Building
    BY <1>2 DEF BuildStep, BuildDone, MarkSpent, StoreChangeKey, chainVars, diskVars, blockVars,
       memVars, Building
  <2> QED BY <2>1, QuietWorth
<1>3. CASE \/ Boot \/ BootStep \/ InitDone
           \/ Mine /\ FeesKnown
           \/ AcceptBlock \/ RejectBlock \/ AddToChain \/ BeginPools \/ BeginMempool \/ MineDone
  <2>1. UNCHANGED utxo_pool
    BY <1>3 DEF Boot, BootStep, InitDone, Mine, CreateBlock, AcceptBlock, RejectBlock, AddToChain,
       BeginPools, BeginMempool, MineDone, StartUpdatePools, poolDisk, blockVars
  <2>2. blockchain_db \subseteq blockchain_db'
    BY <1>3 DEF Boot, BlockchainInit, UseExisting, RefuseFiles, AddGenesis, BootStep, AddStep,
       PutBlock, EmptyHeightFile, WriteHeightFile, EmptyTopFile, WriteTopFile, InitDone, Mine,
       AcceptBlock, StartAdd, RejectBlock, AddToChain, BeginPools, BeginMempool, MineDone,
       chainVars, diskVars
  <2>3. mempool' \in {mempool, <<>>}
    BY <1>3 DEF Boot, BootStep, InitDone, Mine, AcceptBlock, RejectBlock, AddToChain, BeginPools,
       BeginMempool, MineDone, memVars
  <2>4. ToSet(mempool') \subseteq ToSet(mempool)
    BY <2>3, NothingInHand
  <2>5. Building' => Building /\ building' = building
    BY <1>3 DEF Boot, BootStep, InitDone, Mine, AcceptBlock, RejectBlock, AddToChain, BeginPools,
       BeginMempool, MineDone, buildVars, Building
  <2> QED BY <2>1, <2>2, <2>4, <2>5, QuietWorth
<1> QED BY <1>1, <1>2, <1>3

\* Every step keeps the worth.
LEMMA WorthStep ==
  ASSUME SpendInv, TypeInv, WorthInv, [Next]_vars
  PROVE  WorthInv'
<1>1. CASE Command
  <2>1. CASE Mine /\ FeesKnown
    BY <2>1, OtherWorth
  <2>2. CASE \E dest \in Dests, amt \in AMOUNTS, fee \in FEES : CreateTx(dest, amt, fee)
    BY <2>2, CreateTxWorth
  <2>3. CASE \/ Mine /\ ~FeesKnown
             \/ \E amt \in AMOUNTS, fee \in FEES : CreateTxExits(amt, fee)
             \/ ShellExit
    BY <2>3, HaltWorth DEF Mine, CreateTxExits, ShellExit
  <2> QED BY <1>1, <2>1, <2>2, <2>3 DEF Command
<1>2. CASE Boot \/ Run
  BY <1>2, OtherWorth, WriteWorth, PurgeWorth DEF Run
<1>3. CASE Kill
  BY <1>3, HaltWorth DEF Kill
<1>4. CASE UNCHANGED vars
  BY <1>4, QuietWorth DEF vars, chainVars, diskVars, blockVars, buildVars, memVars, Building
<1> QED BY <1>1, <1>2, <1>3, <1>4 DEF Next

\* Nothing waits at first.
LEMMA WorthInit == Init => WorthInv
BY NothingInHand DEF Init, M!MempoolInit, WorthInv, Building

\* If the operator asks for something each time, whatever is built or waits puts
\* something in; if no sum wraps, it takes in what it gives out; both through
\* every write of a block.
THEOREM WorthInvariant == Spec => []WorthInv
<1>1. SpendInv /\ TypeInv /\ WorthInv /\ [Next]_vars => WorthInv'
  BY WorthStep
<1> QED BY WorthInit, SpendInvariant, TypeInvariant, <1>1, PTL DEF Spec

\* As long as no block is being accepted, only these two things can be wrong with
\* what waits.
LEMMA WaitingIsValid ==
  ASSUME SpendInv, TypeInv, WorthInv, ~Accepting, NEW tx \in ToSet(mempool),
         Positive \/ ~NothingPutIn(tx), NoWrap \/ ~Overdrawn(tx)
  PROVE  ValidateTxShared(tx, utxo_pool) = 0
<1>1. tx \in Owners /\ IsTx(tx)
  BY DEF Owners, SpendInv
<1>2. tx.id \notin IdsOf(blockchain_db)
  BY DEF SpendInv, Fresh, StillToPurge
<1>3. Worth(tx)
  BY <1>2 DEF WorthInv
<1>4. \A k \in DOMAIN tx.inputs : ValidateInput(tx.inputs[k], utxo_pool) = 0
  BY <1>2 DEF SpendInv, MempoolPayable, ValidateInput
<1>5. TypedPool(utxo_pool) /\ TypedOutputs(tx) /\ SpentOutpoints(tx) \subseteq DOMAIN utxo_pool
  BY <1>2 DEF TypeInv, PoolTypes, TypedPool, TxTypes, SpendInv, MempoolPayable, SpentOutpoints
<1>6. TotalIn(tx, utxo_pool) \in Amount /\ TotalOut(tx) \in Amount
  BY <1>1, <1>5, TakesNumbers, GivesNumbers
<1>7. ~(TotalIn(tx, utxo_pool) < TotalOut(tx))
  BY <1>3, <1>6, WidthAssumption DEF Worth, Amount, Overdrawn
<1>8. tx.inputs # <<>> /\ tx.outputs # <<>>
  BY <1>3 DEF Worth, NothingPutIn
<1> QED BY <1>4, <1>7, <1>8 DEF ValidateTxShared

\* Whatever waits to be mined would pass validate_tx_shared, though build_tx's
\* payments are never given to it: each shows the right keys for outputs that are
\* in the UTXO pool, and takes in as much as it gives out.
THEOREM MempoolAlwaysSpendable == Spec => []MempoolSpendable
<1>1. SpendInv /\ TypeInv /\ WorthInv => MempoolSpendable
  BY WaitingIsValid DEF MempoolSpendable, Idle, Accepting, ToSet
<1> QED BY SpendInvariant, TypeInvariant, WorthInvariant, <1>1, PTL

-----------------------------------------------------------------------------
(* The block the node mines.                                               *)

\* The top of the chain is in the database, in memory as soon as it is there.
TopStored ==
  /\ chain_pc \in {"empty_height", "write_height", "empty_top", "write_top"} => adding \in blockchain_db
  /\ chain_pc \in {"empty_top", "write_top"} => top_block_header_hash = adding.hash
  /\ chain_pc = "ready" => Found(top_block_header_hash)

\* What create_block and the search for the nonce leave.
FreshlyMined ==
  cmd = "mined" =>
    /\ block.hash_met /\ block.all_tx_match
    /\ block.prev = top_block_header_hash
    /\ block.txs[1].outputs[1].amt = CoinbaseAmount(MinerFees(Tail(block.txs), utxo_pool))

MinedInv == TopStored /\ FreshlyMined

\* A step that leaves the store and the block alone.
LEMMA QuietMined ==
  ASSUME MinedInv, UNCHANGED chainVars,
         cmd' = "mined" => cmd = "mined" /\ UNCHANGED <<block, utxo_pool>>
  PROVE  MinedInv'
<1>1. UNCHANGED <<blockchain_db, top_block_header_hash, adding, chain_pc>>
  BY DEF chainVars
<1>2. TopStored'
  BY <1>1 DEF MinedInv, TopStored, Found
<1>3. FreshlyMined'
  <2>1. cmd' = "mined" => MinerFees(Tail(block'.txs), utxo_pool') = MinerFees(Tail(block.txs), utxo_pool)
    OBVIOUS
  <2> QED BY <1>1, <2>1 DEF MinedInv, FreshlyMined
<1> QED BY <1>2, <1>3 DEF MinedInv

\* Start-up believes the top file only when its block is there; a block is in the
\* database before it is the top.
LEMMA TopMined ==
  ASSUME SpendInv, MinedInv, Boot \/ BootStep \/ AddToChain \/ AcceptBlock
  PROVE  MinedInv'
<1>1. cmd' # "mined"
  BY DEF Boot, BootStep, AddToChain, AcceptBlock, BlockchainInit, UseExisting, RefuseFiles,
     AddGenesis, AddStep, PutBlock, EmptyHeightFile, WriteHeightFile, EmptyTopFile, WriteTopFile,
     SpendInv, Control
<1>2. CASE Boot \/ AcceptBlock
  <2>1. \/ chain_pc' = "ready" /\ Found(top_block_header_hash)'
        \/ chain_pc' \in {"refused", "put"}
    BY <1>2 DEF Boot, BlockchainInit, UseExisting, FilesAgree, RefuseFiles, AddGenesis, AcceptBlock,
       StartAdd, diskVars, Found
  <2> QED BY <1>1, <2>1 DEF MinedInv, TopStored, FreshlyMined
<1>3. CASE AddStep
  BY <1>1, <1>3 DEF MinedInv, TopStored, FreshlyMined, Found, AddStep, PutBlock, EmptyHeightFile,
     WriteHeightFile, EmptyTopFile, WriteTopFile
<1> QED BY <1>2, <1>3 DEF BootStep, AddToChain

\* The coinbase comes first.
LEMMA TailOfBlock ==
  ASSUME NEW first, NEW rest, rest \in Seq(ToSet(rest))
  PROVE  LET all == <<first>> \o rest
         IN  Tail(all) = rest /\ all[1] = first
<1> DEFINE S == {first} \cup ToSet(rest)
           one == <<first>>
           all == one \o rest
<1>1. one \in Seq(S) /\ Len(one) = 1 /\ one[1] = first
  OBVIOUS
<1>2. rest \in Seq(S) /\ Len(rest) \in Nat
  <2>1. \A n \in 1..Len(rest) : rest[n] \in S
    OBVIOUS
  <2> QED BY <2>1
<1> HIDE DEF S, one
<1>3. /\ all \in Seq(S) /\ Len(all) = 1 + Len(rest) /\ all[1] = first
      /\ \A i \in 1..Len(rest) : all[i + 1] = rest[i]
  <2>1. /\ all \in Seq(S) /\ Len(all) = 1 + Len(rest)
        /\ \A i \in 1..(1 + Len(rest)) : all[i] = IF i <= 1 THEN one[i] ELSE rest[i - 1]
    <3>1. /\ all \in Seq(S) /\ Len(all) = Len(one) + Len(rest)
          /\ \A i \in 1..(Len(one) + Len(rest)) :
               all[i] = IF i <= Len(one) THEN one[i] ELSE rest[i - Len(one)]
      BY <1>1, <1>2, ConcatProperties, Zenon
    <3> HIDE DEF all
    <3> QED BY <1>1, <3>1
  <2> HIDE DEF all
  <2> QED BY <1>1, <1>2, <2>1
<1> HIDE DEF all
<1>4. Tail(all) = rest
  BY <1>2, <1>3
<1> QED BY <1>3, <1>4 DEF all, one

\* mine_block ends with a block on top of the chain.
LEMMA MineMined ==
  ASSUME SpendInv, MinedInv, Mine, FeesKnown
  PROVE  MinedInv'
<1>1. PICK id \in UnusedIds : CreateBlock(id)
  BY DEF Mine
<1>2. /\ UNCHANGED <<utxo_pool, blockchain_db, top_block_header_hash, adding, chain_pc>>
      /\ block' = NewBlock(id)
  BY <1>1 DEF Mine, CreateBlock, chainVars, diskVars
<1>3. TopStored'
  BY <1>2 DEF MinedInv, TopStored, Found
<1> DEFINE txs == TxsFromMempool
           amt == CoinbaseAmount(MinerFees(txs, utxo_pool))
<1>4. /\ block'.hash_met /\ block'.all_tx_match /\ block'.prev = top_block_header_hash
      /\ block'.txs = <<CoinbaseTx(id)>> \o txs
  BY <1>2 DEF NewBlock
<1>5. txs \in Seq(ToSet(txs))
  <2>1. txs \in Seq(ToSet(mempool))
    BY FrontOfMempool DEF SpendInv, Tables
  <2> HIDE DEF txs
  <2> QED BY <2>1 DEF ToSet
<1>6. CoinbaseTx(id).outputs[1].amt = amt
  BY DEF CoinbaseTx
<1> HIDE DEF txs
<1>7. Tail(block'.txs) = txs /\ block'.txs[1] = CoinbaseTx(id)
  BY <1>4, <1>5, TailOfBlock
<1>8. block'.txs[1].outputs[1].amt = CoinbaseAmount(MinerFees(Tail(block'.txs), utxo_pool'))
  BY <1>2, <1>6, <1>7
<1> QED BY <1>2, <1>3, <1>4, <1>8 DEF MinedInv, FreshlyMined

\* Nothing is in hand after the end of the process.
LEMMA HaltMined ==
  ASSUME NEW why, Halt(why)
  PROVE  MinedInv'
BY DEF Halt, ChainCrash, MinedInv, TopStored, FreshlyMined

\* Nor at first.
LEMMA MinedInit == Init => MinedInv
BY DEF Init, ChainInit, MinedInv, TopStored, FreshlyMined

\* Every step keeps what the mined block needs.
LEMMA MinedStep ==
  ASSUME SpendInv, MinedInv, [Next]_vars
  PROVE  MinedInv'
<1>1. CASE Mine /\ FeesKnown
  BY <1>1, MineMined
<1>2. CASE Boot \/ BootStep \/ AddToChain \/ AcceptBlock
  BY <1>2, TopMined
<1>3. CASE \/ Mine /\ ~FeesKnown
           \/ \E amt \in AMOUNTS, fee \in FEES : CreateTxExits(amt, fee)
           \/ ShellExit \/ Kill
  BY <1>3, HaltMined DEF Mine, CreateTxExits, ShellExit, Kill
<1>4. CASE \/ InitDone \/ RejectBlock \/ BeginPools \/ UpdatePools \/ BeginMempool
           \/ UpdateMempool \/ MineDone \/ BuildStep \/ BuildDone \/ Offer
           \/ \E dest \in Dests, amt \in AMOUNTS, fee \in FEES : CreateTx(dest, amt, fee)
  <2>1. UNCHANGED chainVars /\ cmd' # "mined"
    BY <1>4 DEF InitDone, RejectBlock, BeginPools, UpdatePools, BeginMempool, UpdateMempool,
       MineDone, BuildStep, BuildDone, Offer, CreateTx, Idle
  <2> QED BY <2>1, QuietMined
<1>5. CASE UNCHANGED vars
  BY <1>5, QuietMined DEF vars, blockVars
<1> QED BY <1>1, <1>2, <1>3, <1>4, <1>5 DEF Next, Command, Run

\* The top block is stored before it is the top, and the block just mined is on
\* top of it with the coinbase that its own fees call for.
THEOREM MinedInvariant == Spec => []MinedInv
<1>1. SpendInv /\ MinedInv /\ [Next]_vars => MinedInv'
  BY MinedStep
<1> QED BY <1>1, MinedInit, SpendInvariant, PTL DEF Spec

\* A block on top of the chain, of valid payments, whose coinbase is what the
\* validator would have it be, is valid.
LEMMA MinedIsValid ==
  ASSUME SpendInv, TypeInv, WorthInv, MinedInv, cmd = "mined",
         Positive \/ \A n \in 2..Len(block.txs) : ~NothingPutIn(block.txs[n]),
         NoWrap \/ \A n \in 2..Len(block.txs) : ~Overdrawn(block.txs[n]),
         MinerFees(Tail(block.txs), utxo_pool) = ValidatorFees(Tail(block.txs), utxo_pool)
  PROVE  ValidateBlock(block) = 0
<1>1. /\ block.hash_met /\ block.all_tx_match /\ block.prev = top_block_header_hash
      /\ block.txs[1].outputs[1].amt = CoinbaseAmount(MinerFees(Tail(block.txs), utxo_pool))
  BY DEF MinedInv, FreshlyMined
<1>2. ValidatePrevBlockExists(block) = 0
  <2>1. chain_pc = "ready"
    BY DEF SpendInv, Control
  <2> QED BY <1>1, <2>1 DEF MinedInv, TopStored, ValidatePrevBlockExists
<1>3. \A i \in 2..Len(block.txs) : ValidateTxShared(block.txs[i], utxo_pool) = 0
  <2>1. \A i \in 2..Len(block.txs) : block.txs[i] \in ToSet(mempool)
    BY DEF SpendInv, BlockShape, Handling
  <2> QED BY <2>1, WaitingIsValid DEF Accepting
<1>4. ValidateCoinbaseTx(block.txs, utxo_pool) = 0
  BY <1>1 DEF SpendInv, BlockShape, Handling, CoinbaseAmount, ValidateCoinbaseTx
<1> QED BY <1>1, <1>2, <1>3, <1>4 DEF ValidateIncomingBlockTxs, ValidateBlock

\* The node throws away a block it mined itself only if the miner's sum of the
\* fees and the validator's differ, or if there is a payment in it of nothing, or
\* one whose amount and fee wrapped around: nothing else that validate_block looks
\* at can be wrong with it, whatever the operator asks for, also after kills.
THEOREM MinedAlwaysTaken == Spec => RejectedOnlyFor
<1> DEFINE txs == block.txs
           FeesDiffer == MinerFees(Tail(txs), utxo_pool) # ValidatorFees(Tail(txs), utxo_pool)
           OfNothing == ~Positive /\ \E n \in 2..Len(txs) : NothingPutIn(txs[n])
           Wrapped == ~NoWrap /\ \E n \in 2..Len(txs) : Overdrawn(txs[n])
<1>1. SpendInv /\ TypeInv /\ WorthInv /\ MinedInv /\ [Next]_vars
        => [RejectBlock => FeesDiffer \/ OfNothing \/ Wrapped]_vars
  BY MinedIsValid DEF RejectBlock
<1> QED BY SpendInvariant, TypeInvariant, WorthInvariant, MinedInvariant, <1>1, PTL
        DEF Spec, RejectedOnlyFor

-----------------------------------------------------------------------------
(* What is marked, is about to be spent.                                   *)

\* As long as the process has not ended, an entry is marked for a payment that
\* waits or is under construction.
MarkedForSome ==
  halts = 0 =>
    \A out \in DOMAIN wallet_pool :
      wallet_pool[out].spent => out \in Claimed \cup SpentOutpoints(building)

\* What is still to be marked is an input of it, and it is not known yet.
MarksItsOwn ==
  /\ ToSet(to_mark) \subseteq SpentOutpoints(building)
  /\ Building => \A tx \in ToSet(mempool) : tx.id # building.id

\* The outputs that the loop over the block has dealt with are not in the wallet.
Gone(i, k) ==
  /\ cmd \in {"pools", "mempool"}
  /\ cmd = "pools" => i < pool_tx \/ (i = pool_tx /\ k < pool_in)

GoneFromWallet ==
  \A i \in DOMAIN block.txs : \A k \in DOMAIN block.txs[i].inputs :
    Gone(i, k) => block.txs[i].inputs[k].prev \notin DOMAIN wallet_pool

MarkInv == halts \in Nat /\ MarkedForSome /\ MarksItsOwn /\ GoneFromWallet

\* A step that is about something else.
LEMMA QuietMarks ==
  ASSUME SpendInv, MarkInv, halts' = halts,
         UNCHANGED <<wallet_pool, building, to_mark, mempool>>,
         Building' => Building,
         cmd' \notin {"pools", "mempool"} \/ UNCHANGED <<cmd, block, pool_tx, pool_in>>
  PROVE  MarkInv'
<1>1. MarkedForSome' /\ MarksItsOwn'
  BY DEF MarkInv, MarkedForSome, MarksItsOwn, Claimed
<1>2. GoneFromWallet'
  BY DEF MarkInv, GoneFromWallet, Gone
<1> QED BY <1>1, <1>2 DEF MarkInv

\* After the end of the process nothing is promised of the marks.
LEMMA HaltMarks ==
  ASSUME SpendInv, MarkInv, NEW why, Halt(why)
  PROVE  MarkInv'
<1>1. /\ halts' = halts + 1 /\ halts \in Nat /\ cmd' = "boot" /\ mempool' = <<>> /\ to_mark' = <<>>
      /\ UNCHANGED wallet_pool
  BY DEF Halt, walletDisk, MarkInv
<1>2. halts' \in Nat /\ halts' # 0
  BY <1>1
<1> QED BY <1>1, <1>2, NothingInHand DEF MarkInv, MarkedForSome, MarksItsOwn, GoneFromWallet, Gone, Building

\* What is selected is marked, and nothing else is.
LEMMA CreateTxMarks ==
  ASSUME SpendInv, TypeInv, MarkInv, Positive,
         NEW dest, NEW amt \in AMOUNTS, NEW fee \in FEES, CreateTx(dest, amt, fee)
  PROVE  MarkInv'
<1>1. PICK id \in IdsFor(dest, amt, fee) : StartBuild(id, dest, amt, fee)
  BY DEF CreateTx
<1> DEFINE tx == BuiltTx(id, dest, amt, fee)
           total == OutTotal(amt, fee)
           selected == Selected(total)
           from == Unspent(Visited(total))
<1>2. /\ UNCHANGED <<wallet_pool, mempool, halts>> /\ building = NoTx /\ cmd' = "build"
      /\ building' = tx /\ to_mark' = Marked(total) /\ EnoughFunds(total)
  BY <1>1 DEF CreateTx, StartBuild, Idle, walletDisk, memVars, history, SpendInv, Control, Building
<1>3. from # {}
  <2>1. total \in Nat /\ total > 0
    <3>1. fee + amt \in Int
      BY AmountsAssumption, WidthAssumption
    <3> QED BY <3>1, UlongIs, WidthAssumption DEF OutTotal, Positive
  <2> HIDE DEF total
  <2> QED BY <1>2, <2>1, SomethingSelected
<1>4. to_mark' = selected
  BY <1>2, <1>3 DEF Marked
<1>5. /\ DOMAIN tx.inputs = DOMAIN selected
      /\ \A k \in DOMAIN selected : tx.inputs[k].prev = selected[k]
      /\ {selected[k] : k \in DOMAIN selected} = from
  <2> HIDE DEF tx, total, selected, from
  <2>1. /\ tx = BuiltTx(id, dest, amt, fee) /\ total = OutTotal(amt, fee)
        /\ selected = Selected(OutTotal(amt, fee)) /\ from = Unspent(Visited(OutTotal(amt, fee)))
    BY DEF tx, total, selected, from
  <2> QED BY <2>1, BuiltInputs
<1>6. id \in 1..MAX_TX_ID /\ tx.id = id
  BY DEF IdsFor, UnusedIds, BuiltTx
<1>7. \A t \in ToSet(mempool) : t.id # id
  <2>1. tx.inputs # <<>>
    <3> HIDE DEF tx, selected, from
    <3> QED BY <1>3, <1>5
  <2>2. id \in UnusedIds
    <3> DEFINE known == {i \in 1..MAX_TX_ID :
                           \E n \in DOMAIN mempool : /\ mempool[n] = BuiltTx(i, dest, amt, fee)
                                                     /\ BuiltTx(i, dest, amt, fee).inputs = <<>>}
    <3>1. \A i : BuiltTx(i, dest, amt, fee).inputs = tx.inputs
      BY DEF BuiltTx
    <3>2. known = {}
      BY <2>1, <3>1
    <3>3. IdsFor(dest, amt, fee) = IF known = {} THEN UnusedIds ELSE known
      BY DEF IdsFor
    <3> QED BY <3>2, <3>3
  <2> QED BY <2>2 DEF UnusedIds, M!InMempool, ToSet
<1> HIDE DEF tx, total, selected, from
<1>8. ToSet(to_mark') \subseteq SpentOutpoints(tx)
  BY <1>4, <1>5 DEF ToSet, SpentOutpoints
<1>9. MarkedForSome'
  BY <1>2, NothingInHand DEF MarkInv, MarkedForSome, Claimed
<1>10. MarksItsOwn' /\ GoneFromWallet'
  BY <1>2, <1>6, <1>7, <1>8 DEF MarksItsOwn, GoneFromWallet, Gone
<1> QED BY <1>2, <1>9, <1>10 DEF MarkInv

\* One more input is marked.
LEMMA BuildStepMarks ==
  ASSUME SpendInv, MarkInv, BuildStep
  PROVE  MarkInv'
<1>1. /\ UNCHANGED <<building, mempool, halts, cmd>> /\ cmd = "build"
      /\ to_mark # <<>> /\ to_mark' = Tail(to_mark)
      /\ wallet_pool' = [wallet_pool EXCEPT ![Head(to_mark)].spent = TRUE]
  BY DEF BuildStep, MarkSpent, memVars, history
<1>2. /\ Head(to_mark) \in SpentOutpoints(building)
      /\ ToSet(to_mark') \subseteq SpentOutpoints(building)
  <2>1. to_mark \in Seq(ToSet(to_mark)) /\ ToSet(to_mark) \subseteq SpentOutpoints(building)
    BY DEF SpendInv, Marks, MarkInv, MarksItsOwn
  <2>2. Head(to_mark) \in ToSet(to_mark) /\ Tail(to_mark) \in Seq(ToSet(to_mark))
    BY <1>1, <2>1
  <2>3. ToSet(to_mark') \subseteq ToSet(to_mark)
    BY <1>1, <2>2 DEF ToSet
  <2> QED BY <2>1, <2>2, <2>3
<1>3. /\ DOMAIN wallet_pool' = DOMAIN wallet_pool
      /\ \A out \in DOMAIN wallet_pool :
           out # Head(to_mark) => wallet_pool'[out].spent = wallet_pool[out].spent
  BY <1>1
<1>4. MarkedForSome'
  BY <1>1, <1>2, <1>3 DEF MarkInv, MarkedForSome, Claimed
<1>5. MarksItsOwn' /\ GoneFromWallet'
  BY <1>1, <1>2 DEF MarkInv, MarksItsOwn, GoneFromWallet, Gone, Building
<1> QED BY <1>1, <1>4, <1>5 DEF MarkInv

\* The payment waits from now on.
LEMMA OfferMarks ==
  ASSUME SpendInv, MarkInv, Offer
  PROVE  MarkInv'
<1>1. /\ UNCHANGED <<wallet_pool, to_mark, halts>> /\ cmd = "offer" /\ cmd' = "idle"
      /\ to_mark = <<>> /\ building' = NoTx /\ M!MempoolAdd(building)
  BY DEF Offer, walletDisk, history, SpendInv, Control
<1>2. mempool' = Append(mempool, building)
  <2>1. ~M!InMempool(building.id)
    BY <1>1 DEF MarkInv, MarksItsOwn, Building, M!InMempool, ToSet
  <2> QED BY <1>1, <2>1 DEF M!MempoolAdd
<1>3. building \in ToSet(mempool') /\ ToSet(mempool) \subseteq ToSet(mempool')
  BY <1>2 DEF SpendInv, Tables, ToSet
<1>4. Claimed \cup SpentOutpoints(building) \subseteq Claimed'
  BY <1>3 DEF Claimed
<1>5. MarkedForSome'
  BY <1>1, <1>4 DEF MarkInv, MarkedForSome
<1> QED BY <1>1, <1>5, NothingInHand DEF MarkInv, MarksItsOwn, GoneFromWallet, Gone, Building

\* The loop over the block: new entries are not marked, spent ones go.
LEMMA WriteMarks ==
  ASSUME SpendInv, MarkInv, UpdatePools
  PROVE  MarkInv'
<1>1. /\ UNCHANGED <<cmd, block, building, to_mark, mempool, halts>> /\ cmd = "pools"
      /\ pool_tx \in DOMAIN block.txs /\ CurrentTx = block.txs[pool_tx]
      /\ CurrentTx.id \notin Past
      /\ pool_tx \in Nat \ {0} /\ pool_out \in Nat \ {0} /\ pool_in \in Nat \ {0}
      /\ PutOutput \/ DeleteInput \/ NextPoolTx
  BY UpdatePoolsFrame DEF UpdatePools, history
<1>2. /\ \A i \in DOMAIN block.txs : i \in Int /\ IsTx(block.txs[i]) /\ block.txs[i] \in Owners
      /\ block \in blockchain_db
  BY <1>1 DEF SpendInv, BlockShape, Handling, Accepting, Owners, StoredTxs, AllTxs, Control
<1>3. \A i \in DOMAIN block.txs : \A k \in DOMAIN block.txs[i].inputs :
        k \in Int /\ block.txs[i].inputs[k].prev[1] \in Past
  BY <1>2 DEF SpendInv, OnlyPast, SpentOutpoints, IsTx
<1>4. MarksItsOwn'
  BY <1>1 DEF MarkInv, MarksItsOwn, Building
<1>5. ASSUME NEW out \in DOMAIN wallet_pool',
             out \in DOMAIN wallet_pool => wallet_pool'[out] # wallet_pool[out]
      PROVE  wallet_pool'[out].spent = FALSE /\ out[1] \notin Past
  <2>1. PutOutput /\ half
    BY <1>1, <1>5 DEF PutOutput, DeleteInput, NextPoolTx, Delete, poolDisk
  <2>2. /\ wallet_pool' = Put(wallet_pool, Outpoint(CurrentTx, pool_out),
                              WalletEntry(CurrentTx.outputs[pool_out]))
    BY <2>1 DEF PutOutput
  <2>3. out = Outpoint(CurrentTx, pool_out)
    BY <1>5, <2>2 DEF Put
  <2> QED BY <1>1, <2>2, <2>3 DEF Put, WalletEntry, Outpoint
<1>6. MarkedForSome'
  <2>1. Claimed' = Claimed
    BY <1>1 DEF Claimed
  <2> QED BY <1>1, <1>5, <2>1 DEF MarkInv, MarkedForSome
<1>7. GoneFromWallet'
  <2> SUFFICES ASSUME NEW i \in DOMAIN block.txs, NEW k \in DOMAIN block.txs[i].inputs, Gone(i, k)'
               PROVE  block.txs[i].inputs[k].prev \notin DOMAIN wallet_pool'
    BY <1>1 DEF GoneFromWallet
  <2> DEFINE prev == block.txs[i].inputs[k].prev
  <2>1. prev \in DOMAIN wallet_pool' => prev \in DOMAIN wallet_pool
    BY <1>3, <1>5
  <2>2. Gone(i, k) => prev \notin DOMAIN wallet_pool
    BY DEF MarkInv, GoneFromWallet
  <2>3. CASE PutOutput
    <3>1. Gone(i, k)
      BY <1>1, <2>3 DEF PutOutput, Gone
    <3> QED BY <2>1, <2>2, <3>1
  <2>4. CASE DeleteInput
    <3>1. CASE Gone(i, k)
      BY <2>1, <2>2, <3>1
    <3>2. CASE ~Gone(i, k)
      <4>1. half /\ pool_in' = pool_in + 1 /\ pool_tx' = pool_tx
            /\ wallet_pool' = Delete(wallet_pool, CurrentTx.inputs[pool_in].prev)
        BY <1>1, <2>4, <3>2 DEF DeleteInput, Gone
      <4>2. i = pool_tx /\ k = pool_in
        BY <1>1, <1>2, <1>3, <3>2, <4>1 DEF Gone
      <4> QED BY <1>1, <4>1, <4>2 DEF Delete
    <3> QED BY <3>1, <3>2
  <2>5. CASE NextPoolTx
    <3>1. pool_tx' = pool_tx + 1 /\ pool_in' = 1 /\ pool_in > Len(CurrentTx.inputs)
      BY <2>5 DEF NextPoolTx
    <3>2. i < pool_tx + 1 \/ (i = pool_tx + 1 /\ k < 1)
      BY <1>1, <3>1 DEF Gone
    <3>3. k \in 1..Len(block.txs[i].inputs)
      BY <1>2 DEF IsTx
    <3>4. i < pool_tx \/ (i = pool_tx /\ k < pool_in)
      <4>1. i <= pool_tx
        BY <1>1, <1>2, <3>2, <3>3
      <4>2. i = pool_tx => k < pool_in
        <5>1. Len(CurrentTx.inputs) \in Int
          BY <1>1, <1>2 DEF IsTx
        <5> QED BY <1>1, <3>1, <3>3, <5>1
      <4> QED BY <1>1, <1>2, <4>1, <4>2
    <3> QED BY <1>1, <2>1, <2>2, <3>4 DEF Gone
  <2> QED BY <1>1, <2>3, <2>4, <2>5
<1> QED BY <1>1, <1>4, <1>6, <1>7 DEF MarkInv

\* The loop over the pools starts with nothing gone and ends with all gone.
LEMMA NextPartMarks ==
  ASSUME SpendInv, MarkInv, BeginPools \/ BeginMempool
  PROVE  MarkInv'
<1>1. /\ UNCHANGED <<wallet_pool, block, building, to_mark, mempool, halts>>
      /\ \/ cmd' = "pools" /\ pool_tx' = 1 /\ pool_in' = 1
         \/ cmd = "pools" /\ cmd' = "mempool" /\ pool_tx > Len(block.txs)
  BY DEF BeginPools, BeginMempool, StartUpdatePools, PoolsDone, poolDisk, buildVars, memVars, history
<1>2. \A i \in DOMAIN block.txs : i \in 1..Len(block.txs) /\ IsTx(block.txs[i])
  BY DEF BeginPools, BeginMempool, SpendInv, BlockShape, Handling, Accepting
<1>3. MarkedForSome' /\ MarksItsOwn'
  BY <1>1 DEF MarkInv, MarkedForSome, MarksItsOwn, Claimed, Building
<1>4. GoneFromWallet'
  <2>1. CASE cmd' = "pools" /\ pool_tx' = 1 /\ pool_in' = 1
    <3>1. \A i \in DOMAIN block.txs : \A k \in DOMAIN block.txs[i].inputs :
            i \in Int /\ i >= 1 /\ k \in Int /\ k >= 1
      BY <1>2 DEF IsTx
    <3>2. \A i \in DOMAIN block.txs : \A k \in DOMAIN block.txs[i].inputs : ~Gone(i, k)'
      BY <2>1, <3>1 DEF Gone
    <3> QED BY <1>1, <3>2 DEF GoneFromWallet
  <2>2. CASE cmd = "pools" /\ cmd' = "mempool" /\ pool_tx > Len(block.txs)
    <3>1. \A i \in DOMAIN block.txs : i < pool_tx
      BY <1>2, <2>2 DEF SpendInv, Counters, BlockShape, Handling, Accepting
    <3> QED BY <1>1, <2>2, <3>1 DEF MarkInv, GoneFromWallet, Gone
  <2> QED BY <1>1, <2>1, <2>2
<1> QED BY <1>1, <1>3, <1>4 DEF MarkInv

\* update_mempool evicts the payments that the block has, whose outputs are gone.
LEMMA PurgeMarks ==
  ASSUME SpendInv, MarkInv, UpdateMempool
  PROVE  MarkInv'
<1>1. /\ UNCHANGED <<block, wallet_pool, building, to_mark, cmd, halts>>
      /\ cmd = "mempool" /\ confirmed = block.txs /\ block \in blockchain_db
  BY DEF UpdateMempool, walletDisk, buildVars, blockVars, history, SpendInv, Control, Accepting
<1>2. MarksItsOwn' /\ GoneFromWallet'
  <2>1. ~Building'
    BY <1>1 DEF Building
  <2> QED BY <1>1, <2>1 DEF MarkInv, MarksItsOwn, GoneFromWallet, Gone
<1>3. ASSUME NEW tx \in ToSet(mempool), tx \notin ToSet(mempool')
      PROVE  \A out \in SpentOutpoints(tx) : out \notin DOMAIN wallet_pool
  <2> DEFINE out == block.txs[cur_tx].inputs[cur_in].prev
  <2>1. /\ cur_tx <= Len(block.txs) /\ cur_in <= Len(block.txs[cur_tx].inputs)
        /\ cur_tx \in Nat \ {0} /\ cur_in \in Nat \ {0}
        /\ out \in DOMAIN utxo_to_tx /\ M!MempoolRemove(utxo_to_tx[out])
    BY <1>1, <1>3 DEF UpdateMempool, M!VisitInput, M!NextConfirmedTx, M!UpdateDone, M!poolVars,
       SpendInv, Counters
  <2>2. cur_tx \in DOMAIN block.txs /\ block.txs[cur_tx] \in Owners
    BY <1>1, <2>1 DEF SpendInv, BlockShape, Handling, Accepting, Owners, StoredTxs, AllTxs
  <2>3. out \in SpentOutpoints(block.txs[cur_tx])
    <3>1. cur_in \in DOMAIN block.txs[cur_tx].inputs
      BY <2>1, <2>2 DEF SpendInv, IsTx
    <3> QED BY <3>1 DEF SpentOutpoints
  <2> HIDE DEF out
  <2>4. tx.id = utxo_to_tx[out]
    BY <1>3, <2>1, EvictOne
  <2>5. out \in SpentOutpoints(tx)
    <3>1. PICK u \in ToSet(mempool) : out \in SpentOutpoints(u)
      BY <2>1 DEF SpendInv, Tables, Claimed
    <3>2. u.id = tx.id
      BY <2>4, <3>1 DEF SpendInv, Tables
    <3>3. u = tx
      BY <3>1, <3>2 DEF SpendInv, Tables, ToSet
    <3> QED BY <3>1, <3>3
  <2>6. tx = block.txs[cur_tx]
    BY <2>2, <2>3, <2>5 DEF SpendInv, Apart, Owners
  <2> QED BY <1>1, <2>2, <2>6 DEF MarkInv, GoneFromWallet, Gone, SpentOutpoints
<1>4. MarkedForSome'
  BY <1>1, <1>3 DEF MarkInv, MarkedForSome, Claimed
<1> QED BY <1>1, <1>2, <1>4 DEF MarkInv

\* The other steps touch neither the wallet nor the mempool.
LEMMA OtherMarks ==
  ASSUME SpendInv, MarkInv,
         \/ Boot \/ BootStep \/ InitDone
         \/ Mine /\ FeesKnown
         \/ AcceptBlock \/ RejectBlock \/ AddToChain \/ MineDone \/ BuildDone
  PROVE  MarkInv'
<1>1. UNCHANGED <<wallet_pool, building, to_mark, halts>>
  BY DEF Boot, BootStep, InitDone, Mine, CreateBlock, AcceptBlock, RejectBlock, AddToChain, MineDone,
     BuildDone, StoreChangeKey, walletDisk, buildVars, history
<1>2. mempool' = mempool
  BY DEF Boot, BootStep, InitDone, Mine, AcceptBlock, RejectBlock, AddToChain, MineDone, BuildDone,
     memVars, SpendInv, Control
<1>3. Building' => Building
  BY DEF Boot, BootStep, InitDone, Mine, AcceptBlock, RejectBlock, AddToChain, MineDone, BuildDone,
     Building
<1>4. cmd' \notin {"pools", "mempool"}
  BY DEF Boot, BlockchainInit, UseExisting, RefuseFiles, AddGenesis, BootStep, InitDone, Mine,
     AcceptBlock, RejectBlock, AddToChain, MineDone, BuildDone, SpendInv, Control
<1> QED BY <1>1, <1>2, <1>3, <1>4, QuietMarks

\* Every step keeps the marks.
LEMMA MarkStep ==
  ASSUME SpendInv, TypeInv, MarkInv, Positive, [Next]_vars
  PROVE  MarkInv'
<1>1. CASE Command
  <2>1. CASE Mine /\ FeesKnown
    BY <2>1, OtherMarks
  <2>2. CASE \E dest \in Dests, amt \in AMOUNTS, fee \in FEES : CreateTx(dest, amt, fee)
    BY <2>2, CreateTxMarks
  <2>3. CASE \/ Mine /\ ~FeesKnown
             \/ \E amt \in AMOUNTS, fee \in FEES : CreateTxExits(amt, fee)
             \/ ShellExit
    BY <2>3, HaltMarks DEF Mine, CreateTxExits, ShellExit
  <2> QED BY <1>1, <2>1, <2>2, <2>3 DEF Command
<1>2. CASE Boot \/ Run
  BY <1>2, OtherMarks, BuildStepMarks, OfferMarks, WriteMarks, NextPartMarks, PurgeMarks DEF Run
<1>3. CASE Kill
  BY <1>3, HaltMarks DEF Kill
<1>4. CASE UNCHANGED vars
  BY <1>4, QuietMarks DEF vars, walletDisk, blockVars, poolLoop, buildVars, memVars, history, Building
<1> QED BY <1>1, <1>2, <1>3, <1>4 DEF Next

\* Nothing is marked at first.
LEMMA MarkInit == Init => MarkInv
BY NothingInHand DEF Init, WalletInit, M!MempoolInit, MarkInv, MarkedForSome, MarksItsOwn,
   GoneFromWallet, Gone, Building

\* Marks follow payments: build_inputs marks its own inputs only, and the pools have
\* lost a mined payment's inputs before update_mempool forgets it.
THEOREM MarkInvariant ==
  ASSUME Positive
  PROVE  Spec => []MarkInv
<1>1. SpendInv /\ TypeInv /\ MarkInv /\ [Next]_vars => MarkInv'
  BY MarkStep
<1> QED BY MarkInit, SpendInvariant, TypeInvariant, <1>1, PTL DEF Spec

\* Until the process ends for the first time, an entry is marked as spent exactly
\* when a payment that waits spends it: no mark is lost while a payment waits, and
\* none stays when it does not. (After a restart a mark may have lost its payment.)
THEOREM SpentAlwaysIffPending == Spec => []SpentIffPending
<1>1. CASE Positive
  <2>1. SpendInv /\ MarkInv => SpentIffPending
    <3> SUFFICES ASSUME SpendInv, MarkInv, Idle, halts = 0, NEW out \in DOMAIN wallet_pool
                 PROVE  wallet_pool[out].spent <=> out \in Claimed
      BY DEF SpentIffPending
    <3>1. building = NoTx /\ SpentOutpoints(NoTx) = {}
      BY NothingInHand DEF SpendInv, Control, Building, Idle
    <3>2. wallet_pool[out].spent => out \in Claimed
      BY <3>1 DEF MarkInv, MarkedForSome
    <3>3. out \in Claimed => wallet_pool[out].spent
      BY <3>1 DEF SpendInv, Marks, Claimed, Owners
    <3> QED BY <3>2, <3>3 DEF MarkInv
  <2> QED BY <1>1, SpendInvariant, MarkInvariant, <2>1, PTL
<1>2. CASE ~Positive
  <2>1. SpentIffPending
    BY <1>2 DEF SpentIffPending
  <2> QED BY <2>1, PTL
<1> QED BY <1>1, <1>2
=============================================================================

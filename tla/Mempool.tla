------------------------------ MODULE Mempool ------------------------------
(***************************************************************************)
(* globals/mempool.c, globals/utxo_to_tx.c, txs/handle_tx.c and the loop   *)
(* update_mempool of blocks/handle_block.c.                                *)
(*                                                                         *)
(* The mempool is a uthash table of pending transactions; iteration        *)
(* follows insertion order, so it is a sequence here.  utxo_to_tx is a     *)
(* second table that says, for every output a pending transaction spends,  *)
(* which transaction that is.  The two are kept in step by hand.           *)
(*                                                                         *)
(* A transaction is a record with at least the fields id (its hash, the    *)
(* key of the table) and inputs (a sequence of records with a field prev,  *)
(* the outpoint <<prev_tx_id, prev_utxo_output>> the input spends).        *)
(***************************************************************************)
EXTENDS Naturals, Sequences, SequencesExt

CONSTANTS Txs,      \* the transactions that can be offered to the mempool
          Blocks    \* the transaction lists of the blocks that are accepted

\* The inputs of a transaction are a sequence, and a block is a sequence of
\* transactions.
ASSUME TxsAssumption   == \A tx \in Txs : tx.inputs \in Seq(ToSet(tx.inputs))
ASSUME BlocksAssumption == Blocks \subseteq Seq(Txs)

VARIABLES
  mempool,     \* the pending transactions, oldest first
  utxo_to_tx,  \* outpoint -> id of the pending transaction that spends it
  exited,      \* exit(1) was called
  confirmed,   \* update_mempool: block->txs of the last block it was given
  cur_tx,      \* update_mempool: i, counted from 1
  cur_in       \* update_mempool: j, counted from 1

poolVars == <<mempool, utxo_to_tx, exited>>
loopVars == <<confirmed, cur_tx, cur_in>>
vars     == <<mempool, utxo_to_tx, exited, confirmed, cur_tx, cur_in>>

Outpoints(tx) == {tx.inputs[k].prev : k \in DOMAIN tx.inputs}

\* mempool_find_node(id) # NULL
InMempool(id) == \E i \in DOMAIN mempool : mempool[i].id = id

-----------------------------------------------------------------------------
(* utxo_to_tx_add_tx: the inputs are mapped one after the other.           *)

\* Mutant of Taken: an input repeated inside the transaction goes unnoticed.
TakenByOthers(tx, k) == tx.inputs[k].prev \in DOMAIN utxo_to_tx

\* utxo_to_tx_add returns 1 on the k-th input: its outpoint is mapped, by an
\* older transaction or by an earlier input of this one.
Taken(tx, k) ==
  \/ tx.inputs[k].prev \in DOMAIN utxo_to_tx
  \/ \E j \in 1..(k-1) : tx.inputs[j].prev = tx.inputs[k].prev

\* The inputs mapped before the first one that fails.
MappedInputs(tx) ==
  {k \in DOMAIN tx.inputs : \A j \in 1..k : ~Taken(tx, j)}

\* The first failure is a hard exit that leaves the earlier inputs mapped.
UtxoToTxAddTx(tx) ==
  LET new == {tx.inputs[k].prev : k \in MappedInputs(tx)}
  IN  /\ utxo_to_tx' = [out \in DOMAIN utxo_to_tx \cup new |->
                          IF out \in new THEN tx.id ELSE utxo_to_tx[out]]
      /\ exited' = (MappedInputs(tx) # DOMAIN tx.inputs)

\* Mutant of MempoolAdd: the newest transaction goes to the front.
AddInFront(tx) ==
  IF InMempool(tx.id)
  THEN UNCHANGED poolVars
  ELSE /\ mempool' = <<tx>> \o mempool
       /\ UtxoToTxAddTx(tx)

\* mempool_add: a known id is refused before anything changes; otherwise the
\* transaction is in the table before its inputs are mapped.
MempoolAdd(tx) ==
  IF InMempool(tx.id)
  THEN UNCHANGED poolVars
  ELSE /\ mempool' = Append(mempool, tx)
       /\ UtxoToTxAddTx(tx)

\* Mutant of MempoolRemove: the table forgets the transaction, the mapping
\* keeps its outpoints.
RemoveKeepsMapping(id) ==
  \/ /\ ~InMempool(id)
     /\ UNCHANGED poolVars
  \/ \E i \in DOMAIN mempool :
       /\ mempool[i].id = id
       /\ mempool' = RemoveAt(mempool, i)
       /\ UNCHANGED <<utxo_to_tx, exited>>

\* mempool_remove: nothing for an unknown id; otherwise the transaction
\* leaves the table and every outpoint it spends is unmapped.
MempoolRemove(id) ==
  \/ /\ ~InMempool(id)
     /\ UNCHANGED poolVars
  \/ \E i \in DOMAIN mempool :
       /\ mempool[i].id = id
       /\ mempool' = RemoveAt(mempool, i)
       /\ utxo_to_tx' = [out \in DOMAIN utxo_to_tx \ Outpoints(mempool[i]) |->
                           utxo_to_tx[out]]
       /\ UNCHANGED exited

-----------------------------------------------------------------------------
(* update_mempool: for each input of each transaction of the block, evict  *)
(* the pending transaction that spends the same outpoint.                  *)

MempoolInit ==
  /\ mempool = <<>>
  /\ utxo_to_tx = <<>>
  /\ exited = FALSE

LoopInit == confirmed = <<>> /\ cur_tx = 1 /\ cur_in = 1

UpdateDone == cur_tx > Len(confirmed)

StartUpdate(txs) ==
  /\ confirmed' = txs
  /\ cur_tx' = 1
  /\ cur_in' = 1

\* One turn of the inner loop.
VisitInput ==
  /\ ~UpdateDone
  /\ cur_in <= Len(confirmed[cur_tx].inputs)
  /\ LET out == confirmed[cur_tx].inputs[cur_in].prev
     IN  IF out \in DOMAIN utxo_to_tx
         THEN MempoolRemove(utxo_to_tx[out])
         ELSE UNCHANGED poolVars
  /\ cur_in' = cur_in + 1
  /\ UNCHANGED <<confirmed, cur_tx>>

\* Mutant of NextConfirmedTx: the first input of the next transaction is
\* skipped.
NextConfirmedTxSkips ==
  /\ ~UpdateDone
  /\ cur_in > Len(confirmed[cur_tx].inputs)
  /\ cur_tx' = cur_tx + 1
  /\ cur_in' = 2
  /\ UNCHANGED <<mempool, utxo_to_tx, exited, confirmed>>

\* Mutant of NextConfirmedTx: the loop counter of the transactions is not
\* advanced.
NextConfirmedTxStays ==
  /\ ~UpdateDone
  /\ cur_in > Len(confirmed[cur_tx].inputs)
  /\ cur_in' = 1
  /\ UNCHANGED <<mempool, utxo_to_tx, exited, confirmed, cur_tx>>

\* Mutant of NextConfirmedTx: j is reset to before the first input.
NextConfirmedTxAtZero ==
  /\ ~UpdateDone
  /\ cur_in > Len(confirmed[cur_tx].inputs)
  /\ cur_tx' = cur_tx + 1
  /\ cur_in' = 0
  /\ UNCHANGED <<mempool, utxo_to_tx, exited, confirmed>>

\* The inner loop is over: the next transaction of the block.
NextConfirmedTx ==
  /\ ~UpdateDone
  /\ cur_in > Len(confirmed[cur_tx].inputs)
  /\ cur_tx' = cur_tx + 1
  /\ cur_in' = 1
  /\ UNCHANGED <<mempool, utxo_to_tx, exited, confirmed>>

-----------------------------------------------------------------------------
(* The component on its own: between two blocks any transaction may be     *)
(* offered, fit or not.                                                    *)

\* handle_tx, and the mempool_add call of shell_build_tx.
HandleTx(tx) ==
  /\ ~exited /\ UpdateDone
  /\ MempoolAdd(tx)
  /\ UNCHANGED loopVars

\* accept_block calls update_mempool.
UpdateMempool(txs) ==
  /\ ~exited /\ UpdateDone
  /\ StartUpdate(txs)
  /\ UNCHANGED poolVars

Init == MempoolInit /\ LoopInit

Next ==
  \/ \E tx \in Txs : HandleTx(tx)
  \/ \E txs \in Blocks : UpdateMempool(txs)
  \/ VisitInput
  \/ NextConfirmedTx

Spec == Init /\ [][Next]_vars
\* update_mempool is called on the node's only thread: once entered it runs.
FairSpec == Spec /\ WF_vars(VisitInput \/ NextConfirmedTx)

-----------------------------------------------------------------------------
(* Properties.                                                             *)

TxIds == {tx.id : tx \in Txs}
AllOutpoints == UNION {Outpoints(tx) : tx \in Txs}

\* The variables have the shapes the code gives them.
TypeOK ==
  /\ mempool \in Seq(Txs)
  /\ DOMAIN utxo_to_tx \subseteq AllOutpoints
  /\ utxo_to_tx \in [DOMAIN utxo_to_tx -> TxIds]
  /\ exited \in BOOLEAN
  /\ confirmed \in Seq(Txs)
  /\ cur_tx \in Nat \ {0}
  /\ cur_in \in Nat \ {0}

\* mempool is a hash table: one entry per id.
DistinctIds ==
  \A i, j \in DOMAIN mempool : mempool[i].id = mempool[j].id => i = j

\* utxo_to_tx is exactly the inverse of the pending transactions' inputs as
\* long as the process lives: every pending input is mapped to its own
\* transaction, and every mapping has a pending input behind it.  Both tables
\* are updated by hand in mempool_add, mempool_remove and utxo_to_tx_add_tx.
MappingExact ==
  ~exited =>
    /\ \A i \in DOMAIN mempool : \A out \in Outpoints(mempool[i]) :
         out \in DOMAIN utxo_to_tx /\ utxo_to_tx[out] = mempool[i].id
    /\ \A out \in DOMAIN utxo_to_tx : \E i \in DOMAIN mempool :
         mempool[i].id = utxo_to_tx[out] /\ out \in Outpoints(mempool[i])

\* No pending transaction spends an output twice.
NoRepeats ==
  ~exited =>
    \A i \in DOMAIN mempool : \A k, l \in DOMAIN mempool[i].inputs :
      mempool[i].inputs[k].prev = mempool[i].inputs[l].prev => k = l

\* No output is spent twice by the transactions the miner can pick from,
\* neither by two of them nor twice by one (get_txs_from_mempool takes them
\* without another check).
NoConflicts ==
  ~exited =>
    \A i, j \in DOMAIN mempool :
      \A k \in DOMAIN mempool[i].inputs, l \in DOMAIN mempool[j].inputs :
        mempool[i].inputs[k].prev = mempool[j].inputs[l].prev => i = j /\ k = l

\* update_mempool's loop invariant: the outpoints it has gone past are not
\* claimed by anyone.
Visited(b, k) == b < cur_tx \/ (b = cur_tx /\ k < cur_in)

VisitedUnmapped ==
  ~UpdateDone =>
    /\ ~exited
    /\ \A b \in DOMAIN confirmed : \A k \in DOMAIN confirmed[b].inputs :
         Visited(b, k) => confirmed[b].inputs[k].prev \notin DOMAIN utxo_to_tx

\* When update_mempool returns, no pending transaction spends an output that
\* the accepted block spent.
PurgeComplete ==
  [][~UpdateDone /\ UpdateDone' =>
       \A i \in DOMAIN mempool', b \in DOMAIN confirmed :
         Outpoints(mempool'[i]) \cap Outpoints(confirmed[b]) = {}]_vars

\* Pending transactions keep their order of arrival: mining takes them from
\* the front (mempool -> hh.next), and what is in front of a transaction was
\* in front of it before.
ArrivalOrderKept ==
  [][\A k, l \in DOMAIN mempool', j \in DOMAIN mempool :
       k < l /\ mempool'[l] = mempool[j] => \E i \in 1..(j-1) : mempool'[k] = mempool[i]]_vars

\* update_mempool returns.
UpdateTerminates == []<>UpdateDone

\* The two tables together implement the conflict-free pool.
Pool == INSTANCE ConflictFreePool WITH
          pool <- IF exited THEN {} ELSE ToSet(mempool),
          dead <- exited
ImplementsPool == Pool!Spec
=============================================================================

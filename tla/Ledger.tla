------------------------------- MODULE Ledger -------------------------------
(***************************************************************************)
(* What the node keeps, without databases, files, writes and loops: a set  *)
(* of unspent outputs that blocks replace by others in one step, and       *)
(* payments that wait, each of which can be mined with all the others.     *)
(* The process can forget what waits; it can also lose the set (a kill in  *)
(* the middle of a command), after which nothing is promised.              *)
(*                                                                         *)
(* A transaction is [id, inputs, outputs] as in Transactions.              *)
(***************************************************************************)
EXTENDS Integers, Sequences, FiniteSets

VARIABLES
  unspent,   \* outpoint -> [amt, key]
  pending,   \* the transactions that wait for a block
  intact     \* nothing has been lost

vars == <<unspent, pending, intact>>

Spends(tx) == {tx.inputs[k].prev : k \in DOMAIN tx.inputs}
Makes(tx)  == {<<tx.id, n - 1>> : n \in DOMAIN tx.outputs}
SpentBy(txs) == UNION {Spends(tx) : tx \in txs}
MadeBy(txs)  == UNION {Makes(tx) : tx \in txs}

\* An output of one of txs; its number counts from 0.
OutputOf(out, txs) == (CHOOSE tx \in txs : out \in Makes(tx)).outputs[out[2] + 1]

\* Every input shows the key of an unspent output, once, and its signature.
Payable(tx) ==
  /\ \A k \in DOMAIN tx.inputs :
       /\ tx.inputs[k].prev \in DOMAIN unspent
       /\ tx.inputs[k].key = unspent[tx.inputs[k].prev].key
       /\ tx.inputs[k].signed
  /\ Cardinality(Spends(tx)) = Len(tx.inputs)

Init == unspent = <<>> /\ pending = {} /\ intact = TRUE

\* A payment is taken on if it takes nothing away from another.
Offer(tx) ==
  /\ Payable(tx)
  /\ Spends(tx) \cap SpentBy(pending) = {}
  /\ pending' = pending \cup {tx}
  /\ UNCHANGED <<unspent, intact>>

\* A block: some of the payments, all at once, and a new output to the miner.
Accept(txs, reward) ==
  /\ pending' = pending \ txs
  /\ unspent' = [out \in (DOMAIN unspent \ SpentBy(txs)) \cup MadeBy(txs) \cup {reward} |->
                   IF out \in DOMAIN unspent THEN unspent[out]
                   ELSE IF out \in MadeBy(txs) THEN OutputOf(out, txs)
                   ELSE unspent'[out]]
  /\ UNCHANGED intact

Forget ==
  /\ pending' = {}
  /\ UNCHANGED <<unspent, intact>>

Lose == intact' = FALSE

Next ==
  \/ /\ intact
     /\ \/ \E tx \in pending' \ pending : Offer(tx)
        \/ \E txs \in SUBSET pending, reward \in DOMAIN unspent' \ DOMAIN unspent :
             Accept(txs, reward)
        \/ Forget
        \/ Lose
  \/ ~intact /\ ~intact'

Spec == Init /\ [][Next]_vars
=============================================================================

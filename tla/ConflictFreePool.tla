-------------------------- MODULE ConflictFreePool --------------------------
(***************************************************************************)
(* What the mempool promises the miner, without the two hash tables, the   *)
(* loops and the insertion order of globals/mempool.c and                  *)
(* globals/utxo_to_tx.c: a set of transactions no two of which spend the   *)
(* same output.  A request to hold a transaction that would break the      *)
(* promise is fatal: the process exits.                                    *)
(***************************************************************************)
CONSTANT Txs        \* the transactions that can be offered

VARIABLES pool,     \* the set of pending transactions
          dead      \* the process has exited

Spends(tx) == {tx.inputs[k].prev : k \in DOMAIN tx.inputs}

RepeatsAnInput(tx) ==
  \E j, k \in DOMAIN tx.inputs : j # k /\ tx.inputs[j].prev = tx.inputs[k].prev

FitsPool(tx) ==
  /\ ~RepeatsAnInput(tx)
  /\ \A other \in pool : Spends(tx) \cap Spends(other) = {}

Init == pool = {} /\ dead = FALSE

Accept(tx) ==
  /\ ~dead
  /\ FitsPool(tx)
  /\ pool' = pool \cup {tx}
  /\ UNCHANGED dead

\* The only way to die: a transaction that does not fit.
DieOn(tx) ==
  /\ ~dead
  /\ ~FitsPool(tx)
  /\ pool' = {}
  /\ dead' = TRUE

\* An output spent by an accepted block evicts whoever wanted to spend it,
\* and nobody else.
Confirm(out) ==
  /\ ~dead
  /\ pool' = {tx \in pool : out \notin Spends(tx)}
  /\ UNCHANGED dead

Next ==
  \/ \E tx \in Txs : Accept(tx) \/ DieOn(tx)
  \/ \E tx \in Txs : \E out \in Spends(tx) : Confirm(out)

Spec == Init /\ [][Next]_<<pool, dead>>
=============================================================================

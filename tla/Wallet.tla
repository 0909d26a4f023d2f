------------------------------- MODULE Wallet -------------------------------
(***************************************************************************)
(* txs/wallet_pool.c and txs/wallet.c: the outputs the node can unlock,    *)
(* the keys it has, and how a payment is put together from them.           *)
(*                                                                         *)
(* A key that gen_keys makes for a transaction is identified by the id of  *)
(* that transaction (a transaction gets at most one); Foreign stands for   *)
(* the keys of everybody else.  Ids are natural numbers and their order is *)
(* the order of the hashes, in which LevelDB iterates.                     *)
(***************************************************************************)
EXTENDS Transactions

CONSTANTS Foreign,    \* a public key hash that is in nobody's key_pool here
          MAX_TX_ID   \* bound: transactions are numbered 1..MAX_TX_ID

ASSUME ForeignAssumption == Foreign \notin Nat
ASSUME IdAssumption == MAX_TX_ID \in Nat

VARIABLES
  wallet_pool,   \* LevelDB: outpoint -> [amt, key, spent]
  key_pool,      \* LevelDB: the keys the node holds
  building,      \* build_tx: the transaction under construction
  to_mark        \* build_inputs: the entries its second loop still visits

walletDisk == <<wallet_pool, key_pool>>
buildVars  == <<building, to_mark>>

\* leveldb_put and leveldb_delete on a database seen as a function.
Put(db, key, value) ==
  [k \in DOMAIN db \cup {key} |-> IF k = key THEN value ELSE db[k]]
Delete(db, key) == [k \in DOMAIN db \ {key} |-> db[k]]

NoTx == [id |-> 0, inputs |-> <<>>, outputs |-> <<>>]

WalletInit ==
  /\ wallet_pool = <<>>
  /\ key_pool = {}
  /\ building = NoTx
  /\ to_mark = <<>>

-----------------------------------------------------------------------------
(* wallet_pool.c                                                           *)

\* Mutant of Unlockable: the lookup in key_pool always succeeds.
UnlockableByAll(out) == TRUE

\* check_if_output_unlockable_leveldb(tx, vout) # NULL
Unlockable(out) == out.key \in key_pool

\* wallet_pool_build_add_leveldb: a new entry is not spent.
WalletEntry(out) == [amt |-> out.amt, key |-> out.key, spent |-> FALSE]

-----------------------------------------------------------------------------
(* build_inputs, first loop: how far the iterator goes before what it has  *)
(* seen unspent covers out_total.  The test comes after each entry, also   *)
(* after a spent one.                                                      *)

KeyBefore(a, b) == a[1] < b[1] \/ (a[1] = b[1] /\ a[2] < b[2])
NotAfter(a, b)  == a = b \/ KeyBefore(a, b)

\* A finite set of outpoints in the order of the keys: the n-th has n - 1 before it.
InKeyOrder(outs) ==
  LET before(out) == {o \in outs : KeyBefore(o, out)}
  IN  [n \in 1..Cardinality(outs) |-> CHOOSE out \in outs : Cardinality(before(out)) = n - 1]

Unspent(outs) == {out \in outs : ~wallet_pool[out].spent}

\* out_total, in unsigned long.
OutTotal(amt, fee) == Ulong(fee + amt)

\* What these entries give.
InTotal(outs) == Ulong(MapThenSumSet(LAMBDA out : wallet_pool[out].amt, Unspent(outs)))

\* The entries the loop has seen once it has visited this one.
SeenAt(out) == {o \in DOMAIN wallet_pool : NotAfter(o, out)}

\* The entries the loop has visited when it ends.
Visited(out_total) ==
  LET enough == {out \in DOMAIN wallet_pool : InTotal(SeenAt(out)) >= out_total}
  IN  IF enough = {} THEN DOMAIN wallet_pool
      ELSE SeenAt(CHOOSE out \in enough : \A o \in enough : NotAfter(out, o))

\* Otherwise build_inputs prints a message and exits the process.
EnoughFunds(out_total) == InTotal(Visited(out_total)) >= out_total

\* The entries that become inputs.
Selected(out_total) == InKeyOrder(Unspent(Visited(out_total)))

\* The entries the second loop marks as spent.  These are the inputs, unless
\* nothing was selected: i >= num_inputs is tested only at the end of a turn,
\* so an unspent entry further on is marked, and written to tx->inputs[0] of
\* an allocation of no bytes.
Marked(out_total) ==
  LET unspent == Unspent(DOMAIN wallet_pool)
  IN  IF Unspent(Visited(out_total)) = {} /\ unspent # {}
      THEN <<InKeyOrder(unspent)[1]>> ELSE Selected(out_total)

-----------------------------------------------------------------------------
(* build_outputs and sign_tx: the destination, then what is left over, to  *)
(* a new key.                                                              *)

HasChange(out_total) == InTotal(Visited(out_total)) # out_total

\* Mutant of ChangeAmount: nothing is taken off.
ChangeInFull(out_total) == InTotal(Visited(out_total))

ChangeAmount(out_total) == Ulong(InTotal(Visited(out_total)) - out_total)

BuiltTx(id, dest, amt, fee) ==
  LET out_total == OutTotal(amt, fee)
      change == IF HasChange(out_total)
                THEN <<[amt |-> ChangeAmount(out_total), key |-> id]>>
                ELSE <<>>
      selected == Selected(out_total)
  IN  [id |-> id,
       inputs |-> [k \in DOMAIN selected |->
                     [prev |-> selected[k], key |-> wallet_pool[selected[k]].key,
                      signed |-> TRUE]],
       outputs |-> <<[amt |-> amt, key |-> dest]>> \o change]

ChangeKeyMade == \E n \in DOMAIN building.outputs : building.outputs[n].key = building.id

-----------------------------------------------------------------------------
(* build_tx, one action per write to a database.                           *)

\* Mutant of StartBuild: nothing is marked.
StartBuildUnmarked(id, dest, amt, fee) ==
  /\ EnoughFunds(OutTotal(amt, fee))
  /\ building' = BuiltTx(id, dest, amt, fee)
  /\ to_mark' = <<>>
  /\ UNCHANGED walletDisk

StartBuild(id, dest, amt, fee) ==
  /\ EnoughFunds(OutTotal(amt, fee))
  /\ building' = BuiltTx(id, dest, amt, fee)
  /\ to_mark' = Marked(OutTotal(amt, fee))
  /\ UNCHANGED walletDisk

\* read_wallet_entry->spent = 1 and wallet_pool_add_wallet_entry_leveldb.
MarkSpent ==
  /\ to_mark # <<>>
  /\ wallet_pool' = [wallet_pool EXCEPT ![Head(to_mark)].spent = TRUE]
  /\ to_mark' = Tail(to_mark)
  /\ UNCHANGED <<key_pool, building>>

\* Mutant of StoreChangeKey: the new key is never stored.
ForgetChangeKey ==
  /\ to_mark = <<>>
  /\ UNCHANGED <<wallet_pool, key_pool, building, to_mark>>

\* key_pool_add_leveldb(new_key), the last thing build_tx does.
StoreChangeKey ==
  /\ to_mark = <<>>
  /\ key_pool' = IF ChangeKeyMade THEN key_pool \cup {building.id} ELSE key_pool
  /\ UNCHANGED <<wallet_pool, building, to_mark>>
=============================================================================

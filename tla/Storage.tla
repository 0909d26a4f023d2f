------------------------------ MODULE Storage ------------------------------
(***************************************************************************)
(* The node's values on their way through bytes: keys, transactions,       *)
(* blocks, UTXOs and wallet entries are hashed, signed, written to LevelDB *)
(* under names made of hashes, and read back.  The life of a node in       *)
(* between (what is mined, paid and stored when) is Node's, cut down to    *)
(* what makes values: mining, paying from the wallet, one put at a time.   *)
(***************************************************************************)
EXTENDS Serialise, FiniteSets

CONSTANTS
  REWARD,        \* a coinbase's amount; it stands for fees, too
  AMOUNTS,       \* amounts paid to others
  TIMES,         \* what time(NULL) returns: seconds, in which many blocks can be mined
  FOREIGN_KEY,   \* somebody else's key
  MAX_INPUTS,    \* bound: inputs of a payment
  MAX_KEYS       \* bound: keys made, 1..MAX_KEYS

ASSUME BoundsAssumption == MAX_INPUTS \in Nat /\ MAX_KEYS \in Nat

\* Amounts are unsigned longs.
ASSUME AmountsAssumption == REWARD \in Nat /\ AMOUNTS \subseteq Nat

VARIABLES
  db,          \* the LevelDB databases: <<database, key>> -> bytes
  held,        \* history: <<database, key>> -> the value meant to be there
  buf,         \* the last buffer a serialiser filled
  puts,        \* writes ahead: [to, value], value = NULL for a delete
  keys,        \* number of keys gen_keys has made
  top,         \* top_block_header_hash
  pending,     \* the mempool
  tx,          \* build_tx: the transaction under construction, or NULL
  input_keys,  \* build_tx: the private keys to sign with, input by input
  tx_hash,     \* sign_tx: what is signed
  signed       \* sign_tx: inputs signed so far; -1 before the hash is taken

vars == <<db, held, buf, puts, keys, top, pending, tx, input_keys, tx_hash, signed>>

NoBuffer == Allocated(0, NewBuffer)

Init ==
  /\ db = <<>> /\ held = <<>>
  /\ buf = NoBuffer
  /\ puts = <<>>
  /\ keys = 0
  /\ top = Zeros
  /\ pending = <<>>
  /\ tx = NULL /\ input_keys = <<>> /\ tx_hash = NULL /\ signed = -1

-----------------------------------------------------------------------------
(* Names and values of database entries.                                   *)

\* Mutant of MakeUtxoPoolKey: the output number is not copied behind the hash.
UtxoPoolKeyNoVout(id, vout) == <<id, 0>>

\* make_utxo_pool_key_with_hash: the key as bytes is the two, one after the other.
MakeUtxoPoolKey(id, vout) == <<id, vout>>

SerAlloc(to, value) ==
  CASE to[1] = "blocks"  -> SerBlockAlloc(value)
    [] to[1] = "utxos"   -> SerUtxoAlloc(value)
    [] to[1] = "wallet"  -> SerWalletEntryAlloc(value)
    [] to[1] = "keys"    -> SerKeypairAlloc(value)

\* *_find_leveldb (of wallet, key, UTXO and block database): leveldb_get, then
\* deser_*_alloc on what it returned.
Find(to) ==
  LET c == [mem |-> [a \in 0..(Len(db[to]) - 1) |-> db[to][a + 1]], at |-> 0]
  IN  CASE to[1] = "blocks"  -> DeserBlock(c)
        [] to[1] = "utxos"   -> DeserUtxo(c)
        [] to[1] = "wallet"  -> DeserWalletEntry(c)
        [] to[1] = "keys"    -> DeserKeypair(c)

KeyPair(key) == [public |-> key, private |-> key]
PutKey(key) == [to |-> <<"keys", HashPubKey(key)>>, value |-> KeyPair(key)]
Output(amt, key) == [amt |-> amt, public_key_hash |-> HashPubKey(key)]

\* The first put or delete ahead: *_add_leveldb, *_remove_leveldb.
PutNext ==
  LET to == Head(puts).to
      value == Head(puts).value
  IN  /\ puts # <<>>
      /\ puts' = Tail(puts)
      /\ IF value = NULL
         THEN /\ db' = [k \in DOMAIN db \ {to} |-> db[k]]
              /\ held' = [k \in DOMAIN held \ {to} |-> held[k]]
              /\ UNCHANGED buf
         ELSE /\ buf' = SerAlloc(to, value)
              /\ db' = [k \in DOMAIN db \cup {to} |->
                          IF k = to THEN BytesAt(buf'.mem, 0, buf'.written) ELSE db[k]]
              /\ held' = [k \in DOMAIN held \cup {to} |-> IF k = to THEN value ELSE held[k]]
      /\ UNCHANGED <<keys, top, pending, tx, input_keys, tx_hash, signed>>

-----------------------------------------------------------------------------
(* mine_block and accept_block.                                            *)

CopyTx(t) == [inputs |-> Inputs(t), outputs |-> t.outputs]

\* The names of the entries a block's transactions make and remove.
PutsOf(t) ==
  LET id == HashTx(t)
      entry(n) == [key_pair |-> KeyPair(CHOOSE k \in 1..MAX_KEYS :
                                  t.outputs[n].public_key_hash = HashPubKey(k)),
                   amt |-> t.outputs[n].amt, spent |-> 0]
      own(n) == \E k \in 1..MAX_KEYS : t.outputs[n].public_key_hash = HashPubKey(k)
      made(n) == <<[to |-> <<"utxos", MakeUtxoPoolKey(id, n - 1)>>, value |-> t.outputs[n]]>>
                 \o IF own(n) THEN <<[to |-> <<"wallet", MakeUtxoPoolKey(id, n - 1)>>,
                                      value |-> entry(n)]>> ELSE <<>>
      gone(in) == LET k == MakeUtxoPoolKey(in.prev_tx_id, in.prev_utxo_output)
                  IN  <<[to |-> <<"utxos", k>>, value |-> NULL],
                        [to |-> <<"wallet", k>>, value |-> NULL]>>
  IN  FlattenSeq([n \in DOMAIN t.outputs |-> made(n)])
      \o FlattenSeq([k \in DOMAIN Inputs(t) |-> gone(t.inputs[k])])

\* create_coinbase_tx: a new key for every coinbase.
CoinbaseKey == keys + 1

\* mine_block: the coinbase, the pending transactions, the header.
Mine ==
  /\ puts = <<>> /\ tx = NULL
  /\ keys < MAX_KEYS
  /\ \E now \in TIMES :
     LET coinbase == [inputs |-> NULL, outputs |-> <<Output(REWARD, CoinbaseKey)>>]
         txs == <<coinbase>> \o [n \in DOMAIN pending |-> CopyTx(pending[n])]
         header == [timestamp |-> now, all_tx |-> HashAllTx(txs),
                    prev_header_hash |-> top, nonce |-> 0]
     IN  /\ puts' = <<PutKey(CoinbaseKey),
                      [to |-> <<"blocks", HashBlockheader(header)>>,
                       value |-> [header |-> header, txs |-> txs]]>>
                    \o FlattenSeq([i \in DOMAIN txs |-> PutsOf(txs[i])])
         /\ top' = HashBlockheader(header)
  /\ keys' = keys + 1
  /\ pending' = <<>>
  /\ UNCHANGED <<db, held, buf, tx, input_keys, tx_hash, signed>>

-----------------------------------------------------------------------------
(* build_tx.                                                               *)

\* build_inputs from one wallet entry as it is read back: the key pair, and
\* the entry to write in its place.
InputFrom(to) ==
  [pub_key |-> Find(to).value.key_pair.public, sig_len |-> 0, signature |-> Zeros,
   prev_tx_id |-> to[2][1], prev_utxo_output |-> to[2][2]]
MarkedSpent(to) == [to |-> to, value |-> [Find(to).value EXCEPT !.spent = 1]]

UnspentEntries == {to \in DOMAIN db : to[1] = "wallet" /\ Find(to).value.spent = 0}

\* Up to MAX_INPUTS entries, in the order of their names (any order here),
\* and the outputs: the amount to FOREIGN_KEY, what is left over to a new key.
BuildTx(amt) ==
  /\ puts = <<>> /\ tx = NULL
  /\ keys < MAX_KEYS
  /\ \E n \in 1..MAX_INPUTS : \E from \in [1..n -> UnspentEntries] :
       LET in_total == FoldLeft(LAMBDA acc, to : acc + Find(to).value.amt, 0, from)
           change == IF in_total = amt THEN <<>> ELSE <<Output(in_total - amt, keys + 1)>>
       IN  /\ Cardinality({from[k] : k \in 1..n}) = n
           /\ in_total >= amt
           /\ tx' = [inputs  |-> [k \in 1..n |-> InputFrom(from[k])],
                     outputs |-> <<Output(amt, FOREIGN_KEY)>> \o change]
           /\ input_keys' = [k \in 1..n |-> Find(from[k]).value.key_pair.private]
           /\ puts' = [k \in 1..n |-> MarkedSpent(from[k])]
           /\ keys' = keys + Len(change)
  /\ UNCHANGED <<db, held, buf, top, pending, tx_hash, signed>>

\* sign_tx: the hash is taken once, before there is any signature.
HashForSigning ==
  /\ puts = <<>> /\ tx # NULL /\ signed = -1
  /\ tx_hash' = HashTx(tx)
  /\ signed' = 0
  /\ UNCHANGED <<db, held, buf, puts, keys, top, pending, tx, input_keys>>

\* write_sig; how long a signature is, which mbedtls returns, is taken to be the
\* most it can be.
WithSignature(in, key, hash) ==
  [in EXCEPT !.signature = Signature(key, hash), !.sig_len = SIGNATURE_LEN]

\* Mutant of SignInput: the hash is taken again for every input.
SignInputRehashed ==
  /\ signed >= 0 /\ signed < Len(tx.inputs)
  /\ tx' = [tx EXCEPT !.inputs[signed + 1] = WithSignature(@, input_keys[signed + 1], HashTx(tx))]
  /\ signed' = signed + 1
  /\ UNCHANGED <<db, held, buf, puts, keys, top, pending, input_keys, tx_hash>>

SignInput ==
  /\ signed >= 0 /\ signed < Len(tx.inputs)
  /\ tx' = [tx EXCEPT !.inputs[signed + 1] = WithSignature(@, input_keys[signed + 1], tx_hash)]
  /\ signed' = signed + 1
  /\ UNCHANGED <<db, held, buf, puts, keys, top, pending, input_keys, tx_hash>>

\* Mutant of FinishTx: the hash outlives the transaction.
FinishTxKeepsHash ==
  /\ tx # NULL /\ signed = Len(tx.inputs)
  /\ puts' = IF Len(tx.outputs) = 2 THEN <<PutKey(keys)>> ELSE <<>>
  /\ pending' = Append(pending, tx)
  /\ tx' = NULL /\ input_keys' = <<>> /\ signed' = -1
  /\ UNCHANGED <<db, held, buf, keys, top, tx_hash>>

\* key_pool_add_leveldb(new_key); mempool_add
FinishTx ==
  /\ tx # NULL /\ signed = Len(tx.inputs)
  /\ puts' = IF Len(tx.outputs) = 2 THEN <<PutKey(keys)>> ELSE <<>>
  /\ pending' = Append(pending, tx)
  /\ tx' = NULL /\ input_keys' = <<>> /\ tx_hash' = NULL /\ signed' = -1
  /\ UNCHANGED <<db, held, buf, keys, top>>

Next ==
  \/ PutNext
  \/ Mine
  \/ \E amt \in AMOUNTS : BuildTx(amt)
  \/ HashForSigning \/ SignInput \/ FinishTx

Spec == Init /\ [][Next]_vars

-----------------------------------------------------------------------------
(* Validation of signatures.                                               *)

\* create_blank_sig_txhash
BlankSigTx(t) ==
  [inputs |-> [k \in DOMAIN t.inputs |->
                 [t.inputs[k] EXCEPT !.signature = Zeros, !.sig_len = 0]],
   outputs |-> t.outputs]

\* check_input_unlockable; validate_sig (external) accepts what write_sig made.
CheckInputUnlockable(in, blank_tx_hash) ==
  IF in.signature = Signature(in.pub_key, blank_tx_hash) THEN 0 ELSE 1

AllUnlockable(t) ==
  LET hash == HashTx(BlankSigTx(t))
  IN  \A k \in DOMAIN t.inputs : CheckInputUnlockable(t.inputs[k], hash) = 0

-----------------------------------------------------------------------------
(* Properties.                                                             *)

\* A value read back: NULL for no inputs has become an empty list.
AsRead(to, value) ==
  IF to[1] = "blocks"
  THEN [value EXCEPT !.txs = [i \in DOMAIN @ |-> CopyTx(@[i])]] ELSE value

TypeOK ==
  /\ DOMAIN db = DOMAIN held
  /\ \A to \in DOMAIN db : to[1] \in {"blocks", "utxos", "wallet", "keys"} /\ Len(db[to]) > 0
  /\ keys \in 0..MAX_KEYS
  /\ signed \in -1..MAX_INPUTS
  /\ tx = NULL => signed = -1 /\ input_keys = <<>>
  /\ tx_hash = NULL <=> signed = -1

\* "Serialized tx of length size_ser_tx(tx)", "Number of bytes written": three
\* things that are computed apart agree: the size allocated, the bytes
\* written, each of them, and the number returned.
BufferFilledExactly ==
  /\ DOMAIN buf.mem = 0..(buf.size - 1)
  /\ buf.written = buf.size

\* What a database gives back is what was put there, and the reader consumes
\* all of it and no more.
ReadsBack ==
  \A to \in DOMAIN db :
    /\ Find(to).value = AsRead(to, held[to])
    /\ Find(to).at = Len(db[to])

\* No put replaces another value: names made of hashes are unique, for
\* outputs of one transaction, for transactions, for blocks.  Only spent of a
\* wallet entry changes, and only from 0 to 1.
NothingOverwritten ==
  [][\A to \in DOMAIN held \cap DOMAIN held' :
       \/ held'[to] = held[to]
       \/ to[1] = "wallet" /\ held[to].spent = 0 /\ held'[to] = [held[to] EXCEPT !.spent = 1]]_vars

\* What sign_tx signs is what check_input_unlockable verifies: every input of
\* a finished transaction, whatever the number of inputs, before and after
\* it was stored in a block and read back.
SignaturesVerify ==
  /\ \A n \in DOMAIN pending : AllUnlockable(pending[n])
  /\ \A to \in DOMAIN db : to[1] = "blocks" =>
       \A i \in DOMAIN Find(to).value.txs : AllUnlockable(Find(to).value.txs[i])

\* Variants of a transaction that differ in one thing the owner did not sign.
Variants(t) ==
  {[t EXCEPT !.outputs[n].amt = @ + 1] : n \in DOMAIN t.outputs}
  \cup {[t EXCEPT !.outputs[n].public_key_hash = Zeros] : n \in DOMAIN t.outputs}
  \cup {[t EXCEPT !.inputs[k].prev_utxo_output = 1 - @] : k \in DOMAIN t.inputs}
  \cup {[t EXCEPT !.inputs[k].prev_tx_id = Zeros] : k \in DOMAIN t.inputs}
  \cup {[t EXCEPT !.outputs = Append(@, Output(0, FOREIGN_KEY))],
        [t EXCEPT !.inputs = Append(@, @[1])]}
  \cup {[t EXCEPT !.outputs = Tail(@)], [t EXCEPT !.inputs = SubSeq(@, 2, Len(@))]}

\* No signature holds for any of them: amounts, receivers, spent outputs and
\* both counts are all in what is signed.
VariantsRefused ==
  \A n \in DOMAIN pending : \A t \in Variants(pending[n]) :
    LET hash == HashTx(BlankSigTx(t))
    IN  \A k \in DOMAIN t.inputs : CheckInputUnlockable(t.inputs[k], hash) # 0
=============================================================================

----------------------------- MODULE Serialise -----------------------------
(***************************************************************************)
(* utils/ser_key.c, txs/ser_tx.c, txs/ser_wallet.c, blocks/ser_block.c and *)
(* the hashes taken of what they write (hash_tx, hash_all_tx,              *)
(* hash_blockheader, hash_pub_key).                                        *)
(*                                                                         *)
(* Memory is a function from addresses to bytes, and a byte says of which  *)
(* value it is, which of its bytes, and how many that value has.  A cursor *)
(* [mem, at] is a pointer into it; the buffer of an allocation starts at   *)
(* address 0, and bytes nobody wrote are not in DOMAIN mem.                *)
(*                                                                         *)
(* Values are tagged tuples, so that any two can be compared: numbers,     *)
(* keys, hashes, signatures.  SHA-256 (external) maps different bytes to   *)
(* different hashes: a hash is the bytes it was taken of.  Keys are the    *)
(* ones gen_keys makes, never the point at infinity, so that mbedtls       *)
(* (external) writes and reads PUB_KEY_SER_LEN bytes without an error.     *)
(***************************************************************************)
EXTENDS Integers, Sequences, SequencesExt

CONSTANTS
  SIZEOF_INT,         \* unsigned int, int: 4
  SIZEOF_LONG,        \* unsigned long, size_t: 8
  SHA_HASH_LEN,       \* 32: ids of transactions and blocks, hashes of keys
  PUB_KEY_SER_LEN,    \* 65
  PRIV_KEY_SER_LEN,   \* 32
  SIGNATURE_LEN,      \* 72
  NULL                \* the null pointer

ASSUME LengthAssumption ==
  \A len \in {SIZEOF_INT, SIZEOF_LONG, SHA_HASH_LEN, PUB_KEY_SER_LEN,
              PRIV_KEY_SER_LEN, SIGNATURE_LEN} : len \in Nat \ {0}

Num(n)        == <<"num", n>>
PublicOf(key) == <<"public", key>>
PrivateOf(key) == <<"private", key>>
Signature(key, hash) == <<"signature", key, hash>>
Zeros         == <<"zeros">>      \* a signature not made yet
Garbage       == <<"garbage">>

\* A count that was read back; garbage stands for no elements.
NumOf(v) == IF v[1] = "num" THEN v[2] ELSE 0

-----------------------------------------------------------------------------
(* Memory.                                                                 *)

Bytes(v, len) == [k \in 1..len |-> <<v, k, len>>]
Uninitialized == <<Garbage, 0, 0>>

\* hash_sha256: the first and the last byte of a value stand for all of them.
Sha256(bytes) ==
  <<"sha256", Restrict(bytes, {k \in DOMAIN bytes : bytes[k][2] \in {0, 1, bytes[k][3]}})>>

\* memcpy(c.at, &v, len), and the pointer behind it.
Put(c, v, len) ==
  [mem |-> [a \in DOMAIN c.mem \cup c.at..(c.at + len - 1) |->
              IF a \in c.at..(c.at + len - 1) THEN Bytes(v, len)[a - c.at + 1]
              ELSE c.mem[a]],
   at  |-> c.at + len]

BytesAt(mem, at, len) ==
  [k \in 1..len |-> IF at + k - 1 \in DOMAIN mem THEN mem[at + k - 1] ELSE Uninitialized]

\* memcpy(&v, c.at, len): bytes that are not one whole value make garbage.
Get(c, len) ==
  LET bytes == BytesAt(c.mem, c.at, len)
      v == bytes[1][1]
  IN  IF bytes = Bytes(v, len) THEN v ELSE Garbage

Skip(c, len) == [c EXCEPT !.at = @ + len]

\* n objects one after the other, each read where the last one ended.
GetMany(read(_), c, n) ==
  FoldLeft(LAMBDA acc, k : LET one == read([mem |-> c.mem, at |-> acc.at])
                           IN  [value |-> Append(acc.value, one.value), at |-> one.at],
           [value |-> <<>>, at |-> c.at], [k \in 1..n |-> k])

NewBuffer == [mem |-> <<>>, at |-> 0]

\* What malloc gave, what was written into it, what the writer returned.
Allocated(size, c) == [size |-> size, mem |-> c.mem, written |-> c.at]

-----------------------------------------------------------------------------
(* Keys.                                                                   *)

SerPubKey(c, key) == Put(c, PublicOf(key), PUB_KEY_SER_LEN)
KeyOf(v) == IF v[1] \in {"public", "private"} THEN v[2] ELSE "no key"
DeserPubKey(c) == [value |-> KeyOf(Get(c, PUB_KEY_SER_LEN)), at |-> c.at + PUB_KEY_SER_LEN]

KEYPAIR_SER_LEN == PUB_KEY_SER_LEN + PRIV_KEY_SER_LEN

SerKeypair(c, pair) == Put(SerPubKey(c, pair.public), PrivateOf(pair.private), PRIV_KEY_SER_LEN)
DeserKeypair(c) ==
  LET public == DeserPubKey(c)
  IN  [value |-> [public  |-> public.value,
                  private |-> KeyOf(Get([c EXCEPT !.at = public.at], PRIV_KEY_SER_LEN))],
       at |-> public.at + PRIV_KEY_SER_LEN]

SerKeypairAlloc(pair) == Allocated(KEYPAIR_SER_LEN, SerKeypair(NewBuffer, pair))

HashPubKey(key) == Sha256(BytesAt(SerPubKey(NewBuffer, key).mem, 0, PUB_KEY_SER_LEN))

-----------------------------------------------------------------------------
(* UTXOs, and the outputs of a transaction: the struct Output, copied as   *)
(* it is in memory, has the same two fields and no padding.                *)

UTXO_SER_LEN == SIZEOF_LONG + SHA_HASH_LEN

SerUtxo(c, utxo) == Put(Put(c, Num(utxo.amt), SIZEOF_LONG), utxo.public_key_hash, SHA_HASH_LEN)

DeserUtxo(c) ==
  LET sig == Skip(c, SIZEOF_LONG)
  IN  [value |-> [amt |-> NumOf(Get(c, SIZEOF_LONG)), public_key_hash |-> Get(sig, SHA_HASH_LEN)],
       at |-> sig.at + SHA_HASH_LEN]

SerUtxoAlloc(utxo) == Allocated(UTXO_SER_LEN, SerUtxo(NewBuffer, utxo))

SIZEOF_OUTPUT == SIZEOF_LONG + SHA_HASH_LEN

-----------------------------------------------------------------------------
(* Wallet entries.                                                         *)

WALLET_ENTRY_SER_LEN == KEYPAIR_SER_LEN + SIZEOF_LONG + SIZEOF_INT

SerWalletEntry(c, entry) ==
  LET amt == SerKeypair(c, entry.key_pair)
      spent == Put(amt, Num(entry.amt), SIZEOF_LONG)
  IN  Put(spent, Num(entry.spent), SIZEOF_INT)

DeserWalletEntry(c) ==
  LET key_pair == DeserKeypair(c)
      amt == [c EXCEPT !.at = key_pair.at]
      spent == Skip(amt, SIZEOF_LONG)
  IN  [value |-> [key_pair |-> key_pair.value, amt |-> NumOf(Get(amt, SIZEOF_LONG)),
                  spent |-> NumOf(Get(spent, SIZEOF_INT))],
       at |-> spent.at + SIZEOF_INT]

SerWalletEntryAlloc(entry) ==
  Allocated(WALLET_ENTRY_SER_LEN, SerWalletEntry(NewBuffer, entry))

-----------------------------------------------------------------------------
(* Transactions.  inputs is NULL in a coinbase that was never copied.      *)

Inputs(tx) == IF tx.inputs = NULL THEN <<>> ELSE tx.inputs

INPUT_SER_LEN ==
  PUB_KEY_SER_LEN + SIZEOF_LONG + SIGNATURE_LEN + SHA_HASH_LEN + SIZEOF_INT

\* Mutant of SerInput: the output number is left out.
SerInputNoVout(c, in) ==
  LET sig_len == SerPubKey(c, in.pub_key)
      sig == Put(sig_len, Num(in.sig_len), SIZEOF_LONG)
      prev_tx == Put(sig, in.signature, SIGNATURE_LEN)
      vout == Put(prev_tx, in.prev_tx_id, SHA_HASH_LEN)
  IN  Put(vout, Num(0), SIZEOF_INT)

SerInput(c, in) ==
  LET sig_len == SerPubKey(c, in.pub_key)
      sig == Put(sig_len, Num(in.sig_len), SIZEOF_LONG)
      prev_tx == Put(sig, in.signature, SIGNATURE_LEN)
      vout == Put(prev_tx, in.prev_tx_id, SHA_HASH_LEN)
  IN  Put(vout, Num(in.prev_utxo_output), SIZEOF_INT)

DeserInput(c) ==
  LET sig_len == Skip(c, PUB_KEY_SER_LEN)
      sig == Skip(sig_len, SIZEOF_LONG)
      prev_tx == Skip(sig, SIGNATURE_LEN)
      vout == Skip(prev_tx, SHA_HASH_LEN)
  IN  [value |-> [pub_key |-> DeserPubKey(c).value,
                  sig_len |-> NumOf(Get(sig_len, SIZEOF_LONG)),
                  signature |-> Get(sig, SIGNATURE_LEN),
                  prev_tx_id |-> Get(prev_tx, SHA_HASH_LEN),
                  prev_utxo_output |-> NumOf(Get(vout, SIZEOF_INT))],
       at |-> vout.at + SIZEOF_INT]

\* Mutant of SizeSerTx: room for one of the two counts only.
SizeSerTxShort(tx) ==
  SIZEOF_INT + Len(Inputs(tx)) * INPUT_SER_LEN + Len(tx.outputs) * SIZEOF_OUTPUT

SizeSerTx(tx) ==
  2 * SIZEOF_INT + Len(Inputs(tx)) * INPUT_SER_LEN + Len(tx.outputs) * SIZEOF_OUTPUT

SerTx(c, tx) ==
  LET num_outputs == Put(c, Num(Len(Inputs(tx))), SIZEOF_INT)
      inputs == Put(num_outputs, Num(Len(tx.outputs)), SIZEOF_INT)
      outputs == FoldLeft(SerInput, inputs, Inputs(tx))
  IN  FoldLeft(SerUtxo, outputs, tx.outputs)

\* malloc of no bytes is not NULL.
DeserTx(c) ==
  LET num_outputs == Skip(c, SIZEOF_INT)
      inputs == GetMany(DeserInput, Skip(num_outputs, SIZEOF_INT), NumOf(Get(c, SIZEOF_INT)))
      outputs == GetMany(DeserUtxo, [c EXCEPT !.at = inputs.at],
                         NumOf(Get(num_outputs, SIZEOF_INT)))
  IN  [value |-> [inputs |-> inputs.value, outputs |-> outputs.value], at |-> outputs.at]

SerTxAlloc(tx) == Allocated(SizeSerTx(tx), SerTx(NewBuffer, tx))

\* hash_tx: all of the allocation is hashed.
HashTx(tx) == Sha256(BytesAt(SerTxAlloc(tx).mem, 0, SizeSerTx(tx)))

\* hash_all_tx
HashAllTx(txs) ==
  Sha256(FlattenSeq([i \in DOMAIN txs |-> Bytes(HashTx(txs[i]), SHA_HASH_LEN)]))

-----------------------------------------------------------------------------
(* Blocks: [header, txs].                                                  *)

SizeSerBlockheader == 2 * SIZEOF_LONG + 2 * SHA_HASH_LEN

SerBlockheader(c, header) ==
  LET all_tx == Put(c, Num(header.timestamp), SIZEOF_LONG)
      prev_header_hash == Put(all_tx, header.all_tx, SHA_HASH_LEN)
      nonce == Put(prev_header_hash, header.prev_header_hash, SHA_HASH_LEN)
  IN  Put(nonce, Num(header.nonce), SIZEOF_LONG)

\* Mutant of DeserBlockheader: the two hashes are read in the other order.
DeserBlockheaderSwapped(c) ==
  LET prev_header_hash == Skip(c, SIZEOF_LONG)
      all_tx == Skip(prev_header_hash, SHA_HASH_LEN)
      nonce == Skip(all_tx, SHA_HASH_LEN)
  IN  [value |-> [timestamp |-> NumOf(Get(c, SIZEOF_LONG)), all_tx |-> Get(all_tx, SHA_HASH_LEN),
                  prev_header_hash |-> Get(prev_header_hash, SHA_HASH_LEN),
                  nonce |-> NumOf(Get(nonce, SIZEOF_LONG))],
       at |-> nonce.at + SIZEOF_LONG]

DeserBlockheader(c) ==
  LET all_tx == Skip(c, SIZEOF_LONG)
      prev_header_hash == Skip(all_tx, SHA_HASH_LEN)
      nonce == Skip(prev_header_hash, SHA_HASH_LEN)
  IN  [value |-> [timestamp |-> NumOf(Get(c, SIZEOF_LONG)), all_tx |-> Get(all_tx, SHA_HASH_LEN),
                  prev_header_hash |-> Get(prev_header_hash, SHA_HASH_LEN),
                  nonce |-> NumOf(Get(nonce, SIZEOF_LONG))],
       at |-> nonce.at + SIZEOF_LONG]

HashBlockheader(header) ==
  LET buf == Allocated(SizeSerBlockheader, SerBlockheader(NewBuffer, header))
  IN  Sha256(BytesAt(buf.mem, 0, buf.written))

SizeSerBlock(block) ==
  SIZEOF_INT + SizeSerBlockheader + FoldLeft(LAMBDA acc, tx : acc + SizeSerTx(tx), 0, block.txs)

SerBlock(c, block) ==
  LET block_header == Put(c, Num(Len(block.txs)), SIZEOF_INT)
  IN  FoldLeft(SerTx, SerBlockheader(block_header, block.header), block.txs)

DeserBlock(c) ==
  LET header == DeserBlockheader(Skip(c, SIZEOF_INT))
      txs == GetMany(DeserTx, [c EXCEPT !.at = header.at], NumOf(Get(c, SIZEOF_INT)))
  IN  [value |-> [header |-> header.value, txs |-> txs.value], at |-> txs.at]

SerBlockAlloc(block) == Allocated(SizeSerBlock(block), SerBlock(NewBuffer, block))
=============================================================================

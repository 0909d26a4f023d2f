# A TLA+ model of OlinCoin

OlinCoin (`src/src/`) is a small bitcoin-like node in C: it mines blocks, keeps a
wallet, builds payments and stores its state in LevelDB. This directory holds the
specification of the node, the TLC runs that check it on small instances, and
proofs, checked by TLAPS, of what its mempool, its block store, its shell, its
serialisation and the node as a whole, alone and among others, guarantee for every
value of the parameters. Every safety property of the passing runs is stated by a theorem.

## 1. The system

The tree has one executable (`runtime/shell.c`): an interactive shell that drives
one node on one thread. Networking and threads are goals in `reports/`, not code;
there are no locks, no sockets, no callbacks. What is left that is hard:

* the node's state lives in four LevelDB databases, two plain files and two hash
  tables in memory, all kept in step by hand, write by write;
* only some of it survives the process, which ends at `exit`, at a kill, or at one
  of the many `exit(1)` in the code;
* the shell puts its own payments into the mempool without validating them, so
  their validity rests on the wallet's book-keeping over many commands;
* the same sums are computed in different widths in different places, and the
  size of a buffer, what is written to it and what is read back are computed apart;
* everything that is signed or named by a hash depends on those bytes.

| Component | State | Operations | Talks to |
|---|---|---|---|
| mempool (`globals/mempool.c`, `utxo_to_tx.c`, `txs/handle_tx.c`) | `mempool` (pending transactions, insertion order), `utxo_to_tx` (outpoint -> pending transaction), both volatile | `mempool_add`, `mempool_remove`, `update_mempool` | called by the shell, by `handle_tx`, by `accept_block` |
| block store (`globals/blockchain.c`) | LevelDB of blocks, height file, top-hash file (persistent); `chain_height`, `top_block_header_hash` (volatile) | `blockchain_init_leveldb`, `blockchain_add_leveldb`, `blockchain_find_leveldb`, `blockchain_count` | called by start-up and `handle_block.c` |
| validation (`txs/validate_tx.c`, `blocks/validate_block.c`, `globals/double_spend_set.c`) | none | codes returned for a transaction or block | reads the UTXO pool, `utxo_to_tx`, the block store |
| block creation (`blocks/create_block.c`) | none of its own | `create_block`, `mine_block`, `calc_tx_fees` | reads mempool and UTXO pool, adds a key |
| block handling (`blocks/handle_block.c`, `globals/utxo_pool.c`) | LevelDB UTXO pool | `handle_new_block`, `accept_block`: chain, then UTXO and wallet pools, then mempool | all of the above |
| wallet (`txs/wallet.c`, `wallet_pool.c`) | LevelDB wallet pool (own outputs, `spent` flag), LevelDB key pool | `build_tx`, entry add and remove, unlock check | called by the shell and by block handling |
| shell and start-up (`runtime/shell.c`, `globals/init_globals.c`) | the line, `args` and its allocation | read, tokenize, execute; `mine`, `create_tx`, `print_chain`, `print_block`, `exit`, `help` | everything |
| serialisation (`txs/ser_tx.c`, `txs/ser_wallet.c`, `blocks/ser_block.c`, `utils/ser_key.c`) | none | `ser_*`, `deser_*`, `size_ser_*` | called wherever something is hashed, signed, put into LevelDB or read from it |
| values and crypto (`txs/base_tx.c`, `blocks/base_block.c`, `utils/crypto.c`) | none | `hash_tx`, `hash_blockheader`, `copy_tx`, `gen_keys`, `write_sig`, `validate_sig` | mbedtls |

What makes each correct, in one line:

* mempool: the two tables are exact inverses, no two pending transactions conflict,
  and nothing that conflicts with an accepted block stays;
* block store: chain complete down to the genesis block at all times, and a
  restart finds the place where the process died;
* validation: what is accepted is spendable; the sums of miner and validator agree;
* block handling: UTXO pool and wallet are what the chain says;
* wallet: it spends only what is there, each output once, and can always unlock
  what it sends to itself;
* shell: every command ends, and is called with the words of its own line;
* serialisation: buffers are filled exactly, what is read is what was written;
* hashes: what was signed is what is verified, different things have different names.

## 2. Modules

| Module | Models | Lines it stands for |
|---|---|---|
| `ConflictFreePool` | abstract: a set of pending transactions no two of which share an input | - |
| `Mempool` | both tables and the loop of `update_mempool`, one action per turn | `mempool.c`, `utxo_to_tx.c`, `handle_block.c:37-63` |
| `Transactions` | operators only: amounts and widths, fees, the return codes of validation, the double-spend set | `validate_tx.c`, `create_block.c`, `validate_block.c`, `double_spend_set.c` |
| `Blockchain` | database, two files, start-up, add: one action per write that survives | `blockchain.c` |
| `ChainStore` | `Blockchain` on its own: start, add, kill, in any order | - |
| `Wallet` | `build_tx`: the loop that selects and the loop that marks; wallet and key pools | `wallet.c`, `wallet_pool.c` |
| `HandleBlock` | block creation, validation, and the pool updates, one action per LevelDB write | `create_block.c`, `validate_block.c`, `handle_block.c`, `utxo_pool.c` |
| `Node` | the program: composes `HandleBlock` (which extends `Wallet` and `Blockchain`) with an instance of `Mempool`; shell commands, start-up, ends | `shell.c`, `init_globals.c` |
| `Peers` | `Node` plus transactions and blocks of others, as the tests hand them in | `validate_tx_incoming`, `handle_tx`, `handle_new_block` |
| `Ledger` | abstract: unspent outputs that a block replaces in one step, and payments that wait | - |
| `Serialise` | operators only: every `ser_*`, `deser_*` and `size_ser_*` as a cursor moving over bytes, and the hashes of what they write | `ser_tx.c`, `ser_wallet.c`, `ser_block.c`, `ser_key.c`, `base_tx.c`, `base_block.c`, `crypto.c` |
| `Storage` | values being made, signed, stored one put at a time, and read back | `wallet.c`, `create_block.c`, `base_tx.c`, `validate_tx.c:21-56`, the `leveldb_put`/`get` in `utxo_pool.c`, `wallet_pool.c`, `blockchain.c` |
| `Shell` | the loop of the shell: lines, words, the memory of `args` and of a hash | `shell.c` |
| `MCMempool`, `MCChainStore`, `MCNode`, `MCPeers`, `MCStorage`, `MCShell` | the instances TLC checks | - |
| `Mempool_proofs`, `ChainStore_proofs`, `Shell_proofs` | theorems and proofs about one component | - |
| `Node_proofs` | theorems and proofs about the node: what is selected, spent once, one chain | - |
| `Pools_proofs` | the node's refinement of `Ledger`, its pools and its amounts, from `Node_proofs` | - |
| `Peers_proofs` | the node among others, from `Node_proofs` | - |
| `Storage_proofs` | theorems and proofs about every serialiser and about `Storage` | - |
| `Induction` | no model: induction over numbers and finite sets, and sums, for the proofs that need them | - |

Operators whose comment begins with "Mutant of" are deliberately wrong variants of
the definition below them. No specification uses them; they are there to show
that each property can tell the code from a plausible mistake in it.

### How state and actions correspond to the code

* **Transactions and hashes.** A transaction is a record; its id stands for its
  hash, and ids are numbers whose order is the order of the hashes, in which
  LevelDB iterates (`Wallet!InKeyOrder`). A new transaction gets any unused number,
  so every order occurs. A transaction with no input contains nothing fresh and
  has the id of any pending one like it (`Node!IdsFor`). Block hashes are fresh
  numbers.
* **Keys.** `gen_keys` makes at most one key per transaction, so a key is
  identified by the id of the transaction it was made for. `Foreign` is everybody
  else's. A signature is a Boolean.
* **Widths.** Amounts are taken modulo `ULONG_MOD`, `unsigned int` results
  modulo `UINT_MOD`; all that matters of the two is which is larger.
* **Persistence.** One action per `leveldb_put`/`leveldb_delete`. Rewriting a file
  is two: `fopen(.., "w+")` has emptied it before `fclose` flushes the contents.
  A LevelDB write, once made, survives the death of the process.
* **fgets on a hash.** `read_top_hash` reads 32 binary bytes with `fgets`. If
  one of the first 31 is a newline the rest of the caller's buffer is uninitialized: the model
  then chooses between the right hash and bytes that are no hash (`ReadTopHash`).
* **build_tx.** The first loop visits entries in key order and stops after the
  entry that covers the sum; the test of the second loop is at the end of a turn,
  so with nothing selected it still marks one entry (`Wallet!Marked`). The write
  past an empty allocation in that case is not modelled as memory corruption: the transaction has
  no inputs, the entry is marked.
* **Exits.** Not enough funds in `build_inputs`, and a missing UTXO in
  `calc_tx_fees`, end the process; so does `utxo_to_tx_add_tx` on a conflict,
  which is kept as a state (`exited`) so that it can be stated that it never comes
  from the shell. A start that refuses its files is the state `chain_pc = "refused"`.
* **mine.** The coinbase key is stored before the nonce search, so `CreateBlock`
  is a step of its own and a kill can follow it. The search is assumed to
  end with a header that meets the target.
* **Kill** is possible after every step of every command, start-up included.
* **The others** (`Peers`) hold the `Foreign` keys and see chain and mempool. What
  they send is well-formed or wrong in one way: no inputs or outputs, a bad
  signature, an output that is spent, unknown or somebody else's, too much given
  out; a header that misses its target, an old or unknown parent, another
  transactions' hash, a coinbase that takes too much, spends or pays twice. Every
  return code of `validate_tx_incoming` and `validate_block` occurs.
* **Bytes** (`Serialise`). A byte says of which value it is and which of its bytes.
  Reading a whole value gives it back; anything else, a value shifted, cut short
  or never written, gives garbage. So a model of a few bytes tells apart what
  lengths of 65, 72 and 32 would. SHA-256 is taken to be injective. A hash keeps
  the first and the last byte of every value, at their places: since nothing but whole
  values is hashed, that is all of it, at a fraction of the size. A signature is told by its key and the hash.
* **Names** (`Storage`). An entry of the wallet and UTXO databases is named by the
  hash of its transaction and an output number, a block by the hash of its header, a
  key by the hash of its public half. The amount of a coinbase does not depend on
  fees there, and entries are selected in any order; when which value is made is
  `Node`'s business. A signature is as long as it can be, where mbedtls may make it a few bytes shorter.
* **args** (`Shell`). The memory `malloc` returns holds what the last line left in
  it. `realloc(args, args_len)` sets the size to as many bytes as there should
  be slots; a store behind the size sets `past` and `corrupt`, and from then on the
  process may crash at any time. `str_to_buf` stores an unsigned int per pair of
  digits; the bytes behind the hash belong to a `Neighbour`. Lines that begin with
  a null character are left out.

## 3. What is checked

Passing runs, with what bounds them (2 workers, each below three minutes):

| Run | Question | Bounds, and why they suffice |
|---|---|---|
| `mempool` | exact mapping, no conflicts, complete purge, arrival order, refinement, termination | 3 outpoints, 7 transactions overlapping in every way (same input, one shared of two, in either position, repeated, none), blocks of up to 2 transactions: a block transaction evicts one pending transaction with its first input and another with its second, and a conflict half way through `utxo_to_tx_add_tx` occurs |
| `chain_store` | completeness, restarts, height | 6 blocks, 4 kills, one unreadable hash: a kill in an add, in the recovery from it, in the recovery from that; orphaned branches with a chain rebuilt beside them |
| `node` | every pool against every other; commands end | 5 ids, 4 blocks, amount 3, reward 4, fees 0 or 1, one end of process: two payments in one block, change spent on, a payment of two inputs, fees that wrap and blocks rejected for them, a kill between any two writes |
| `node_restart` | what must survive ends and restarts; why an own block may be thrown away | 4 ids, own-key payments, two ends; amounts 3 and 251 with a fee of 5, in 8 bits: a payment of two inputs, and one whose sum wraps to nothing, without inputs if the wallet is empty or its first entry marked, with too small an input otherwise, mined and not, together and alone. A payment of 0 with a fee of 0 asks `build_inputs` for the same nothing |
| `peers` | the same between transactions and blocks of others, valid and not | 5 ids: a payment to the others, their spending it, by mempool or by block or both, blocks whose transactions conflict with pending ones and with each other, and every flaw named above at every point |
| `storage` | sizes, round trips, signatures, unique names | lengths 1 to 5, all different except where they are different in kind; 4 keys: a coinbase spent with change, a payment with two inputs, three blocks, a payment signed, mined, stored and read back |
| `shell` | words, memory, what ends the loop | 5 slots, pointers of 3 bytes, hashes of 4, integers of 3; lines with no word, blanks only, 1 to 11 words (args grown once and twice), with and without newline, short, long and non-hexadecimal hashes, in any order |

The properties, per module:

* `Mempool`: `MappingExact` (the tables are inverses), `PurgeComplete`,
  `ArrivalOrderKept` (mining takes from the front), `ImplementsPool` (refinement of
  `ConflictFreePool`), `UpdateTerminates`.
* `ChainStore`: `NeverRefuses`, `ChainComplete`, `HeightDrift` (a kill makes
  `chain_height` at most one too high; two can make it wrong either way),
  `CleanRestartResumes`, `RestartLandsNear`.
* `Node`: `UnspentBacked`, `MempoolSpendable`, `PoolsFollowChain`,
  `WalletMirrorsPool`, `KeysKept`, `SpentIffPending`, `CommandsEnd`,
  `RejectedOnlyFor` (why the node throws away a block it mined); with two restarts,
  `SpentOnce` (over all stored blocks and the mempool, whatever was killed).
* `Node` as a whole: `LedgerSpec`, the refinement of `Ledger`. The unspent outputs are
  mapped to the UTXO pool as it will be when the writes ahead are done, the waiting
  payments to those the block in hand will leave: so a block is one step,
  taken when it is in the chain. A kill in the middle of a command is the step `Lose`, after which
  the ledger promises nothing; that two pending payments never conflict, and the hard
  exit of `utxo_to_tx_add_tx` is never reached, is part of it. Every other end of the process only forgets
  what waits.
* `Storage`: `BufferFilledExactly`, `ReadsBack`, `NothingOverwritten`,
  `SignaturesVerify`, `VariantsRefused`.
* `Shell`: `ArgumentsAreTheLine`, `HashAsTyped`, `EndsOnlyFor`, `CorruptedOnlyBy`.
* `Peers`: `OwnersSpend` (no output is spent but by the holder of its key),
  `NoBranches`, `PendingNotInChain`, and the Node properties that
  should not depend on who made a block. `SpentOnce`, `PoolsFollowChain` and
  `RejectedOnlyFor` are not claimed there: a block that spends an output twice
  is accepted (see `peers_double`).

`CHECK_DEADLOCK FALSE` everywhere: a mempool, a store or a node with its bounds
used up stops, and so does the program when its operator leaves.

### Fairness

The node has one thread, no locks and nothing it waits for, so a command that has
begun goes on: `FairSpec` of `Mempool` is weak fairness of the loop of
`update_mempool`, `FairSpec` of `Node` is weak fairness of `Run`, what the
process does without its operator. Nothing is assumed of the operator, of kills, or
of restarts: the runs allow a process to stay down, and an operator to type
nothing. The one assumption that is not the code's is that the nonce search of
`mine_block` ends; it is a single step here.

## 4. Disagreements with the documentation found on the way

Each is a run that TLC finishes with a counterexample; the sentence of the
repository it contradicts is quoted in `PROJECT.json`.

| Run | What the code does |
|---|---|
| `chain_newline` | a node stopped while idle is refused at its next start if its top hash contains a newline byte |
| `chain_torn` | a kill between emptying and writing one of the two files restarts the node at the genesis block, over a full database |
| `node_fees` | `calc_tx_fees` adds the first output's amount once per output: with change the coinbase is not the reward plus the fees |
| `node_spent` | `spent` is written to disk, the transaction it stands for is not: after a restart it never becomes unspent again |
| `peers_double` | the double-spend set is passed by value and its result not looked at: a block that spends an output twice is accepted |

Seen, and not in a run of its own:

* a process killed between writing the chain and writing the pools leaves the pools
  behind for good: nothing at start-up catches up with the chain, although
  `reports/report_2.md:166` says "our UTXO database must always be updated in parallel with the
  blockchain". It is why `PoolsFollowChain` and `Ledger` are conditional on `~torn`;
* there are three reasons why the node throws away a block it mined itself, while the
  shell says "Block mined!"; `RejectedOnlyFor`, over amounts that bring each of them about,
  shows that there is no other. Miner and validator add fees in different widths: once
  the computed fees have wrapped, every own block is dropped. A payment for which
  amount and fee make 0 has no inputs if the wallet is empty or its first entry is marked
  already (otherwise it takes the first entry). And a payment whose amount and fee wrap
  around in `build_inputs` takes in too little, although `wallet.h:52` says "such that the
  outputs and transaction fee can be fulfilled". As long as the outputs and the change do
  not wrap around too, `validate_tx` refuses these two block after block, and they stay in the
  mempool;
* `realloc(args, args_len)` forgets the size of a pointer, so a line of 32 words or more is
  stored outside `args`, its null pointer included, although `shell.c:54` relies "on args being
  null terminated"; a hash of 30 pairs of digits or more makes `str_to_buf` write up to three
  bytes past it; and a line of blanks looks up a null pointer, although `shell.h:11` says that
  the shell "runs in a loop until the program is exited with CTRL+C, CTRL+D or `exit`".
  `CorruptedOnlyBy` and `EndsOnlyFor` show that no other line does;
* the last character of a last line without newline is cut off;
* a coinbase read back from the database has an empty allocation of inputs
  where it had a null pointer, which `validate_coinbase_tx_parts_not_null` would refuse
  (`Storage!AsRead`); nothing validates a block that was read back.

Also: a transaction that repeats an input passes `validate_tx_incoming` and then ends the process in
`utxo_to_tx_add_tx` (the half-way exit is in `mempool`); `blockchain_remove_leveldb` does not lower
`chain_height`, and `test_blockchain.c:173`, which would show it, assigns where it
means to compare.

## 5. What is proved

Proofs hold for every value of the constants, under the assumptions the modules
name. Every invariant and every action property of the passing runs, and both refinements, are
stated by a theorem; two of them are for the node alone, though the run `peers` checks them among others, too. What stays
with TLC is at the end of this section.

**`Mempool_proofs`**, under `TxsAssumption` (the inputs of a transaction are a
sequence) and `BlocksAssumption` (a block is a sequence of transactions), for any
transactions and any blocks, of any length. The invariants are not
inductive one by one. `MappingExact` alone does not survive `mempool_remove`: the removed
outpoints could belong to another pending transaction, so `NoRepeats` and
`DistinctIds` (one table entry per id) are needed, and that no claim overlaps follows from the
mapping being a function. `VisitedUnmapped` needs `TypeOK` for its counters and
`MappingExact` to know that evicting one transaction unmaps what was looked up.
`MempoolInv` is their conjunction; `InitEstablishes` and `NextPreserves` show it inductive.

* `TypeCorrect`, `MappingAlwaysExact`, `PoolNeverConflicts`, `PurgeAlwaysComplete`,
  `ArrivalOrderAlwaysKept`: the properties of the run, from the invariant;
* `MempoolImplementsPool`: each action maps to a step of `ConflictFreePool` or a
  stutter, the pool being the set of pending transactions while the process lives.

**`ChainStore_proofs`**, under `FileAssumption` (a hash is told apart from the
states of a file and from garbage), for any number of blocks, any number of kills,
any set of unreadable hashes. `StoreInv` says, for each value of `chain_pc`, what
files and globals owe each other: a height in the file is at most the number of
blocks, a top hash in the file is in the database and is the last top or the
block offered since, the block being put has its parent there. Without the part about `chain_pc` the
order of writes in `blockchain_add_leveldb` would not matter, and it does: the put
comes first, so neither file can name what is not there. One action per
lemma: `BootPreserves`, `AddPreserves`, `StepPreserves`, `CrashPreserves`.

* `StoreNeverRefuses`, `StoreComplete`, `StoreHeightWithinCount`: invariants;
* `StoreHeightDrift`: one kill leaves `chain_height` at most one too high. How many blocks a
  chain has is a recursive function over the database (`Depths`), of which exactly one exists
  that fits (`DepthIn`), carried along put by put: a put adds one entry, whose parent is measured already.
  `DriftInv` says that before the first kill height and top file are both those of the
  block before or of this one (or empty), so what one kill leaves differs by one write;
* `StoreLandsNear`, `StoreResumes`: action properties about restarts, from `BootReads`;
* `StoreTypeCorrect`: `TypeOK` is inductive relative to `StoreInv` once the block under way is typed
  too (`StoreTypes`).

**`Shell_proofs`**, under `SizesAssumption`, `LinesAssumption` and `WordsAssumption`, for any
lines and words, any initial number of slots, any size of a pointer of at least 2 bytes. The
invariant says of a line being tokenised that the first `i` slots hold its first `i`
words, that the allocation has room for `ARG_SIZE` slots as long as it was not
grown, and that once it was grown it is too small for the next store
(`GrownTooLittle`, which is arithmetic about doubling: `args_len` bytes are less than
`i + 1` pointers when `args_len` is at most `2 * i`).

* `ShortLinesFit` (a line of fewer than `ARG_SIZE` words is stored inside `args`), `ArgumentsAlwaysTheLine` (by `ArgumentsOfLine`: the first null
  pointer is the one behind the words), `EndsForAReason`, `TypeCorrect`;
* `HashAlwaysAsTyped`, `OnlyCorruptedBy`: `str_to_buf` is a fold over the digits, so `Filled` says what memory
  holds after `n` turns of its loop, and `OneTurn` that a turn keeps it, for any size of an unsigned int: what
  a store spoils behind its own byte is either stored again by a later turn or was to be zero anyway. Only a turn among the last
  bytes reaches behind the hash (`StrToBufFills`, by induction from `Induction`). `HashInv` carries that to the next command.

**`Node_proofs`**, under `TargetAssumption` (a block takes at least one
transaction), for any amounts, fees, numbers of blocks and kills. `KeysKept` speaks of
what is on disk, in hand or pending; it is not inductive, because `Offer` makes
pending what `build_tx` built before, and `AddToChain` stores what `AcceptBlock`
took over before. `KeysInv` adds both: all outputs of the payment under construction
but its change are to stored keys, and once `StoreChangeKey` has run, its change is, too;
the block being added owes no key. Beyond that, `key_pool` only grows (`MoreKeys`), and
`mempool_remove` and `get_txs_from_mempool` only select (`RemoveKeyed`,
`NewBlockKeyed`).

* `KeysAlwaysKept`: a crash never leaves an output of the node's own that nobody can unlock.

It begins with the list that `build_tx` walks, under no assumption but that the wallet pool is a
function on a finite set of entries. `InKeyOrder` lists the entries by their rank, the number of entries with a
smaller key; that it is a list of each entry once, in order, is an argument about
cardinalities (`RankInOrder`, `InKeyOrderLists`). From it: no entry is selected
twice (`SelectedOnce`), and what is selected is marked (`SelectedIsMarked`).

Its second part is about spending, under `IdAssumption` (ids are numbers up to a bound), for any amounts, fees, numbers
of blocks, kills and ids. The wallet book-keeping rests on facts that lie far apart, and
`SpendInv` is their conjunction:

* ids are fresh when a transaction gets one, and nothing refers to an output of an id
  not yet given. Without it a new payment could be taken for an older one that spent the same output;
* what a pending, mined or stored transaction of the node's own spends is marked `spent` on
  disk or gone from the wallet. The mark is written before the transaction exists anywhere, which is
  why a kill loses an output at worst and never frees one;
* of transactions pending, in the block in hand and in the chain no two share an
  output; for the block in hand this has to say which of its transactions are still
  in the mempool, since `update_mempool` removes them one by one after the chain has them;
* an output the wallet holds unmarked is in the UTXO pool, with the same amount and
  key, at each step of the pool loop: its two puts and two deletes come in an
  order that never leaves an unmarked entry without its output.

From it: `UnspentAlwaysBacked`, `SpentAlwaysOnce`, and that two hard exits are never
taken by a node alone: `NeverExited` (`utxo_to_tx_add_tx`) and `FeesNeverUnknown` (`calc_tx_fees`).

Its last part is about the chain, as a list recovered from the
database by recursion on blocks. `ChainInv` says that exactly one list leads from each stored block to the genesis block,
that it names no block twice (hashes are fresh: a list without repetition cannot be longer than
there are blocks), that a put adds one list and leaves all others, and that the last top's list has them all. It is stated without
`SpendInv`, since it has to hold among others, too.

**`Pools_proofs`**, from `SpendInv`. `NodeImplementsLedger` is the refinement that the run `node` checks:
the pool as it will be when the writes ahead are done (`Ahead`) does not change with
a write, because the write is the first of those ahead; it changes once per block, when
`AddToChain` makes the block's top hash last and the loop begins, and then by exactly the block's inputs and outputs;
a payment is offered only when what it spends is there and not spent by another. `MirrorInv` says in
addition how the wallet and the UTXO pool differ in the middle of the loop: by the one
output or input whose first write is made and second is not, and that no output is ever locked with a key
made later (without it `CreateBlock`, which stores a key, could make a foreign entry
the node's own after it was left out of the wallet). TLC checked both invariants on the instances of `node` and `node_restart` before they were proved.

`PoolsFollowChain` compares the UTXO pool with the chain. `AccountInv` says that what the
blocks of the top's list (`ChainInv`) make and do not spend is the pool as it will be, so neither
the write that makes a block the top nor any of the writes to the pool can break it.

What the refinement is good for: two payments that wait in a ledger never spend the same output,
so a block that leaves one out spares what it spends (`AcceptSpares`), for any blocks and payments. That is
`LedgerKeepsPayable`, a fact about `Ledger` alone, which the refinement carries over to the node.

* `NodeImplementsLedger`, `WalletAlwaysMirrors`, `PoolsAlwaysFollowChain`, `LedgerKeepsPayable`, `AlwaysPayable`.

Its second part is about amounts. First, the sums the code makes in three ways (a loop over
a transaction's lists, a loop over the mempool, the iterator over the wallet in key order) are all that
`Sum`, cut to their C type at the end (`TotalOutIs`, `TotalInIs`, `FeeSumIs`, `InTotalIs`). Then, under `WidthAssumption` and
`AmountsAssumption` (`strtoul` returns an unsigned long):

* `NodeTypeCorrect`: `TypeOK`. It is not inductive, since a pool gets its amounts from a
  block in hand, which has them from the mempool, which has them from `build_tx`; `TypeInv` types all of these, and
  says of an entry of the wallet that its key is stored;
* `MempoolAlwaysSpendable`: `WorthInv` says that what is built or waits takes in at least what
  it gives out. `build_outputs` computes the change from what the wallet says it has; that this is also what the
  UTXO pool has, and that a block changes nothing under a payment that waits, is `SpendInv`. While a block is being
  accepted the property itself is false (its own payments still wait, and what they spend is gone), so the invariant leaves
  out what is in the chain already;
* `MinedAlwaysTaken`: between `create_block` and `handle_new_block` nothing moves, so the block stands on the top, its
  payments are valid one by one, and its coinbase is the miner's sum of the fees (`MinedInv`). All that
  `validate_block` can still object to is its own sum, in another width, a payment that nothing was put into, or one that
  gives out more than it takes in, and the latter two only if the operator asked for nothing or for a sum that wraps;
* `SpentAlwaysIffPending`: `MarkInv` says that until the process first ends an entry is marked for a payment that waits or is
  being built; the inputs of a mined payment leave the wallet before `update_mempool` forgets it (`GoneFromWallet`).

What the operator types the shell does not check, so two of the properties say themselves for which amounts they
hold: `Positive` (each amount plus fee is more than 0, in `MempoolSpendable` and `SpentIffPending`) and `NoWrap` (amount plus
fee fits an unsigned long, in `MempoolSpendable`). Nothing is assumed of amounts: the theorems hold for any, `WorthInv`
has a part for each condition, and `MinedAlwaysTaken` names what such payments lead to. In `node`
both conditions are true; `node_restart` has payments for which neither is.

**`Peers_proofs`**, under the assumptions of `Node`, for any number of blocks, transactions, restarts and
whatever the others send. `SpendInv` is false here: others' blocks may spend an output twice. Each
theorem has the form `[](~torn => ...)`, where `torn` says that a kill came in the middle of a command. After that the
properties are false, as section 4 says: the chain has a block whose outputs and inputs the pools never learn of.

* `DatabaseIsOneChain`: `ChainInv` again. A block of the others extends the top or is refused by `validate_block`, so it
  never starts a branch.
* `NobodySpendsAnothers`: what an input is held against is the UTXO pool, so every entry of it has to be an output of the
  stored chain with its key (`PoolsMade`), everything pending or being built has to be paid by stored transactions
  (`PendingOwned`), and so has a block that has passed `validate_block` (`BlockOwned`). That the paying transaction is in an *earlier*
  block comes from the list that leads to the top only growing at its end (`ChainGrows`).
* `NobodyWaitsInVain`: what the chain has spent, nothing pending claims. In the middle of `accept_block` that is
  false, and the invariant (`Rivals`) says how: but for what its loops have still to come to. So it speaks of the block in
  hand write by write (`HalfGone`), of the mempool's two tables while `update_mempool` runs, and of ids, because an
  output that was spent must not come back under the same name.

**`Storage_proofs`**, for values and buffers of any size, any numbers of inputs, outputs and transactions, any amounts, under
`LengthAssumption` (sizes are positive), `BoundsAssumption` and `AmountsAssumption` (amounts are numbers). It goes in
four steps.

1. *Folds.* Each `ser_*` and `deser_*` loops over a list. Their loops are folds, which the prover sees as choices of a
   function that fits; such a function exists (`FoldMade`, by induction on the size of the set) and yields a run, one value
   per turn (`FoldRuns`), about which one can argue by induction over numbers.
2. *Writers and readers.* `Appends(c, d, len)`: the writer has left what was there and added `len` bytes that are whole
   values. `Shows(mem, d, from)`: another memory has the same bytes from there on. For each serialiser one lemma
   (`PubKeyKept` to `BlockKept`) says that it appends as many bytes as its size function says, and that its reader, in any memory that shows
   them, returns the value and the address the writer ended at. Lists need it of their elements only (`ListKept`).
3. *Hashes.* Two buffers of whole values with the same first and last bytes are the same (`HashTells`), so by step
   2 equal hashes are hashes of equal values: `TxHashTells`, `KeyHashTells`, `HeaderHashTells`, `BlankHashTells`.
4. *The node.* `ValuesInv`: the bytes of every entry are those of the value meant to be there, what is waiting to be written can be,
   and a transaction in the making has the keys of its inputs to sign with, so many valid signatures as it counts, and
   the hash of itself without signatures to sign.

* `BuffersFilledExactly`, `DatabasesReadBack`, `StorageTypes`: from `ValuesInv`, with step 2;
* `SignedIsUnlockable`: signing changes nothing that is in the hash, since that is taken of blank signatures;
* `ChangesAreRefused`: a variant has another blank form, hence another hash, and a signature tells which hash it
  was made of;
* `NeverOverwritten`: `NamesInv` says that every entry is under the name its value calls for and that the writes ahead
  find their places free or holding the same, or mark a wallet entry. A new block cannot clash because no transaction is mined twice:
  one with inputs has them in the wallet until a block takes them out for good (`SpentGone`), one without is a
  coinbase and pays to a key made for it (`CoinbasesKeyed`). Two blocks may be mined in the same second, as `TIMES` has only one
  value in the run, but their coinbases have different keys, which `hash_all_tx` brings into the header (`AllTxTells`).
  TLC checked `ValuesInv` and `NamesInv` on the instance of `storage` before they were proved.

All of these have the hypothesis `NullIsNoValue`: the null pointer is none of the structures, no hash and no array. It
is what makes `tx # NULL` mean that there is a transaction. It quantifies over all values, which TLC cannot evaluate, so it is no ASSUME of
the model; the constant is a model value in the run, for which it is true.

**`Induction`** is about sets and functions only. The library's induction theorems take an operator and cannot be
instantiated here, but what they are made of can be used with sets: a non-empty set of numbers has a
least element, because `<` is well-founded on them (`LeastNat`). So a property is the set of what
has it, and a set of parts of a finite set of which none is smallest is empty (`NoSmaller`). From there: two functions that
take an element away at a time, in the same order, agree (`FoldUnique`); one such function
exists (`FoldExists`); and what adds up in one order adds up in every order (`AnyOrder`), which makes
`Sum(w, s)`, the sum of `w` over a finite set, well defined (`SumIs`, `SumBy`) and blind to names
(`SumRenamed`).

**Only model-checked.** `UpdateTerminates` and `CommandsEnd`: liveness under
fairness is beyond the prover. `MempoolSpendable` and `WalletMirrorsPool` among others (`peers`): their proofs for the node alone
rest on `SpendInv`, which others' blocks break. And the runs that expect a violation, which are about
an instance by nature. No module uses a RECURSIVE operator, so none is closed to proofs.

## 6. What is not modelled

* LevelDB beyond single writes that survive the process: power loss, write
  errors. Return codes of failed writes are ignored by the code in the same places
  where a kill is modelled.
* `fopen` failures in the file writers; their effect on disk is that of a kill.
* Memory other than that of `args`, of a hash in the shell and of the buffers of
  serialisation; leaks, of which there are many.
* `mbedtls` and its error returns, entropy; freeing and printing of values
  (`base_tx.c`, `base_block.c`); `list.c`, which nothing uses; paths and opening of databases
  (`init_db.c`).
* Functions only tests call: `blockchain_remove_leveldb`, `destroy_blockchain`,
  `key_pool_remove_leveldb` and the other `destroy_*`.
* The vendored libraries. Of uthash the model takes that iteration follows
  insertion and that removal keeps the order of the rest; of LevelDB that a
  database is a map, iterated in key order.

## 7. Plan

Order of work; all but the eighth are done.

1. `Mempool` with `ConflictFreePool`, checked, proved.
2. `Blockchain`, `ChainStore`, checked, its safety proved.
3. `Transactions`, `Wallet`, `HandleBlock`, `Node`: the single node, checked.
4. `Peers`: transactions and blocks of others, well-formed and flawed.
5. Runs for what code and documents disagree on.
6. `Serialise`, `Storage`; `Shell`, checked, proved.
7. `Ledger`, which `Node` is checked to implement.
8. Reference definitions in `Transactions` (fees, coin selection, double-spend
   detection) compared with the code's over bounded inputs; lemmas about the
   operators (`CheckTxDoubleSpent` is always 0, `Smaller`, widths).
9. Proofs: `Mempool`, `ChainStore`, `Shell`, all of `Node` with its
   refinement of `Ledger`, `Peers`, `Storage`.

----------------------------- MODULE ChainStore -----------------------------
(***************************************************************************)
(* Blockchain on its own: a process that opens the store, adds blocks that *)
(* validate_prev_block_exists lets through, is killed at any point and is  *)
(* started again.                                                          *)
(***************************************************************************)
EXTENDS Blockchain

CONSTANTS MAX_BLOCKS,   \* bound: blocks in the database
          MAX_CRASHES   \* bound: times the process dies

VARIABLES
  crashes,   \* how often the process has died
  last       \* history: the globals the last time the store was ready, the
             \* block offered since, and whether the process died idle

vars == <<chainVars, crashes, last>>

Ready == chain_pc = "ready"

Init ==
  /\ ChainInit
  /\ crashes = 0
  /\ last = [top |-> ZeroHash, height |-> 0, new |-> ZeroHash, idle |-> FALSE]

\* The history is brought up to date when the store becomes ready.
NoteReady ==
  last' = IF chain_pc' = "ready"
          THEN [top |-> top_block_header_hash', height |-> chain_height',
                new |-> top_block_header_hash', idle |-> FALSE]
          ELSE last

Boot == BlockchainInit /\ NoteReady /\ UNCHANGED crashes

\* Hashes of new blocks are fresh; they are numbered in order of creation.
FreshHashes ==
  {h \in 1..MAX_BLOCKS : ~Found(h) /\ \A g \in 1..(h-1) : Found(g)}

\* A block on top of any block or of none, if it passes.
Add ==
  /\ Ready
  /\ Count < MAX_BLOCKS
  /\ \E hash \in FreshHashes,
        prev \in {b.hash : b \in blockchain_db} \cup {ZeroHash, Garbage} :
       LET b == [hash |-> hash, prev |-> prev, txs |-> <<>>]
       IN  /\ ValidatePrevBlockExists(b) = 0
           /\ StartAdd(b)
           /\ last' = [last EXCEPT !.new = hash]
  /\ UNCHANGED crashes

Step == AddStep /\ NoteReady /\ UNCHANGED crashes

Crash ==
  /\ crashes < MAX_CRASHES
  /\ ChainCrash
  /\ crashes' = crashes + 1
  /\ last' = [last EXCEPT !.idle = Ready]

Next == Boot \/ Add \/ Step \/ Crash

Spec == Init /\ [][Next]_vars

-----------------------------------------------------------------------------
(* Properties.                                                             *)

Hashes == {b.hash : b \in blockchain_db}

TypeOK ==
  /\ \A b \in blockchain_db : b.hash \in Nat /\ b.prev \in Nat \cup {ZeroHash}
  /\ height_file \in Nat \cup {Absent, Empty}
  /\ top_file \in Nat \cup {Absent, Empty}
  /\ chain_height \in Nat
  /\ top_block_header_hash \in Nat \cup {ZeroHash}
  /\ chain_pc \in ChainPcs

\* Blocks between hash and the genesis block, hash not counted.
Depth(hash) ==
  LET prev(h) == (CHOOSE b \in blockchain_db : b.hash = h).prev
      depth[h \in Hashes] == IF h = Genesis THEN 0 ELSE 1 + depth[prev(h)]
  IN  depth[hash]

\* The process never finds its own files in conflict with its own database,
\* wherever it was killed before (blockchain_init_leveldb's exit(1)), unless
\* the top hash is one that cannot be read back.
NeverRefuses == chain_pc = "refused" => top_file \in NewlineHashes

\* The chain the node works on is in the database down to the genesis block:
\* the top is known and no block's parent is missing, although the put, the
\* globals and the two files change at different times.
ChainComplete ==
  /\ Ready => Found(top_block_header_hash)
  /\ \A b \in blockchain_db : b.hash = Genesis \/ Found(b.prev)

\* The height the node believes in, and writes, is never above what
\* blockchain_count finds: what the test of blockchain_init_leveldb relies on.
HeightWithinCount == Ready => chain_height <= Count

\* chain_height is the number of blocks from the top to the genesis block
\* until the process is killed for the first time, and one kill puts it at
\* most one too high (between the two files).  A second one, during the
\* recovery from the first, can also make it too low.
HeightDrift ==
  /\ Ready /\ crashes = 0 =>
       chain_height = Count /\ chain_height = Depth(top_block_header_hash) + 1
  /\ Ready /\ crashes = 1 =>
       chain_height - Depth(top_block_header_hash) \in {1, 2}

\* A process that died between two operations comes back exactly where it was,
\* if its top hash can be read back.
CleanRestartResumes ==
  [][Boot /\ last.idle /\ last.top \notin NewlineHashes =>
       /\ chain_pc' = "ready"
       /\ top_block_header_hash' = last.top
       /\ chain_height' = last.height]_vars

\* Wherever it died, and however often on the way up, the files that are
\* believed name the last top or the block that was being added to it, never
\* an older or an orphaned one.
RestartLandsNear ==
  [][Boot /\ chain_pc' = "ready" =>
       top_block_header_hash' \in {last.top, last.new}]_vars

\* "Persistence, the ability to save the blockchain and start it up again":
\* a chain longer than the genesis block is started up again after a restart.
SavedChainStartsAgain ==
  [][Boot /\ last.height > 1 => chain_pc' = "ready"]_vars

\* The same for a process that was stopped between two operations: it is
\* not refused.
IdleStopStartsAgain ==
  [][Boot /\ last.idle => chain_pc' # "refused"]_vars
=============================================================================

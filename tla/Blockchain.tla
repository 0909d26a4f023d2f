----------------------------- MODULE Blockchain -----------------------------
(***************************************************************************)
(* globals/blockchain.c: the block database and the two files beside it    *)
(* that say where the chain ends.  A block is a record with at least the   *)
(* fields hash and prev.                                                   *)
(*                                                                         *)
(* blockchain_add_leveldb and blockchain_init_leveldb are broken up at     *)
(* every write that survives the process, so that the process can be       *)
(* killed between any two.  A leveldb_put is one write; rewriting a file   *)
(* is two, since fopen(path, "w+") has emptied it before the new contents  *)
(* are flushed by fclose.                                                  *)
(***************************************************************************)
EXTENDS Integers, FiniteSets

CONSTANTS
  Genesis,        \* hash of the all-zero block that starts every chain
  ZeroHash,       \* its prev_header_hash
  Absent, Empty,  \* contents of a file that is not there / was just emptied
  Garbage,        \* bytes that are no block's hash
  NewlineHashes   \* hashes with a byte 0x0A before their last byte

ASSUME FileAssumption ==
  /\ Genesis \in Nat
  /\ ZeroHash \notin Int /\ Garbage \notin Int
  /\ Absent \notin Int /\ Empty \notin Int /\ Absent # Empty

VARIABLES
  blockchain_db,          \* LevelDB: the set of blocks
  height_file,            \* CHAIN_HEIGHT_FILE
  top_file,               \* TOP_BLOCK_HASH_FILE
  chain_height,           \* global, volatile
  top_block_header_hash,  \* global, volatile
  adding,                 \* block of the blockchain_add_leveldb under way
  chain_pc                \* where the process is in init or add

diskVars  == <<blockchain_db, height_file, top_file>>
chainVars == <<blockchain_db, height_file, top_file, chain_height,
               top_block_header_hash, adding, chain_pc>>

ChainPcs == {"down", "refused", "put", "empty_height", "write_height",
             "empty_top", "write_top", "ready"}

GenesisBlock == [hash |-> Genesis, prev |-> ZeroHash, txs |-> <<>>]

\* blockchain_find_leveldb(&b, hash) == 0
Found(hash) == \E b \in blockchain_db : b.hash = hash

\* blockchain_count
Count == Cardinality(blockchain_db)

\* read_top_hash: the values dest can have when it returns 0.  fgets stops
\* after a newline: the rest of the caller's buffer is then uninitialized and
\* the whole may be any bytes, the right ones included.
ReadTopHash ==
  IF top_file \in {Absent, Empty} THEN {}
  ELSE IF top_file \in NewlineHashes THEN {top_file, Garbage}
  ELSE {top_file}

\* read_chain: -1 when there is nothing to read.
ReadChain == IF height_file \in {Absent, Empty} THEN -1 ELSE height_file

ChainInit ==
  /\ blockchain_db = {}
  /\ height_file = Absent
  /\ top_file = Absent
  /\ chain_height = 0
  /\ top_block_header_hash = ZeroHash
  /\ adding = GenesisBlock
  /\ chain_pc = "down"

-----------------------------------------------------------------------------
(* blockchain_init_leveldb                                                 *)

\* Mutant of FilesAgree: the counts may not be equal.
FilesAgreeStrictly(hash) == Found(hash) /\ Count > ReadChain

\* Mutant of FilesAgree: the top hash is not looked up.
FilesAgreeUnseen(hash) == Count >= ReadChain

\* The files are believed when the genesis block is in the database, both can
\* be read, the top block is in the database and the database has at least as
\* many blocks as the file says.
FilesAgree(hash) == Found(hash) /\ Count >= ReadChain

UseExisting(hash) ==
  /\ FilesAgree(hash)
  /\ chain_height' = ReadChain
  /\ top_block_header_hash' = hash
  /\ chain_pc' = "ready"
  /\ UNCHANGED <<diskVars, adding>>

\* "Database fiels conflict with data in the DB": exit(1).
RefuseFiles(hash) ==
  /\ ~FilesAgree(hash)
  /\ chain_pc' = "refused"
  /\ UNCHANGED <<diskVars, chain_height, top_block_header_hash, adding>>

\* Mutant of AddGenesis: chain_height keeps what read_chain returned.
AddGenesisAtFileHeight ==
  /\ chain_height' = ReadChain
  /\ adding' = GenesisBlock
  /\ chain_pc' = "put"
  /\ UNCHANGED <<diskVars, top_block_header_hash>>

\* Otherwise the genesis block is added, to whatever is in the database.
AddGenesis ==
  /\ chain_height' = 0
  /\ adding' = GenesisBlock
  /\ chain_pc' = "put"
  /\ UNCHANGED <<diskVars, top_block_header_hash>>

FilesUsable == Found(Genesis) /\ ReadTopHash # {} /\ ReadChain # -1

BlockchainInit ==
  /\ chain_pc \in {"down", "refused"}
  /\ \/ /\ FilesUsable
        /\ \E hash \in ReadTopHash : UseExisting(hash) \/ RefuseFiles(hash)
     \/ /\ ~FilesUsable
        /\ AddGenesis

-----------------------------------------------------------------------------
(* blockchain_add_leveldb                                                  *)

\* Mutant of ValidatePrevBlockExists: any known block will do as parent.
PrevKnownIsEnough(b) == IF ~Found(b.prev) THEN 1 ELSE 0

\* validate_prev_block_exists
ValidatePrevBlockExists(b) ==
  IF ~Found(b.prev) THEN 1
  ELSE IF b.prev # top_block_header_hash THEN 2 ELSE 0

StartAdd(b) ==
  /\ chain_pc = "ready"
  /\ adding' = b
  /\ chain_pc' = "put"
  /\ UNCHANGED <<diskVars, chain_height, top_block_header_hash>>

\* leveldb_put; chain_height += 1
PutBlock ==
  /\ chain_pc = "put"
  /\ blockchain_db' = blockchain_db \cup {adding}
  /\ chain_height' = chain_height + 1
  /\ chain_pc' = "empty_height"
  /\ UNCHANGED <<height_file, top_file, top_block_header_hash, adding>>

\* write_chain_height: fopen
EmptyHeightFile ==
  /\ chain_pc = "empty_height"
  /\ height_file' = Empty
  /\ chain_pc' = "write_height"
  /\ UNCHANGED <<blockchain_db, top_file, chain_height, top_block_header_hash,
                 adding>>

\* Mutant of WriteHeightFile: the height is written before it is raised.
WriteOldHeight ==
  /\ chain_pc = "write_height"
  /\ height_file' = chain_height - 1
  /\ top_block_header_hash' = adding.hash
  /\ chain_pc' = "empty_top"
  /\ UNCHANGED <<blockchain_db, top_file, chain_height, adding>>

\* write_chain_height: fprintf, fclose; then memcpy(top_block_header_hash, ...)
WriteHeightFile ==
  /\ chain_pc = "write_height"
  /\ height_file' = chain_height
  /\ top_block_header_hash' = adding.hash
  /\ chain_pc' = "empty_top"
  /\ UNCHANGED <<blockchain_db, top_file, chain_height, adding>>

\* write_top_hash: fopen
EmptyTopFile ==
  /\ chain_pc = "empty_top"
  /\ top_file' = Empty
  /\ chain_pc' = "write_top"
  /\ UNCHANGED <<blockchain_db, height_file, chain_height,
                 top_block_header_hash, adding>>

\* Mutant of WriteTopFile: prev_header_hash is written.
WriteParentHash ==
  /\ chain_pc = "write_top"
  /\ top_file' = adding.prev
  /\ chain_pc' = "ready"
  /\ UNCHANGED <<blockchain_db, height_file, chain_height,
                 top_block_header_hash, adding>>

\* write_top_hash: fwrite, fclose
WriteTopFile ==
  /\ chain_pc = "write_top"
  /\ top_file' = top_block_header_hash
  /\ chain_pc' = "ready"
  /\ UNCHANGED <<blockchain_db, height_file, chain_height,
                 top_block_header_hash, adding>>

AddStep ==
  \/ PutBlock
  \/ EmptyHeightFile
  \/ WriteHeightFile
  \/ EmptyTopFile
  \/ WriteTopFile

-----------------------------------------------------------------------------
(* The end of the process, wherever it is: the globals are lost, the       *)
(* database and the files stay.                                            *)
ChainCrash ==
  /\ chain_pc \notin {"down", "refused"}
  /\ chain_height' = 0
  /\ top_block_header_hash' = ZeroHash
  /\ adding' = GenesisBlock
  /\ chain_pc' = "down"
  /\ UNCHANGED diskVars
=============================================================================

------------------------- MODULE ChainStore_proofs -------------------------
(***************************************************************************)
(* Proofs about ChainStore: for every number of blocks and of kills, and   *)
(* whichever hashes cannot be read back, the store never refuses its own   *)
(* files, never works on an incomplete chain, and comes back where it was. *)
(***************************************************************************)
EXTENDS ChainStore, FiniteSetTheorems, TLAPS

\* What is in the database: finitely many blocks, with numbers as hashes, no
\* parent missing.
BlocksInv ==
  /\ IsFiniteSet(blockchain_db)
  /\ \A b \in blockchain_db : b.hash \in Nat
  /\ \A b \in blockchain_db : b.hash = Genesis \/ Found(b.prev)

\* What the files can say: a height that was reached, a block that is there
\* and that is the last top or the block offered since.
FilesInv ==
  /\ \/ height_file \in {Absent, Empty}
     \/ height_file \in Nat /\ height_file <= Count
  /\ \/ top_file \in {Absent, Empty}
     \/ Found(top_file) /\ top_file \in {last.top, last.new}

\* The block that is about to be put is new or the genesis block, and it has a
\* parent.
PutInv ==
  chain_pc = "put" =>
    /\ adding.hash \in Nat
    /\ \/ adding.hash = Genesis /\ chain_height = 0
       \/ ~Found(adding.hash) /\ Found(adding.prev) /\ Found(Genesis)

\* Between the put and the end of blockchain_add_leveldb.
WriteInv ==
  /\ chain_pc \in {"empty_height", "write_height", "empty_top", "write_top"} =>
       Found(adding.hash) /\ Found(Genesis)
  /\ chain_pc \in {"empty_top", "write_top"} =>
       top_block_header_hash = adding.hash /\ height_file = chain_height

\* Between two operations, files and globals say the same.
ReadyInv ==
  chain_pc = "ready" =>
    /\ Found(top_block_header_hash) /\ Found(Genesis)
    /\ height_file = chain_height /\ last.height = chain_height
    /\ top_file = top_block_header_hash /\ last.top = top_block_header_hash

\* After the death of an idle process the files are those of the last ready
\* state.
IdleInv ==
  /\ "idle" \in DOMAIN last
  /\ last.idle =>
       /\ chain_pc \in {"down", "refused"}
       /\ Found(Genesis)
       /\ height_file = last.height /\ height_file \in Nat
       /\ top_file = last.top /\ Found(top_file)

StoreInv ==
  /\ BlocksInv
  /\ FilesInv
  /\ chain_height \in Nat /\ chain_height <= Count
  /\ PutInv
  /\ WriteInv
  /\ ReadyInv
  /\ IdleInv
  /\ chain_pc = "refused" => top_file \in NewlineHashes

-----------------------------------------------------------------------------
\* blockchain_count is a number.
LEMMA CountIsNat ==
  ASSUME IsFiniteSet(blockchain_db)
  PROVE  Count \in Nat
BY FS_CardinalityType DEF Count

\* Nothing is in the database before the first start.
LEMMA StoreInit == Init => StoreInv
<1>1. ASSUME Init PROVE IsFiniteSet(blockchain_db) /\ Count = 0
  BY <1>1, FS_EmptySet DEF Init, ChainInit, Count
<1> QED
  BY <1>1, FileAssumption
  DEF Init, ChainInit, StoreInv, BlocksInv, FilesInv, PutInv, WriteInv, ReadyInv,
      IdleInv, Found

\* A start leaves the database alone; what it believes is what the files say.
LEMMA BootPreserves ==
  ASSUME StoreInv, Boot
  PROVE  StoreInv'
<1> USE FileAssumption
<1>0. /\ chain_pc \in {"down", "refused"}
      /\ UNCHANGED <<blockchain_db, height_file, top_file>>
  BY DEF Boot, BlockchainInit, UseExisting, RefuseFiles, AddGenesis, diskVars
<1>1. /\ Count' = Count /\ Count \in Nat
      /\ \A h : Found(h)' <=> Found(h)
  BY <1>0, CountIsNat DEF StoreInv, BlocksInv, Count, Found
<1>2. BlocksInv'
  BY <1>0, <1>1 DEF StoreInv, BlocksInv
<1>3. CASE FilesUsable
  <2>1. PICK hash \in ReadTopHash : UseExisting(hash) \/ RefuseFiles(hash)
    BY <1>3 DEF Boot, BlockchainInit
  <2>2. /\ top_file \notin {Absent, Empty}
        /\ height_file \in Nat /\ ReadChain = height_file /\ height_file <= Count
        /\ Found(top_file) /\ Found(Genesis)
        /\ top_file \in {last.top, last.new}
    BY <1>3 DEF FilesUsable, ReadTopHash, ReadChain, StoreInv, FilesInv
  <2>3. hash = top_file \/ (hash = Garbage /\ top_file \in NewlineHashes)
    BY <2>1, <2>2 DEF ReadTopHash
  <2>4. CASE UseExisting(hash)
    <3>1. Found(hash)
      BY <2>4 DEF UseExisting, FilesAgree
    <3>2. hash = top_file
      BY <2>3, <3>1 DEF StoreInv, BlocksInv, Found, FileAssumption
    <3>3. /\ chain_pc' = "ready" /\ chain_height' = height_file
          /\ top_block_header_hash' = top_file
      BY <2>2, <2>4, <3>2 DEF UseExisting
    <3>4. last' = [top |-> top_file, height |-> height_file, new |-> top_file,
                   idle |-> FALSE]
      BY <3>3 DEF Boot, NoteReady
    <3> QED
      BY <1>0, <1>1, <1>2, <2>2, <3>3, <3>4
      DEF StoreInv, FilesInv, PutInv, WriteInv, ReadyInv, IdleInv
  <2>5. CASE RefuseFiles(hash)
    <3>1. chain_pc' = "refused" /\ UNCHANGED <<chain_height, top_block_header_hash, adding>>
      BY <2>5 DEF RefuseFiles
    <3>2. last' = last
      BY <3>1 DEF Boot, NoteReady
    <3>3. top_file \in NewlineHashes
      BY <1>1, <2>2, <2>3, <2>5 DEF RefuseFiles, FilesAgree
    <3> QED
      BY <1>0, <1>1, <1>2, <3>1, <3>2, <3>3
      DEF StoreInv, FilesInv, PutInv, WriteInv, ReadyInv, IdleInv
  <2> QED
    BY <2>1, <2>4, <2>5
<1>4. CASE ~FilesUsable
  <2>1. /\ chain_height' = 0 /\ adding' = GenesisBlock /\ chain_pc' = "put"
    BY <1>4 DEF Boot, BlockchainInit, AddGenesis
  <2>2. last' = last
    BY <2>1 DEF Boot, NoteReady
  <2>3. ~last.idle
    <3>1. SUFFICES ASSUME last.idle PROVE FALSE
      OBVIOUS
    <3>2. Found(Genesis) /\ height_file \in Nat /\ Found(top_file)
      BY <3>1 DEF StoreInv, IdleInv
    <3>3. top_file \in Nat
      BY <3>2 DEF StoreInv, BlocksInv, Found
    <3>4. top_file \notin {Absent, Empty} /\ height_file \notin {Absent, Empty}
      BY <3>2, <3>3 DEF FileAssumption
    <3> QED
      BY <1>4, <3>2, <3>4 DEF FilesUsable, ReadTopHash, ReadChain
  <2> QED
    BY <1>0, <1>1, <1>2, <2>1, <2>2, <2>3
    DEF StoreInv, FilesInv, PutInv, WriteInv, ReadyInv, IdleInv, GenesisBlock
<1> QED
  BY <1>3, <1>4

\* A block is accepted on top of a known one.
LEMMA AddPreserves ==
  ASSUME StoreInv, Add
  PROVE  StoreInv'
<1>1. PICK hash \in FreshHashes :
        \E prev : LET b == [hash |-> hash, prev |-> prev, txs |-> <<>>]
                  IN  /\ ValidatePrevBlockExists(b) = 0
                      /\ StartAdd(b)
                      /\ last' = [last EXCEPT !.new = hash]
  BY DEF Add
<1>2. PICK prev : LET b == [hash |-> hash, prev |-> prev, txs |-> <<>>]
                  IN  /\ ValidatePrevBlockExists(b) = 0
                      /\ StartAdd(b)
                      /\ last' = [last EXCEPT !.new = hash]
  BY <1>1
<1>3. hash \in Nat /\ ~Found(hash)
  BY DEF FreshHashes
<1>4. Found(prev)
  BY <1>2 DEF ValidatePrevBlockExists
<1>5. /\ chain_pc = "ready" /\ chain_pc' = "put"
      /\ adding'.hash = hash /\ adding'.prev = prev
      /\ UNCHANGED <<blockchain_db, height_file, top_file, chain_height,
                     top_block_header_hash>>
  BY <1>2 DEF StartAdd, diskVars
<1>6. /\ Count' = Count
      /\ \A h : Found(h)' <=> Found(h)
  BY <1>5 DEF Count, Found
<1>7. /\ last'.top = last.top /\ last'.height = last.height
      /\ last'.idle = last.idle /\ "idle" \in DOMAIN last'
  BY <1>2 DEF StoreInv, IdleInv
<1> QED
  BY <1>3, <1>4, <1>5, <1>6, <1>7
  DEF StoreInv, BlocksInv, FilesInv, PutInv, WriteInv, ReadyInv, IdleInv

\* The five steps of blockchain_add_leveldb.
LEMMA StepPreserves ==
  ASSUME StoreInv, Step
  PROVE  StoreInv'
<1>0. AddStep /\ NoteReady
  BY DEF Step
<1>1. CASE PutBlock
  <2>1. /\ chain_pc = "put" /\ chain_pc' = "empty_height"
        /\ blockchain_db' = blockchain_db \cup {adding}
        /\ chain_height' = chain_height + 1
        /\ UNCHANGED <<height_file, top_file, top_block_header_hash, adding, last>>
    BY <1>0, <1>1 DEF PutBlock, NoteReady
  <2>2. /\ IsFiniteSet(blockchain_db')
        /\ Count' = IF adding \in blockchain_db THEN Count ELSE Count + 1
    BY <2>1, FS_AddElement DEF StoreInv, BlocksInv, Count
  <2>3. Count \in Nat /\ Count' \in Nat
    BY <2>2, CountIsNat DEF StoreInv, BlocksInv
  <2>4. /\ \A h : Found(h) => Found(h)'
        /\ Found(adding.hash)'
    BY <2>1 DEF Found
  <2>5. Found(Genesis)'
    BY <2>1, <2>4 DEF StoreInv, PutInv
  <2>6. chain_height' <= Count'
    <3>1. CASE chain_height = 0
      <4>1. blockchain_db' # {} /\ Count' # 0
        BY <2>1, <2>2, FS_EmptySet DEF Count
      <4> QED
        BY <2>1, <2>3, <3>1, <4>1
    <3>2. CASE ~Found(adding.hash)
      <4>1. adding \notin blockchain_db
        BY <3>2 DEF Found
      <4> QED
        BY <2>1, <2>2, <2>3, <4>1 DEF StoreInv
    <3> QED
      BY <2>1, <3>1, <3>2 DEF StoreInv, PutInv
  <2>7. BlocksInv'
    BY <2>1, <2>2, <2>4 DEF StoreInv, BlocksInv, PutInv
  <2>8. FilesInv'
    BY <2>1, <2>2, <2>3, <2>4 DEF StoreInv, FilesInv
  <2> QED
    BY <2>1, <2>3, <2>4, <2>5, <2>6, <2>7, <2>8
    DEF StoreInv, PutInv, WriteInv, ReadyInv, IdleInv
<1>2. ASSUME ~PutBlock
      PROVE  /\ blockchain_db' = blockchain_db /\ Count' = Count /\ Count \in Nat
             /\ \A h : Found(h)' <=> Found(h)
             /\ UNCHANGED <<chain_height, adding>>
             /\ BlocksInv'
  BY <1>0, <1>2, CountIsNat
  DEF AddStep, EmptyHeightFile, WriteHeightFile, EmptyTopFile, WriteTopFile,
      Count, Found, StoreInv, BlocksInv
<1>3. CASE EmptyHeightFile
  <2>1. ~PutBlock
    BY <1>3 DEF EmptyHeightFile, PutBlock
  <2>2. last' = last
    BY <1>0, <1>3 DEF EmptyHeightFile, NoteReady
  <2> QED
    BY <1>2, <1>3, <2>1, <2>2
    DEF EmptyHeightFile, StoreInv, FilesInv, PutInv, WriteInv, ReadyInv, IdleInv
<1>4. CASE WriteHeightFile
  <2>1. ~PutBlock
    BY <1>4 DEF WriteHeightFile, PutBlock
  <2>2. last' = last
    BY <1>0, <1>4 DEF WriteHeightFile, NoteReady
  <2> QED
    BY <1>2, <1>4, <2>1, <2>2
    DEF WriteHeightFile, StoreInv, FilesInv, PutInv, WriteInv, ReadyInv, IdleInv
<1>5. CASE EmptyTopFile
  <2>1. ~PutBlock
    BY <1>5 DEF EmptyTopFile, PutBlock
  <2>2. last' = last
    BY <1>0, <1>5 DEF EmptyTopFile, NoteReady
  <2> QED
    BY <1>2, <1>5, <2>1, <2>2
    DEF EmptyTopFile, StoreInv, FilesInv, PutInv, WriteInv, ReadyInv, IdleInv
<1>6. CASE WriteTopFile
  <2>1. ~PutBlock
    BY <1>6 DEF WriteTopFile, PutBlock
  <2>2. last' = [top |-> top_block_header_hash, height |-> chain_height,
                 new |-> top_block_header_hash, idle |-> FALSE]
    BY <1>0, <1>6, <1>2, <2>1 DEF WriteTopFile, NoteReady
  <2> QED
    BY <1>2, <1>6, <2>1, <2>2
    DEF WriteTopFile, StoreInv, FilesInv, PutInv, WriteInv, ReadyInv, IdleInv
<1> QED
  BY <1>0, <1>1, <1>3, <1>4, <1>5, <1>6 DEF AddStep

\* A kill loses the globals and nothing else.
LEMMA CrashPreserves ==
  ASSUME StoreInv, Crash
  PROVE  StoreInv'
<1>1. /\ UNCHANGED <<blockchain_db, height_file, top_file>>
      /\ chain_height' = 0 /\ chain_pc' = "down"
      /\ last' = [last EXCEPT !.idle = Ready]
  BY DEF Crash, ChainCrash, diskVars
<1>2. /\ Count' = Count /\ Count \in Nat
      /\ \A h : Found(h)' <=> Found(h)
  BY <1>1, CountIsNat DEF Count, Found, StoreInv, BlocksInv
<1>3. last'.top = last.top /\ last'.new = last.new /\ last'.height = last.height
  BY <1>1 DEF StoreInv, IdleInv
<1>4. "idle" \in DOMAIN last' /\ (last'.idle => chain_pc = "ready")
  BY <1>1 DEF Ready, StoreInv, IdleInv
<1> QED
  BY <1>1, <1>2, <1>3, <1>4
  DEF StoreInv, BlocksInv, FilesInv, PutInv, WriteInv, ReadyInv, IdleInv

-----------------------------------------------------------------------------
\* No step breaks the invariant, nor does a stutter.
LEMMA StoreNext == StoreInv /\ [Next]_vars => StoreInv'
<1> SUFFICES ASSUME StoreInv, [Next]_vars PROVE StoreInv'
  OBVIOUS
<1>1. CASE Boot
  BY <1>1, BootPreserves
<1>2. CASE Add
  BY <1>2, AddPreserves
<1>3. CASE Step
  BY <1>3, StepPreserves
<1>4. CASE Crash
  BY <1>4, CrashPreserves
<1>5. CASE UNCHANGED vars
  <2>1. UNCHANGED <<blockchain_db, height_file, top_file, chain_height,
                    top_block_header_hash, adding, chain_pc, last>>
    BY <1>5 DEF vars, chainVars
  <2>2. Count' = Count /\ \A h : Found(h)' <=> Found(h)
    BY <2>1 DEF Count, Found
  <2> QED
    BY <2>1, <2>2
    DEF StoreInv, BlocksInv, FilesInv, PutInv, WriteInv, ReadyInv, IdleInv
<1> QED
  BY <1>1, <1>2, <1>3, <1>4, <1>5 DEF Next

\* The invariant holds in every reachable state.
THEOREM StoreInvariant == Spec => []StoreInv
<1>1. Init => StoreInv
  BY StoreInit
<1>2. StoreInv /\ [Next]_vars => StoreInv'
  BY StoreNext
<1> QED
  BY <1>1, <1>2, PTL DEF Spec

\* blockchain_init_leveldb's exit(1) is reached only with a top hash that
\* cannot be read back, however often and wherever the process was killed.
THEOREM StoreNeverRefuses == Spec => []NeverRefuses
<1>1. StoreInv => NeverRefuses
  BY DEF StoreInv, NeverRefuses
<1> QED
  BY <1>1, StoreInvariant, PTL

\* The node's top block is in the database and so is every parent.
THEOREM StoreComplete == Spec => []ChainComplete
<1>1. StoreInv => ChainComplete
  BY DEF StoreInv, BlocksInv, ReadyInv, ChainComplete, Ready
<1> QED
  BY <1>1, StoreInvariant, PTL

\* chain_height never exceeds blockchain_count.
THEOREM StoreHeightWithinCount == Spec => []HeightWithinCount
<1>1. StoreInv => HeightWithinCount
  BY DEF StoreInv, HeightWithinCount
<1> QED
  BY <1>1, StoreInvariant, PTL

\* A start either believes the files, and then has read the top hash right, or
\* refuses them, or adds the genesis block.
LEMMA BootReads ==
  ASSUME StoreInv, Boot, chain_pc' = "ready"
  PROVE  /\ FilesUsable
         /\ chain_height' = height_file
         /\ top_block_header_hash' = top_file
<1>1. FilesUsable
  BY DEF Boot, BlockchainInit, AddGenesis
<1>2. PICK hash \in ReadTopHash : UseExisting(hash)
  BY <1>1 DEF Boot, BlockchainInit, RefuseFiles
<1>3. Found(hash)
  BY <1>2 DEF UseExisting, FilesAgree
<1>4. hash = top_file
  BY <1>2, <1>3, FileAssumption
  DEF ReadTopHash, StoreInv, BlocksInv, Found, FileAssumption
<1> QED
  BY <1>1, <1>2, <1>4, FileAssumption DEF UseExisting, ReadChain, FilesUsable

\* The files that are believed name the last top or the block offered since.
THEOREM StoreLandsNear == Spec => RestartLandsNear
<1>1. ASSUME StoreInv, Boot, chain_pc' = "ready"
      PROVE  top_block_header_hash' \in {last.top, last.new}
  <2>1. FilesUsable /\ top_block_header_hash' = top_file
    BY <1>1, BootReads
  <2> QED
    BY <1>1, <2>1 DEF FilesUsable, ReadTopHash, StoreInv, FilesInv
<1>2. StoreInv /\ [Next]_vars =>
        [Boot /\ chain_pc' = "ready" =>
           top_block_header_hash' \in {last.top, last.new}]_vars
  BY <1>1
<1> QED
  BY <1>2, StoreInvariant, PTL DEF Spec, RestartLandsNear

\* A process that was idle when it died resumes where it was.
THEOREM StoreResumes == Spec => CleanRestartResumes
<1>1. ASSUME StoreInv, Boot, last.idle, last.top \notin NewlineHashes
      PROVE  /\ chain_pc' = "ready"
             /\ top_block_header_hash' = last.top
             /\ chain_height' = last.height
  <2>1. /\ Found(Genesis) /\ Found(top_file)
        /\ height_file = last.height /\ height_file \in Nat
        /\ top_file = last.top
    BY <1>1 DEF StoreInv, IdleInv
  <2>2. top_file \in Nat
    BY <1>1, <2>1 DEF StoreInv, BlocksInv, Found
  <2>3. height_file \notin {Absent, Empty} /\ top_file \notin {Absent, Empty}
    BY <2>1, <2>2, FileAssumption DEF FileAssumption
  <2>4. /\ ReadTopHash = {top_file} /\ ReadChain = height_file
        /\ height_file <= Count
    BY <1>1, <2>1, <2>3 DEF ReadTopHash, ReadChain, StoreInv, FilesInv
  <2>5. FilesUsable
    BY <2>1, <2>4 DEF FilesUsable
  <2>6. UseExisting(top_file) \/ RefuseFiles(top_file)
    BY <1>1, <2>4, <2>5 DEF Boot, BlockchainInit
  <2>7. Count \in Nat
    BY <1>1, CountIsNat DEF StoreInv, BlocksInv
  <2>8. FilesAgree(top_file)
    BY <2>1, <2>4, <2>7 DEF FilesAgree
  <2>9. UseExisting(top_file)
    BY <2>6, <2>8 DEF RefuseFiles
  <2> QED
    BY <2>1, <2>4, <2>9 DEF UseExisting
<1>2. StoreInv /\ [Next]_vars =>
        [Boot /\ last.idle /\ last.top \notin NewlineHashes =>
           /\ chain_pc' = "ready"
           /\ top_block_header_hash' = last.top
           /\ chain_height' = last.height]_vars
  BY <1>1
<1> QED
  BY <1>2, StoreInvariant, PTL DEF Spec, CleanRestartResumes
-----------------------------------------------------------------------------
(* Types.                                                                  *)

\* TypeOK is inductive with the invariant beside it, and the type of the block
\* under way.
StoreTypes ==
  /\ TypeOK
  /\ adding.hash \in Nat /\ adding.prev \in Nat \cup {ZeroHash}

LEMMA StoreTypesKept ==
  ASSUME StoreInv, StoreTypes, [Next]_vars
  PROVE  StoreTypes'
<1> USE FileAssumption DEF StoreTypes, TypeOK, ChainPcs
<1>1. CASE Boot
  <2>1. CASE FilesUsable
    <3>1. PICK hash \in ReadTopHash : UseExisting(hash) \/ RefuseFiles(hash)
      BY <1>1, <2>1 DEF Boot, BlockchainInit
    <3>2. CASE UseExisting(hash)
      <4>1. hash \in Nat /\ ReadChain \in Nat
        BY <2>1, <3>2 DEF UseExisting, FilesAgree, Found, StoreInv, BlocksInv,
           FilesUsable, ReadChain
      <4> QED
        BY <3>2, <4>1 DEF UseExisting, diskVars
    <3>3. CASE RefuseFiles(hash)
      BY <3>3 DEF RefuseFiles, diskVars
    <3> QED
      BY <3>1, <3>2, <3>3
  <2>2. CASE AddGenesis
    BY <2>2 DEF AddGenesis, GenesisBlock, diskVars
  <2> QED
    BY <1>1, <2>1, <2>2 DEF Boot, BlockchainInit
<1>2. CASE Add
  <2>1. PICK hash \in FreshHashes,
             prev \in {b.hash : b \in blockchain_db} \cup {ZeroHash, Garbage} :
          LET b == [hash |-> hash, prev |-> prev, txs |-> <<>>]
          IN  ValidatePrevBlockExists(b) = 0 /\ StartAdd(b)
    BY <1>2 DEF Add
  <2>2. hash \in Nat /\ Found(prev)
    BY <2>1 DEF FreshHashes, ValidatePrevBlockExists
  <2>3. prev \in Nat
    BY <2>2 DEF Found
  <2> QED
    BY <2>1, <2>2, <2>3 DEF StartAdd, diskVars
<1>3. CASE Step
  <2>1. CASE PutBlock
    BY <2>1 DEF PutBlock
  <2>2. CASE EmptyHeightFile
    BY <2>2 DEF EmptyHeightFile
  <2>3. CASE WriteHeightFile
    BY <2>3 DEF WriteHeightFile
  <2>4. CASE EmptyTopFile
    BY <2>4 DEF EmptyTopFile
  <2>5. CASE WriteTopFile
    BY <2>5 DEF WriteTopFile, StoreInv, WriteInv
  <2> QED
    BY <1>3, <2>1, <2>2, <2>3, <2>4, <2>5 DEF Step, AddStep
<1>4. CASE Crash
  BY <1>4 DEF Crash, ChainCrash, GenesisBlock, diskVars
<1>5. CASE UNCHANGED vars
  BY <1>5 DEF vars, chainVars
<1> QED
  BY <1>1, <1>2, <1>3, <1>4, <1>5 DEF Next

\* Database, files and globals always have their types: garbage read from a
\* file never gets into them.
THEOREM StoreTypeCorrect == Spec => []TypeOK
<1>1. Init => StoreTypes
  BY FileAssumption DEF Init, ChainInit, GenesisBlock, StoreTypes, TypeOK, ChainPcs
<1>2. StoreInv /\ StoreTypes /\ [Next]_vars => StoreTypes'
  BY StoreTypesKept
<1>3. StoreTypes => TypeOK
  BY DEF StoreTypes
<1> QED
  BY <1>1, <1>2, <1>3, StoreInvariant, PTL DEF Spec
-----------------------------------------------------------------------------
(* How far chain_height drifts.                                            *)
(*                                                                         *)
(* Depth is a recursive function on the hashes of the database.  What is   *)
(* kept is that there is exactly one such function and that its values are *)
(* numbers: a new block on top of a known one extends it by one value.     *)

HashesIn(db) == {b.hash : b \in db}
BlockIn(db, h) == CHOOSE b \in db : b.hash = h

\* f gives for each hash the number of blocks between it and the genesis block.
Depths(f, db) ==
  f = [h \in HashesIn(db) |->
         IF h = Genesis THEN 0 ELSE 1 + f[BlockIn(db, h).prev]]

DepthIn(db, h) == (CHOOSE f : Depths(f, db))[h]

\* There is one such function, and it counts.
Measured(db) ==
  \E f : /\ Depths(f, db) /\ \A g : Depths(g, db) => g = f
         /\ \A h \in HashesIn(db) : f[h] \in Nat

\* Every hash names one block, whose parent is there.
Linked(db) ==
  /\ \A b, c \in db : b.hash = c.hash => b = c
  /\ \A b \in db : b.hash = Genesis \/ b.prev \in HashesIn(db)

\* The Depth of the property is this one.
LEMMA DepthIsIn == \A h : Depth(h) = DepthIn(blockchain_db, h)
BY Zenon DEF Depth, DepthIn, Depths, Hashes, HashesIn, BlockIn

LEMMA BlockOfHash ==
  ASSUME NEW db, Linked(db), NEW b \in db
  PROVE  BlockIn(db, b.hash) = b
BY DEF Linked, BlockIn

\* What Depths says, value by value, and back.
LEMMA DepthsAt ==
  ASSUME NEW db, NEW f, Depths(f, db)
  PROVE  /\ f = [h \in HashesIn(db) |-> f[h]]
         /\ \A h \in HashesIn(db) :
              f[h] = IF h = Genesis THEN 0 ELSE 1 + f[BlockIn(db, h).prev]
<1> DEFINE R == [h \in HashesIn(db) |->
                   IF h = Genesis THEN 0 ELSE 1 + f[BlockIn(db, h).prev]]
<1>1. f = R
  BY DEF Depths
<1>2. R = [h \in HashesIn(db) |-> R[h]]
  OBVIOUS
<1>3. f = [h \in HashesIn(db) |-> f[h]]
  BY <1>1, <1>2
<1>4. ASSUME NEW h \in HashesIn(db)
      PROVE  f[h] = IF h = Genesis THEN 0 ELSE 1 + f[BlockIn(db, h).prev]
  BY <1>1
<1> QED
  BY <1>3, <1>4

LEMMA DepthsBy ==
  ASSUME NEW db, NEW f, f = [h \in HashesIn(db) |-> f[h]],
         \A h \in HashesIn(db) :
           f[h] = IF h = Genesis THEN 0 ELSE 1 + f[BlockIn(db, h).prev]
  PROVE  Depths(f, db)
BY DEF Depths

\* In a measured database a depth is a number, and the genesis block's is 0.
LEMMA DepthIsNat ==
  ASSUME NEW db, Measured(db), NEW h \in HashesIn(db)
  PROVE  DepthIn(db, h) \in Nat
BY DEF Measured, DepthIn

LEMMA GenesisDepth ==
  ASSUME NEW db, Measured(db), Genesis \in HashesIn(db)
  PROVE  DepthIn(db, Genesis) = 0
<1>1. PICK f : Depths(f, db) /\ \A g : Depths(g, db) => g = f
  BY DEF Measured
<1>2. (CHOOSE g : Depths(g, db)) = f
  BY <1>1
<1>3. f[Genesis] = 0
  BY <1>1, DepthsAt
<1> QED
  BY <1>2, <1>3 DEF DepthIn

\* The empty database, and the genesis block alone.
LEMMA NothingMeasured == Linked({}) /\ Measured({})
<1> DEFINE f == [h \in {} |-> 0]
<1>1. HashesIn({}) = {}
  BY DEF HashesIn
<1>2. Depths(f, {}) /\ \A g : Depths(g, {}) => g = f
  BY <1>1 DEF Depths
<1> QED
  BY <1>1, <1>2 DEF Linked, Measured

LEMMA GenesisMeasured == Linked({GenesisBlock}) /\ Measured({GenesisBlock})
<1> DEFINE db == {GenesisBlock}
           f == [h \in {Genesis} |-> 0]
<1>1. HashesIn(db) = {Genesis} /\ Linked(db)
  BY DEF HashesIn, Linked, GenesisBlock
<1>2. Depths(f, db)
  <2>1. f = [h \in HashesIn(db) |-> f[h]]
    BY <1>1
  <2>2. \A h \in HashesIn(db) : h = Genesis /\ f[h] = 0
    BY <1>1
  <2> HIDE DEF f, db
  <2> QED
    BY <2>1, <2>2, DepthsBy
<1>3. ASSUME NEW g, Depths(g, db)
      PROVE  g = f
  <2>1. g = [h \in {Genesis} |-> g[h]] /\ g[Genesis] = 0
    BY <1>1, <1>3, DepthsAt
  <2> QED
    BY <2>1
<1>4. \A h \in HashesIn(db) : f[h] \in Nat
  BY <1>1
<1> HIDE DEF f
<1> QED
  BY <1>1, <1>2, <1>3, <1>4 DEF Measured

\* A new block on top of a known one is one deeper, and changes nothing else.
LEMMA OneMoreMeasured ==
  ASSUME NEW db, NEW b, Linked(db), Measured(db), b.hash \notin HashesIn(db),
         b.hash # Genesis, b.prev \in HashesIn(db)
  PROVE  /\ Linked(db \cup {b}) /\ Measured(db \cup {b})
         /\ \A h \in HashesIn(db) : DepthIn(db \cup {b}, h) = DepthIn(db, h)
         /\ DepthIn(db \cup {b}, b.hash) = 1 + DepthIn(db, b.prev)
<1> DEFINE more == db \cup {b}
<1>1. PICK f : /\ Depths(f, db) /\ \A g : Depths(g, db) => g = f
               /\ \A h \in HashesIn(db) : f[h] \in Nat
  BY DEF Measured
<1> DEFINE F == [h \in HashesIn(more) |-> IF h = b.hash THEN 1 + f[b.prev] ELSE f[h]]
<1>2. HashesIn(more) = HashesIn(db) \cup {b.hash}
  BY DEF HashesIn
<1>3. Linked(more)
  BY <1>2 DEF Linked, HashesIn
<1>4. \A h \in HashesIn(db) :
        /\ h # b.hash /\ BlockIn(more, h) = BlockIn(db, h)
        /\ h # Genesis => BlockIn(db, h).prev \in HashesIn(db)
  <2> SUFFICES ASSUME NEW h \in HashesIn(db)
               PROVE  /\ h # b.hash /\ BlockIn(more, h) = BlockIn(db, h)
                      /\ h # Genesis => BlockIn(db, h).prev \in HashesIn(db)
    OBVIOUS
  <2>1. PICK c \in db : c.hash = h
    BY DEF HashesIn
  <2>2. BlockIn(db, h) = c
    BY <2>1, BlockOfHash
  <2>3. BlockIn(more, h) = c
    BY <1>3, <2>1, BlockOfHash
  <2> QED
    BY <2>1, <2>2, <2>3 DEF Linked
<1>5. BlockIn(more, b.hash) = b
  BY <1>3, BlockOfHash
<1>6. F[b.hash] = 1 + f[b.prev] /\ \A h \in HashesIn(db) : F[h] = f[h]
  BY <1>2, <1>4
<1>7. F = [h \in HashesIn(more) |-> F[h]]
  OBVIOUS
<1>8. Depths(F, more)
  <2>1. ASSUME NEW h \in HashesIn(more)
        PROVE  F[h] = IF h = Genesis THEN 0 ELSE 1 + F[BlockIn(more, h).prev]
    <3> HIDE DEF F, more
    <3>1. CASE h = b.hash
      BY <1>5, <1>6, <3>1
    <3>2. CASE h # b.hash
      <4>1. h \in HashesIn(db)
        BY <1>2, <2>1, <3>2
      <4>2. f[h] = IF h = Genesis THEN 0 ELSE 1 + f[BlockIn(db, h).prev]
        BY <1>1, <4>1, DepthsAt
      <4> QED
        BY <1>4, <1>6, <4>1, <4>2
    <3> QED
      BY <3>1, <3>2
  <2> HIDE DEF F, more
  <2> QED
    BY <1>7, <2>1, DepthsBy
<1>9. ASSUME NEW g, Depths(g, more)
      PROVE  g = F
  <2> DEFINE r == [h \in HashesIn(db) |-> g[h]]
  <2>1. /\ g = [h \in HashesIn(more) |-> g[h]]
        /\ \A h \in HashesIn(more) :
             g[h] = IF h = Genesis THEN 0 ELSE 1 + g[BlockIn(more, h).prev]
    BY <1>9, DepthsAt
  <2>2. ASSUME NEW h \in HashesIn(db)
        PROVE  r[h] = IF h = Genesis THEN 0 ELSE 1 + r[BlockIn(db, h).prev]
    <3>1. g[h] = IF h = Genesis THEN 0 ELSE 1 + g[BlockIn(db, h).prev]
      <4> HIDE DEF more
      <4> QED
        BY <1>2, <1>4, <2>1
    <3>2. r[h] = g[h] /\ (h # Genesis => r[BlockIn(db, h).prev] = g[BlockIn(db, h).prev])
      BY <1>4
    <3> HIDE DEF r
    <3> QED
      BY <3>1, <3>2
  <2>3. r = [h \in HashesIn(db) |-> r[h]]
    OBVIOUS
  <2>4. r = f
    <3> HIDE DEF r
    <3> QED
      BY <1>1, <2>2, <2>3, DepthsBy
  <2>5. \A h \in HashesIn(db) : g[h] = f[h]
    BY <2>4
  <2>6. g[b.hash] = 1 + f[b.prev]
    <3>1. b.hash \in HashesIn(more)
      BY <1>2
    <3> HIDE DEF more
    <3> QED
      BY <1>5, <2>1, <2>5, <3>1
  <2>7. \A h \in HashesIn(more) : g[h] = IF h = b.hash THEN 1 + f[b.prev] ELSE f[h]
    BY <1>2, <2>5, <2>6
  <2> QED
    BY <2>1, <2>7
<1>10. \A h \in HashesIn(more) : F[h] \in Nat
  <2> HIDE DEF F, more
  <2> QED
    BY <1>1, <1>2, <1>6
<1>11. (CHOOSE g : Depths(g, db)) = f
  BY <1>1
<1>12. (CHOOSE g : Depths(g, more)) = F
  <2> HIDE DEF F, more
  <2> QED
    BY <1>8, <1>9
<1>13. Measured(more)
  <2> HIDE DEF F, more
  <2> QED
    BY <1>8, <1>9, <1>10 DEF Measured
<1> HIDE DEF F
<1> QED
  BY <1>3, <1>6, <1>11, <1>12, <1>13 DEF DepthIn

-----------------------------------------------------------------------------
\* blockchain_add_leveldb between the put and its end.
Writing == chain_pc \in {"empty_height", "write_height", "empty_top", "write_top"}

D(h) == DepthIn(blockchain_db, h)

\* The blocks form a tree on the genesis block, and the one about to be put
\* makes it grow by one or is the genesis block again.
TreeInv ==
  /\ Linked(blockchain_db) /\ Measured(blockchain_db)
  /\ blockchain_db # {} => GenesisBlock \in blockchain_db
  /\ chain_pc = "put" =>
       \/ adding = GenesisBlock
       \/ ~Found(adding.hash) /\ adding.hash # Genesis /\ Found(adding.prev)

\* What chain_height exceeds the depth of the top by, after at most one kill.
Drifts == IF crashes = 0 THEN {1} ELSE {1, 2}

\* The height the process has is that of the block it is adding, or of its top.
GlobalsClose ==
  /\ chain_pc = "put" =>
       \/ adding = GenesisBlock /\ chain_height = 0
       \/ chain_height - D(adding.prev) \in Drifts
  /\ Writing => chain_height - D(adding.hash) \in Drifts
  /\ chain_pc = "ready" => chain_height - D(top_block_header_hash) \in Drifts

\* The files, when both can be read, are at most one kill apart.
FilesClose ==
  height_file \notin {Absent, Empty} /\ top_file \notin {Absent, Empty} =>
    height_file - D(top_file) \in {1, 2}

\* Before the first kill: nothing is read from a file, every block counts, and
\* the files are those of the block before, or already of this one.
FirstLife ==
  /\ chain_pc # "refused"
  /\ chain_pc = "down" => blockchain_db = {}
  /\ blockchain_db = {} => height_file = Absent /\ top_file = Absent
  /\ chain_pc # "down" => chain_height = Count
  /\ chain_pc = "put" /\ blockchain_db # {} =>
       adding # GenesisBlock /\ top_file = adding.prev /\ height_file = chain_height
  /\ chain_pc \in {"empty_height", "write_height", "empty_top"} =>
       top_file = Absent \/ (Found(top_file) /\ D(top_file) = chain_height - 2)
  /\ chain_pc = "empty_height" => height_file \in {Absent, chain_height - 1}
  /\ chain_pc = "write_height" => height_file = Empty
  /\ chain_pc = "write_top" => top_file = Empty

DriftInv ==
  /\ crashes \in Nat
  /\ TreeInv
  /\ crashes <= 1 => GlobalsClose
  /\ crashes = 1 /\ chain_pc \in {"down", "refused"} => FilesClose
  /\ crashes = 0 => FirstLife

LEMMA FoundIsIn == \A h : Found(h) <=> h \in HashesIn(blockchain_db)
BY DEF Found, HashesIn

\* Nothing is in the database at first.
LEMMA DriftInit == Init => DriftInv
<1> SUFFICES ASSUME Init PROVE DriftInv
  OBVIOUS
<1>1. /\ blockchain_db = {} /\ chain_pc = "down" /\ crashes = 0
      /\ height_file = Absent /\ top_file = Absent
  BY DEF Init, ChainInit
<1>2. TreeInv
  BY <1>1, NothingMeasured DEF TreeInv
<1> QED
  BY <1>1, <1>2 DEF DriftInv, GlobalsClose, FirstLife, Writing

\* A start takes both values from the files, or neither.
LEMMA BootDrifts ==
  ASSUME StoreInv, DriftInv, Boot
  PROVE  DriftInv'
<1>1. /\ chain_pc \in {"down", "refused"}
      /\ UNCHANGED <<blockchain_db, height_file, top_file, crashes>>
  BY DEF Boot, BlockchainInit, UseExisting, RefuseFiles, AddGenesis, diskVars
<1>2. /\ \A h : D(h)' = DepthIn(blockchain_db, h')
      /\ Count' = Count
  BY <1>1 DEF D, Count
<1>3. CASE FilesUsable
  <2>1. crashes # 0
    BY <1>1, <1>3 DEF DriftInv, FirstLife, FilesUsable, Found
  <2>2. CASE chain_pc' = "ready"
    <3>1. chain_height' = height_file /\ top_block_header_hash' = top_file
      BY <2>2, BootReads
    <3>2. height_file \notin {Absent, Empty} /\ top_file \notin {Absent, Empty}
      BY <1>3 DEF FilesUsable, ReadTopHash, ReadChain
    <3>3. crashes = 1 => chain_height' - DepthIn(blockchain_db, top_file) \in {1, 2}
      BY <1>1, <3>1, <3>2 DEF DriftInv, FilesClose, D
    <3> QED
      BY <1>1, <2>1, <2>2, <3>1, <3>3
      DEF DriftInv, TreeInv, GlobalsClose, FilesClose, Writing, Drifts, D
  <2>3. CASE chain_pc' # "ready"
    <3>1. chain_pc' = "refused"
      BY <1>3, <2>3 DEF Boot, BlockchainInit, UseExisting, RefuseFiles
    <3> QED
      BY <1>1, <2>1, <3>1 DEF DriftInv, TreeInv, GlobalsClose, FilesClose, Writing, D
  <2> QED
    BY <2>2, <2>3
<1>4. CASE ~FilesUsable
  <2>1. chain_height' = 0 /\ adding' = GenesisBlock /\ chain_pc' = "put"
    BY <1>4 DEF Boot, BlockchainInit, AddGenesis
  <2>2. crashes = 0 => blockchain_db = {} /\ Count = 0
    BY <1>1, FS_EmptySet DEF DriftInv, FirstLife, Count
  <2>3. TreeInv' /\ GlobalsClose'
    BY <1>1, <2>1 DEF DriftInv, TreeInv, GlobalsClose, Writing
  <2>4. crashes = 0 => FirstLife'
    BY <1>1, <1>2, <2>1, <2>2 DEF DriftInv, FirstLife
  <2> QED
    BY <1>1, <2>1, <2>3, <2>4 DEF DriftInv
<1> QED
  BY <1>3, <1>4

\* A block is offered on top of the last one.
LEMMA AddDrifts ==
  ASSUME StoreInv, DriftInv, Add
  PROVE  DriftInv'
<1>1. PICK hash \in FreshHashes, prev \in {b.hash : b \in blockchain_db} \cup {ZeroHash, Garbage} :
        LET b == [hash |-> hash, prev |-> prev, txs |-> <<>>]
        IN  ValidatePrevBlockExists(b) = 0 /\ StartAdd(b)
  BY DEF Add
<1>2. /\ ~Found(hash) /\ Found(prev) /\ prev = top_block_header_hash
      /\ chain_pc = "ready" /\ chain_pc' = "put"
      /\ adding'.hash = hash /\ adding'.prev = prev
      /\ UNCHANGED <<blockchain_db, height_file, top_file, chain_height, crashes>>
  BY <1>1 DEF FreshHashes, ValidatePrevBlockExists, StartAdd, diskVars, Add
<1>3. Found(Genesis) /\ height_file = chain_height /\ top_file = prev
  BY <1>2 DEF StoreInv, ReadyInv
<1>4. hash # Genesis
  BY <1>2, <1>3
<1>5. adding' # GenesisBlock
  BY <1>2, <1>4 DEF GenesisBlock
<1>6. TreeInv'
  BY <1>2, <1>4 DEF DriftInv, TreeInv, Found
<1>7. crashes <= 1 => GlobalsClose'
  <2>1. crashes <= 1 => chain_height - DepthIn(blockchain_db, prev) \in Drifts
    BY <1>2 DEF DriftInv, GlobalsClose, D
  <2> QED
    BY <1>2, <2>1 DEF GlobalsClose, Writing, D, Drifts
<1>8. crashes = 0 => FirstLife'
  BY <1>2, <1>3, <1>5 DEF DriftInv, FirstLife, Found, Count
<1> QED
  BY <1>2, <1>6, <1>7, <1>8 DEF DriftInv

\* The put: the tree and the height grow by one, or the genesis block is put
\* again and changes nothing.
LEMMA PutDrifts ==
  ASSUME StoreInv, DriftInv, Step, PutBlock
  PROVE  DriftInv'
<1> DEFINE db == blockchain_db
<1>1. /\ chain_pc = "put" /\ chain_pc' = "empty_height"
      /\ blockchain_db' = db \cup {adding} /\ chain_height' = chain_height + 1
      /\ UNCHANGED <<height_file, top_file, top_block_header_hash, adding, crashes>>
  BY DEF Step, PutBlock
<1>2. chain_height \in Nat /\ IsFiniteSet(db) /\ Count \in Nat /\ Linked(db) /\ Measured(db)
  BY CountIsNat DEF StoreInv, BlocksInv, DriftInv, TreeInv
<1>3. Count' = IF adding \in db THEN Count ELSE Count + 1
  BY <1>1, <1>2, FS_AddElement DEF Count
<1>4. CASE adding = GenesisBlock
  <2>1. adding.hash = Genesis /\ GenesisBlock \in blockchain_db'
    BY <1>1, <1>4 DEF GenesisBlock
  <2>2. Linked(blockchain_db') /\ Measured(blockchain_db')
    <3>1. CASE db = {}
      <4>1. blockchain_db' = {GenesisBlock}
        BY <1>1, <1>4, <3>1
      <4> QED
        BY <4>1, GenesisMeasured
    <3>2. CASE db # {}
      <4>1. blockchain_db' = db
        BY <1>1, <1>4, <3>2 DEF DriftInv, TreeInv
      <4> QED
        BY <1>2, <4>1
    <3> QED
      BY <3>1, <3>2
  <2>3. DepthIn(blockchain_db', Genesis) = 0
    <3>1. Genesis \in HashesIn(blockchain_db')
      BY <2>1, <1>4 DEF HashesIn
    <3> QED
      BY <2>2, <3>1, GenesisDepth
  <2>4. TreeInv'
    BY <1>1, <2>1, <2>2 DEF TreeInv
  <2>5. crashes <= 1 => GlobalsClose'
    <3>1. chain_height = 0
      BY <1>1, <2>1, <1>4 DEF StoreInv, PutInv
    <3> QED
      BY <1>1, <2>1, <2>3, <3>1 DEF GlobalsClose, Writing, D, Drifts
  <2>6. crashes = 0 => FirstLife'
    <3> SUFFICES ASSUME crashes = 0 PROVE FirstLife'
      OBVIOUS
    <3>1. db = {} /\ height_file = Absent /\ top_file = Absent /\ chain_height = Count
      BY <1>1, <1>4 DEF DriftInv, FirstLife
    <3> QED
      BY <1>1, <1>3, <2>1, <3>1 DEF FirstLife
  <2> QED
    BY <1>1, <2>4, <2>5, <2>6 DEF DriftInv
<1>5. CASE adding # GenesisBlock
  <2>1. adding.hash \notin HashesIn(db) /\ adding.hash # Genesis /\ adding.prev \in HashesIn(db)
    BY <1>1, <1>5, FoundIsIn DEF DriftInv, TreeInv
  <2>2. /\ Linked(blockchain_db') /\ Measured(blockchain_db')
        /\ \A h \in HashesIn(db) : DepthIn(blockchain_db', h) = DepthIn(db, h)
        /\ DepthIn(blockchain_db', adding.hash) = 1 + DepthIn(db, adding.prev)
    <3> HIDE DEF db
    <3> QED
      BY <1>1, <1>2, <2>1, OneMoreMeasured
  <2>3. DepthIn(db, adding.prev) \in Nat
    BY <1>2, <2>1, DepthIsNat
  <2>4. db # {} /\ adding \notin db
    BY <2>1 DEF HashesIn
  <2>5. TreeInv'
    BY <1>1, <2>2, <2>4 DEF DriftInv, TreeInv
  <2>6. crashes <= 1 => GlobalsClose'
    <3> SUFFICES ASSUME crashes <= 1 PROVE GlobalsClose'
      OBVIOUS
    <3>1. chain_height - DepthIn(db, adding.prev) \in Drifts
      BY <1>1, <1>5 DEF DriftInv, GlobalsClose, D
    <3>2. chain_height' - DepthIn(blockchain_db', adding.hash) \in Drifts
      BY <1>1, <1>2, <2>2, <2>3, <3>1
    <3> QED
      BY <1>1, <3>2 DEF GlobalsClose, Writing, D, Drifts
  <2>7. crashes = 0 => FirstLife'
    <3> SUFFICES ASSUME crashes = 0 PROVE FirstLife'
      OBVIOUS
    <3>1. top_file = adding.prev /\ height_file = chain_height /\ chain_height = Count
      BY <1>1, <2>4 DEF DriftInv, FirstLife
    <3>2. chain_height - DepthIn(db, adding.prev) = 1
      BY <1>1, <1>5 DEF DriftInv, GlobalsClose, D, Drifts
    <3>3. DepthIn(blockchain_db', top_file) = chain_height' - 2
      <4>1. DepthIn(blockchain_db', adding.prev) = DepthIn(db, adding.prev)
        BY <2>1, <2>2
      <4> HIDE DEF db
      <4> QED
        BY <1>1, <1>2, <2>3, <3>1, <3>2, <4>1
    <3>4. Found(top_file)'
      BY <1>1, <2>1, <3>1 DEF Found, HashesIn
    <3>5. /\ blockchain_db' # {} /\ Count' = chain_height' /\ height_file' = chain_height' - 1
          /\ D(top_file)' = chain_height' - 2
      BY <1>1, <1>2, <1>3, <2>4, <3>1, <3>3 DEF D
    <3> QED
      BY <1>1, <3>4, <3>5 DEF FirstLife
  <2> QED
    BY <1>1, <2>5, <2>6, <2>7 DEF DriftInv
<1> QED
  BY <1>4, <1>5

\* The four writes of the two files.
LEMMA WriteDrifts ==
  ASSUME StoreInv, DriftInv, Step, ~PutBlock
  PROVE  DriftInv'
<1>1. /\ UNCHANGED <<blockchain_db, chain_height, adding, crashes>>
      /\ Writing /\ (Writing' \/ chain_pc' = "ready")
      /\ chain_pc \notin {"down", "refused", "put"} /\ chain_pc' \notin {"down", "refused", "put"}
      /\ chain_pc' = "ready" => chain_pc = "write_top" /\ top_block_header_hash' = top_block_header_hash
  BY DEF Step, AddStep, EmptyHeightFile, WriteHeightFile, EmptyTopFile, WriteTopFile, Writing
<1>2. \A h : DepthIn(blockchain_db', h) = DepthIn(blockchain_db, h)
  BY <1>1
<1>3. TreeInv'
  BY <1>1 DEF DriftInv, TreeInv
<1>4. crashes <= 1 => GlobalsClose'
  <2> SUFFICES ASSUME crashes <= 1 PROVE GlobalsClose'
    OBVIOUS
  <2>1. chain_height' - DepthIn(blockchain_db', adding'.hash) \in Drifts
    BY <1>1 DEF DriftInv, GlobalsClose, D
  <2>2. chain_pc' = "ready" => top_block_header_hash' = adding'.hash
    BY <1>1 DEF StoreInv, WriteInv
  <2> QED
    BY <1>1, <2>1, <2>2 DEF GlobalsClose, D, Drifts
<1>5. crashes = 0 => FirstLife'
  <2> SUFFICES ASSUME crashes = 0 PROVE FirstLife'
    OBVIOUS
  <2>1. FirstLife /\ blockchain_db # {}
    BY <1>1 DEF DriftInv, StoreInv, WriteInv, Writing, Found
  <2>2. Count' = Count /\ blockchain_db' # {} /\ chain_height' = Count'
    BY <1>1, <2>1 DEF FirstLife, Count
  <2>3. chain_pc' \in {"empty_height", "write_height", "empty_top"} =>
          /\ chain_pc \in {"empty_height", "write_height"} /\ top_file' = top_file
          /\ chain_pc' # "empty_height"
    BY DEF Step, AddStep, EmptyHeightFile, WriteHeightFile, EmptyTopFile, WriteTopFile
  <2>4. chain_pc' \in {"empty_height", "write_height", "empty_top"} =>
          top_file' = Absent \/ (Found(top_file)' /\ D(top_file)' = chain_height' - 2)
    BY <1>1, <2>1, <2>3 DEF FirstLife, Found, D
  <2>5. /\ chain_pc' = "write_height" => height_file' = Empty
        /\ chain_pc' = "write_top" => top_file' = Empty
    BY DEF Step, AddStep, EmptyHeightFile, WriteHeightFile, EmptyTopFile, WriteTopFile
  <2> QED
    BY <1>1, <2>2, <2>3, <2>4, <2>5 DEF FirstLife
<1> QED
  BY <1>1, <1>3, <1>4, <1>5 DEF DriftInv

\* The first kill leaves files that are at most one block apart.
LEMMA CrashDrifts ==
  ASSUME StoreInv, TypeOK, DriftInv, Crash
  PROVE  DriftInv'
<1>1. /\ UNCHANGED <<blockchain_db, height_file, top_file>>
      /\ chain_pc \notin {"down", "refused"} /\ chain_pc' = "down"
      /\ crashes' = crashes + 1 /\ crashes \in Nat
  BY DEF Crash, ChainCrash, diskVars, DriftInv
<1>2. TreeInv'
  BY <1>1 DEF DriftInv, TreeInv
<1>3. crashes = 0 => FilesClose
  <2> SUFFICES ASSUME crashes = 0, height_file \notin {Absent, Empty}, top_file \notin {Absent, Empty}
               PROVE  height_file - D(top_file) \in {1, 2}
    BY DEF FilesClose
  <2>1. FirstLife /\ GlobalsClose /\ Drifts = {1} /\ chain_height \in Nat
    BY DEF DriftInv, StoreInv, Drifts
  <2>2. Found(top_file) /\ D(top_file) \in Nat
    BY FoundIsIn, DepthIsNat DEF StoreInv, FilesInv, DriftInv, TreeInv, D
  <2>3. CASE chain_pc = "put"
    <3>1. adding # GenesisBlock /\ top_file = adding.prev /\ height_file = chain_height
      BY <2>1, <2>3 DEF FirstLife
    <3> QED
      BY <2>1, <2>3, <3>1 DEF GlobalsClose
  <2>4. CASE chain_pc = "empty_height"
    BY <2>1, <2>2, <2>4 DEF FirstLife
  <2>5. CASE chain_pc = "empty_top"
    BY <2>1, <2>2, <2>5 DEF FirstLife, StoreInv, WriteInv
  <2>6. CASE chain_pc = "ready"
    BY <2>1, <2>6 DEF GlobalsClose, StoreInv, ReadyInv
  <2>7. chain_pc \notin {"write_height", "write_top"}
    BY <2>1 DEF FirstLife
  <2> QED
    BY <1>1, <2>3, <2>4, <2>5, <2>6, <2>7 DEF TypeOK, ChainPcs
<1>4. crashes = 0 => FilesClose'
  BY <1>1, <1>3 DEF FilesClose, D
<1>5. GlobalsClose'
  BY <1>1 DEF GlobalsClose, Writing
<1> QED
  BY <1>1, <1>2, <1>4, <1>5 DEF DriftInv

LEMMA DriftNext == StoreInv /\ TypeOK /\ DriftInv /\ [Next]_vars => DriftInv'
<1> SUFFICES ASSUME StoreInv, TypeOK, DriftInv, [Next]_vars PROVE DriftInv'
  OBVIOUS
<1>1. CASE Boot
  BY <1>1, BootDrifts
<1>2. CASE Add
  BY <1>2, AddDrifts
<1>3. CASE Step
  BY <1>3, PutDrifts, WriteDrifts
<1>4. CASE Crash
  BY <1>4, CrashDrifts
<1>5. CASE UNCHANGED vars
  <2>1. UNCHANGED <<blockchain_db, height_file, top_file, chain_height,
                    top_block_header_hash, adding, chain_pc, crashes>>
    BY <1>5 DEF vars, chainVars
  <2>2. Count' = Count /\ (\A h : Found(h)' <=> Found(h)) /\ \A h : D(h)' = D(h)
    BY <2>1 DEF Count, Found, D
  <2> QED
    BY <2>1, <2>2
    DEF DriftInv, TreeInv, GlobalsClose, FilesClose, FirstLife, Writing, Drifts, D, Found
<1> QED
  BY <1>1, <1>2, <1>3, <1>4, <1>5 DEF Next

\* chain_height is exact until the first kill and at most one too high after it.
THEOREM StoreHeightDrift == Spec => []HeightDrift
<1>1. ASSUME StoreInv, DriftInv
      PROVE  HeightDrift
  <2>1. SUFFICES ASSUME Ready, crashes <= 1
                 PROVE  /\ chain_height - Depth(top_block_header_hash) \in Drifts
                        /\ crashes = 0 => chain_height = Count
                        /\ chain_height \in Nat /\ Depth(top_block_header_hash) \in Nat
    BY <1>1 DEF HeightDrift, DriftInv, Drifts
  <2>2. chain_height - Depth(top_block_header_hash) \in Drifts
    BY <1>1, <2>1, DepthIsIn DEF DriftInv, GlobalsClose, Ready, D
  <2>3. crashes = 0 => chain_height = Count
    BY <1>1, <2>1 DEF DriftInv, FirstLife, Ready
  <2>4. Found(top_block_header_hash) /\ chain_height \in Nat
    BY <1>1, <2>1 DEF StoreInv, ReadyInv, Ready
  <2>5. Depth(top_block_header_hash) \in Nat
    BY <1>1, <2>4, FoundIsIn, DepthIsNat, DepthIsIn DEF DriftInv, TreeInv
  <2> QED
    BY <2>2, <2>3, <2>4, <2>5
<1>2. Init => DriftInv
  BY DriftInit
<1>3. StoreInv /\ TypeOK /\ DriftInv /\ [Next]_vars => DriftInv'
  BY DriftNext
<1> QED
  BY <1>1, <1>2, <1>3, StoreInvariant, StoreTypeCorrect, PTL DEF Spec
=============================================================================

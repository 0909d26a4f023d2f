--------------------------- MODULE MCChainStore ---------------------------
(* Instance of ChainStore: block hashes are the numbers from 0 up.         *)
EXTENDS ChainStore

MCGenesis == 0
NoNewlines == {}
FirstHashHasNewline == {1}
OneHashHasNewline == {3}
=============================================================================

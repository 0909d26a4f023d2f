------------------------------- MODULE MCNode -------------------------------
(* Instance of Node: amounts of 8 bits, unsigned int of 4, a block reward   *)
(* of 4; block hashes and transaction ids are small numbers.               *)
EXTENDS Node

MCGenesis == 0
NoNewlines == {}
=============================================================================

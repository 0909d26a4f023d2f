------------------------------ MODULE MCPeers ------------------------------
(* Instance of Peers, with the numbers of MCNode.                           *)
EXTENDS Peers

MCGenesis == 0
NoNewlines == {}
=============================================================================

----------------------------- MODULE MCMempool -----------------------------
(***************************************************************************)
(* Instance of Mempool: three outputs and seven transactions that overlap  *)
(* in every way that matters: disjoint, sharing one of two outputs in      *)
(* either position, repeating an input, without inputs.                    *)
(***************************************************************************)
EXTENDS Mempool

CONSTANTS out1, out2, out3,
          MAX_BLOCK_TXS   \* longest transaction list of a block

Tx(id, outs) ==
  [id |-> id, inputs |-> [k \in DOMAIN outs |-> [prev |-> outs[k]]]]

MCTxs ==
  { Tx(1, <<out1>>),       Tx(2, <<out2>>),  Tx(3, <<out1, out2>>),
    Tx(4, <<out2, out3>>), Tx(5, <<out3, out3>>), Tx(6, <<>>),
    Tx(7, <<out3, out1>>) }

MCBlocks == UNION {[1..n -> MCTxs] : n \in 1..MAX_BLOCK_TXS}
=============================================================================

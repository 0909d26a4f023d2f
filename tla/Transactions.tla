---------------------------- MODULE Transactions ----------------------------
(***************************************************************************)
(* The pure part of the node: amounts and their C widths, fees, and the    *)
(* validation of transactions against a UTXO pool.                         *)
(* (blocks/create_block.c, txs/validate_tx.c, globals/double_spend_set.c,  *)
(* blocks/validate_block.c)                                                *)
(*                                                                         *)
(* transaction: [id, inputs, outputs]                                      *)
(*   id       its hash                                                     *)
(*   inputs   sequence of [prev, key, signed]: the outpoint <<id, vout>>   *)
(*            it spends, the hash of the public key it shows, whether its  *)
(*            signature over the blanked transaction is that key's         *)
(*   outputs  sequence of [amt, key]; vout counts from 0 as in the code    *)
(* UTXO pool: function from outpoints to [amt, key].                       *)
(***************************************************************************)
EXTENDS Integers, Sequences, FiniteSets, SequencesExt

CONSTANTS
  ULONG_MOD,       \* 2^64 in the code: amounts are unsigned long
  UINT_MOD,        \* 2^32 in the code: unsigned int
  BLOCK_REWARD,    \* constants.h
  DESIRED_NUM_TX   \* constants.h

ASSUME WidthAssumption ==
  /\ UINT_MOD \in Nat \ {0} /\ ULONG_MOD \in Nat \ {0}
  /\ UINT_MOD < ULONG_MOD
ASSUME RewardAssumption == BLOCK_REWARD \in 1..(UINT_MOD - 1)
ASSUME TargetAssumption == DESIRED_NUM_TX \in Nat \ {0}

Ulong(n) == n % ULONG_MOD
Uint(n)  == n % UINT_MOD

\* for(...) total += amount(e), over the elements of a sequence.
Total(amount(_), s) == FoldLeft(LAMBDA acc, e : acc + amount(e), 0, s)

SpentOutpoints(tx) == {tx.inputs[k].prev : k \in DOMAIN tx.inputs}
Outpoint(tx, n)    == <<tx.id, n - 1>>     \* of the n-th output, n from 1

TotalIn(tx, pool) == Ulong(Total(LAMBDA in : pool[in.prev].amt, tx.inputs))
TotalOut(tx)      == Ulong(Total(LAMBDA out : out.amt, tx.outputs))

-----------------------------------------------------------------------------
(* Fees and the coinbase.                                                  *)

\* What "the transaction fees" of create_block.h means: what goes in and does
\* not come out.  A reference definition; the code computes CalcTxFees.
TrueFee(tx, pool) == TotalIn(tx, pool) - TotalOut(tx)

\* calc_tx_fees exits the process when an input is not in the UTXO pool.
FeesComputable(tx, pool) == SpentOutpoints(tx) \subseteq DOMAIN pool

\* calc_tx_fees: the loop over the outputs adds tx->outputs->amt, the FIRST
\* output's amount, each time round; the result is cut to unsigned int.
CalcTxFees(tx, pool) ==
  LET total_out == IF tx.outputs = <<>> THEN 0
                   ELSE Len(tx.outputs) * tx.outputs[1].amt
  IN  Uint(Ulong(TotalIn(tx, pool) - total_out))

\* get_txs_from_mempool adds the fees up in an unsigned long,
MinerFees(txs, pool) == Ulong(Total(LAMBDA tx : CalcTxFees(tx, pool), txs))

\* validate_coinbase_tx in an unsigned int.
ValidatorFees(txs, pool) == Uint(Total(LAMBDA tx : CalcTxFees(tx, pool), txs))

\* create_coinbase_tx(fees)
CoinbaseAmount(fees) == Ulong(fees + BLOCK_REWARD)

-----------------------------------------------------------------------------
(* Validation of a transaction; results are the codes the C functions      *)
(* return, 0 for valid.                                                    *)

\* Mutant of ValidateInput: the signature is not looked at.
ValidateInputUnsigned(in, pool) ==
  IF in.prev \in DOMAIN pool /\ pool[in.prev].key = in.key THEN 0 ELSE 1

\* validate_input
ValidateInput(in, pool) ==
  CASE in.prev \notin DOMAIN pool         -> 1
    [] in.prev \in DOMAIN pool /\ pool[in.prev].key # in.key -> 1
    [] OTHER -> IF in.signed THEN 0 ELSE 2

\* validate_tx_shared.  A sequence is never a null pointer: the codes for
\* NULL inputs and outputs are left out.
ValidateTxShared(tx, pool) ==
  CASE tx.inputs = <<>> \/ tx.outputs = <<>> -> 1
    [] OTHER ->
       IF \E k \in DOMAIN tx.inputs : ValidateInput(tx.inputs[k], pool) # 0 THEN 2
       ELSE IF TotalIn(tx, pool) < TotalOut(tx) THEN 4 ELSE 0

\* validate_coinbase_tx: txs is the block's list, the coinbase in front.
ValidateCoinbaseTx(txs, pool) ==
  IF txs[1].inputs # <<>> \/ Len(txs[1].outputs) # 1 THEN 1
  ELSE IF Ulong(ValidatorFees(Tail(txs), pool) + BLOCK_REWARD) # txs[1].outputs[1].amt
       THEN 2 ELSE 0

\* validate_incoming_block_txs
ValidateIncomingBlockTxs(txs, pool) ==
  IF \E i \in 2..Len(txs) : ValidateTxShared(txs[i], pool) # 0 THEN 1
  ELSE IF ValidateCoinbaseTx(txs, pool) # 0 THEN 2 ELSE 0

-----------------------------------------------------------------------------
(* Double spends.                                                          *)

\* double_spend_add(set, out).  The head of the hash table is a parameter
\* passed by value: HASH_ADD on it does not reach the caller, whose set stays
\* what it was.
DoubleSpendAdd(set, out) ==
  [ret |-> IF out \in set THEN 1 ELSE 0, set |-> set]

\* The loop of check_tx_double_spent, and of validate_block_double_spend: stop
\* at the first outpoint that is reported as already there.
DoubleSpendLoop(outs) ==
  FoldLeft(LAMBDA acc, out : IF acc.ret # 0 THEN acc
                             ELSE DoubleSpendAdd(acc.set, out),
           [ret |-> 0, set |-> {}], outs).ret

InputList(tx) == [k \in DOMAIN tx.inputs |-> tx.inputs[k].prev]

CheckTxDoubleSpent(tx) == DoubleSpendLoop(InputList(tx))
=============================================================================

--------------------------- MODULE Mempool_proofs ---------------------------
(***************************************************************************)
(* Proofs about Mempool, for every set of transactions and of blocks.      *)
(*                                                                         *)
(* MappingExact and NoConflicts are not inductive.  MempoolInv adds what   *)
(* they rest on: ids are distinct (so a mapping has one owner), a pending  *)
(* transaction never repeats an input (the hard exit catches it), and the  *)
(* loop invariant of update_mempool.                                       *)
(***************************************************************************)
EXTENDS Mempool, SequenceTheorems, TLAPS

MempoolInv ==
  /\ TypeOK
  /\ DistinctIds
  /\ NoRepeats
  /\ MappingExact
  /\ VisitedUnmapped

-----------------------------------------------------------------------------
(* Lemmas about sequences and about the inputs of a transaction.           *)

\* What is left of a sequence after RemoveAt: the elements before the removed
\* one stay, those after it move one place to the front.
LEMMA RemoveAtFacts ==
  ASSUME NEW S, NEW s \in Seq(S), NEW i \in DOMAIN s
  PROVE  /\ RemoveAt(s, i) \in Seq(S)
         /\ Len(RemoveAt(s, i)) = Len(s) - 1
         /\ DOMAIN RemoveAt(s, i) = 1..(Len(s) - 1)
         /\ \A j \in 1..(Len(s) - 1) :
              RemoveAt(s, i)[j] = IF j < i THEN s[j] ELSE s[j+1]
<1> DEFINE front == SubSeq(s, 1, i-1)
           back  == SubSeq(s, i+1, Len(s))
<1>1. /\ front \in Seq(S) /\ Len(front) = i - 1
      /\ \A j \in 1..(i-1) : front[j] = s[j]
  OBVIOUS
<1>2. /\ back \in Seq(S) /\ Len(back) = Len(s) - i
      /\ \A j \in 1..(Len(s) - i) : back[j] = s[j+i]
  OBVIOUS
<1> HIDE DEF front, back
<1>3. /\ front \o back \in Seq(S)
      /\ Len(front \o back) = Len(front) + Len(back)
      /\ \A j \in 1..(Len(front) + Len(back)) :
           (front \o back)[j] =
             IF j <= Len(front) THEN front[j] ELSE back[j - Len(front)]
  BY <1>1, <1>2, ConcatProperties
<1>4. i \in 1..Len(s) /\ Len(s) \in Nat
  OBVIOUS
<1>5. ASSUME NEW j \in 1..(Len(s) - 1)
      PROVE  (front \o back)[j] = IF j < i THEN s[j] ELSE s[j+1]
  <2>1. CASE j < i
    BY <1>1, <1>2, <1>3, <1>4, <2>1
  <2>2. CASE ~(j < i)
    <3>0. j \in 1..(Len(front) + Len(back)) /\ ~(j <= Len(front))
      BY <1>1, <1>2, <1>4, <2>2
    <3>1. (front \o back)[j] = back[j - Len(front)]
      BY <1>3, <3>0
    <3>2. j - (i-1) \in 1..(Len(s) - i) /\ (j - (i-1)) + i = j + 1
      BY <1>4, <2>2
    <3> QED
      BY <1>1, <1>2, <2>2, <3>1, <3>2
  <2> QED
    BY <2>1, <2>2
<1>6. RemoveAt(s, i) = front \o back
  BY DEF RemoveAt, front, back
<1>7. /\ RemoveAt(s, i) \in Seq(S)
      /\ Len(RemoveAt(s, i)) = Len(s) - 1
  BY <1>1, <1>2, <1>3, <1>4, <1>6
<1> QED
  BY <1>5, <1>6, <1>7, LenProperties

\* The inputs of a transaction are numbered from 1.
LEMMA InputsAreSequences ==
  ASSUME NEW tx \in Txs
  PROVE  /\ Len(tx.inputs) \in Nat
         /\ DOMAIN tx.inputs = 1..Len(tx.inputs)
  BY TxsAssumption, LenProperties

\* mempool_add lets the process live only if no input of the transaction is
\* claimed, by another transaction or by the transaction itself.
LEMMA AddedTxFits ==
  ASSUME NEW tx \in Txs, MappedInputs(tx) = DOMAIN tx.inputs
  PROVE  /\ Outpoints(tx) \cap DOMAIN utxo_to_tx = {}
         /\ \A k, l \in DOMAIN tx.inputs :
              tx.inputs[k].prev = tx.inputs[l].prev => k = l
<1>1. ASSUME NEW k \in DOMAIN tx.inputs
      PROVE  /\ tx.inputs[k].prev \notin DOMAIN utxo_to_tx
             /\ \A j \in 1..(k-1) : tx.inputs[j].prev # tx.inputs[k].prev
  <2>1. k \in 1..k
    BY InputsAreSequences
  <2>2. ~Taken(tx, k)
    BY <2>1 DEF MappedInputs
  <2> QED
    BY <2>2 DEF Taken
<1>2. ASSUME NEW k \in DOMAIN tx.inputs, NEW l \in DOMAIN tx.inputs,
             tx.inputs[k].prev = tx.inputs[l].prev, k # l
      PROVE  FALSE
  <2>1. k \in 1..(l-1) \/ l \in 1..(k-1)
    BY <1>2, InputsAreSequences
  <2> QED
    BY <1>1, <1>2, <2>1
<1> QED
  BY <1>1, <1>2 DEF Outpoints

-----------------------------------------------------------------------------
(* The invariant: one lemma per operation on the tables.                   *)

\* mempool_add keeps the tables in step, or kills the process.
LEMMA AddPreserves ==
  ASSUME NEW tx \in Txs, MempoolInv, ~exited, UpdateDone, MempoolAdd(tx),
         UNCHANGED loopVars
  PROVE  MempoolInv'
<1> USE DEF MempoolInv
<1>1. CASE InMempool(tx.id)
  BY <1>1 DEF MempoolAdd, poolVars, loopVars, TypeOK, DistinctIds, NoRepeats,
     MappingExact, VisitedUnmapped, UpdateDone, Visited
<1>2. CASE ~InMempool(tx.id)
  <2> DEFINE n   == Len(mempool)
             new == {tx.inputs[k].prev : k \in MappedInputs(tx)}
  <2>1. /\ mempool' = Append(mempool, tx)
        /\ utxo_to_tx' = [out \in DOMAIN utxo_to_tx \cup new |->
                            IF out \in new THEN tx.id ELSE utxo_to_tx[out]]
        /\ exited' = (MappedInputs(tx) # DOMAIN tx.inputs)
    BY <1>2 DEF MempoolAdd, UtxoToTxAddTx
  <2>2. new \subseteq Outpoints(tx)
    BY DEF MappedInputs, Outpoints
  <2>3. /\ n \in Nat /\ DOMAIN mempool = 1..n
        /\ DOMAIN mempool' = 1..(n+1)
        /\ mempool' \in Seq(Txs)
        /\ \A i \in 1..n : mempool'[i] = mempool[i]
        /\ mempool'[n+1] = tx
    BY <2>1, AppendProperties, LenProperties DEF TypeOK
  <2>4. TypeOK'
    <3>1. /\ DOMAIN utxo_to_tx' \subseteq AllOutpoints
          /\ utxo_to_tx' \in [DOMAIN utxo_to_tx' -> TxIds]
      BY <2>1, <2>2 DEF TypeOK, AllOutpoints, TxIds
    <3>2. exited' \in BOOLEAN
      BY <2>1
    <3> QED
      BY <2>3, <3>1, <3>2 DEF TypeOK, loopVars
  <2>5. DistinctIds'
    <3>1. \A i \in 1..n : mempool[i].id # tx.id
      BY <1>2, <2>3 DEF InMempool
    <3>2. \A i, j \in 1..n : mempool[i].id = mempool[j].id => i = j
      BY <2>3 DEF DistinctIds
    <3>3. ASSUME NEW i \in 1..(n+1), NEW j \in 1..(n+1),
                 mempool'[i].id = mempool'[j].id
          PROVE  i = j
      <4>1. (i \in 1..n \/ i = n+1) /\ (j \in 1..n \/ j = n+1)
        BY <2>3
      <4> QED
        BY <2>3, <3>1, <3>2, <3>3, <4>1
    <3> QED
      BY <2>3, <3>3 DEF DistinctIds
  <2>6. VisitedUnmapped'
    BY DEF UpdateDone, VisitedUnmapped, loopVars
  <2>7. CASE exited'
    BY <2>4, <2>5, <2>6, <2>7 DEF NoRepeats, MappingExact
  <2>8. CASE ~exited'
    <3>1. /\ MappedInputs(tx) = DOMAIN tx.inputs
          /\ new = Outpoints(tx)
      BY <2>1, <2>8 DEF Outpoints
    <3>2. /\ Outpoints(tx) \cap DOMAIN utxo_to_tx = {}
          /\ \A k, l \in DOMAIN tx.inputs :
               tx.inputs[k].prev = tx.inputs[l].prev => k = l
      BY <3>1, AddedTxFits
    <3>3. /\ DOMAIN utxo_to_tx' = DOMAIN utxo_to_tx \cup Outpoints(tx)
          /\ \A out \in Outpoints(tx) : utxo_to_tx'[out] = tx.id
          /\ \A out \in DOMAIN utxo_to_tx : utxo_to_tx'[out] = utxo_to_tx[out]
      BY <2>1, <3>1, <3>2
    <3>4. NoRepeats'
      <4>1. ASSUME NEW i \in 1..(n+1),
                   NEW k \in DOMAIN mempool'[i].inputs,
                   NEW l \in DOMAIN mempool'[i].inputs,
                   mempool'[i].inputs[k].prev = mempool'[i].inputs[l].prev
            PROVE  k = l
        <5>1. CASE i \in 1..n
          BY <2>3, <4>1, <5>1 DEF NoRepeats
        <5>2. CASE i = n+1
          BY <2>3, <3>2, <4>1, <5>2
        <5> QED
          BY <2>3, <5>1, <5>2
      <4> QED
        BY <2>3, <4>1 DEF NoRepeats
    <3>5. MappingExact'
      <4>1. ASSUME NEW i \in 1..(n+1), NEW out \in Outpoints(mempool'[i])
            PROVE  out \in DOMAIN utxo_to_tx' /\ utxo_to_tx'[out] = mempool'[i].id
        <5>1. CASE i \in 1..n
          BY <2>3, <3>3, <5>1 DEF MappingExact
        <5>2. CASE i = n+1
          BY <2>3, <3>3, <5>2
        <5> QED
          BY <2>3, <5>1, <5>2
      <4>2. ASSUME NEW out \in DOMAIN utxo_to_tx'
            PROVE  \E i \in 1..(n+1) : /\ mempool'[i].id = utxo_to_tx'[out]
                                       /\ out \in Outpoints(mempool'[i])
        <5>1. CASE out \in Outpoints(tx)
          BY <2>3, <3>3, <5>1
        <5>2. CASE out \in DOMAIN utxo_to_tx
          <6>1. PICK i \in DOMAIN mempool : /\ mempool[i].id = utxo_to_tx[out]
                                            /\ out \in Outpoints(mempool[i])
            BY <5>2 DEF MappingExact
          <6> QED
            BY <2>3, <3>3, <5>2, <6>1
        <5> QED
          BY <3>3, <5>1, <5>2
      <4> QED
        BY <2>3, <4>1, <4>2 DEF MappingExact, Outpoints
    <3> QED
      BY <2>4, <2>5, <2>6, <3>4, <3>5
  <2> QED
    BY <2>7, <2>8
<1> QED
  BY <1>1, <1>2

\* mempool_remove, called for the owner of a mapped outpoint: exactly one
\* transaction goes, and exactly its outpoints are unmapped.
LEMMA RemovePreserves ==
  ASSUME MempoolInv, ~exited,
         NEW out \in DOMAIN utxo_to_tx, MempoolRemove(utxo_to_tx[out])
  PROVE  /\ mempool' \in Seq(Txs)
         /\ utxo_to_tx' \in [DOMAIN utxo_to_tx' -> TxIds]
         /\ DOMAIN utxo_to_tx' \subseteq DOMAIN utxo_to_tx \ {out}
         /\ exited' = exited
         /\ DistinctIds' /\ NoRepeats' /\ MappingExact'
         /\ ToSet(mempool') = {tx \in ToSet(mempool) : out \notin Outpoints(tx)}
<1> USE DEF MempoolInv
<1> DEFINE n == Len(mempool)
<1>1. n \in Nat /\ DOMAIN mempool = 1..n
  BY LenProperties DEF TypeOK
<1>2. PICK o \in 1..n : mempool[o].id = utxo_to_tx[out] /\ out \in Outpoints(mempool[o])
  BY <1>1 DEF MappingExact
<1>3. PICK i \in 1..n :
        /\ mempool[i].id = utxo_to_tx[out]
        /\ mempool' = RemoveAt(mempool, i)
        /\ utxo_to_tx' = [u \in DOMAIN utxo_to_tx \ Outpoints(mempool[i]) |->
                            utxo_to_tx[u]]
        /\ exited' = exited
  BY <1>1, <1>2 DEF MempoolRemove, InMempool
<1>4. out \in Outpoints(mempool[i])
  BY <1>1, <1>2, <1>3 DEF DistinctIds
<1> DEFINE old(j) == IF j < i THEN j ELSE j + 1
<1>5. /\ mempool' \in Seq(Txs)
      /\ DOMAIN mempool' = 1..(n-1)
      /\ \A j \in 1..(n-1) : mempool'[j] = mempool[old(j)]
  BY <1>1, <1>3, RemoveAtFacts DEF TypeOK
<1>6. \A j \in 1..(n-1) : old(j) \in 1..n /\ old(j) # i
  BY <1>1
<1>7. \A j, k \in 1..(n-1) : old(j) = old(k) => j = k
  BY <1>1
<1>8. \A m \in 1..n : m # i => \E j \in 1..(n-1) : old(j) = m
  <2> SUFFICES ASSUME NEW m \in 1..n, m # i
               PROVE  \E j \in 1..(n-1) : old(j) = m
    OBVIOUS
  <2>1. CASE m < i
    BY <1>1, <2>1
  <2>2. CASE m > i
    <3>1. m - 1 \in 1..(n-1) /\ old(m-1) = m
      BY <1>1, <2>2
    <3> QED
      BY <3>1
  <2> QED
    BY <1>1, <2>1, <2>2
<1> HIDE DEF old
\* Nobody else spends what the removed transaction spends.
<1>9. ASSUME NEW m \in 1..n, m # i
      PROVE  Outpoints(mempool[m]) \cap Outpoints(mempool[i]) = {}
  BY <1>1, <1>9 DEF MappingExact, DistinctIds
<1>10. /\ utxo_to_tx' \in [DOMAIN utxo_to_tx' -> TxIds]
       /\ DOMAIN utxo_to_tx' \subseteq DOMAIN utxo_to_tx \ {out}
  BY <1>3, <1>4 DEF TypeOK
<1>11. DistinctIds'
  BY <1>1, <1>5, <1>6, <1>7 DEF DistinctIds
<1>12. NoRepeats'
  BY <1>1, <1>5, <1>6 DEF NoRepeats
<1>13. MappingExact'
  <2>1. ASSUME NEW j \in 1..(n-1), NEW u \in Outpoints(mempool'[j])
        PROVE  u \in DOMAIN utxo_to_tx' /\ utxo_to_tx'[u] = mempool'[j].id
    <3>1. u \in Outpoints(mempool[old(j)]) /\ old(j) \in 1..n /\ old(j) # i
      BY <1>5, <1>6, <2>1
    <3>2. u \in DOMAIN utxo_to_tx /\ utxo_to_tx[u] = mempool[old(j)].id
      BY <1>1, <3>1 DEF MappingExact
    <3>3. u \notin Outpoints(mempool[i])
      BY <1>9, <3>1
    <3> QED
      BY <1>3, <1>5, <3>2, <3>3
  <2>2. ASSUME NEW u \in DOMAIN utxo_to_tx'
        PROVE  \E j \in 1..(n-1) :
                 mempool'[j].id = utxo_to_tx'[u] /\ u \in Outpoints(mempool'[j])
    <3>1. u \in DOMAIN utxo_to_tx /\ u \notin Outpoints(mempool[i])
          /\ utxo_to_tx'[u] = utxo_to_tx[u]
      BY <1>3
    <3>2. PICK m \in 1..n : mempool[m].id = utxo_to_tx[u] /\ u \in Outpoints(mempool[m])
      BY <1>1, <3>1 DEF MappingExact
    <3>3. PICK j \in 1..(n-1) : old(j) = m
      BY <1>8, <3>1, <3>2
    <3> QED
      BY <1>5, <3>1, <3>2, <3>3
  <2>3. DOMAIN mempool' = 1..(n-1)
    BY <1>5
  <2> QED
    BY <2>1, <2>2, <2>3 DEF MappingExact
<1>14. ToSet(mempool') = {tx \in ToSet(mempool) : out \notin Outpoints(tx)}
  <2>1. ASSUME NEW tx \in ToSet(mempool')
        PROVE  tx \in ToSet(mempool) /\ out \notin Outpoints(tx)
    <3>1. PICK j \in 1..(n-1) : tx = mempool'[j]
      BY <1>5, <2>1 DEF ToSet
    <3> QED
      BY <1>1, <1>4, <1>5, <1>6, <1>9, <3>1 DEF ToSet
  <2>2. ASSUME NEW tx \in ToSet(mempool), out \notin Outpoints(tx)
        PROVE  tx \in ToSet(mempool')
    <3>1. PICK m \in 1..n : tx = mempool[m]
      BY <1>1, <2>2 DEF ToSet
    <3>2. m # i
      BY <1>4, <2>2, <3>1
    <3> QED
      BY <1>5, <1>8, <3>1, <3>2 DEF ToSet
  <2> QED
    BY <2>1, <2>2
<1> QED
  BY <1>3, <1>5, <1>10, <1>11, <1>12, <1>13, <1>14

-----------------------------------------------------------------------------
(* The loop of update_mempool.                                             *)

\* A turn of the inner loop unmaps the outpoint it is at.
LEMMA VisitPreserves ==
  ASSUME MempoolInv, VisitInput
  PROVE  MempoolInv'
<1> USE DEF MempoolInv
<1> DEFINE b   == cur_tx
           tx  == confirmed[cur_tx]
           out == tx.inputs[cur_in].prev
<1>1. /\ ~UpdateDone /\ ~exited /\ cur_in <= Len(tx.inputs)
      /\ cur_in' = cur_in + 1 /\ cur_tx' = cur_tx /\ confirmed' = confirmed
  BY DEF VisitInput, VisitedUnmapped
<1>2. b \in DOMAIN confirmed /\ tx \in Txs /\ cur_in \in DOMAIN tx.inputs
  BY <1>1, InputsAreSequences, LenProperties DEF UpdateDone, TypeOK
<1>3. /\ mempool' \in Seq(Txs)
      /\ utxo_to_tx' \in [DOMAIN utxo_to_tx' -> TxIds]
      /\ DOMAIN utxo_to_tx' \subseteq DOMAIN utxo_to_tx \ {out}
      /\ exited' = exited
      /\ DistinctIds' /\ NoRepeats' /\ MappingExact'
  <2>1. CASE out \in DOMAIN utxo_to_tx
    <3>1. MempoolRemove(utxo_to_tx[out])
      BY <2>1 DEF VisitInput
    <3> QED
      BY <1>1, <2>1, <3>1, RemovePreserves
  <2>2. CASE out \notin DOMAIN utxo_to_tx
    <3>1. UNCHANGED poolVars
      BY <2>2 DEF VisitInput
    <3> QED
      BY <2>2, <3>1 DEF poolVars, TypeOK, DistinctIds, NoRepeats, MappingExact
  <2> QED
    BY <2>1, <2>2
<1>4. TypeOK'
  BY <1>1, <1>3 DEF TypeOK
<1>5. VisitedUnmapped'
  <2> SUFFICES ASSUME NEW c \in DOMAIN confirmed,
                      NEW k \in DOMAIN confirmed[c].inputs, Visited(c, k)'
               PROVE  confirmed[c].inputs[k].prev \notin DOMAIN utxo_to_tx'
    BY <1>1, <1>3 DEF VisitedUnmapped, Visited
  <2>1. CASE Visited(c, k)
    BY <1>1, <1>3, <2>1 DEF VisitedUnmapped
  <2>2. CASE ~Visited(c, k)
    <3>1. c = cur_tx /\ k = cur_in
      <4>1. confirmed[c] \in Txs /\ c \in Nat /\ k \in Nat
        BY InputsAreSequences, LenProperties, ElementOfSeq DEF TypeOK
      <4> QED
        BY <1>1, <2>2, <4>1 DEF Visited, TypeOK
    <3> QED
      BY <1>3, <3>1
  <2> QED
    BY <2>1, <2>2
<1> QED
  BY <1>3, <1>4, <1>5

\* Going to the next transaction of the block: its inputs are all ahead.
LEMMA NextTxPreserves ==
  ASSUME MempoolInv, NextConfirmedTx
  PROVE  MempoolInv'
<1> USE DEF MempoolInv
<1>1. /\ ~UpdateDone /\ ~exited /\ cur_in > Len(confirmed[cur_tx].inputs)
      /\ cur_tx' = cur_tx + 1 /\ cur_in' = 1
      /\ UNCHANGED <<mempool, utxo_to_tx, exited, confirmed>>
  BY DEF NextConfirmedTx, VisitedUnmapped
<1>2. TypeOK' /\ DistinctIds' /\ NoRepeats' /\ MappingExact'
  BY <1>1 DEF TypeOK, DistinctIds, NoRepeats, MappingExact
<1>3. VisitedUnmapped'
  <2> SUFFICES ASSUME NEW c \in DOMAIN confirmed,
                      NEW k \in DOMAIN confirmed[c].inputs, Visited(c, k)'
               PROVE  Visited(c, k)
    BY <1>1 DEF VisitedUnmapped, Visited
  <2>1. /\ c \in Nat
        /\ k \in 1..Len(confirmed[c].inputs) /\ Len(confirmed[c].inputs) \in Nat
    BY InputsAreSequences, LenProperties, ElementOfSeq DEF TypeOK
  <2> QED
    BY <1>1, <2>1 DEF Visited, TypeOK
<1> QED
  BY <1>2, <1>3

\* A new block: no input has been visited yet.
LEMMA StartPreserves ==
  ASSUME MempoolInv, NEW txs \in Blocks, UpdateMempool(txs)
  PROVE  MempoolInv'
<1> USE DEF MempoolInv
<1>1. /\ ~exited /\ confirmed' = txs /\ cur_tx' = 1 /\ cur_in' = 1
      /\ UNCHANGED <<mempool, utxo_to_tx, exited>>
  BY DEF UpdateMempool, StartUpdate, poolVars
<1>2. txs \in Seq(Txs)
  BY BlocksAssumption
<1>3. TypeOK' /\ DistinctIds' /\ NoRepeats' /\ MappingExact'
  BY <1>1, <1>2 DEF TypeOK, DistinctIds, NoRepeats, MappingExact
<1>4. VisitedUnmapped'
  <2>1. \A b \in DOMAIN txs : txs[b] \in Txs /\ b \in Nat \ {0}
    BY <1>2, LenProperties, ElementOfSeq
  <2>2. \A b \in DOMAIN txs : \A k \in DOMAIN txs[b].inputs : k \in Nat \ {0}
    BY <2>1, InputsAreSequences
  <2> QED
    BY <1>1, <2>1, <2>2 DEF VisitedUnmapped, Visited
<1> QED
  BY <1>3, <1>4

-----------------------------------------------------------------------------
(* The theorems.                                                           *)

LEMMA InitEstablishes == Init => MempoolInv
<1> SUFFICES ASSUME Init PROVE MempoolInv
  OBVIOUS
<1> USE DEF Init, MempoolInit, LoopInit
<1>1. DOMAIN utxo_to_tx = {} /\ DOMAIN mempool = {} /\ DOMAIN confirmed = {}
  OBVIOUS
<1>2. /\ utxo_to_tx \in [DOMAIN utxo_to_tx -> TxIds]
      /\ DOMAIN utxo_to_tx \subseteq AllOutpoints
  <2>1. utxo_to_tx \in Seq(TxIds) /\ Len(utxo_to_tx) = 0
    BY EmptySeq
  <2> QED
    BY <1>1, <2>1, LenProperties
<1>3. mempool \in Seq(Txs) /\ confirmed \in Seq(Txs)
  BY EmptySeq
<1>4. cur_tx \in Nat \ {0} /\ cur_in \in Nat \ {0}
  BY SMT
<1>5. exited \in BOOLEAN
  BY Zenon
<1>6. TypeOK
  BY <1>2, <1>3, <1>4, <1>5, Zenon DEF TypeOK
<1> QED
  BY <1>1, <1>6 DEF MempoolInv, DistinctIds, NoRepeats, MappingExact,
     VisitedUnmapped, UpdateDone

LEMMA NextPreserves == MempoolInv /\ [Next]_vars => MempoolInv'
<1> SUFFICES ASSUME MempoolInv, [Next]_vars PROVE MempoolInv'
  OBVIOUS
<1>1. ASSUME NEW tx \in Txs, HandleTx(tx) PROVE MempoolInv'
  BY <1>1, AddPreserves DEF HandleTx
<1>2. ASSUME NEW txs \in Blocks, UpdateMempool(txs) PROVE MempoolInv'
  BY <1>2, StartPreserves
<1>3. CASE VisitInput
  BY <1>3, VisitPreserves
<1>4. CASE NextConfirmedTx
  BY <1>4, NextTxPreserves
<1>5. CASE UNCHANGED vars
  BY <1>5 DEF vars, MempoolInv, TypeOK, DistinctIds, NoRepeats, MappingExact,
     VisitedUnmapped, UpdateDone, Visited
<1> QED
  BY <1>1, <1>2, <1>3, <1>4, <1>5 DEF Next

\* The inductive invariant holds of every behaviour.
THEOREM MempoolInvariant == Spec => []MempoolInv
  BY InitEstablishes, NextPreserves, PTL DEF Spec

\* The variables always have their types.
THEOREM TypeCorrect == Spec => []TypeOK
<1>1. MempoolInv => TypeOK
  BY DEF MempoolInv
<1> QED
  BY <1>1, MempoolInvariant, PTL

\* While the process lives, utxo_to_tx is exactly the inverse of the inputs of
\* the pending transactions, whatever is offered and whatever blocks arrive.
THEOREM MappingAlwaysExact == Spec => []MappingExact
<1>1. MempoolInv => MappingExact
  BY DEF MempoolInv
<1> QED
  BY <1>1, MempoolInvariant, PTL

\* The miner never picks two spends of one output.
THEOREM PoolNeverConflicts == Spec => []NoConflicts
<1>1. ASSUME MempoolInv PROVE NoConflicts
  <2> SUFFICES ASSUME ~exited,
                      NEW i \in DOMAIN mempool, NEW j \in DOMAIN mempool,
                      NEW k \in DOMAIN mempool[i].inputs,
                      NEW l \in DOMAIN mempool[j].inputs,
                      mempool[i].inputs[k].prev = mempool[j].inputs[l].prev
               PROVE  i = j /\ k = l
    BY DEF NoConflicts
  <2> DEFINE out == mempool[i].inputs[k].prev
  <2>1. out \in Outpoints(mempool[i]) /\ out \in Outpoints(mempool[j])
    BY DEF Outpoints
  <2>2. i = j
    BY <1>1, <2>1 DEF MempoolInv, MappingExact, DistinctIds
  <2>3. k = l
    BY <1>1, <2>2 DEF MempoolInv, NoRepeats
  <2> QED
    BY <2>2, <2>3
<1> QED
  BY <1>1, MempoolInvariant, PTL

\* After update_mempool nobody pending spends what the block spent.
THEOREM PurgeAlwaysComplete == Spec => PurgeComplete
<1>1. ASSUME MempoolInv, [Next]_vars
      PROVE  [~UpdateDone /\ UpdateDone' =>
                \A i \in DOMAIN mempool', b \in DOMAIN confirmed :
                  Outpoints(mempool'[i]) \cap Outpoints(confirmed[b]) = {}]_vars
  <2> SUFFICES ASSUME ~UpdateDone, UpdateDone',
                      NEW i \in DOMAIN mempool', NEW b \in DOMAIN confirmed,
                      NEW u \in Outpoints(mempool'[i]),
                      u \in Outpoints(confirmed[b])
               PROVE  FALSE
    OBVIOUS
  <2>1. NextConfirmedTx
    BY <1>1 DEF Next, HandleTx, UpdateMempool, VisitInput, UpdateDone, vars
  <2>2. /\ ~exited /\ cur_in > Len(confirmed[cur_tx].inputs)
        /\ UNCHANGED <<mempool, utxo_to_tx, exited, confirmed>>
        /\ cur_tx = Len(confirmed) /\ confirmed \in Seq(Txs)
    BY <1>1, <2>1, LenProperties
       DEF NextConfirmedTx, MempoolInv, VisitedUnmapped, UpdateDone, TypeOK
  <2>3. PICK k \in DOMAIN confirmed[b].inputs : confirmed[b].inputs[k].prev = u
    BY DEF Outpoints
  <2>4. Visited(b, k)
    <3>1. /\ b \in 1..Len(confirmed) /\ Len(confirmed) \in Nat
          /\ confirmed[b] \in Txs
      BY <2>2, LenProperties, ElementOfSeq
    <3>2. k \in 1..Len(confirmed[b].inputs) /\ Len(confirmed[b].inputs) \in Nat
      BY <2>3, <3>1, InputsAreSequences
    <3> QED
      BY <1>1, <2>2, <3>1, <3>2 DEF Visited, MempoolInv, TypeOK
  <2>5. u \notin DOMAIN utxo_to_tx
    BY <1>1, <2>3, <2>4 DEF MempoolInv, VisitedUnmapped
  <2> QED
    BY <1>1, <2>2, <2>5 DEF MempoolInv, MappingExact
<1> QED
  BY <1>1, MempoolInvariant, PTL DEF Spec, PurgeComplete

\* Whatever happens to the mempool, no transaction is overtaken.
LEMMA OrderKept ==
  ASSUME MempoolInv, [Next]_vars,
         NEW k \in DOMAIN mempool', NEW l \in DOMAIN mempool', NEW j \in DOMAIN mempool,
         k < l, mempool'[l] = mempool[j]
  PROVE  \E i \in 1..(j-1) : mempool'[k] = mempool[i]
<1>1. /\ mempool \in Seq(Txs) /\ Len(mempool) \in Nat
      /\ DOMAIN mempool = 1..Len(mempool)
      /\ DistinctIds
  BY LenProperties DEF MempoolInv, TypeOK
<1>2. CASE UNCHANGED mempool
  <2>1. l = j
    BY <1>1, <1>2 DEF DistinctIds
  <2> QED
    BY <1>1, <1>2, <2>1
<1>3. CASE \E tx \in Txs : ~InMempool(tx.id) /\ mempool' = Append(mempool, tx)
  <2>1. PICK tx \in Txs : ~InMempool(tx.id) /\ mempool' = Append(mempool, tx)
    BY <1>3
  <2>2. /\ DOMAIN mempool' = 1..(Len(mempool) + 1)
        /\ \A m \in 1..Len(mempool) : mempool'[m] = mempool[m]
        /\ mempool'[Len(mempool) + 1] = tx
    BY <1>1, <2>1, AppendProperties
  <2>3. l # Len(mempool) + 1
    BY <2>1, <2>2 DEF InMempool
  <2>4. k \in 1..Len(mempool) /\ l \in 1..Len(mempool)
    BY <1>1, <2>2, <2>3
  <2>5. l = j
    BY <1>1, <2>2, <2>4 DEF DistinctIds
  <2> QED
    BY <1>1, <2>2, <2>4, <2>5
<1>4. CASE \E r \in DOMAIN mempool : mempool' = RemoveAt(mempool, r)
  <2>1. PICK r \in DOMAIN mempool : mempool' = RemoveAt(mempool, r)
    BY <1>4
  <2> DEFINE before(m) == IF m < r THEN m ELSE m + 1
  <2>2. /\ DOMAIN mempool' = 1..(Len(mempool) - 1)
        /\ \A m \in 1..(Len(mempool) - 1) : mempool'[m] = mempool[before(m)]
    BY <1>1, <2>1, RemoveAtFacts
  <2>3. /\ before(k) \in DOMAIN mempool /\ before(l) \in DOMAIN mempool
        /\ before(k) < before(l)
    BY <1>1, <2>1, <2>2
  <2>4. before(l) = j
    <3>1. mempool[before(l)] = mempool[j]
      BY <2>2
    <3> QED
      BY <1>1, <2>3, <3>1 DEF DistinctIds
  <2>5. before(k) \in 1..(j-1) /\ mempool'[k] = mempool[before(k)]
    BY <1>1, <2>2, <2>3, <2>4
  <2> QED
    BY <2>5
<1>5. \/ UNCHANGED mempool
      \/ \E tx \in Txs : ~InMempool(tx.id) /\ mempool' = Append(mempool, tx)
      \/ \E r \in DOMAIN mempool : mempool' = RemoveAt(mempool, r)
  <2>1. CASE \E tx \in Txs : HandleTx(tx)
    BY <2>1 DEF HandleTx, MempoolAdd, poolVars
  <2>2. CASE VisitInput
    BY <2>2 DEF VisitInput, MempoolRemove, poolVars
  <2>3. CASE \/ \E txs \in Blocks : UpdateMempool(txs)
             \/ NextConfirmedTx
             \/ UNCHANGED vars
    BY <2>3 DEF UpdateMempool, NextConfirmedTx, poolVars, vars
  <2> QED
    BY <2>1, <2>2, <2>3 DEF Next
<1> QED
  BY <1>2, <1>3, <1>4, <1>5

\* Mining, which takes transactions from the front, never sees one overtaken
\* by another, neither by mempool_add nor by an eviction in the middle.
THEOREM ArrivalOrderAlwaysKept == Spec => ArrivalOrderKept
<1>1. ASSUME MempoolInv, [Next]_vars
      PROVE  \A k, l \in DOMAIN mempool', j \in DOMAIN mempool :
               k < l /\ mempool'[l] = mempool[j] =>
                 \E i \in 1..(j-1) : mempool'[k] = mempool[i]
  BY <1>1, OrderKept
<1>2. MempoolInv /\ [Next]_vars =>
        [\A k, l \in DOMAIN mempool', j \in DOMAIN mempool :
           k < l /\ mempool'[l] = mempool[j] =>
             \E i \in 1..(j-1) : mempool'[k] = mempool[i]]_vars
  BY <1>1
<1> QED
  BY <1>2, MempoolInvariant, PTL DEF Spec, ArrivalOrderKept

-----------------------------------------------------------------------------
(* The two tables implement the conflict-free pool.                        *)

\* mempool_add accepts what fits and dies on what does not.
LEMMA AddImplements ==
  ASSUME MempoolInv, NEW tx \in Txs, HandleTx(tx)
  PROVE  Pool!Next \/ UNCHANGED <<IF exited THEN {} ELSE ToSet(mempool), exited>>
<1> USE DEF MempoolInv
<1>1. ~exited /\ MempoolAdd(tx)
  BY DEF HandleTx
<1>2. CASE InMempool(tx.id)
  BY <1>1, <1>2 DEF MempoolAdd, poolVars
<1>3. CASE ~InMempool(tx.id)
  <2>1. /\ mempool' = Append(mempool, tx)
        /\ exited' = (MappedInputs(tx) # DOMAIN tx.inputs)
    BY <1>1, <1>3 DEF MempoolAdd, UtxoToTxAddTx
  <2>2. CASE exited'
    <3>1. PICK k \in DOMAIN tx.inputs : k \notin MappedInputs(tx)
      BY <2>1, <2>2 DEF MappedInputs
    <3>2. PICK j \in DOMAIN tx.inputs : Taken(tx, j)
      BY <3>1, InputsAreSequences DEF MappedInputs
    <3>3. ~Pool!FitsPool(tx)
      <4>1. CASE tx.inputs[j].prev \in DOMAIN utxo_to_tx
        <5>1. PICK i \in DOMAIN mempool : tx.inputs[j].prev \in Outpoints(mempool[i])
          BY <1>1, <4>1 DEF MappingExact
        <5>2. tx.inputs[j].prev \in Pool!Spends(tx) \cap Pool!Spends(mempool[i])
          BY <5>1 DEF Pool!Spends, Outpoints
        <5>3. mempool[i] \in ToSet(mempool)
          BY DEF ToSet
        <5> QED
          BY <1>1, <5>2, <5>3 DEF Pool!FitsPool
      <4>2. CASE \E l \in 1..(j-1) : tx.inputs[l].prev = tx.inputs[j].prev
        <5>1. PICK l \in 1..(j-1) : tx.inputs[l].prev = tx.inputs[j].prev
          BY <4>2
        <5>2. l \in DOMAIN tx.inputs /\ l # j
          BY <5>1, InputsAreSequences
        <5> QED
          BY <5>1, <5>2 DEF Pool!FitsPool, Pool!RepeatsAnInput
      <4> QED
        BY <3>2, <4>1, <4>2 DEF Taken
    <3>4. Pool!DieOn(tx)
      BY <1>1, <2>2, <3>3, <2>1 DEF Pool!DieOn
    <3> QED
      BY <3>4 DEF Pool!Next
  <2>3. CASE ~exited'
    <3>1. /\ Outpoints(tx) \cap DOMAIN utxo_to_tx = {}
          /\ \A k, l \in DOMAIN tx.inputs :
               tx.inputs[k].prev = tx.inputs[l].prev => k = l
      BY <2>1, <2>3, AddedTxFits
    <3>2. \A other \in ToSet(mempool) : Outpoints(other) \subseteq DOMAIN utxo_to_tx
      BY <1>1 DEF MappingExact, ToSet
    <3>3. Pool!FitsPool(tx)
      BY <1>1, <3>1, <3>2
         DEF Pool!FitsPool, Pool!RepeatsAnInput, Pool!Spends, Outpoints
    <3>4. ToSet(mempool') = ToSet(mempool) \cup {tx}
      <4>1. /\ Len(mempool) \in Nat /\ DOMAIN mempool = 1..Len(mempool)
            /\ DOMAIN mempool' = 1..(Len(mempool) + 1)
            /\ \A i \in 1..Len(mempool) : mempool'[i] = mempool[i]
            /\ mempool'[Len(mempool) + 1] = tx
        BY <2>1, AppendProperties, LenProperties DEF TypeOK
      <4>2. \A i \in 1..(Len(mempool) + 1) :
              i \in 1..Len(mempool) \/ i = Len(mempool) + 1
        BY <4>1
      <4>3. Len(mempool) + 1 \in 1..(Len(mempool) + 1)
            /\ 1..Len(mempool) \subseteq 1..(Len(mempool) + 1)
        BY <4>1
      <4> QED
        BY <4>1, <4>2, <4>3, Zenon DEF ToSet
    <3>5. exited = FALSE /\ exited' = FALSE
      BY <1>1, <2>1, <2>3 DEF TypeOK
    <3>6. Pool!Accept(tx)
      BY <3>3, <3>4, <3>5 DEF Pool!Accept
    <3> QED
      BY <3>6 DEF Pool!Next
  <2> QED
    BY <2>2, <2>3
<1> QED
  BY <1>2, <1>3

\* A turn of update_mempool evicts exactly the spender of the outpoint.
LEMMA VisitImplements ==
  ASSUME MempoolInv, VisitInput
  PROVE  Pool!Next \/ UNCHANGED <<IF exited THEN {} ELSE ToSet(mempool), exited>>
<1> USE DEF MempoolInv
<1> DEFINE tx  == confirmed[cur_tx]
           out == tx.inputs[cur_in].prev
<1>1. ~UpdateDone /\ ~exited /\ cur_in <= Len(tx.inputs)
  BY DEF VisitInput, VisitedUnmapped
<1>2. tx \in Txs /\ cur_in \in DOMAIN tx.inputs
  BY <1>1, InputsAreSequences, LenProperties DEF UpdateDone, TypeOK
<1>3. CASE out \in DOMAIN utxo_to_tx
  <2>1. MempoolRemove(utxo_to_tx[out])
    BY <1>3 DEF VisitInput
  <2>2. /\ exited' = exited
        /\ ToSet(mempool') = {t \in ToSet(mempool) : out \notin Outpoints(t)}
    BY <1>1, <1>3, <2>1, RemovePreserves
  <2>3. Pool!Confirm(out)
    BY <1>1, <2>2 DEF Pool!Confirm, Pool!Spends, Outpoints
  <2>4. out \in Pool!Spends(tx)
    BY <1>2 DEF Pool!Spends
  <2> QED
    BY <1>2, <2>3, <2>4 DEF Pool!Next
<1>4. CASE out \notin DOMAIN utxo_to_tx
  BY <1>4 DEF VisitInput, poolVars
<1> QED
  BY <1>3, <1>4

\* Whatever is offered and whatever blocks arrive, the mempool behaves like a
\* set of transactions without conflicts: it accepts every transaction that
\* fits, dies on every one that does not, and evicts exactly those whose
\* inputs a block spent.
THEOREM MempoolImplementsPool == Spec => ImplementsPool
<1>1. Init => Pool!Init
  BY EmptySeq DEF Init, MempoolInit, Pool!Init, ToSet
<1>2. ASSUME MempoolInv, [Next]_vars
      PROVE  Pool!Next \/ UNCHANGED <<IF exited THEN {} ELSE ToSet(mempool), exited>>
  <2>1. ASSUME NEW tx \in Txs, HandleTx(tx)
        PROVE  Pool!Next \/ UNCHANGED <<IF exited THEN {} ELSE ToSet(mempool), exited>>
    BY <1>2, <2>1, AddImplements
  <2>2. CASE VisitInput
    BY <1>2, <2>2, VisitImplements
  <2>3. CASE \/ \E txs \in Blocks : UpdateMempool(txs)
             \/ NextConfirmedTx
             \/ UNCHANGED vars
    BY <2>3 DEF UpdateMempool, NextConfirmedTx, poolVars, vars
  <2> QED
    BY <1>2, <2>1, <2>2, <2>3 DEF Next
<1> QED
  BY <1>1, <1>2, MempoolInvariant, PTL DEF Spec, ImplementsPool, Pool!Spec
=============================================================================

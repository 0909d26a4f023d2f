--------------------------- MODULE Storage_proofs ---------------------------
(***************************************************************************)
(* For keys, hashes, transactions and blocks of any number and lengths of  *)
(* any size: every serialiser fills its allocation exactly; what was put   *)
(* into a database is read back, all of it; different things have          *)
(* different hashes; what sign_tx signs is what check_input_unlockable     *)
(* verifies; no signature holds for a changed transaction; and no put      *)
(* finds another value in its place.                                       *)
(*                                                                         *)
(* The serialisers are folds over lists, which are taken apart turn by     *)
(* turn by induction over numbers (Induction): a buffer is memory from     *)
(* address 0 on that is made of whole values, a writer appends to it, and  *)
(* a reader that starts at the same place, in any memory that shows what   *)
(* the writer appended, returns the value and the writer's last address.   *)
(***************************************************************************)
EXTENDS Storage, Induction, SequenceTheorems

-----------------------------------------------------------------------------
(* Memory.                                                                 *)

\* The byte at address a is the k-th of the len bytes of v, which are all there.
Belongs(c, a, v, k, len) ==
  /\ k \in 1..len /\ a - k + 1 >= 0 /\ a - k + len < c.at
  /\ \A j \in 1..len : c.mem[a - k + j] = <<v, j, len>>

\* Every byte belongs to a value.
Whole(c) == \A a \in 0..(c.at - 1) : \E v : \E len \in Nat : \E k \in 1..len : Belongs(c, a, v, k, len)

\* A cursor at the end of what was written, from address 0 on.
IsBuffer(c) ==
  /\ c = [mem |-> c.mem, at |-> c.at]
  /\ c.at \in Nat /\ DOMAIN c.mem = 0..(c.at - 1)
  /\ Whole(c)

\* d is c with len more bytes.
Appends(c, d, len) ==
  /\ IsBuffer(d) /\ d.at = c.at + len
  /\ \A a \in DOMAIN c.mem : d.mem[a] = c.mem[a]

\* What d has from an address on is to be read in mem.
Shows(mem, d, from) ==
  \A a \in from..(d.at - 1) : a \in DOMAIN mem /\ mem[a] = d.mem[a]

LEMMA NewIsBuffer == IsBuffer(NewBuffer) /\ NewBuffer.at = 0
BY DEF IsBuffer, NewBuffer, Whole

\* What memory shows of more it shows of less.
LEMMA ShowsLess ==
  ASSUME NEW c, IsBuffer(c), NEW len \in Nat, NEW d, Appends(c, d, len),
         NEW mem, NEW from \in Nat, Shows(mem, d, from), from <= c.at
  PROVE  Shows(mem, c, from) /\ Shows(mem, d, c.at)
BY DEF Shows, Appends, IsBuffer

LEMMA AppendsMore ==
  ASSUME NEW c, IsBuffer(c), NEW len \in Nat, NEW d, Appends(c, d, len),
         NEW more \in Nat, NEW e, Appends(d, e, more)
  PROVE  Appends(c, e, len + more)
BY DEF Appends, IsBuffer

\* A value that is written is read, wherever memory shows it.
LEMMA PutGet ==
  ASSUME NEW c, IsBuffer(c), NEW len \in Nat \ {0}, NEW v
  PROVE  /\ Appends(c, Put(c, v, len), len)
         /\ \A mem : Shows(mem, Put(c, v, len), c.at) =>
              Get([mem |-> mem, at |-> c.at], len) = v
<1> DEFINE d == Put(c, v, len)
<1>1. /\ d = [mem |-> d.mem, at |-> c.at + len] /\ d.at = c.at + len
      /\ DOMAIN d.mem = 0..(c.at + len - 1)
      /\ \A a \in DOMAIN c.mem : d.mem[a] = c.mem[a]
      /\ \A k \in 1..len : d.mem[c.at + k - 1] = Bytes(v, len)[k]
  <2>1. DOMAIN c.mem \cup c.at..(c.at + len - 1) = 0..(c.at + len - 1)
    BY DEF IsBuffer
  <2>2. d.mem = [a \in 0..(c.at + len - 1) |->
                   IF a \in c.at..(c.at + len - 1) THEN Bytes(v, len)[a - c.at + 1] ELSE c.mem[a]]
    BY <2>1 DEF Put
  <2>3. \A k \in 1..len : /\ c.at + k - 1 \in c.at..(c.at + len - 1)
                          /\ c.at + k - 1 \in 0..(c.at + len - 1)
                          /\ c.at + k - 1 - c.at + 1 = k
    BY DEF IsBuffer
  <2>4. \A a \in DOMAIN c.mem : a \notin c.at..(c.at + len - 1) /\ a \in 0..(c.at + len - 1)
    BY DEF IsBuffer
  <2>5. d = [mem |-> d.mem, at |-> c.at + len]
    BY DEF Put
  <2> HIDE DEF d
  <2>6. DOMAIN d.mem = 0..(c.at + len - 1)
    BY <2>2
  <2>7. d.at = c.at + len
    BY <2>5
  <2> DEFINE mem == d.mem
             bytes == Bytes(v, len)
  <2> HIDE DEF mem, bytes
  <2>8. \A a \in DOMAIN c.mem : mem[a] = c.mem[a]
    BY <2>2, <2>4 DEF mem, bytes
  <2>9. \A a \in 0..(c.at + len - 1) : a \in c.at..(c.at + len - 1) => mem[a] = bytes[a - c.at + 1]
    BY <2>2 DEF mem, bytes
  <2>10. \A k \in 1..len : mem[c.at + k - 1] = bytes[k]
    <3> SUFFICES ASSUME NEW k \in 1..len PROVE mem[c.at + k - 1] = bytes[k]
      OBVIOUS
    <3> DEFINE a == c.at + k - 1
    <3>1. a \in 0..(c.at + len - 1) /\ a \in c.at..(c.at + len - 1) /\ a - c.at + 1 = k
      BY <2>3 DEF IsBuffer
    <3> HIDE DEF a
    <3>2. mem[a] = bytes[k]
      BY <2>9, <3>1
    <3> QED BY <3>2 DEF a
  <2> QED BY <2>5, <2>6, <2>7, <2>8, <2>10 DEF mem, bytes
<1> HIDE DEF d
<1>2. Appends(c, d, len)
  <2>1. ASSUME NEW a \in 0..(d.at - 1)
        PROVE  \E w : \E more \in Nat : \E k \in 1..more : Belongs(d, a, w, k, more)
    <3>1. CASE a < c.at
      <4>1. PICK w : \E more \in Nat : \E k \in 1..more : Belongs(c, a, w, k, more)
        BY <3>1 DEF IsBuffer, Whole
      <4>2. PICK more \in Nat : \E k \in 1..more : Belongs(c, a, w, k, more)
        BY <4>1
      <4>3. PICK k \in 1..more : Belongs(c, a, w, k, more)
        BY <4>2
      <4>4. \A j \in 1..more : a - k + j \in DOMAIN c.mem
        BY <4>3 DEF IsBuffer, Belongs
      <4>5. \A j \in 1..more : d.mem[a - k + j] = <<w, j, more>>
        BY <1>1, <4>3, <4>4 DEF Belongs
      <4>6. a - k + more < d.at
        BY <1>1, <4>3 DEF IsBuffer, Belongs
      <4>7. Belongs(d, a, w, k, more)
        BY <4>3, <4>5, <4>6 DEF Belongs
      <4> QED BY <4>7
    <3>2. CASE a >= c.at
      <4> DEFINE k == a - c.at + 1
      <4>1. k \in 1..len /\ a - k + 1 >= 0 /\ a - k + len < d.at
            /\ \A j \in 1..len : a - k + j = c.at + j - 1
        BY <1>1, <3>2 DEF IsBuffer
      <4>2. \A j \in 1..len : d.mem[a - k + j] = <<v, j, len>>
        BY <1>1, <4>1 DEF Bytes
      <4> HIDE DEF k
      <4>3. Belongs(d, a, v, k, len)
        BY <4>1, <4>2 DEF Belongs
      <4> QED BY <4>1, <4>3
    <3> QED BY <1>1, <3>1, <3>2 DEF IsBuffer
  <2> QED BY <1>1, <2>1 DEF Appends, IsBuffer, Whole
<1>3. ASSUME NEW mem, Shows(mem, d, c.at)
      PROVE  Get([mem |-> mem, at |-> c.at], len) = v
  <2> DEFINE bytes == BytesAt(mem, c.at, len)
  <2>1. \A k \in 1..len : c.at + k - 1 \in DOMAIN mem /\ mem[c.at + k - 1] = Bytes(v, len)[k]
    <3>1. \A k \in 1..len : c.at + k - 1 \in c.at..(d.at - 1)
      BY <1>1 DEF IsBuffer
    <3> QED BY <1>1, <1>3, <3>1 DEF Shows
  <2>2. bytes = [k \in 1..len |-> Bytes(v, len)[k]]
    BY <2>1 DEF BytesAt
  <2>3. bytes = Bytes(v, len)
    BY <2>2 DEF Bytes
  <2>4. 1 \in 1..len /\ bytes[1][1] = v
    BY <2>3 DEF Bytes
  <2> HIDE DEF bytes
  <2>5. Get([mem |-> mem, at |-> c.at], len) = IF bytes = Bytes(v, len) THEN v ELSE Garbage
    BY <2>4 DEF Get, bytes
  <2> QED BY <2>3, <2>5
<1> QED BY <1>2, <1>3 DEF d

-----------------------------------------------------------------------------
(* Folds of lists.                                                         *)

\* One object read behind what was read before.
ReadNext(acc, one) == [value |-> Append(acc.value, one.value), at |-> one.at]

\* What the folds of Serialise do with an element, by what they make.
Turn(kind, mem, acc, x) ==
  CASE kind = "input"       -> SerInput(acc, x)
    [] kind = "output"      -> SerUtxo(acc, x)
    [] kind = "tx"          -> SerTx(acc, x)
    [] kind = "size"        -> acc + SizeSerTx(x)
    [] kind = "taken"       -> acc + Find(x).value.amt
    [] kind = "read input"  -> ReadNext(acc, DeserInput([mem |-> mem, at |-> acc.at]))
    [] kind = "read output" -> ReadNext(acc, DeserUtxo([mem |-> mem, at |-> acc.at]))
    [] kind = "read tx"     -> ReadNext(acc, DeserTx([mem |-> mem, at |-> acc.at]))

\* f folds the elements of a list at each set of places.
Folded(f, kind, mem, base, seq) ==
  f = [s \in SUBSET DOMAIN seq |->
         IF s = {} THEN base ELSE Turn(kind, mem, f[s \ {Max(s)}], seq[Max(s)])]

\* r[k] is what the first k elements of the list make.
Runs(r, kind, mem, base, seq) ==
  /\ r[0] = base
  /\ \A k \in 0..(Len(seq) - 1) : r[k + 1] = Turn(kind, mem, r[k], seq[k + 1])

\* A list: whatever its elements are.
IsList(seq) == Len(seq) \in Nat /\ seq = [k \in 1..Len(seq) |-> seq[k]]

\* What 0 has, and k + 1 if k does, all up to n have.
LEMMA UpTo ==
  ASSUME NEW n \in Nat, NEW S, 0 \in S, \A k \in 0..(n - 1) : k \in S => k + 1 \in S
  PROVE  \A k \in 0..n : k \in S
<1> DEFINE T == {k \in Nat : k <= n => k \in S}
<1>1. 0 \in T /\ \A k \in Nat : k \in T => k + 1 \in T
  OBVIOUS
<1>2. Nat \subseteq T
  <2> HIDE DEF T
  <2> QED BY <1>1, Inductively
<1> QED BY <1>2

\* A list has a fold: it is made for sets of one place more at a time.
LEMMA FoldMade ==
  ASSUME NEW kind, NEW mem, NEW base, NEW seq, IsList(seq)
  PROVE  \E f : Folded(f, kind, mem, base, seq)
<1> DEFINE D == DOMAIN seq
           Upto(n) == {s \in SUBSET D : Cardinality(s) <= n}
           Next1(f, s) == IF s = {} THEN base ELSE Turn(kind, mem, f[s \ {Max(s)}], seq[Max(s)])
           Made(f, n) == f = [s \in Upto(n) |-> Next1(f, s)]
           S == {n \in Nat : \E f : Made(f, n)}
<1>1. D = 1..Len(seq) /\ IsFiniteSet(D) /\ Cardinality(D) \in Nat
  <2>1. D = 1..Len(seq) /\ Len(seq) \in Nat
    BY DEF IsList
  <2> QED BY <2>1, FS_Interval, FS_CardinalityType
<1>2. \A s \in SUBSET D : IsFiniteSet(s) /\ Cardinality(s) \in Nat /\ Cardinality(s) <= Cardinality(D)
  BY <1>1, FS_Subset, FS_CardinalityType
<1>3. \A s \in SUBSET D : s # {} =>
        s \ {Max(s)} \in SUBSET D /\ Cardinality(s \ {Max(s)}) = Cardinality(s) - 1
  <2> SUFFICES ASSUME NEW s \in SUBSET D, s # {}
               PROVE  s \ {Max(s)} \in SUBSET D /\ Cardinality(s \ {Max(s)}) = Cardinality(s) - 1
    OBVIOUS
  <2>1. Max(s) \in s
    <3>1. s \in SUBSET (1..Len(seq)) /\ Len(seq) \in Nat
      BY <1>1 DEF IsList
    <3> HIDE DEF D
    <3> QED BY <3>1, LastIndex
  <2> QED BY <1>2, <2>1, FS_RemoveElement
<1>4. \A s \in SUBSET D : Cardinality(s) = 0 <=> s = {}
  BY <1>2, FS_EmptySet
<1>5. 0 \in S
  <2> DEFINE f == [s \in Upto(0) |-> base]
  <2>1. \A s \in Upto(0) : s = {}
    BY <1>2, <1>4
  <2>2. \A s \in Upto(0) : Next1(f, s) = base
    BY <2>1
  <2> HIDE DEF Upto, Next1
  <2>3. Made(f, 0)
    BY <2>2
  <2> QED BY <2>3
<1>6. ASSUME NEW n \in Nat, n \in S
      PROVE  n + 1 \in S
  <2>1. PICK f : Made(f, n)
    BY <1>6
  <2> DEFINE g == [s \in Upto(n + 1) |-> Next1(f, s)]
  <2>2. \A s \in Upto(n + 1) : s # {} => s \ {Max(s)} \in Upto(n)
    BY <1>2, <1>3
  <2>3. \A s \in Upto(n) : s \in Upto(n + 1)
    BY <1>2
  <2>4. \A s \in Upto(n) : g[s] = f[s]
    <3> HIDE DEF Upto, Next1
    <3> QED BY <2>1, <2>3
  <2>5. \A s \in Upto(n + 1) : Next1(f, s) = Next1(g, s)
    <3> HIDE DEF Upto, g
    <3> QED BY <2>2, <2>4
  <2>6. Made(g, n + 1)
    <3>1. g = [s \in Upto(n + 1) |-> Next1(f, s)]
      OBVIOUS
    <3> HIDE DEF Upto, Next1, g
    <3> QED BY <2>5, <3>1
  <2> HIDE DEF g, Made
  <2> QED BY <2>6
<1>7. Nat \subseteq S
  <2> HIDE DEF S
  <2> QED BY <1>5, <1>6, Inductively
<1>8. PICK f : Made(f, Cardinality(D))
  BY <1>1, <1>7
<1>9. Upto(Cardinality(D)) = SUBSET D
  BY <1>2
<1> QED BY <1>8, <1>9 DEF Folded

\* A fold takes the elements of a list one after the other.
LEMMA FoldRuns ==
  ASSUME NEW kind, NEW mem, NEW base, NEW seq, IsList(seq),
         NEW f, Folded(f, kind, mem, base, seq)
  PROVE  \E r : Runs(r, kind, mem, base, seq) /\ f[DOMAIN seq] = r[Len(seq)]
<1> DEFINE n == Len(seq)
           r == [k \in 0..n |-> f[1..k]]
<1>1. n \in Nat /\ DOMAIN seq = 1..n
  BY DEF IsList
<1>2. \A k \in 0..n : (1..k) \in SUBSET (1..n)
  BY <1>1
<1> HIDE DEF n
<1>3. \A s \in SUBSET (1..n) :
        f[s] = IF s = {} THEN base ELSE Turn(kind, mem, f[s \ {Max(s)}], seq[Max(s)])
  BY <1>1 DEF Folded
<1>4. r[0] = base
  <2>1. r[0] = f[1..0] /\ 1..0 = {}
    BY <1>1
  <2>2. f[{}] = base
    BY <1>3
  <2> HIDE DEF r
  <2> QED BY <2>1, <2>2
<1>5. ASSUME NEW k \in 0..(n - 1)
      PROVE  r[k + 1] = Turn(kind, mem, r[k], seq[k + 1])
  <2>1. k \in 0..n /\ k + 1 \in 0..n /\ k \in Nat
    BY <1>1
  <2>2. Max(1..(k + 1)) = k + 1
    <3>1. \A x \in 1..(k + 1) : (\A y \in 1..(k + 1) : x >= y) <=> x = k + 1
      BY <2>1
    <3> QED BY <2>1, <3>1 DEF Max
  <2>3. (1..(k + 1)) \ {k + 1} = 1..k /\ 1..(k + 1) # {}
    BY <2>1
  <2>4. f[1..(k + 1)] = Turn(kind, mem, f[1..k], seq[k + 1])
    BY <1>2, <1>3, <2>1, <2>2, <2>3
  <2> QED BY <2>1, <2>4
<1>6. f[DOMAIN seq] = r[n]
  BY <1>1
<1> HIDE DEF r
<1> QED BY <1>4, <1>5, <1>6 DEF Runs, n
-----------------------------------------------------------------------------
(* The loops of Serialise are such folds.                                  *)

\* ser_tx writes the inputs one after the other, ...
LEMMA InputsRun ==
  ASSUME NEW c, NEW seq, IsList(seq)
  PROVE  \E r : Runs(r, "input", <<>>, c, seq) /\ FoldLeft(SerInput, c, seq) = r[Len(seq)]
<1> DEFINE Made(g) ==
             g = [s \in SUBSET DOMAIN seq |-> IF s = {} THEN c ELSE SerInput(g[s \ {Max(s)}], seq[Max(s)])]
           f == CHOOSE g : Made(g)
<1>1. FoldLeft(SerInput, c, seq) = f[DOMAIN seq]
  BY Zenon DEF FoldLeft, MapThenFoldSet
<1>2. \A g, s : Turn("input", <<>>, g[s \ {Max(s)}], seq[Max(s)]) = SerInput(g[s \ {Max(s)}], seq[Max(s)])
  BY DEF Turn
<1>3. \A g : Made(g) <=> Folded(g, "input", <<>>, c, seq)
  BY <1>2 DEF Folded
<1>4. Folded(f, "input", <<>>, c, seq)
  <2>1. \E g : Made(g)
    BY <1>3, FoldMade
  <2> HIDE DEF Made
  <2> QED BY <1>3, <2>1
<1>5. \E r : Runs(r, "input", <<>>, c, seq) /\ f[DOMAIN seq] = r[Len(seq)]
  <2> HIDE DEF f
  <2> QED BY <1>4, FoldRuns
<1> QED BY Zenon, <1>1, <1>5

\* ... then the outputs, ...
LEMMA OutputsRun ==
  ASSUME NEW c, NEW seq, IsList(seq)
  PROVE  \E r : Runs(r, "output", <<>>, c, seq) /\ FoldLeft(SerUtxo, c, seq) = r[Len(seq)]
<1> DEFINE Made(g) ==
             g = [s \in SUBSET DOMAIN seq |-> IF s = {} THEN c ELSE SerUtxo(g[s \ {Max(s)}], seq[Max(s)])]
           f == CHOOSE g : Made(g)
<1>1. FoldLeft(SerUtxo, c, seq) = f[DOMAIN seq]
  BY Zenon DEF FoldLeft, MapThenFoldSet
<1>2. \A g, s : Turn("output", <<>>, g[s \ {Max(s)}], seq[Max(s)]) = SerUtxo(g[s \ {Max(s)}], seq[Max(s)])
  BY DEF Turn
<1>3. \A g : Made(g) <=> Folded(g, "output", <<>>, c, seq)
  BY <1>2 DEF Folded
<1>4. Folded(f, "output", <<>>, c, seq)
  <2>1. \E g : Made(g)
    BY <1>3, FoldMade
  <2> HIDE DEF Made
  <2> QED BY <1>3, <2>1
<1>5. \E r : Runs(r, "output", <<>>, c, seq) /\ f[DOMAIN seq] = r[Len(seq)]
  <2> HIDE DEF f
  <2> QED BY <1>4, FoldRuns
<1> QED BY Zenon, <1>1, <1>5

\* ... ser_block its transactions, ...
LEMMA TxsRun ==
  ASSUME NEW c, NEW seq, IsList(seq)
  PROVE  \E r : Runs(r, "tx", <<>>, c, seq) /\ FoldLeft(SerTx, c, seq) = r[Len(seq)]
<1> DEFINE Made(g) ==
             g = [s \in SUBSET DOMAIN seq |-> IF s = {} THEN c ELSE SerTx(g[s \ {Max(s)}], seq[Max(s)])]
           f == CHOOSE g : Made(g)
<1>1. FoldLeft(SerTx, c, seq) = f[DOMAIN seq]
  BY Zenon DEF FoldLeft, MapThenFoldSet
<1>2. \A g, s : Turn("tx", <<>>, g[s \ {Max(s)}], seq[Max(s)]) = SerTx(g[s \ {Max(s)}], seq[Max(s)])
  BY DEF Turn
<1>3. \A g : Made(g) <=> Folded(g, "tx", <<>>, c, seq)
  BY <1>2 DEF Folded
<1>4. Folded(f, "tx", <<>>, c, seq)
  <2>1. \E g : Made(g)
    BY <1>3, FoldMade
  <2> HIDE DEF Made
  <2> QED BY <1>3, <2>1
<1>5. \E r : Runs(r, "tx", <<>>, c, seq) /\ f[DOMAIN seq] = r[Len(seq)]
  <2> HIDE DEF f
  <2> QED BY <1>4, FoldRuns
<1> QED BY Zenon, <1>1, <1>5

\* ... and size_ser_block adds up their sizes.
LEMMA SizesRun ==
  ASSUME NEW seq, IsList(seq)
  PROVE  \E r : /\ Runs(r, "size", <<>>, 0, seq)
                /\ FoldLeft(LAMBDA acc, t : acc + SizeSerTx(t), 0, seq) = r[Len(seq)]
<1> DEFINE Made(g) ==
             g = [s \in SUBSET DOMAIN seq |->
                    IF s = {} THEN 0 ELSE g[s \ {Max(s)}] + SizeSerTx(seq[Max(s)])]
           f == CHOOSE g : Made(g)
<1>1. FoldLeft(LAMBDA acc, t : acc + SizeSerTx(t), 0, seq) = f[DOMAIN seq]
  BY Zenon DEF FoldLeft, MapThenFoldSet
<1>2. \A g, s : Turn("size", <<>>, g[s \ {Max(s)}], seq[Max(s)])
                   = g[s \ {Max(s)}] + SizeSerTx(seq[Max(s)])
  BY DEF Turn
<1>3. \A g : Made(g) <=> Folded(g, "size", <<>>, 0, seq)
  BY <1>2 DEF Folded
<1>4. Folded(f, "size", <<>>, 0, seq)
  <2>1. \E g : Made(g)
    BY <1>3, FoldMade
  <2> HIDE DEF Made
  <2> QED BY <1>3, <2>1
<1>5. \E r : Runs(r, "size", <<>>, 0, seq) /\ f[DOMAIN seq] = r[Len(seq)]
  <2> HIDE DEF f
  <2> QED BY <1>4, FoldRuns
<1> QED BY Zenon, <1>1, <1>5

\* Where a reader starts, and its turns.
NothingRead(c) == [value |-> <<>>, at |-> c.at]
Places(n) == [k \in 1..n |-> k]

LEMMA PlacesAreList ==
  ASSUME NEW n \in Nat
  PROVE  IsList(Places(n)) /\ Len(Places(n)) = n
BY DEF Places, IsList

\* deser_tx reads the inputs one after the other, ...
LEMMA InputsRead ==
  ASSUME NEW c, NEW n \in Nat
  PROVE  \E r : Runs(r, "read input", c.mem, NothingRead(c), Places(n)) /\ GetMany(DeserInput, c, n) = r[n]
<1> DEFINE seen == c.mem
           start == NothingRead(c)
           places == Places(n)
           Made(g) == g = [s \in SUBSET DOMAIN places |->
                             IF s = {} THEN start
                             ELSE ReadNext(g[s \ {Max(s)}],
                                           DeserInput([mem |-> seen, at |-> g[s \ {Max(s)}].at]))]
           f == CHOOSE g : Made(g)
<1>1. GetMany(DeserInput, c, n) = f[DOMAIN places]
  BY Zenon DEF GetMany, FoldLeft, MapThenFoldSet, ReadNext, NothingRead, Places
<1>2. IsList(places) /\ Len(places) = n
  BY PlacesAreList
<1> HIDE DEF seen, start, places
<1>3. \A g, s : Turn("read input", seen, g[s \ {Max(s)}], places[Max(s)])
                   = ReadNext(g[s \ {Max(s)}], DeserInput([mem |-> seen, at |-> g[s \ {Max(s)}].at]))
  BY DEF Turn
<1>4. \A g : Made(g) <=> Folded(g, "read input", seen, start, places)
  BY <1>3 DEF Folded
<1>5. Folded(f, "read input", seen, start, places)
  <2>1. \E g : Made(g)
    BY <1>2, <1>4, FoldMade
  <2> HIDE DEF Made
  <2> QED BY <1>4, <2>1
<1>6. \A g : Folded(g, "read input", seen, start, places) =>
              \E r : Runs(r, "read input", seen, start, places) /\ g[DOMAIN places] = r[Len(places)]
  <2>1. IsList(places)
    BY <1>2
  <2> QED BY <2>1, FoldRuns
<1> HIDE DEF f
<1> QED BY Zenon, <1>1, <1>2, <1>5, <1>6 DEF seen, start, places

\* ... then the outputs, ...
LEMMA OutputsRead ==
  ASSUME NEW c, NEW n \in Nat
  PROVE  \E r : Runs(r, "read output", c.mem, NothingRead(c), Places(n)) /\ GetMany(DeserUtxo, c, n) = r[n]
<1> DEFINE seen == c.mem
           start == NothingRead(c)
           places == Places(n)
           Made(g) == g = [s \in SUBSET DOMAIN places |->
                             IF s = {} THEN start
                             ELSE ReadNext(g[s \ {Max(s)}],
                                           DeserUtxo([mem |-> seen, at |-> g[s \ {Max(s)}].at]))]
           f == CHOOSE g : Made(g)
<1>1. GetMany(DeserUtxo, c, n) = f[DOMAIN places]
  BY Zenon DEF GetMany, FoldLeft, MapThenFoldSet, ReadNext, NothingRead, Places
<1>2. IsList(places) /\ Len(places) = n
  BY PlacesAreList
<1> HIDE DEF seen, start, places
<1>3. \A g, s : Turn("read output", seen, g[s \ {Max(s)}], places[Max(s)])
                   = ReadNext(g[s \ {Max(s)}], DeserUtxo([mem |-> seen, at |-> g[s \ {Max(s)}].at]))
  BY DEF Turn
<1>4. \A g : Made(g) <=> Folded(g, "read output", seen, start, places)
  BY <1>3 DEF Folded
<1>5. Folded(f, "read output", seen, start, places)
  <2>1. \E g : Made(g)
    BY <1>2, <1>4, FoldMade
  <2> HIDE DEF Made
  <2> QED BY <1>4, <2>1
<1>6. \A g : Folded(g, "read output", seen, start, places) =>
              \E r : Runs(r, "read output", seen, start, places) /\ g[DOMAIN places] = r[Len(places)]
  <2>1. IsList(places)
    BY <1>2
  <2> QED BY <2>1, FoldRuns
<1> HIDE DEF f
<1> QED BY Zenon, <1>1, <1>2, <1>5, <1>6 DEF seen, start, places

\* ... and deser_block the transactions.
LEMMA TxsRead ==
  ASSUME NEW c, NEW n \in Nat
  PROVE  \E r : Runs(r, "read tx", c.mem, NothingRead(c), Places(n)) /\ GetMany(DeserTx, c, n) = r[n]
<1> DEFINE seen == c.mem
           start == NothingRead(c)
           places == Places(n)
           Made(g) == g = [s \in SUBSET DOMAIN places |->
                             IF s = {} THEN start
                             ELSE ReadNext(g[s \ {Max(s)}],
                                           DeserTx([mem |-> seen, at |-> g[s \ {Max(s)}].at]))]
           f == CHOOSE g : Made(g)
<1>1. GetMany(DeserTx, c, n) = f[DOMAIN places]
  BY Zenon DEF GetMany, FoldLeft, MapThenFoldSet, ReadNext, NothingRead, Places
<1>2. IsList(places) /\ Len(places) = n
  BY PlacesAreList
<1> HIDE DEF seen, start, places
<1>3. \A g, s : Turn("read tx", seen, g[s \ {Max(s)}], places[Max(s)])
                   = ReadNext(g[s \ {Max(s)}], DeserTx([mem |-> seen, at |-> g[s \ {Max(s)}].at]))
  BY DEF Turn
<1>4. \A g : Made(g) <=> Folded(g, "read tx", seen, start, places)
  BY <1>3 DEF Folded
<1>5. Folded(f, "read tx", seen, start, places)
  <2>1. \E g : Made(g)
    BY <1>2, <1>4, FoldMade
  <2> HIDE DEF Made
  <2> QED BY <1>4, <2>1
<1>6. \A g : Folded(g, "read tx", seen, start, places) =>
              \E r : Runs(r, "read tx", seen, start, places) /\ g[DOMAIN places] = r[Len(places)]
  <2>1. IsList(places)
    BY <1>2
  <2> QED BY <2>1, FoldRuns
<1> HIDE DEF f
<1> QED BY Zenon, <1>1, <1>2, <1>5, <1>6 DEF seen, start, places

-----------------------------------------------------------------------------
(* What is written of one value is read again.                             *)

LEMMA LengthsPositive ==
  /\ SIZEOF_INT \in Nat \ {0} /\ SIZEOF_LONG \in Nat \ {0} /\ SHA_HASH_LEN \in Nat \ {0}
  /\ PUB_KEY_SER_LEN \in Nat \ {0} /\ PRIV_KEY_SER_LEN \in Nat \ {0} /\ SIGNATURE_LEN \in Nat \ {0}
BY LengthAssumption

LEMMA TagsOff ==
  /\ \A key : KeyOf(PublicOf(key)) = key /\ KeyOf(PrivateOf(key)) = key
  /\ \A n : NumOf(Num(n)) = n
BY DEF KeyOf, PublicOf, PrivateOf, NumOf, Num

LEMMA Moved ==
  \A mem, at, len : /\ Skip([mem |-> mem, at |-> at], len) = [mem |-> mem, at |-> at + len]
                    /\ [[mem |-> mem, at |-> at] EXCEPT !.at = len] = [mem |-> mem, at |-> len]
BY DEF Skip

IsPair(pair) == pair = [public |-> pair.public, private |-> pair.private]
IsOutput(out) == out = [amt |-> out.amt, public_key_hash |-> out.public_key_hash]
IsEntry(entry) ==
  /\ entry = [key_pair |-> entry.key_pair, amt |-> entry.amt, spent |-> entry.spent]
  /\ IsPair(entry.key_pair)
IsInput(in) ==
  in = [pub_key |-> in.pub_key, sig_len |-> in.sig_len, signature |-> in.signature,
        prev_tx_id |-> in.prev_tx_id, prev_utxo_output |-> in.prev_utxo_output]
IsHeader(header) ==
  header = [timestamp |-> header.timestamp, all_tx |-> header.all_tx,
            prev_header_hash |-> header.prev_header_hash, nonce |-> header.nonce]

\* ser_pub_key, deser_pub_key
LEMMA PubKeyKept ==
  ASSUME NEW c, IsBuffer(c), NEW key
  PROVE  /\ Appends(c, SerPubKey(c, key), PUB_KEY_SER_LEN)
         /\ \A mem : Shows(mem, SerPubKey(c, key), c.at) =>
              DeserPubKey([mem |-> mem, at |-> c.at])
                = [value |-> key, at |-> c.at + PUB_KEY_SER_LEN]
<1>1. /\ Appends(c, SerPubKey(c, key), PUB_KEY_SER_LEN)
      /\ \A mem : Shows(mem, SerPubKey(c, key), c.at) =>
           Get([mem |-> mem, at |-> c.at], PUB_KEY_SER_LEN) = PublicOf(key)
  BY PutGet, LengthsPositive DEF SerPubKey
<1>2. \A mem : DeserPubKey([mem |-> mem, at |-> c.at])
                 = [value |-> KeyOf(Get([mem |-> mem, at |-> c.at], PUB_KEY_SER_LEN)),
                    at |-> c.at + PUB_KEY_SER_LEN]
  BY DEF DeserPubKey
<1> QED BY <1>1, <1>2, TagsOff

\* ser_keypair, deser_keypair
LEMMA KeypairKept ==
  ASSUME NEW c, IsBuffer(c), NEW pair, IsPair(pair)
  PROVE  /\ Appends(c, SerKeypair(c, pair), KEYPAIR_SER_LEN)
         /\ \A mem : Shows(mem, SerKeypair(c, pair), c.at) =>
              DeserKeypair([mem |-> mem, at |-> c.at])
                = [value |-> pair, at |-> c.at + KEYPAIR_SER_LEN]
<1> DEFINE c1 == SerPubKey(c, pair.public)
           c2 == Put(c1, PrivateOf(pair.private), PRIV_KEY_SER_LEN)
<1>1. c.at \in Nat
  BY DEF IsBuffer
<1>2. Appends(c, c1, PUB_KEY_SER_LEN) /\ IsBuffer(c1)
  BY PubKeyKept DEF Appends
<1>3. Appends(c1, c2, PRIV_KEY_SER_LEN)
  <2> HIDE DEF c1
  <2> QED BY <1>2, PutGet, LengthsPositive
<1>4. SerKeypair(c, pair) = c2
  BY DEF SerKeypair
<1>5. ASSUME NEW mem, Shows(mem, c2, c.at)
      PROVE  DeserKeypair([mem |-> mem, at |-> c.at]) = [value |-> pair, at |-> c.at + KEYPAIR_SER_LEN]
  <2>1. c1.at = c.at + PUB_KEY_SER_LEN
    BY <1>2 DEF Appends
  <2>2. Shows(mem, c1, c.at) /\ Shows(mem, c2, c1.at)
    <3> HIDE DEF c1, c2
    <3> QED BY <1>1, <1>2, <1>3, <1>5, <2>1, ShowsLess, LengthsPositive
  <2>3. DeserPubKey([mem |-> mem, at |-> c.at]) = [value |-> pair.public, at |-> c1.at]
    BY <2>1, <2>2, PubKeyKept
  <2>4. Get([mem |-> mem, at |-> c1.at], PRIV_KEY_SER_LEN) = PrivateOf(pair.private)
    <3> HIDE DEF c1
    <3> QED BY <1>2, <2>2, PutGet, LengthsPositive
  <2> HIDE DEF c1, c2
  <2>5. DeserKeypair([mem |-> mem, at |-> c.at])
          = [value |-> [public |-> pair.public, private |-> KeyOf(PrivateOf(pair.private))],
             at |-> c1.at + PRIV_KEY_SER_LEN]
    BY <2>3, <2>4, Moved DEF DeserKeypair
  <2>6. c1.at + PRIV_KEY_SER_LEN = c.at + KEYPAIR_SER_LEN
    BY <1>1, <2>1, LengthsPositive DEF KEYPAIR_SER_LEN
  <2>7. [public |-> pair.public, private |-> KeyOf(PrivateOf(pair.private))] = pair
    BY TagsOff DEF IsPair
  <2> QED BY <2>5, <2>6, <2>7
<1>6. Appends(c, c2, KEYPAIR_SER_LEN)
  <2> HIDE DEF c1, c2
  <2> QED BY <1>2, <1>3, AppendsMore, LengthsPositive DEF KEYPAIR_SER_LEN
<1> HIDE DEF c2
<1> QED BY <1>4, <1>5, <1>6

\* ser_utxo, deser_utxo
LEMMA UtxoKept ==
  ASSUME NEW c, IsBuffer(c), NEW utxo, IsOutput(utxo)
  PROVE  /\ Appends(c, SerUtxo(c, utxo), UTXO_SER_LEN)
         /\ \A mem : Shows(mem, SerUtxo(c, utxo), c.at) =>
              DeserUtxo([mem |-> mem, at |-> c.at])
                = [value |-> utxo, at |-> c.at + UTXO_SER_LEN]
<1> DEFINE c1 == Put(c, Num(utxo.amt), SIZEOF_LONG)
           c2 == Put(c1, utxo.public_key_hash, SHA_HASH_LEN)
<1>1. c.at \in Nat
  BY DEF IsBuffer
<1>2. Appends(c, c1, SIZEOF_LONG) /\ IsBuffer(c1)
  BY PutGet, LengthsPositive DEF Appends
<1>3. Appends(c1, c2, SHA_HASH_LEN)
  <2> HIDE DEF c1
  <2> QED BY <1>2, PutGet, LengthsPositive
<1>4. SerUtxo(c, utxo) = c2
  BY DEF SerUtxo
<1>5. ASSUME NEW mem, Shows(mem, c2, c.at)
      PROVE  DeserUtxo([mem |-> mem, at |-> c.at]) = [value |-> utxo, at |-> c.at + UTXO_SER_LEN]
  <2>1. c1.at = c.at + SIZEOF_LONG
    BY <1>2 DEF Appends
  <2>2. Shows(mem, c1, c.at) /\ Shows(mem, c2, c1.at)
    <3> HIDE DEF c1, c2
    <3> QED BY <1>1, <1>2, <1>3, <1>5, <2>1, ShowsLess, LengthsPositive
  <2>3. Get([mem |-> mem, at |-> c.at], SIZEOF_LONG) = Num(utxo.amt)
    BY <2>2, PutGet, LengthsPositive
  <2>4. Get([mem |-> mem, at |-> c1.at], SHA_HASH_LEN) = utxo.public_key_hash
    <3> HIDE DEF c1
    <3> QED BY <1>2, <2>2, PutGet, LengthsPositive
  <2> HIDE DEF c1, c2
  <2>5. DeserUtxo([mem |-> mem, at |-> c.at])
          = [value |-> [amt |-> NumOf(Num(utxo.amt)), public_key_hash |-> utxo.public_key_hash],
             at |-> c1.at + SHA_HASH_LEN]
    BY <2>1, <2>3, <2>4, Moved DEF DeserUtxo
  <2>6. c1.at + SHA_HASH_LEN = c.at + UTXO_SER_LEN
    BY <1>1, <2>1, LengthsPositive DEF UTXO_SER_LEN
  <2>7. [amt |-> NumOf(Num(utxo.amt)), public_key_hash |-> utxo.public_key_hash] = utxo
    BY TagsOff DEF IsOutput
  <2> QED BY <2>5, <2>6, <2>7
<1>6. Appends(c, c2, UTXO_SER_LEN)
  <2> HIDE DEF c1, c2
  <2> QED BY <1>2, <1>3, AppendsMore, LengthsPositive DEF UTXO_SER_LEN
<1> HIDE DEF c2
<1> QED BY <1>4, <1>5, <1>6

\* ser_wallet_entry, deser_wallet_entry
LEMMA WalletEntryKept ==
  ASSUME NEW c, IsBuffer(c), NEW entry, IsEntry(entry)
  PROVE  /\ Appends(c, SerWalletEntry(c, entry), WALLET_ENTRY_SER_LEN)
         /\ \A mem : Shows(mem, SerWalletEntry(c, entry), c.at) =>
              DeserWalletEntry([mem |-> mem, at |-> c.at])
                = [value |-> entry, at |-> c.at + WALLET_ENTRY_SER_LEN]
<1> DEFINE c1 == SerKeypair(c, entry.key_pair)
           c2 == Put(c1, Num(entry.amt), SIZEOF_LONG)
           c3 == Put(c2, Num(entry.spent), SIZEOF_INT)
<1>0. IsPair(entry.key_pair) /\ KEYPAIR_SER_LEN \in Nat \ {0}
  BY LengthsPositive DEF IsEntry, KEYPAIR_SER_LEN
<1>1. c.at \in Nat
  BY DEF IsBuffer
<1>2. Appends(c, c1, KEYPAIR_SER_LEN) /\ IsBuffer(c1)
  BY KeypairKept, <1>0 DEF Appends
<1> HIDE DEF c1
<1>3. Appends(c1, c2, SIZEOF_LONG) /\ IsBuffer(c2)
  BY <1>2, PutGet, LengthsPositive DEF Appends
<1> HIDE DEF c2
<1>4. Appends(c2, c3, SIZEOF_INT) /\ IsBuffer(c3)
  BY <1>3, PutGet, LengthsPositive DEF Appends
<1> HIDE DEF c3
<1>5. SerWalletEntry(c, entry) = c3
  BY DEF SerWalletEntry, c1, c2, c3
<1>6. /\ c1.at = c.at + KEYPAIR_SER_LEN
      /\ c2.at = c1.at + SIZEOF_LONG
      /\ c3.at = c2.at + SIZEOF_INT
      /\ c1.at \in Nat /\ c2.at \in Nat /\ c3.at \in Nat
  BY <1>1, <1>2, <1>3, <1>4, <1>0, LengthsPositive DEF Appends
<1>7. ASSUME NEW mem, Shows(mem, c3, c.at)
      PROVE  DeserWalletEntry([mem |-> mem, at |-> c.at])
               = [value |-> entry, at |-> c.at + WALLET_ENTRY_SER_LEN]
  <2>1. Shows(mem, c2, c.at) /\ Shows(mem, c3, c2.at)
    <3>1. c.at <= c2.at
      BY <1>1, <1>6, LengthsPositive DEF KEYPAIR_SER_LEN
    <3> QED BY <1>1, <1>3, <1>4, <1>7, <3>1, ShowsLess, LengthsPositive
  <2>2. Shows(mem, c1, c.at) /\ Shows(mem, c2, c1.at)
    <3>1. c.at <= c1.at
      BY <1>1, <1>6, LengthsPositive DEF KEYPAIR_SER_LEN
    <3> QED BY <1>1, <1>2, <1>3, <2>1, <3>1, ShowsLess, LengthsPositive
  <2>3. DeserKeypair([mem |-> mem, at |-> c.at]) = [value |-> entry.key_pair, at |-> c1.at]
    BY <2>2, <1>6, KeypairKept, <1>0 DEF c1
  <2>4. Get([mem |-> mem, at |-> c1.at], SIZEOF_LONG) = Num(entry.amt)
    BY <1>2, <2>2, PutGet, LengthsPositive DEF c2
  <2>5. Get([mem |-> mem, at |-> c2.at], SIZEOF_INT) = Num(entry.spent)
    BY <1>3, <2>1, PutGet, LengthsPositive DEF c3
  <2>6. DeserWalletEntry([mem |-> mem, at |-> c.at])
          = [value |-> [key_pair |-> entry.key_pair, amt |-> NumOf(Num(entry.amt)),
                       spent |-> NumOf(Num(entry.spent))],
             at |-> c2.at + SIZEOF_INT]
    BY <1>6, <2>3, <2>4, <2>5, Moved DEF DeserWalletEntry
  <2>7. c2.at + SIZEOF_INT = c.at + WALLET_ENTRY_SER_LEN
    BY <1>1, <1>6, <1>0, LengthsPositive DEF WALLET_ENTRY_SER_LEN
  <2>8. [key_pair |-> entry.key_pair, amt |-> NumOf(Num(entry.amt)),
                       spent |-> NumOf(Num(entry.spent))] = entry
    BY TagsOff DEF IsEntry
  <2> QED BY <2>6, <2>7, <2>8
<1>8. Appends(c, c3, WALLET_ENTRY_SER_LEN)
  <2>1. Appends(c, c2, KEYPAIR_SER_LEN + SIZEOF_LONG)
    BY <1>2, <1>2, <1>3, AppendsMore, LengthsPositive DEF KEYPAIR_SER_LEN
  <2>2. Appends(c, c3, KEYPAIR_SER_LEN + SIZEOF_LONG + SIZEOF_INT)
    BY <2>1, <1>2, <1>4, AppendsMore, LengthsPositive DEF KEYPAIR_SER_LEN
  <2> QED BY <2>2, LengthsPositive DEF WALLET_ENTRY_SER_LEN
<1> QED BY <1>5, <1>7, <1>8

\* ser_input, deser_input
LEMMA InputKept ==
  ASSUME NEW c, IsBuffer(c), NEW in, IsInput(in)
  PROVE  /\ Appends(c, SerInput(c, in), INPUT_SER_LEN)
         /\ \A mem : Shows(mem, SerInput(c, in), c.at) =>
              DeserInput([mem |-> mem, at |-> c.at])
                = [value |-> in, at |-> c.at + INPUT_SER_LEN]
<1> DEFINE c1 == SerPubKey(c, in.pub_key)
           c2 == Put(c1, Num(in.sig_len), SIZEOF_LONG)
           c3 == Put(c2, in.signature, SIGNATURE_LEN)
           c4 == Put(c3, in.prev_tx_id, SHA_HASH_LEN)
           c5 == Put(c4, Num(in.prev_utxo_output), SIZEOF_INT)
<1>1. c.at \in Nat
  BY DEF IsBuffer
<1>2. Appends(c, c1, PUB_KEY_SER_LEN) /\ IsBuffer(c1)
  BY PubKeyKept DEF Appends
<1> HIDE DEF c1
<1>3. Appends(c1, c2, SIZEOF_LONG) /\ IsBuffer(c2)
  BY <1>2, PutGet, LengthsPositive DEF Appends
<1> HIDE DEF c2
<1>4. Appends(c2, c3, SIGNATURE_LEN) /\ IsBuffer(c3)
  BY <1>3, PutGet, LengthsPositive DEF Appends
<1> HIDE DEF c3
<1>5. Appends(c3, c4, SHA_HASH_LEN) /\ IsBuffer(c4)
  BY <1>4, PutGet, LengthsPositive DEF Appends
<1> HIDE DEF c4
<1>6. Appends(c4, c5, SIZEOF_INT) /\ IsBuffer(c5)
  BY <1>5, PutGet, LengthsPositive DEF Appends
<1> HIDE DEF c5
<1>7. SerInput(c, in) = c5
  BY DEF SerInput, c1, c2, c3, c4, c5
<1>8. /\ c1.at = c.at + PUB_KEY_SER_LEN
      /\ c2.at = c1.at + SIZEOF_LONG
      /\ c3.at = c2.at + SIGNATURE_LEN
      /\ c4.at = c3.at + SHA_HASH_LEN
      /\ c5.at = c4.at + SIZEOF_INT
      /\ c1.at \in Nat /\ c2.at \in Nat /\ c3.at \in Nat /\ c4.at \in Nat /\ c5.at \in Nat
  BY <1>1, <1>2, <1>3, <1>4, <1>5, <1>6, LengthsPositive DEF Appends
<1>9. ASSUME NEW mem, Shows(mem, c5, c.at)
      PROVE  DeserInput([mem |-> mem, at |-> c.at]) = [value |-> in, at |-> c.at + INPUT_SER_LEN]
  <2>1. Shows(mem, c4, c.at) /\ Shows(mem, c5, c4.at)
    <3>1. c.at <= c4.at
      BY <1>1, <1>8, LengthsPositive
    <3> QED BY <1>1, <1>5, <1>6, <1>9, <3>1, ShowsLess, LengthsPositive
  <2>2. Shows(mem, c3, c.at) /\ Shows(mem, c4, c3.at)
    <3>1. c.at <= c3.at
      BY <1>1, <1>8, LengthsPositive
    <3> QED BY <1>1, <1>4, <1>5, <2>1, <3>1, ShowsLess, LengthsPositive
  <2>3. Shows(mem, c2, c.at) /\ Shows(mem, c3, c2.at)
    <3>1. c.at <= c2.at
      BY <1>1, <1>8, LengthsPositive
    <3> QED BY <1>1, <1>3, <1>4, <2>2, <3>1, ShowsLess, LengthsPositive
  <2>4. Shows(mem, c1, c.at) /\ Shows(mem, c2, c1.at)
    <3>1. c.at <= c1.at
      BY <1>1, <1>8, LengthsPositive
    <3> QED BY <1>1, <1>2, <1>3, <2>3, <3>1, ShowsLess, LengthsPositive
  <2>5. DeserPubKey([mem |-> mem, at |-> c.at]) = [value |-> in.pub_key, at |-> c1.at]
    BY <2>4, <1>8, PubKeyKept DEF c1
  <2>6. Get([mem |-> mem, at |-> c1.at], SIZEOF_LONG) = Num(in.sig_len)
    BY <1>2, <2>4, PutGet, LengthsPositive DEF c2
  <2>7. Get([mem |-> mem, at |-> c2.at], SIGNATURE_LEN) = in.signature
    BY <1>3, <2>3, PutGet, LengthsPositive DEF c3
  <2>8. Get([mem |-> mem, at |-> c3.at], SHA_HASH_LEN) = in.prev_tx_id
    BY <1>4, <2>2, PutGet, LengthsPositive DEF c4
  <2>9. Get([mem |-> mem, at |-> c4.at], SIZEOF_INT) = Num(in.prev_utxo_output)
    BY <1>5, <2>1, PutGet, LengthsPositive DEF c5
  <2>10. DeserInput([mem |-> mem, at |-> c.at])
          = [value |-> [pub_key |-> in.pub_key, sig_len |-> NumOf(Num(in.sig_len)),
                       signature |-> in.signature, prev_tx_id |-> in.prev_tx_id,
                       prev_utxo_output |-> NumOf(Num(in.prev_utxo_output))],
             at |-> c4.at + SIZEOF_INT]
    BY <1>8, <2>5, <2>6, <2>7, <2>8, <2>9, Moved DEF DeserInput
  <2>11. c4.at + SIZEOF_INT = c.at + INPUT_SER_LEN
    BY <1>1, <1>8, LengthsPositive DEF INPUT_SER_LEN
  <2>12. [pub_key |-> in.pub_key, sig_len |-> NumOf(Num(in.sig_len)),
                       signature |-> in.signature, prev_tx_id |-> in.prev_tx_id,
                       prev_utxo_output |-> NumOf(Num(in.prev_utxo_output))] = in
    BY TagsOff DEF IsInput
  <2> QED BY <2>10, <2>11, <2>12
<1>10. Appends(c, c5, INPUT_SER_LEN)
  <2>1. Appends(c, c2, PUB_KEY_SER_LEN + SIZEOF_LONG)
    BY <1>2, <1>2, <1>3, AppendsMore, LengthsPositive
  <2>2. Appends(c, c3, PUB_KEY_SER_LEN + SIZEOF_LONG + SIGNATURE_LEN)
    BY <2>1, <1>2, <1>4, AppendsMore, LengthsPositive
  <2>3. Appends(c, c4, PUB_KEY_SER_LEN + SIZEOF_LONG + SIGNATURE_LEN + SHA_HASH_LEN)
    BY <2>2, <1>2, <1>5, AppendsMore, LengthsPositive
  <2>4. Appends(c, c5, PUB_KEY_SER_LEN + SIZEOF_LONG + SIGNATURE_LEN + SHA_HASH_LEN + SIZEOF_INT)
    BY <2>3, <1>2, <1>6, AppendsMore, LengthsPositive
  <2> QED BY <2>4, LengthsPositive DEF INPUT_SER_LEN
<1> QED BY <1>7, <1>9, <1>10

\* ser_blockheader, deser_blockheader
LEMMA BlockheaderKept ==
  ASSUME NEW c, IsBuffer(c), NEW header, IsHeader(header)
  PROVE  /\ Appends(c, SerBlockheader(c, header), SizeSerBlockheader)
         /\ \A mem : Shows(mem, SerBlockheader(c, header), c.at) =>
              DeserBlockheader([mem |-> mem, at |-> c.at])
                = [value |-> header, at |-> c.at + SizeSerBlockheader]
<1> DEFINE c1 == Put(c, Num(header.timestamp), SIZEOF_LONG)
           c2 == Put(c1, header.all_tx, SHA_HASH_LEN)
           c3 == Put(c2, header.prev_header_hash, SHA_HASH_LEN)
           c4 == Put(c3, Num(header.nonce), SIZEOF_LONG)
<1>1. c.at \in Nat
  BY DEF IsBuffer
<1>2. Appends(c, c1, SIZEOF_LONG) /\ IsBuffer(c1)
  BY PutGet, LengthsPositive DEF Appends
<1> HIDE DEF c1
<1>3. Appends(c1, c2, SHA_HASH_LEN) /\ IsBuffer(c2)
  BY <1>2, PutGet, LengthsPositive DEF Appends
<1> HIDE DEF c2
<1>4. Appends(c2, c3, SHA_HASH_LEN) /\ IsBuffer(c3)
  BY <1>3, PutGet, LengthsPositive DEF Appends
<1> HIDE DEF c3
<1>5. Appends(c3, c4, SIZEOF_LONG) /\ IsBuffer(c4)
  BY <1>4, PutGet, LengthsPositive DEF Appends
<1> HIDE DEF c4
<1>6. SerBlockheader(c, header) = c4
  BY DEF SerBlockheader, c1, c2, c3, c4
<1>7. /\ c1.at = c.at + SIZEOF_LONG
      /\ c2.at = c1.at + SHA_HASH_LEN
      /\ c3.at = c2.at + SHA_HASH_LEN
      /\ c4.at = c3.at + SIZEOF_LONG
      /\ c1.at \in Nat /\ c2.at \in Nat /\ c3.at \in Nat /\ c4.at \in Nat
  BY <1>1, <1>2, <1>3, <1>4, <1>5, LengthsPositive DEF Appends
<1>8. ASSUME NEW mem, Shows(mem, c4, c.at)
      PROVE  DeserBlockheader([mem |-> mem, at |-> c.at])
               = [value |-> header, at |-> c.at + SizeSerBlockheader]
  <2>1. Shows(mem, c3, c.at) /\ Shows(mem, c4, c3.at)
    <3>1. c.at <= c3.at
      BY <1>1, <1>7, LengthsPositive
    <3> QED BY <1>1, <1>4, <1>5, <1>8, <3>1, ShowsLess, LengthsPositive
  <2>2. Shows(mem, c2, c.at) /\ Shows(mem, c3, c2.at)
    <3>1. c.at <= c2.at
      BY <1>1, <1>7, LengthsPositive
    <3> QED BY <1>1, <1>3, <1>4, <2>1, <3>1, ShowsLess, LengthsPositive
  <2>3. Shows(mem, c1, c.at) /\ Shows(mem, c2, c1.at)
    <3>1. c.at <= c1.at
      BY <1>1, <1>7, LengthsPositive
    <3> QED BY <1>1, <1>2, <1>3, <2>2, <3>1, ShowsLess, LengthsPositive
  <2>4. Get([mem |-> mem, at |-> c.at], SIZEOF_LONG) = Num(header.timestamp)
    BY <2>3, <1>7, PutGet, LengthsPositive DEF c1
  <2>5. Get([mem |-> mem, at |-> c1.at], SHA_HASH_LEN) = header.all_tx
    BY <1>2, <2>3, PutGet, LengthsPositive DEF c2
  <2>6. Get([mem |-> mem, at |-> c2.at], SHA_HASH_LEN) = header.prev_header_hash
    BY <1>3, <2>2, PutGet, LengthsPositive DEF c3
  <2>7. Get([mem |-> mem, at |-> c3.at], SIZEOF_LONG) = Num(header.nonce)
    BY <1>4, <2>1, PutGet, LengthsPositive DEF c4
  <2>8. DeserBlockheader([mem |-> mem, at |-> c.at])
          = [value |-> [timestamp |-> NumOf(Num(header.timestamp)), all_tx |-> header.all_tx,
                       prev_header_hash |-> header.prev_header_hash, nonce |-> NumOf(Num(header.nonce))],
             at |-> c3.at + SIZEOF_LONG]
    BY <1>7, <2>4, <2>5, <2>6, <2>7, Moved DEF DeserBlockheader
  <2>9. c3.at + SIZEOF_LONG = c.at + SizeSerBlockheader
    BY <1>1, <1>7, LengthsPositive DEF SizeSerBlockheader
  <2>10. [timestamp |-> NumOf(Num(header.timestamp)), all_tx |-> header.all_tx,
          prev_header_hash |-> header.prev_header_hash, nonce |-> NumOf(Num(header.nonce))] = header
    BY TagsOff DEF IsHeader
  <2> QED BY <2>8, <2>9, <2>10
<1>9. Appends(c, c4, SizeSerBlockheader)
  <2>1. Appends(c, c2, SIZEOF_LONG + SHA_HASH_LEN)
    BY <1>2, <1>2, <1>3, AppendsMore, LengthsPositive
  <2>2. Appends(c, c3, SIZEOF_LONG + SHA_HASH_LEN + SHA_HASH_LEN)
    BY <2>1, <1>2, <1>4, AppendsMore, LengthsPositive
  <2>3. Appends(c, c4, SIZEOF_LONG + SHA_HASH_LEN + SHA_HASH_LEN + SIZEOF_LONG)
    BY <2>2, <1>2, <1>5, AppendsMore, LengthsPositive
  <2> QED BY <2>3, LengthsPositive DEF SizeSerBlockheader
<1> QED BY <1>6, <1>8, <1>9

-----------------------------------------------------------------------------
(* Lists written one element after the other are read again.               *)

\* What the loops do with an element, and what comes of it.
SerLen(kind, x) ==
  CASE kind = "input"  -> INPUT_SER_LEN
    [] kind = "output" -> SIZEOF_OUTPUT
    [] kind = "tx"     -> SizeSerTx(x)

ReadOne(kind, c) ==
  CASE kind = "input"  -> DeserInput(c)
    [] kind = "output" -> DeserUtxo(c)
    [] kind = "tx"     -> DeserTx(c)

Reading(kind) ==
  CASE kind = "input"  -> "read input"
    [] kind = "output" -> "read output"
    [] kind = "tx"     -> "read tx"

Back(kind, x) == IF kind = "tx" THEN CopyTx(x) ELSE x

\* Wherever x is written, it is written to its length and read again.
Keeps(kind, x) ==
  /\ SerLen(kind, x) \in Nat
  /\ \A c : IsBuffer(c) =>
       /\ Appends(c, Turn(kind, <<>>, c, x), SerLen(kind, x))
       /\ \A mem : Shows(mem, Turn(kind, <<>>, c, x), c.at) =>
            ReadOne(kind, [mem |-> mem, at |-> c.at])
              = [value |-> Back(kind, x), at |-> c.at + SerLen(kind, x)]

\* o[k] is the length of the first k elements.
Offsets(o, kind, seq) ==
  /\ o[0] = 0
  /\ \A k \in 0..(Len(seq) - 1) : o[k + 1] = o[k] + SerLen(kind, seq[k + 1])

LEMMA AppendList ==
  ASSUME NEW n \in Nat, NEW seq, seq = [k \in 1..n |-> seq[k]], NEW x
  PROVE  Append(seq, x) = [k \in 1..(n + 1) |-> IF k = n + 1 THEN x ELSE seq[k]]
<1> DEFINE S == {seq[k] : k \in 1..n} \cup {x}
<1>1. seq \in Seq(S) /\ x \in S /\ Len(seq) = n
  <2>1. \A k \in 1..n : seq[k] \in S
    OBVIOUS
  <2> HIDE DEF S
  <2>2. seq \in [1..n -> S]
    BY <2>1
  <2> QED BY <2>2 DEF S
<1> HIDE DEF S
<1>2. /\ Append(seq, x) \in Seq(S) /\ Len(Append(seq, x)) = n + 1
      /\ \A k \in 1..n : Append(seq, x)[k] = seq[k]
      /\ Append(seq, x)[n + 1] = x
  BY <1>1, AppendProperties
<1> DEFINE list == Append(seq, x)
<1>3. DOMAIN list = 1..(n + 1) /\ list = [k \in DOMAIN list |-> list[k]]
  BY <1>2
<1>4. \A k \in 1..(n + 1) : list[k] = IF k = n + 1 THEN x ELSE seq[k]
  BY <1>2
<1> HIDE DEF list
<1>5. list = [k \in 1..(n + 1) |-> IF k = n + 1 THEN x ELSE seq[k]]
  BY <1>3, <1>4
<1> QED BY <1>5 DEF list

\* e has what d has.
Extends(d, e) ==
  /\ d.at \in Nat /\ e.at \in Nat /\ d.at <= e.at
  /\ DOMAIN d.mem \subseteq DOMAIN e.mem
  /\ \A a \in DOMAIN d.mem : e.mem[a] = d.mem[a]

LEMMA AppendsExtends ==
  ASSUME NEW d, IsBuffer(d), NEW len \in Nat, NEW e, Appends(d, e, len)
  PROVE  Extends(d, e)
BY DEF Appends, IsBuffer, Extends

LEMMA ListWritten ==
  ASSUME NEW kind, NEW c, IsBuffer(c), NEW seq, IsList(seq),
         \A k \in 1..Len(seq) : Keeps(kind, seq[k]),
         NEW o, Offsets(o, kind, seq), NEW w, Runs(w, kind, <<>>, c, seq)
  PROVE  \A k \in 0..Len(seq) :
           o[k] \in Nat /\ Appends(c, w[k], o[k]) /\ \A j \in 0..k : Extends(w[j], w[k])
<1> DEFINE n == Len(seq)
           Good(k) == o[k] \in Nat /\ Appends(c, w[k], o[k]) /\ \A j \in 0..k : Extends(w[j], w[k])
           S == {k \in 0..n : Good(k)}
<1>1. n \in Nat
  BY DEF IsList
<1> HIDE DEF n
<1>2. 0 \in S
  <2>1. w[0] = c /\ o[0] = 0
    BY DEF Runs, Offsets
  <2>2. c.at \in Nat
    BY DEF IsBuffer
  <2>3. Appends(c, c, 0) /\ Extends(c, c)
    BY <2>2 DEF Appends, Extends
  <2>4. Good(0)
    BY <2>1, <2>3
  <2> QED BY <1>1, <2>4
<1>3. ASSUME NEW k \in 0..(n - 1), k \in S
      PROVE  k + 1 \in S
  <2>1. k \in 0..n /\ k + 1 \in 0..n /\ k + 1 \in 1..n /\ k \in Nat
    BY <1>1
  <2>2. Good(k) /\ IsBuffer(w[k])
    BY <1>3 DEF Appends
  <2>3. Keeps(kind, seq[k + 1]) /\ w[k + 1] = Turn(kind, <<>>, w[k], seq[k + 1])
    BY <2>1 DEF Runs, n
  <2> DEFINE len == SerLen(kind, seq[k + 1])
  <2>4. len \in Nat /\ Appends(w[k], w[k + 1], len)
    BY <2>2, <2>3 DEF Keeps
  <2>5. o[k + 1] = o[k] + len
    BY DEF Offsets, n
  <2> HIDE DEF len
  <2>6. Appends(c, w[k + 1], o[k] + len)
    BY <2>2, <2>4, AppendsMore
  <2>7. Extends(w[k], w[k + 1])
    BY <2>2, <2>4, AppendsExtends
  <2>8. ASSUME NEW j \in 0..(k + 1)
        PROVE  Extends(w[j], w[k + 1])
    <3>1. CASE j = k + 1
      BY <2>7, <3>1 DEF Extends
    <3>2. CASE j # k + 1
      <4>1. j \in 0..k
        BY <2>1, <3>2
      <4>2. Extends(w[j], w[k])
        BY <2>2, <4>1
      <4> QED BY <2>7, <4>2 DEF Extends
    <3> QED BY <3>1, <3>2
  <2>9. o[k + 1] \in Nat
    BY <2>2, <2>4, <2>5
  <2>10. Good(k + 1)
    BY <2>5, <2>6, <2>8, <2>9
  <2> HIDE DEF Good
  <2> QED BY <2>1, <2>10
<1>4. \A k \in 0..n : k \in S
  <2> HIDE DEF S
  <2> QED BY <1>1, <1>2, <1>3, UpTo
<1> QED BY <1>4 DEF n

LEMMA ListRead ==
  ASSUME NEW kind \in {"input", "output", "tx"}, NEW c, IsBuffer(c), NEW seq, IsList(seq),
         \A k \in 1..Len(seq) : Keeps(kind, seq[k]),
         NEW o, Offsets(o, kind, seq), NEW w, Runs(w, kind, <<>>, c, seq),
         NEW mem, Shows(mem, w[Len(seq)], c.at),
         NEW r, Runs(r, Reading(kind), mem, NothingRead([mem |-> mem, at |-> c.at]),
                     Places(Len(seq)))
  PROVE  r[Len(seq)] = [value |-> [k \in 1..Len(seq) |-> Back(kind, seq[k])],
                        at |-> c.at + o[Len(seq)]]
<1> DEFINE n == Len(seq)
           Upto(k) == [i \in 1..k |-> Back(kind, seq[i])]
           S == {k \in 0..n : r[k] = [value |-> Upto(k), at |-> w[k].at]}
<1>1. n \in Nat /\ c.at \in Nat
  BY DEF IsList, IsBuffer
<1>2. \A k \in 0..n : /\ IsBuffer(w[k]) /\ c.at <= w[k].at /\ w[k].at = c.at + o[k] /\ o[k] \in Nat
                      /\ Extends(w[k], w[n])
  <2>1. \A k \in 0..n : o[k] \in Nat /\ Appends(c, w[k], o[k]) /\ \A j \in 0..k : Extends(w[j], w[k])
    BY ListWritten
  <2>2. \A k \in 0..n : n \in 0..n /\ k \in 0..n
    BY <1>1
  <2> QED BY <1>1, <2>1, <2>2 DEF Appends
<1>3. r[0] = NothingRead([mem |-> mem, at |-> c.at]) /\ w[0] = c
  BY DEF Runs
<1>4. \A k \in 0..(n - 1) : r[k + 1] = ReadNext(r[k], ReadOne(kind, [mem |-> mem, at |-> r[k].at]))
  <2> SUFFICES ASSUME NEW k \in 0..(n - 1)
               PROVE  r[k + 1] = ReadNext(r[k], ReadOne(kind, [mem |-> mem, at |-> r[k].at]))
    OBVIOUS
  <2>1. Len(Places(n)) = n
    BY <1>1, PlacesAreList
  <2>2. r[k + 1] = Turn(Reading(kind), mem, r[k], Places(n)[k + 1])
    BY <2>1 DEF Runs
  <2> QED BY <2>2 DEF Turn, Reading, ReadOne
<1>5. \A k \in 0..(n - 1) : w[k + 1] = Turn(kind, <<>>, w[k], seq[k + 1]) /\ Keeps(kind, seq[k + 1])
                            /\ o[k + 1] = o[k] + SerLen(kind, seq[k + 1])
  BY <1>1 DEF Runs, Offsets
<1>6. Shows(mem, w[n], c.at)
  OBVIOUS
<1> HIDE DEF n
<1>7. 0 \in S
  <2>1. Upto(0) = <<>>
    OBVIOUS
  <2> QED BY <1>1, <1>3, <2>1 DEF NothingRead
<1>8. ASSUME NEW k \in 0..(n - 1), k \in S
      PROVE  k + 1 \in S
  <2>1. k \in 0..n /\ k + 1 \in 0..n /\ k \in Nat
    BY <1>1
  <2>2. r[k] = [value |-> Upto(k), at |-> w[k].at]
    BY <1>8
  <2>3. Shows(mem, w[k + 1], w[k].at)
    <3> SUFFICES ASSUME NEW a \in w[k].at..(w[k + 1].at - 1)
                 PROVE  a \in DOMAIN mem /\ mem[a] = w[k + 1].mem[a]
      BY DEF Shows
    <3> DEFINE from == w[k].at
               to == w[k + 1].at
               end == w[n].at
    <3>1. /\ c.at <= from /\ from \in Nat /\ to \in Nat /\ end \in Nat /\ to <= end
          /\ DOMAIN w[k + 1].mem = 0..(to - 1)
      BY <1>2, <2>1 DEF IsBuffer, Extends
    <3>2. a \in DOMAIN w[k + 1].mem /\ a \in c.at..(end - 1)
      <4>1. a \in from..(to - 1)
        OBVIOUS
      <4> HIDE DEF from, to, end
      <4> QED BY <1>1, <3>1, <4>1
    <3> QED BY <1>2, <1>6, <2>1, <3>2 DEF Extends, Shows
  <2> DEFINE len == SerLen(kind, seq[k + 1])
             x == Back(kind, seq[k + 1])
  <2>4. ReadOne(kind, [mem |-> mem, at |-> w[k].at]) = [value |-> x, at |-> w[k].at + len]
    BY <1>2, <1>5, <2>1, <2>3 DEF Keeps
  <2>5. w[k + 1].at = w[k].at + len
    BY <1>2, <1>5, <2>1 DEF Keeps, Appends
  <2>6. Append(Upto(k), x) = Upto(k + 1)
    <3>1. Upto(k) = [i \in 1..k |-> Upto(k)[i]]
      OBVIOUS
    <3> DEFINE u == Upto(k)
    <3>2. \A i \in 1..k : u[i] = Back(kind, seq[i])
      OBVIOUS
    <3> HIDE DEF u, x
    <3>3. Append(u, x) = [i \in 1..(k + 1) |-> IF i = k + 1 THEN x ELSE u[i]]
      BY <2>1, <3>1, AppendList DEF u
    <3>4. \A i \in 1..(k + 1) : (IF i = k + 1 THEN x ELSE u[i]) = Back(kind, seq[i])
      BY <2>1, <3>2 DEF x
    <3>5. Append(u, x) = Upto(k + 1)
      BY <3>3, <3>4
    <3> QED BY <3>5 DEF u
  <2> HIDE DEF Upto, len, x
  <2>7. r[k + 1] = ReadNext([value |-> Upto(k), at |-> w[k].at], [value |-> x, at |-> w[k].at + len])
    BY <1>4, <2>2, <2>4
  <2>8. r[k + 1] = [value |-> Upto(k + 1), at |-> w[k + 1].at]
    BY <2>5, <2>6, <2>7 DEF ReadNext
  <2> QED BY <2>1, <2>8
<1>9. n \in S
  <2> HIDE DEF S
  <2>1. n \in 0..n
    BY <1>1
  <2> QED BY <1>1, <1>7, <1>8, <2>1, UpTo
<1>10. r[n] = [value |-> Upto(n), at |-> c.at + o[n]]
  BY <1>1, <1>2, <1>9
<1> QED BY <1>10 DEF n

\* The loops, by what they write and read.
WriteAll(kind, c, seq) ==
  CASE kind = "input"  -> FoldLeft(SerInput, c, seq)
    [] kind = "output" -> FoldLeft(SerUtxo, c, seq)
    [] kind = "tx"     -> FoldLeft(SerTx, c, seq)

ReadAll(kind, c, n) ==
  CASE kind = "input"  -> GetMany(DeserInput, c, n)
    [] kind = "output" -> GetMany(DeserUtxo, c, n)
    [] kind = "tx"     -> GetMany(DeserTx, c, n)

LEMMA WritersRun ==
  ASSUME NEW kind \in {"input", "output", "tx"}, NEW c, NEW seq, IsList(seq)
  PROVE  \E w : Runs(w, kind, <<>>, c, seq) /\ WriteAll(kind, c, seq) = w[Len(seq)]
<1>1. CASE kind = "input"
  <2>1. WriteAll("input", c, seq) = FoldLeft(SerInput, c, seq)
    BY Zenon DEF WriteAll
  <2> QED BY Zenon, <1>1, <2>1, InputsRun
<1>2. CASE kind = "output"
  <2>1. WriteAll("output", c, seq) = FoldLeft(SerUtxo, c, seq)
    BY Zenon DEF WriteAll
  <2> QED BY Zenon, <1>2, <2>1, OutputsRun
<1>3. CASE kind = "tx"
  <2>1. WriteAll("tx", c, seq) = FoldLeft(SerTx, c, seq)
    BY Zenon DEF WriteAll
  <2> QED BY Zenon, <1>3, <2>1, TxsRun
<1> QED BY <1>1, <1>2, <1>3

LEMMA ReadersRun ==
  ASSUME NEW kind \in {"input", "output", "tx"}, NEW c, NEW n \in Nat
  PROVE  \E r : Runs(r, Reading(kind), c.mem, NothingRead(c), Places(n)) /\ ReadAll(kind, c, n) = r[n]
<1>1. CASE kind = "input"
  <2>1. ReadAll("input", c, n) = GetMany(DeserInput, c, n) /\ Reading("input") = "read input"
    BY Zenon DEF ReadAll, Reading
  <2> QED BY Zenon, <1>1, <2>1, InputsRead
<1>2. CASE kind = "output"
  <2>1. ReadAll("output", c, n) = GetMany(DeserUtxo, c, n) /\ Reading("output") = "read output"
    BY Zenon DEF ReadAll, Reading
  <2> QED BY Zenon, <1>2, <2>1, OutputsRead
<1>3. CASE kind = "tx"
  <2>1. ReadAll("tx", c, n) = GetMany(DeserTx, c, n) /\ Reading("tx") = "read tx"
    BY Zenon DEF ReadAll, Reading
  <2> QED BY Zenon, <1>3, <2>1, TxsRead
<1> QED BY <1>1, <1>2, <1>3

\* A list of what is kept is kept.
LEMMA ListKept ==
  ASSUME NEW kind \in {"input", "output", "tx"}, NEW c, IsBuffer(c), NEW seq, IsList(seq),
         \A k \in 1..Len(seq) : Keeps(kind, seq[k]),
         NEW o, Offsets(o, kind, seq)
  PROVE  /\ o[Len(seq)] \in Nat
         /\ Appends(c, WriteAll(kind, c, seq), o[Len(seq)])
         /\ \A mem : Shows(mem, WriteAll(kind, c, seq), c.at) =>
              ReadAll(kind, [mem |-> mem, at |-> c.at], Len(seq))
                = [value |-> [k \in 1..Len(seq) |-> Back(kind, seq[k])],
                   at |-> c.at + o[Len(seq)]]
<1>1. PICK w : Runs(w, kind, <<>>, c, seq) /\ WriteAll(kind, c, seq) = w[Len(seq)]
  BY WritersRun
<1>2. Len(seq) \in Nat /\ Len(seq) \in 0..Len(seq)
  BY DEF IsList
<1>3. o[Len(seq)] \in Nat /\ Appends(c, WriteAll(kind, c, seq), o[Len(seq)])
  <2>1. \A k \in 0..Len(seq) : o[k] \in Nat /\ Appends(c, w[k], o[k])
    BY <1>1, ListWritten
  <2> QED BY <1>1, <1>2, <2>1
<1>4. ASSUME NEW mem, Shows(mem, WriteAll(kind, c, seq), c.at)
      PROVE  ReadAll(kind, [mem |-> mem, at |-> c.at], Len(seq))
               = [value |-> [k \in 1..Len(seq) |-> Back(kind, seq[k])], at |-> c.at + o[Len(seq)]]
  <2> DEFINE at0 == [mem |-> mem, at |-> c.at]
  <2>1. PICK r : /\ Runs(r, Reading(kind), at0.mem, NothingRead(at0), Places(Len(seq)))
                 /\ ReadAll(kind, at0, Len(seq)) = r[Len(seq)]
    <3> HIDE DEF at0
    <3> QED BY <1>2, ReadersRun
  <2>2. Runs(r, Reading(kind), mem, NothingRead(at0), Places(Len(seq)))
    <3>1. at0.mem = mem
      OBVIOUS
    <3> HIDE DEF at0
    <3> QED BY <2>1, <3>1
  <2>3. Shows(mem, w[Len(seq)], c.at)
    BY <1>1, <1>4
  <2> QED BY <1>1, <2>1, <2>2, <2>3, ListRead
<1> QED BY <1>3, <1>4

-----------------------------------------------------------------------------
(* Transactions and blocks.                                                *)

IsTx(t) ==
  /\ IsList(Inputs(t)) /\ \A k \in 1..Len(Inputs(t)) : IsInput(Inputs(t)[k])
  /\ IsList(t.outputs) /\ \A k \in 1..Len(t.outputs) : IsOutput(t.outputs[k])

IsBlock(block) ==
  /\ block = [header |-> block.header, txs |-> block.txs]
  /\ IsHeader(block.header)
  /\ IsList(block.txs) /\ \A k \in 1..Len(block.txs) : IsTx(block.txs[k])

\* A block as it is read: no inputs are an empty list.
BlockRead(block) ==
  [header |-> block.header, txs |-> [k \in 1..Len(block.txs) |-> CopyTx(block.txs[k])]]

LEMMA ElementsKeep ==
  /\ INPUT_SER_LEN \in Nat \ {0} /\ SIZEOF_OUTPUT \in Nat \ {0}
  /\ \A in : IsInput(in) => Keeps("input", in)
  /\ \A out : IsOutput(out) => Keeps("output", out)
<1>1. INPUT_SER_LEN \in Nat \ {0} /\ SIZEOF_OUTPUT \in Nat \ {0} /\ UTXO_SER_LEN = SIZEOF_OUTPUT
  BY LengthsPositive DEF INPUT_SER_LEN, SIZEOF_OUTPUT, UTXO_SER_LEN
<1>2. ASSUME NEW in, IsInput(in) PROVE Keeps("input", in)
  <2>1. SerLen("input", in) = INPUT_SER_LEN /\ Back("input", in) = in
    BY DEF SerLen, Back
  <2>2. \A c : Turn("input", <<>>, c, in) = SerInput(c, in) /\ ReadOne("input", c) = DeserInput(c)
    BY DEF Turn, ReadOne
  <2> QED BY <1>1, <1>2, <2>1, <2>2, InputKept DEF Keeps
<1>3. ASSUME NEW out, IsOutput(out) PROVE Keeps("output", out)
  <2>1. SerLen("output", out) = UTXO_SER_LEN /\ Back("output", out) = out
    BY <1>1 DEF SerLen, Back
  <2>2. \A c : Turn("output", <<>>, c, out) = SerUtxo(c, out) /\ ReadOne("output", c) = DeserUtxo(c)
    BY DEF Turn, ReadOne
  <2> QED BY <1>1, <1>3, <2>1, <2>2, UtxoKept DEF Keeps
<1> QED BY <1>1, <1>2, <1>3

\* Elements that all have one length.
LEMMA EvenOffsets ==
  ASSUME NEW kind, NEW seq, IsList(seq), NEW len \in Nat,
         \A k \in 1..Len(seq) : SerLen(kind, seq[k]) = len
  PROVE  Offsets([k \in 0..Len(seq) |-> k * len], kind, seq)
<1> DEFINE n == Len(seq)
           o == [k \in 0..n |-> k * len]
<1>1. n \in Nat
  BY DEF IsList
<1>2. \A k \in 0..(n - 1) : SerLen(kind, seq[k + 1]) = len
  BY <1>1
<1> HIDE DEF n
<1>3. o[0] = 0
  BY <1>1
<1>4. \A k \in 0..(n - 1) : o[k + 1] = o[k] + len
  <2> SUFFICES ASSUME NEW k \in 0..(n - 1) PROVE o[k + 1] = o[k] + len
    OBVIOUS
  <2>1. k \in Nat /\ k \in 0..n /\ k + 1 \in 0..n
    BY <1>1
  <2>2. (k + 1) * len = k * len + len
    BY <2>1
  <2> QED BY <2>1, <2>2
<1> HIDE DEF o
<1>5. Offsets(o, kind, seq)
  BY <1>2, <1>3, <1>4 DEF Offsets, n
<1> QED BY <1>5 DEF o, n

\* So many inputs or outputs, so many times their length.
LEMMA EvenKept ==
  ASSUME NEW kind \in {"input", "output"}, NEW c, IsBuffer(c), NEW seq, IsList(seq),
         NEW len \in Nat \ {0},
         \A k \in 1..Len(seq) : Keeps(kind, seq[k]) /\ SerLen(kind, seq[k]) = len
  PROVE  /\ Len(seq) * len \in Nat
         /\ Appends(c, WriteAll(kind, c, seq), Len(seq) * len)
         /\ \A mem : Shows(mem, WriteAll(kind, c, seq), c.at) =>
              ReadAll(kind, [mem |-> mem, at |-> c.at], Len(seq))
                = [value |-> seq, at |-> c.at + Len(seq) * len]
<1> DEFINE o == [k \in 0..Len(seq) |-> k * len]
<1>1. Offsets(o, kind, seq)
  BY EvenOffsets
<1>2. o[Len(seq)] = Len(seq) * len
  <2>1. Len(seq) \in 0..Len(seq)
    BY DEF IsList
  <2> QED BY <2>1
<1>3. [k \in 1..Len(seq) |-> Back(kind, seq[k])] = seq
  <2>1. \A x : Back(kind, x) = x
    BY DEF Back
  <2>2. [k \in 1..Len(seq) |-> seq[k]] = seq
    BY DEF IsList
  <2> QED BY <2>1, <2>2
<1> HIDE DEF o
<1>4. /\ o[Len(seq)] \in Nat
      /\ Appends(c, WriteAll(kind, c, seq), o[Len(seq)])
      /\ \A mem : Shows(mem, WriteAll(kind, c, seq), c.at) =>
           ReadAll(kind, [mem |-> mem, at |-> c.at], Len(seq))
             = [value |-> [k \in 1..Len(seq) |-> Back(kind, seq[k])],
                at |-> c.at + o[Len(seq)]]
  BY <1>1, ListKept
<1> QED BY Zenon, <1>2, <1>3, <1>4

\* ser_tx, deser_tx
LEMMA TxKept ==
  ASSUME NEW c, IsBuffer(c), NEW t, IsTx(t)
  PROVE  /\ SizeSerTx(t) \in Nat \ {0}
         /\ Appends(c, SerTx(c, t), SizeSerTx(t))
         /\ \A mem : Shows(mem, SerTx(c, t), c.at) =>
              DeserTx([mem |-> mem, at |-> c.at])
                = [value |-> CopyTx(t), at |-> c.at + SizeSerTx(t)]
<1> DEFINE ins == Inputs(t)
           outs == t.outputs
           ni == Len(ins)
           no == Len(outs)
           c1 == Put(c, Num(ni), SIZEOF_INT)
           c2 == Put(c1, Num(no), SIZEOF_INT)
           c3 == WriteAll("input", c2, ins)
           c4 == WriteAll("output", c3, outs)
           li == ni * INPUT_SER_LEN
           lo == no * SIZEOF_OUTPUT
<1>1. /\ IsList(ins) /\ \A k \in 1..ni : Keeps("input", ins[k]) /\ SerLen("input", ins[k]) = INPUT_SER_LEN
      /\ IsList(outs)
      /\ \A k \in 1..no : Keeps("output", outs[k]) /\ SerLen("output", outs[k]) = SIZEOF_OUTPUT
  BY ElementsKeep DEF IsTx, SerLen
<1>2. SerTx(c, t) = c4
  <2>1. SerTx(c, t) = FoldLeft(SerUtxo, FoldLeft(SerInput, c2, ins), outs)
    BY Zenon DEF SerTx
  <2>2. c3 = FoldLeft(SerInput, c2, ins)
    BY Zenon DEF WriteAll
  <2>3. c4 = FoldLeft(SerUtxo, c3, outs)
    BY Zenon DEF WriteAll
  <2> HIDE DEF c3, c4, c2
  <2> QED BY Zenon, <2>1, <2>2, <2>3
<1>3. \A from : DeserTx(from) =
        LET num_outputs == Skip(from, SIZEOF_INT)
            inputs == ReadAll("input", Skip(num_outputs, SIZEOF_INT), NumOf(Get(from, SIZEOF_INT)))
            outputs == ReadAll("output", [from EXCEPT !.at = inputs.at],
                               NumOf(Get(num_outputs, SIZEOF_INT)))
        IN  [value |-> [inputs |-> inputs.value, outputs |-> outputs.value], at |-> outputs.at]
  BY Zenon DEF DeserTx, ReadAll
<1>4. c.at \in Nat /\ ni \in Nat /\ no \in Nat
  BY <1>1 DEF IsBuffer, IsList
<1>5. INPUT_SER_LEN \in Nat \ {0} /\ SIZEOF_OUTPUT \in Nat \ {0} /\ SIZEOF_INT \in Nat \ {0}
  BY ElementsKeep, LengthsPositive
<1>6. SizeSerTx(t) = 2 * SIZEOF_INT + li + lo
  BY DEF SizeSerTx
<1>7. CopyTx(t) = [inputs |-> ins, outputs |-> outs]
  BY DEF CopyTx
<1> HIDE DEF ins, outs, ni, no
<1>8. /\ Appends(c, c1, SIZEOF_INT) /\ IsBuffer(c1) /\ c1.at = c.at + SIZEOF_INT /\ c1.at \in Nat
      /\ \A mem : Shows(mem, c1, c.at) => Get([mem |-> mem, at |-> c.at], SIZEOF_INT) = Num(ni)
  BY <1>4, <1>5, PutGet DEF Appends
<1> HIDE DEF c1
<1>9. /\ Appends(c1, c2, SIZEOF_INT) /\ IsBuffer(c2) /\ c2.at = c1.at + SIZEOF_INT /\ c2.at \in Nat
      /\ \A mem : Shows(mem, c2, c1.at) => Get([mem |-> mem, at |-> c1.at], SIZEOF_INT) = Num(no)
  BY <1>5, <1>8, PutGet DEF Appends
<1> HIDE DEF c2
<1>10. /\ li \in Nat /\ Appends(c2, c3, li)
       /\ \A mem : Shows(mem, c3, c2.at) =>
            ReadAll("input", [mem |-> mem, at |-> c2.at], ni) = [value |-> ins, at |-> c2.at + li]
  BY <1>1, <1>5, <1>9, EvenKept DEF ni
<1> HIDE DEF c3, li
<1>11. IsBuffer(c3) /\ c3.at = c2.at + li /\ c3.at \in Nat
  BY <1>9, <1>10 DEF Appends
<1>12. /\ lo \in Nat /\ Appends(c3, c4, lo)
       /\ \A mem : Shows(mem, c4, c3.at) =>
            ReadAll("output", [mem |-> mem, at |-> c3.at], no) = [value |-> outs, at |-> c3.at + lo]
  BY <1>1, <1>5, <1>11, EvenKept DEF no
<1> HIDE DEF c4, lo
<1>13. SizeSerTx(t) \in Nat \ {0} /\ Appends(c, c4, SizeSerTx(t))
  <2>1. Appends(c, c2, SIZEOF_INT + SIZEOF_INT)
    BY <1>5, <1>8, <1>9, AppendsMore
  <2>2. Appends(c, c3, SIZEOF_INT + SIZEOF_INT + li)
    BY <1>5, <1>9, <1>10, <2>1, AppendsMore
  <2>3. Appends(c, c4, SIZEOF_INT + SIZEOF_INT + li + lo)
    BY <1>5, <1>10, <1>11, <1>12, <2>2, AppendsMore
  <2>4. SIZEOF_INT + SIZEOF_INT + li + lo = SizeSerTx(t) /\ SizeSerTx(t) \in Nat \ {0}
    BY <1>5, <1>6, <1>10, <1>12
  <2> QED BY <2>3, <2>4
<1>14. ASSUME NEW mem, Shows(mem, c4, c.at)
       PROVE  DeserTx([mem |-> mem, at |-> c.at]) = [value |-> CopyTx(t), at |-> c.at + SizeSerTx(t)]
  <2>1. c.at <= c1.at /\ c.at <= c2.at /\ c.at <= c3.at
    BY <1>4, <1>5, <1>8, <1>9, <1>10, <1>11
  <2>2. Shows(mem, c3, c.at) /\ Shows(mem, c4, c3.at)
    BY <1>4, <1>11, <1>12, <1>14, <2>1, ShowsLess
  <2>3. Shows(mem, c2, c.at) /\ Shows(mem, c3, c2.at)
    BY <1>4, <1>9, <1>10, <2>1, <2>2, ShowsLess
  <2>4. Shows(mem, c1, c.at) /\ Shows(mem, c2, c1.at)
    BY <1>4, <1>5, <1>8, <1>9, <2>1, <2>3, ShowsLess
  <2>5. NumOf(Get([mem |-> mem, at |-> c.at], SIZEOF_INT)) = ni
    BY <1>8, <2>4, TagsOff
  <2>6. NumOf(Get([mem |-> mem, at |-> c1.at], SIZEOF_INT)) = no
    BY <1>9, <2>4, TagsOff
  <2>7. /\ Skip([mem |-> mem, at |-> c.at], SIZEOF_INT) = [mem |-> mem, at |-> c1.at]
        /\ Skip([mem |-> mem, at |-> c1.at], SIZEOF_INT) = [mem |-> mem, at |-> c2.at]
        /\ [[mem |-> mem, at |-> c.at] EXCEPT !.at = c3.at] = [mem |-> mem, at |-> c3.at]
    BY <1>8, <1>9, Moved
  <2>8. ReadAll("input", [mem |-> mem, at |-> c2.at], ni) = [value |-> ins, at |-> c3.at]
    BY <1>10, <1>11, <2>3
  <2>9. ReadAll("output", [mem |-> mem, at |-> c3.at], no) = [value |-> outs, at |-> c3.at + lo]
    BY <1>12, <2>2
  <2>10. DeserTx([mem |-> mem, at |-> c.at])
           = [value |-> [inputs |-> ins, outputs |-> outs], at |-> c3.at + lo]
    <3> DEFINE inputs == ReadAll("input", [mem |-> mem, at |-> c2.at], ni)
               outputs == ReadAll("output", [mem |-> mem, at |-> c3.at], no)
    <3>1. inputs.value = ins /\ inputs.at = c3.at /\ outputs.value = outs /\ outputs.at = c3.at + lo
      BY <2>8, <2>9
    <3>2. DeserTx([mem |-> mem, at |-> c.at])
            = LET inputs1 == ReadAll("input", [mem |-> mem, at |-> c2.at], ni)
                  outputs1 == ReadAll("output", [[mem |-> mem, at |-> c.at] EXCEPT !.at = inputs1.at], no)
              IN  [value |-> [inputs |-> inputs1.value, outputs |-> outputs1.value], at |-> outputs1.at]
      BY Zenon, <1>3, <2>5, <2>6, <2>7
    <3>3. DeserTx([mem |-> mem, at |-> c.at])
            = [value |-> [inputs |-> inputs.value, outputs |-> outputs.value], at |-> outputs.at]
      BY <2>7, <3>1, <3>2
    <3> HIDE DEF inputs, outputs
    <3> QED BY <3>1, <3>3
  <2>11. c3.at + lo = c.at + SizeSerTx(t)
    BY <1>4, <1>5, <1>6, <1>8, <1>9, <1>10, <1>11, <1>12
  <2> QED BY <1>7, <2>10, <2>11
<1> QED BY <1>2, <1>13, <1>14

LEMMA TxKeeps ==
  ASSUME NEW t, IsTx(t)
  PROVE  Keeps("tx", t)
<1>1. SerLen("tx", t) = SizeSerTx(t) /\ Back("tx", t) = CopyTx(t)
  BY DEF SerLen, Back
<1>2. \A c : Turn("tx", <<>>, c, t) = SerTx(c, t) /\ ReadOne("tx", c) = DeserTx(c)
  BY DEF Turn, ReadOne
<1>3. SizeSerTx(t) \in Nat
  BY NewIsBuffer, TxKept
<1> QED BY <1>1, <1>2, <1>3, TxKept DEF Keeps

\* The sizes a block's transactions add up to.
SizeOfTxs(txs) == FoldLeft(LAMBDA acc, t : acc + SizeSerTx(t), 0, txs)

LEMMA TxsKept ==
  ASSUME NEW c, IsBuffer(c), NEW txs, IsList(txs), \A k \in 1..Len(txs) : IsTx(txs[k])
  PROVE  /\ SizeOfTxs(txs) \in Nat
         /\ Appends(c, WriteAll("tx", c, txs), SizeOfTxs(txs))
         /\ \A mem : Shows(mem, WriteAll("tx", c, txs), c.at) =>
              ReadAll("tx", [mem |-> mem, at |-> c.at], Len(txs))
                = [value |-> [k \in 1..Len(txs) |-> CopyTx(txs[k])],
                   at |-> c.at + SizeOfTxs(txs)]
<1>1. PICK o : Runs(o, "size", <<>>, 0, txs) /\ SizeOfTxs(txs) = o[Len(txs)]
  BY Zenon, SizesRun DEF SizeOfTxs
<1>2. Offsets(o, "tx", txs)
  BY <1>1 DEF Runs, Offsets, Turn, SerLen
<1>3. \A k \in 1..Len(txs) : Keeps("tx", txs[k])
  BY TxKeeps
<1>4. /\ o[Len(txs)] \in Nat
      /\ Appends(c, WriteAll("tx", c, txs), o[Len(txs)])
      /\ \A mem : Shows(mem, WriteAll("tx", c, txs), c.at) =>
           ReadAll("tx", [mem |-> mem, at |-> c.at], Len(txs))
             = [value |-> [k \in 1..Len(txs) |-> Back("tx", txs[k])],
                at |-> c.at + o[Len(txs)]]
  BY <1>2, <1>3, ListKept
<1>5. \A t : Back("tx", t) = CopyTx(t)
  BY DEF Back
<1>6. [k \in 1..Len(txs) |-> Back("tx", txs[k])] = [k \in 1..Len(txs) |-> CopyTx(txs[k])]
  BY <1>5
<1> QED BY Zenon, <1>1, <1>4, <1>6

\* ser_block, deser_block
LEMMA BlockKept ==
  ASSUME NEW c, IsBuffer(c), NEW block, IsBlock(block)
  PROVE  /\ SizeSerBlock(block) \in Nat \ {0}
         /\ Appends(c, SerBlock(c, block), SizeSerBlock(block))
         /\ \A mem : Shows(mem, SerBlock(c, block), c.at) =>
              DeserBlock([mem |-> mem, at |-> c.at])
                = [value |-> BlockRead(block), at |-> c.at + SizeSerBlock(block)]
<1> DEFINE txs == block.txs
           n == Len(txs)
           c1 == Put(c, Num(n), SIZEOF_INT)
           c2 == SerBlockheader(c1, block.header)
           c3 == WriteAll("tx", c2, txs)
           size == SizeOfTxs(txs)
<1>1. IsList(txs) /\ (\A k \in 1..n : IsTx(txs[k])) /\ IsHeader(block.header)
  BY DEF IsBlock
<1>2. SerBlock(c, block) = c3
  BY Zenon DEF SerBlock, WriteAll
<1>3. SizeSerBlock(block) = SIZEOF_INT + SizeSerBlockheader + size
  BY Zenon DEF SizeSerBlock, SizeOfTxs
<1>4. \A from : DeserBlock(from) =
        LET header == DeserBlockheader(Skip(from, SIZEOF_INT))
            read == ReadAll("tx", [from EXCEPT !.at = header.at], NumOf(Get(from, SIZEOF_INT)))
        IN  [value |-> [header |-> header.value, txs |-> read.value], at |-> read.at]
  BY Zenon DEF DeserBlock, ReadAll
<1>5. c.at \in Nat /\ n \in Nat /\ SIZEOF_INT \in Nat \ {0} /\ SizeSerBlockheader \in Nat \ {0}
  BY <1>1, LengthsPositive DEF IsBuffer, IsList, SizeSerBlockheader
<1> HIDE DEF txs, n
<1>6. /\ Appends(c, c1, SIZEOF_INT) /\ IsBuffer(c1) /\ c1.at = c.at + SIZEOF_INT /\ c1.at \in Nat
      /\ \A mem : Shows(mem, c1, c.at) => Get([mem |-> mem, at |-> c.at], SIZEOF_INT) = Num(n)
  BY <1>5, PutGet DEF Appends
<1> HIDE DEF c1
<1>7. /\ Appends(c1, c2, SizeSerBlockheader) /\ IsBuffer(c2)
      /\ c2.at = c1.at + SizeSerBlockheader /\ c2.at \in Nat
      /\ \A mem : Shows(mem, c2, c1.at) =>
           DeserBlockheader([mem |-> mem, at |-> c1.at]) = [value |-> block.header, at |-> c2.at]
  <2>1. Appends(c1, c2, SizeSerBlockheader)
    BY <1>1, <1>6, BlockheaderKept
  <2>2. IsBuffer(c2) /\ c2.at = c1.at + SizeSerBlockheader /\ c2.at \in Nat
    BY <1>5, <1>6, <2>1 DEF Appends
  <2> QED BY <1>1, <1>6, <2>1, <2>2, BlockheaderKept
<1> HIDE DEF c2
<1>8. /\ size \in Nat /\ Appends(c2, c3, size)
      /\ \A mem : Shows(mem, c3, c2.at) =>
           ReadAll("tx", [mem |-> mem, at |-> c2.at], n)
             = [value |-> [k \in 1..n |-> CopyTx(txs[k])], at |-> c2.at + size]
  BY <1>1, <1>7, TxsKept DEF n
<1> HIDE DEF c3, size
<1>9. SizeSerBlock(block) \in Nat \ {0} /\ Appends(c, c3, SizeSerBlock(block))
  <2>1. Appends(c, c2, SIZEOF_INT + SizeSerBlockheader)
    BY <1>5, <1>6, <1>7, AppendsMore
  <2>2. Appends(c, c3, SIZEOF_INT + SizeSerBlockheader + size)
    BY <1>5, <1>7, <1>8, <2>1, AppendsMore
  <2> QED BY <1>3, <1>5, <1>8, <2>2
<1>10. ASSUME NEW mem, Shows(mem, c3, c.at)
       PROVE  DeserBlock([mem |-> mem, at |-> c.at])
                = [value |-> BlockRead(block), at |-> c.at + SizeSerBlock(block)]
  <2>1. c.at <= c1.at /\ c.at <= c2.at
    BY <1>5, <1>6, <1>7
  <2>2. Shows(mem, c2, c.at) /\ Shows(mem, c3, c2.at)
    BY <1>5, <1>7, <1>8, <1>10, <2>1, ShowsLess
  <2>3. Shows(mem, c1, c.at) /\ Shows(mem, c2, c1.at)
    BY <1>5, <1>6, <1>7, <2>1, <2>2, ShowsLess
  <2>4. NumOf(Get([mem |-> mem, at |-> c.at], SIZEOF_INT)) = n
    BY <1>6, <2>3, TagsOff
  <2>5. DeserBlockheader([mem |-> mem, at |-> c1.at]) = [value |-> block.header, at |-> c2.at]
    BY <1>7, <2>3
  <2>6. /\ Skip([mem |-> mem, at |-> c.at], SIZEOF_INT) = [mem |-> mem, at |-> c1.at]
        /\ [[mem |-> mem, at |-> c.at] EXCEPT !.at = c2.at] = [mem |-> mem, at |-> c2.at]
    BY <1>6, Moved
  <2> DEFINE header == [value |-> block.header, at |-> c2.at]
             read == ReadAll("tx", [mem |-> mem, at |-> c2.at], n)
             copies == [k \in 1..n |-> CopyTx(txs[k])]
  <2>7. DeserBlock([mem |-> mem, at |-> c.at])
          = LET read1 == ReadAll("tx", [[mem |-> mem, at |-> c.at] EXCEPT !.at = header.at], n)
            IN  [value |-> [header |-> header.value, txs |-> read1.value], at |-> read1.at]
    BY Zenon, <1>4, <2>4, <2>5, <2>6
  <2>8. header.value = block.header /\ header.at = c2.at
    OBVIOUS
  <2> HIDE DEF header
  <2>9. DeserBlock([mem |-> mem, at |-> c.at])
          = [value |-> [header |-> block.header, txs |-> read.value], at |-> read.at]
    BY <2>6, <2>7, <2>8
  <2>10. read = [value |-> copies, at |-> c2.at + size]
    BY <1>8, <2>2
  <2>11. BlockRead(block) = [header |-> block.header, txs |-> copies]
    BY DEF BlockRead, n, txs
  <2>12. c2.at + size = c.at + SizeSerBlock(block)
    BY <1>3, <1>5, <1>6, <1>7, <1>8
  <2> HIDE DEF read, copies
  <2> QED BY <2>9, <2>10, <2>11, <2>12
<1> QED BY <1>2, <1>9, <1>10

-----------------------------------------------------------------------------
(* Different things have different hashes.                                 *)

\* The whole of a buffer, as bytes.
AllBytes(c) == BytesAt(c.mem, 0, c.at)

LEMMA BytesOfBuffer ==
  ASSUME NEW c, IsBuffer(c)
  PROVE  /\ DOMAIN AllBytes(c) = 1..c.at
         /\ \A k \in 1..c.at : AllBytes(c)[k] = c.mem[k - 1]
<1>1. \A k \in 1..c.at : 0 + k - 1 \in DOMAIN c.mem /\ 0 + k - 1 = k - 1
  BY DEF IsBuffer
<1>2. AllBytes(c) = [k \in 1..c.at |-> c.mem[k - 1]]
  BY <1>1 DEF AllBytes, BytesAt
<1> QED BY <1>2

\* The bytes a hash keeps: the first and the last of every value.
Ends(bytes) == {k \in DOMAIN bytes : bytes[k][2] \in {0, 1, bytes[k][3]}}

LEMMA SameEnds ==
  ASSUME NEW s, NEW t, Sha256(s) = Sha256(t)
  PROVE  Ends(s) = Ends(t) /\ \A k \in Ends(s) : s[k] = t[k]
<1> DEFINE f == [k \in Ends(s) |-> s[k]]
           g == [k \in Ends(t) |-> t[k]]
<1>1. Sha256(s) = <<"sha256", f>> /\ Sha256(t) = <<"sha256", g>>
  BY Zenon DEF Sha256, Restrict, Ends
<1>2. f = g
  <2> HIDE DEF f, g
  <2>1. <<"sha256", f>> = <<"sha256", g>>
    BY Zenon, <1>1
  <2> QED BY <2>1
<1>3. DOMAIN f = Ends(s) /\ DOMAIN g = Ends(t)
  OBVIOUS
<1>4. (\A k \in Ends(s) : f[k] = s[k]) /\ (\A k \in Ends(t) : g[k] = t[k])
  OBVIOUS
<1> HIDE DEF f, g
<1> QED BY <1>2, <1>3, <1>4

\* The last byte of a buffer is the last of a value, so that a hash tells its length.
LEMMA LastIsEnd ==
  ASSUME NEW c, IsBuffer(c), c.at > 0
  PROVE  c.at \in Ends(AllBytes(c))
<1>1. c.at \in Nat /\ c.at - 1 \in 0..(c.at - 1) /\ c.at \in 1..c.at
  BY DEF IsBuffer
<1>2. PICK v : \E len \in Nat : \E k \in 1..len : Belongs(c, c.at - 1, v, k, len)
  BY <1>1 DEF IsBuffer, Whole
<1>3. PICK len \in Nat : \E k \in 1..len : Belongs(c, c.at - 1, v, k, len)
  BY <1>2
<1>4. PICK k \in 1..len : Belongs(c, c.at - 1, v, k, len)
  BY <1>3
<1>5. k = len
  BY <1>1, <1>4 DEF Belongs
<1>6. c.mem[c.at - 1] = <<v, len, len>>
  <2>1. len \in 1..len /\ c.at - 1 - k + len = c.at - 1
    BY <1>1, <1>5
  <2> QED BY <1>4, <2>1 DEF Belongs
<1>7. AllBytes(c)[c.at] = <<v, len, len>> /\ c.at \in DOMAIN AllBytes(c)
  BY <1>1, <1>6, BytesOfBuffer
<1> QED BY <1>7 DEF Ends

\* What hashes the same has the same length and holds the same bytes.
LEMMA HashTells ==
  ASSUME NEW c, IsBuffer(c), NEW d, IsBuffer(d), Sha256(AllBytes(c)) = Sha256(AllBytes(d))
  PROVE  c.at = d.at /\ \A a \in 0..(c.at - 1) : c.mem[a] = d.mem[a]
<1>1. c.at \in Nat /\ d.at \in Nat
  BY DEF IsBuffer
<1>2. /\ DOMAIN AllBytes(c) = 1..c.at /\ DOMAIN AllBytes(d) = 1..d.at
      /\ \A k \in 1..c.at : AllBytes(c)[k] = c.mem[k - 1]
      /\ \A k \in 1..d.at : AllBytes(d)[k] = d.mem[k - 1]
  BY BytesOfBuffer
<1>3. /\ Ends(AllBytes(c)) = Ends(AllBytes(d))
      /\ \A k \in Ends(AllBytes(c)) : AllBytes(c)[k] = AllBytes(d)[k]
  BY SameEnds
<1>4. c.at = d.at
  <2>1. Ends(AllBytes(c)) \subseteq 1..c.at /\ Ends(AllBytes(d)) \subseteq 1..d.at
    BY <1>2 DEF Ends
  <2>2. CASE c.at > 0 /\ d.at > 0
    <3>1. c.at \in 1..d.at /\ d.at \in 1..c.at
      BY <1>3, <2>1, <2>2, LastIsEnd
    <3> QED BY <1>1, <3>1
  <2>3. CASE c.at = 0
    <3>1. ~(d.at > 0)
      <4> SUFFICES ASSUME d.at > 0 PROVE FALSE
        OBVIOUS
      <4>1. d.at \in 1..c.at
        BY <1>3, <2>1, LastIsEnd
      <4> QED BY <1>1, <2>3, <4>1
    <3> QED BY <1>1, <2>3, <3>1
  <2>4. CASE d.at = 0
    <3>1. ~(c.at > 0)
      <4> SUFFICES ASSUME c.at > 0 PROVE FALSE
        OBVIOUS
      <4>1. c.at \in 1..d.at
        BY <1>3, <2>1, LastIsEnd
      <4> QED BY <1>1, <2>4, <4>1
    <3> QED BY <1>1, <2>4, <3>1
  <2> QED BY <1>1, <2>2, <2>3, <2>4
<1>5. ASSUME NEW a \in 0..(c.at - 1)
      PROVE  c.mem[a] = d.mem[a]
  <2>1. PICK v : \E len \in Nat : \E k \in 1..len : Belongs(c, a, v, k, len)
    BY DEF IsBuffer, Whole
  <2>2. PICK len \in Nat : \E k \in 1..len : Belongs(c, a, v, k, len)
    BY <2>1
  <2>3. PICK k \in 1..len : Belongs(c, a, v, k, len)
    BY <2>2
  <2> DEFINE first == a - k + 1
  <2>4. /\ first \in 0..(c.at - 1) /\ first \in 0..(d.at - 1) /\ first + 1 \in 1..c.at
        /\ first + 1 - 1 = first /\ 1 \in 1..len
        /\ a - k + k = a
    BY <1>1, <1>4, <2>3 DEF Belongs
  <2>5. c.mem[first] = <<v, 1, len>> /\ c.mem[a] = <<v, k, len>>
    BY <2>3, <2>4 DEF Belongs
  <2>6. AllBytes(c)[first + 1] = <<v, 1, len>> /\ first + 1 \in DOMAIN AllBytes(c)
    BY <1>2, <2>4, <2>5
  <2>7. first + 1 \in Ends(AllBytes(c))
    BY <2>6 DEF Ends
  <2>8. d.mem[first] = <<v, 1, len>>
    <3>1. AllBytes(d)[first + 1] = <<v, 1, len>>
      BY <1>3, <2>6, <2>7
    <3>2. first + 1 \in 1..d.at
      BY <1>4, <2>4
    <3> QED BY <1>2, <2>4, <3>1, <3>2
  <2>9. PICK w : \E more \in Nat : \E i \in 1..more : Belongs(d, first, w, i, more)
    BY <2>4 DEF IsBuffer, Whole
  <2>10. PICK more \in Nat : \E i \in 1..more : Belongs(d, first, w, i, more)
    BY <2>9
  <2>11. PICK i \in 1..more : Belongs(d, first, w, i, more)
    BY <2>10
  <2>12. d.mem[first] = <<w, i, more>>
    <3>1. first - i + i = first
      BY <2>4
    <3> QED BY <2>11, <3>1 DEF Belongs
  <2>13. w = v /\ i = 1 /\ more = len
    BY <2>8, <2>12
  <2>14. d.mem[first - 1 + k] = <<v, k, len>>
    BY <2>3, <2>11, <2>13 DEF Belongs
  <2>15. first - 1 + k = a
    BY <2>3
  <2> QED BY <2>5, <2>14, <2>15
<1> QED BY <1>4, <1>5

\* What hash_tx hashes.
LEMMA TxHashed ==
  ASSUME NEW t, IsTx(t)
  PROVE  \E c : /\ IsBuffer(c) /\ HashTx(t) = Sha256(AllBytes(c))
                /\ \A mem : Shows(mem, c, 0) => DeserTx([mem |-> mem, at |-> 0]).value = CopyTx(t)
<1> DEFINE c == SerTx(NewBuffer, t)
           len == SizeSerTx(t)
<1>1. IsBuffer(NewBuffer) /\ NewBuffer.at = 0
  BY NewIsBuffer
<1>2. /\ len \in Nat /\ Appends(NewBuffer, c, len)
      /\ \A mem : Shows(mem, c, NewBuffer.at) =>
           DeserTx([mem |-> mem, at |-> NewBuffer.at])
             = [value |-> CopyTx(t), at |-> NewBuffer.at + len]
  BY <1>1, TxKept
<1>3. HashTx(t) = Sha256(BytesAt(c.mem, 0, len))
  BY Zenon DEF HashTx, SerTxAlloc, Allocated
<1> HIDE DEF c, len
<1>4. IsBuffer(c) /\ c.at = len
  BY <1>1, <1>2 DEF Appends
<1>5. HashTx(t) = Sha256(AllBytes(c))
  BY <1>3, <1>4 DEF AllBytes
<1>6. \A mem : Shows(mem, c, 0) => DeserTx([mem |-> mem, at |-> 0]).value = CopyTx(t)
  BY <1>1, <1>2
<1> QED BY <1>4, <1>5, <1>6

\* hash_tx: transactions with one id are one transaction, but for the null pointer
\* that stands for no inputs.
LEMMA TxHashTells ==
  ASSUME NEW t, IsTx(t), NEW u, IsTx(u), HashTx(t) = HashTx(u)
  PROVE  Inputs(t) = Inputs(u) /\ t.outputs = u.outputs
<1>1. PICK c : /\ IsBuffer(c) /\ HashTx(t) = Sha256(AllBytes(c))
               /\ \A mem : Shows(mem, c, 0) => DeserTx([mem |-> mem, at |-> 0]).value = CopyTx(t)
  BY TxHashed
<1>2. PICK d : /\ IsBuffer(d) /\ HashTx(u) = Sha256(AllBytes(d))
               /\ \A mem : Shows(mem, d, 0) => DeserTx([mem |-> mem, at |-> 0]).value = CopyTx(u)
  BY TxHashed
<1>3. Sha256(AllBytes(c)) = Sha256(AllBytes(d))
  BY Zenon, <1>1, <1>2
<1>4. c.at = d.at /\ \A a \in 0..(c.at - 1) : c.mem[a] = d.mem[a]
  BY <1>1, <1>2, <1>3, HashTells
<1>5. Shows(c.mem, c, 0) /\ Shows(c.mem, d, 0)
  BY <1>1, <1>2, <1>4 DEF Shows, IsBuffer
<1>6. CopyTx(t) = CopyTx(u)
  <2>1. DeserTx([mem |-> c.mem, at |-> 0]).value = CopyTx(t)
    BY Zenon, <1>1, <1>5
  <2>2. DeserTx([mem |-> c.mem, at |-> 0]).value = CopyTx(u)
    BY Zenon, <1>2, <1>5
  <2> QED BY Zenon, <2>1, <2>2
<1>7. /\ CopyTx(t).inputs = Inputs(t) /\ CopyTx(t).outputs = t.outputs
      /\ CopyTx(u).inputs = Inputs(u) /\ CopyTx(u).outputs = u.outputs
  BY DEF CopyTx
<1> QED BY <1>6, <1>7

-----------------------------------------------------------------------------
(* What is put into a database comes out of it.                            *)

Databases == {"blocks", "utxos", "wallet", "keys"}

\* The two keys of a pair belong together.
OnePair(pair) == pair.public = pair.private

\* Every signature in a block verifies, as it does when the block is read.
BlockUnlockable(block) == \A k \in 1..Len(block.txs) : AllUnlockable(CopyTx(block.txs[k]))

\* A value that can be stored there, and should be.
Fits(to, value) ==
  /\ to[1] \in Databases
  /\ to[1] = "blocks" => IsBlock(value) /\ BlockUnlockable(value)
  /\ to[1] = "utxos" => IsOutput(value)
  /\ to[1] = "wallet" => /\ IsEntry(value) /\ OnePair(value.key_pair) /\ value.amt \in Int
                         /\ to[2][1] # Zeros /\ to[2][2] \in Int
  /\ to[1] = "keys" => IsPair(value)

\* Find, from a cursor on.
ReadFrom(to, c) ==
  CASE to[1] = "blocks"  -> DeserBlock(c)
    [] to[1] = "utxos"   -> DeserUtxo(c)
    [] to[1] = "wallet"  -> DeserWalletEntry(c)
    [] to[1] = "keys"    -> DeserKeypair(c)

\* buf is what an allocation of len bytes is, filled with value.
Filled(to, value, b, len) ==
  /\ b.size = len /\ b.written = len /\ DOMAIN b.mem = 0..(len - 1)
  /\ \A mem : (\A a \in 0..(len - 1) : a \in DOMAIN mem /\ mem[a] = b.mem[a]) =>
       ReadFrom(to, [mem |-> mem, at |-> 0]) = [value |-> AsRead(to, value), at |-> len]

\* A cursor that starts with a new buffer.
LEMMA FromNothing ==
  ASSUME NEW to, NEW value, NEW len \in Nat \ {0}, NEW d, Appends(NewBuffer, d, len),
         \A mem : Shows(mem, d, 0) =>
           ReadFrom(to, [mem |-> mem, at |-> 0]) = [value |-> AsRead(to, value), at |-> 0 + len]
  PROVE  Filled(to, value, Allocated(len, d), len)
<1>1. d.at = len /\ DOMAIN d.mem = 0..(len - 1)
  BY NewIsBuffer DEF Appends, IsBuffer
<1>2. ASSUME NEW mem, \A a \in 0..(len - 1) : a \in DOMAIN mem /\ mem[a] = d.mem[a]
      PROVE  Shows(mem, d, 0)
  BY <1>1, <1>2 DEF Shows
<1>3. 0 + len = len
  OBVIOUS
<1>4. /\ Allocated(len, d).size = len /\ Allocated(len, d).written = d.at
      /\ Allocated(len, d).mem = d.mem
  BY DEF Allocated
<1> QED BY <1>1, <1>2, <1>3, <1>4 DEF Filled

LEMMA AllocFilled ==
  ASSUME NEW to, NEW value, Fits(to, value)
  PROVE  \E len \in Nat \ {0} : Filled(to, value, SerAlloc(to, value), len)
<1>1. IsBuffer(NewBuffer) /\ NewBuffer.at = 0
  BY NewIsBuffer
<1>2. CASE to[1] = "blocks"
  <2> DEFINE len == SizeSerBlock(value)
             d == SerBlock(NewBuffer, value)
  <2>1. IsBlock(value) /\ SerAlloc(to, value) = Allocated(len, d)
    BY <1>2 DEF Fits, SerAlloc, SerBlockAlloc
  <2>2. AsRead(to, value) = BlockRead(value)
    <3>1. DOMAIN value.txs = 1..Len(value.txs) /\ value = [header |-> value.header, txs |-> value.txs]
      BY <2>1 DEF IsBlock, IsList
    <3> DEFINE header == value.header
               txs == value.txs
               copies == [i \in DOMAIN txs |-> CopyTx(txs[i])]
    <3>2. AsRead(to, value) = [value EXCEPT !.txs = copies]
      BY <1>2 DEF AsRead
    <3>3. BlockRead(value) = [header |-> header, txs |-> copies]
      BY <3>1 DEF BlockRead
    <3>4. value = [header |-> header, txs |-> txs]
      BY <3>1
    <3> HIDE DEF header, txs, copies
    <3> QED BY <3>2, <3>3, <3>4
  <2>3. \A c : ReadFrom(to, c) = DeserBlock(c)
    BY <1>2 DEF ReadFrom
  <2>4. /\ len \in Nat \ {0} /\ Appends(NewBuffer, d, len)
        /\ \A mem : Shows(mem, d, 0) =>
             DeserBlock([mem |-> mem, at |-> 0]) = [value |-> BlockRead(value), at |-> 0 + len]
    BY <1>1, <2>1, BlockKept
  <2> HIDE DEF len, d
  <2>5. Filled(to, value, Allocated(len, d), len)
    BY <2>2, <2>3, <2>4, FromNothing
  <2> QED BY <2>1, <2>4, <2>5
<1>3. CASE to[1] = "utxos"
  <2> DEFINE len == UTXO_SER_LEN
             d == SerUtxo(NewBuffer, value)
  <2>1. IsOutput(value) /\ SerAlloc(to, value) = Allocated(len, d) /\ AsRead(to, value) = value
    BY <1>3 DEF Fits, SerAlloc, SerUtxoAlloc, AsRead
  <2>2. \A c : ReadFrom(to, c) = DeserUtxo(c)
    BY <1>3 DEF ReadFrom
  <2>3. len \in Nat \ {0}
    BY LengthsPositive DEF UTXO_SER_LEN
  <2>4. /\ Appends(NewBuffer, d, len)
        /\ \A mem : Shows(mem, d, 0) =>
             DeserUtxo([mem |-> mem, at |-> 0]) = [value |-> value, at |-> 0 + len]
    BY <1>1, <2>1, UtxoKept
  <2> HIDE DEF len, d
  <2>5. Filled(to, value, Allocated(len, d), len)
    BY <2>1, <2>2, <2>3, <2>4, FromNothing
  <2> QED BY <2>1, <2>3, <2>5
<1>4. CASE to[1] = "wallet"
  <2> DEFINE len == WALLET_ENTRY_SER_LEN
             d == SerWalletEntry(NewBuffer, value)
  <2>1. IsEntry(value) /\ SerAlloc(to, value) = Allocated(len, d) /\ AsRead(to, value) = value
    BY <1>4 DEF Fits, SerAlloc, SerWalletEntryAlloc, AsRead
  <2>2. \A c : ReadFrom(to, c) = DeserWalletEntry(c)
    BY <1>4 DEF ReadFrom
  <2>3. len \in Nat \ {0}
    BY LengthsPositive DEF WALLET_ENTRY_SER_LEN, KEYPAIR_SER_LEN
  <2>4. /\ Appends(NewBuffer, d, len)
        /\ \A mem : Shows(mem, d, 0) =>
             DeserWalletEntry([mem |-> mem, at |-> 0]) = [value |-> value, at |-> 0 + len]
    BY <1>1, <2>1, WalletEntryKept
  <2> HIDE DEF len, d
  <2>5. Filled(to, value, Allocated(len, d), len)
    BY <2>1, <2>2, <2>3, <2>4, FromNothing
  <2> QED BY <2>1, <2>3, <2>5
<1>5. CASE to[1] = "keys"
  <2> DEFINE len == KEYPAIR_SER_LEN
             d == SerKeypair(NewBuffer, value)
  <2>1. IsPair(value) /\ SerAlloc(to, value) = Allocated(len, d) /\ AsRead(to, value) = value
    BY <1>5 DEF Fits, SerAlloc, SerKeypairAlloc, AsRead
  <2>2. \A c : ReadFrom(to, c) = DeserKeypair(c)
    BY <1>5 DEF ReadFrom
  <2>3. len \in Nat \ {0}
    BY LengthsPositive DEF KEYPAIR_SER_LEN
  <2>4. /\ Appends(NewBuffer, d, len)
        /\ \A mem : Shows(mem, d, 0) =>
             DeserKeypair([mem |-> mem, at |-> 0]) = [value |-> value, at |-> 0 + len]
    BY <1>1, <2>1, KeypairKept
  <2> HIDE DEF len, d
  <2>5. Filled(to, value, Allocated(len, d), len)
    BY <2>1, <2>2, <2>3, <2>4, FromNothing
  <2> QED BY <2>1, <2>3, <2>5
<1> QED BY <1>2, <1>3, <1>4, <1>5 DEF Fits, Databases

\* A database entry holds the bytes of the value meant to be there.
Entry(to, bytes, value) ==
  Fits(to, value) /\ bytes = BytesAt(SerAlloc(to, value).mem, 0, SerAlloc(to, value).written)

LEMMA EntryReads ==
  ASSUME NEW to \in DOMAIN db, NEW value, Entry(to, db[to], value)
  PROVE  Find(to).value = AsRead(to, value) /\ Find(to).at = Len(db[to]) /\ Len(db[to]) > 0
<1> DEFINE b == SerAlloc(to, value)
           bytes == db[to]
<1>1. PICK len \in Nat \ {0} : Filled(to, value, b, len)
  BY AllocFilled DEF Entry
<1> DEFINE mem == [a \in 0..(Len(bytes) - 1) |-> bytes[a + 1]]
<1>2. Find(to) = ReadFrom(to, [mem |-> mem, at |-> 0])
  BY DEF Find, ReadFrom
<1> HIDE DEF b
<1>3. bytes = [k \in 1..len |-> IF 0 + k - 1 \in DOMAIN b.mem THEN b.mem[0 + k - 1] ELSE Uninitialized]
  BY <1>1 DEF Entry, BytesAt, b, Filled
<1> HIDE DEF bytes
<1>4. Len(bytes) = len
  BY <1>3
<1>5. \A a \in 0..(len - 1) : a \in DOMAIN mem /\ mem[a] = b.mem[a]
  <2>1. DOMAIN b.mem = 0..(len - 1)
    BY <1>1 DEF Filled
  <2> SUFFICES ASSUME NEW a \in 0..(len - 1) PROVE a \in DOMAIN mem /\ mem[a] = b.mem[a]
    OBVIOUS
  <2>2. mem[a] = bytes[a + 1] /\ a \in DOMAIN mem /\ a + 1 \in 1..len /\ 0 + (a + 1) - 1 = a
    BY <1>4
  <2> QED BY <1>3, <2>1, <2>2
<1> HIDE DEF mem
<1>6. ReadFrom(to, [mem |-> mem, at |-> 0]) = [value |-> AsRead(to, value), at |-> len]
  BY <1>1, <1>5 DEF Filled
<1> QED BY <1>2, <1>4, <1>6 DEF bytes

-----------------------------------------------------------------------------
(* The node's values: what is written, and what is waiting to be written.  *)

PutFits(put) == put.to[1] \in Databases /\ (put.value = NULL \/ Fits(put.to, put.value))
AllPuts(seq) == IsList(seq) /\ \A k \in 1..Len(seq) : PutFits(seq[k])

\* An input that names an output, an output that pays somebody.
IsSpend(in) == IsInput(in) /\ in.prev_tx_id # Zeros /\ in.prev_utxo_output \in Int
IsPayment(out) == IsOutput(out) /\ out.amt \in Int /\ out.public_key_hash # Zeros
AllPay(outs) == \A n \in 1..Len(outs) : IsPayment(outs[n])

\* A transaction as build_tx makes it.
IsBuilt(t) ==
  /\ t = [inputs |-> t.inputs, outputs |-> t.outputs]
  /\ IsList(t.inputs) /\ Len(t.inputs) >= 1 /\ \A k \in 1..Len(t.inputs) : IsSpend(t.inputs[k])
  /\ IsList(t.outputs) /\ Len(t.outputs) >= 1 /\ AllPay(t.outputs)

\* No transaction, or build_tx at work: the keys to sign with are the ones the
\* inputs name, what is signed is the hash without signatures, and so many inputs
\* have theirs.
NothingInHand == tx = NULL /\ signed = -1 /\ input_keys = <<>> /\ tx_hash = NULL
InTheMaking ==
  /\ IsBuilt(tx) /\ Len(tx.inputs) <= MAX_INPUTS
  /\ \A k \in 1..Len(tx.inputs) : input_keys[k] = tx.inputs[k].pub_key
  /\ \/ signed = -1 /\ tx_hash = NULL /\ BlankSigTx(tx) = tx
     \/ /\ signed \in 0..Len(tx.inputs)
        /\ tx_hash = HashTx(BlankSigTx(tx))
        /\ \A k \in 1..signed : tx.inputs[k].signature = Signature(tx.inputs[k].pub_key, tx_hash)
Underway == NothingInHand \/ InTheMaking

ValuesInv ==
  /\ BufferFilledExactly
  /\ DOMAIN db = DOMAIN held
  /\ \A to \in DOMAIN held : Entry(to, db[to], held[to])
  /\ AllPuts(puts)
  /\ keys \in 0..MAX_KEYS
  /\ IsList(pending)
  /\ \A n \in 1..Len(pending) : IsBuilt(pending[n]) /\ AllUnlockable(pending[n])
  /\ Underway

\* The null pointer is none of the structures, no hash and no array.
NullIsNoValue ==
  /\ \A ins, outs : NULL # [inputs |-> ins, outputs |-> outs]
  /\ \A header, txs : NULL # [header |-> header, txs |-> txs]
  /\ \A pair, amt, spent : NULL # [key_pair |-> pair, amt |-> amt, spent |-> spent]
  /\ \A public, private : NULL # [public |-> public, private |-> private]
  /\ \A bytes : NULL # <<"sha256", bytes>>
  /\ ~IsList(NULL)

LEMMA UnderwayStays ==
  ASSUME Underway, UNCHANGED <<tx, input_keys, tx_hash, signed>>
  PROVE  Underway'
BY DEF Underway, NothingInHand, InTheMaking

LEMMA ListIsSeq ==
  ASSUME NEW seq
  PROVE  /\ \A E : IsList(seq) /\ (\A k \in 1..Len(seq) : seq[k] \in E) => seq \in Seq(E)
         /\ \A E : seq \in Seq(E) => IsList(seq) /\ \A k \in 1..Len(seq) : seq[k] \in E
<1>1. ASSUME NEW E, IsList(seq), \A k \in 1..Len(seq) : seq[k] \in E
      PROVE  seq \in Seq(E)
  <2> DEFINE n == Len(seq)
  <2>1. n \in Nat /\ seq = [k \in 1..n |-> seq[k]]
    BY <1>1 DEF IsList
  <2> HIDE DEF n
  <2>2. seq \in [1..n -> E]
    BY <1>1, <2>1 DEF n
  <2> QED BY <2>1, <2>2
<1>2. ASSUME NEW E, seq \in Seq(E)
      PROVE  IsList(seq) /\ \A k \in 1..Len(seq) : seq[k] \in E
  BY <1>2 DEF IsList
<1> QED BY <1>1, <1>2

\* The elements of a list.
Elements(seq) == {seq[k] : k \in 1..Len(seq)}

LEMMA FewElements ==
  /\ IsList(<<>>) /\ Elements(<<>>) = {}
  /\ \A e : IsList(<<e>>) /\ Elements(<<e>>) = {e}
  /\ \A d, e : IsList(<<d, e>>) /\ Elements(<<d, e>>) = {d, e}
<1>1. IsList(<<>>) /\ Elements(<<>>) = {}
  BY DEF IsList, Elements
<1>2. ASSUME NEW e PROVE IsList(<<e>>) /\ Elements(<<e>>) = {e}
  <2> DEFINE one == <<e>>
  <2>1. Len(one) = 1 /\ one[1] = e /\ one = [k \in 1..1 |-> one[k]] /\ 1 \in Nat
    OBVIOUS
  <2> HIDE DEF one
  <2>2. IsList(one) /\ Elements(one) = {e}
    BY <2>1 DEF IsList, Elements
  <2> QED BY <2>2 DEF one
<1>3. ASSUME NEW d, NEW e PROVE IsList(<<d, e>>) /\ Elements(<<d, e>>) = {d, e}
  <2> DEFINE two == <<d, e>>
  <2>1. Len(two) = 2 /\ two[1] = d /\ two[2] = e /\ two = [k \in 1..2 |-> two[k]] /\ 2 \in Nat
    OBVIOUS
  <2> HIDE DEF two
  <2>2. \A k : k \in 1..2 <=> k = 1 \/ k = 2
    OBVIOUS
  <2>3. IsList(two) /\ Elements(two) = {d, e}
    BY <2>1, <2>2 DEF IsList, Elements
  <2> QED BY <2>3 DEF two
<1> QED BY <1>1, <1>2, <1>3

\* Two lists one after the other have the elements of both, ...
LEMMA ConcatElements ==
  ASSUME NEW s, IsList(s), NEW t, IsList(t)
  PROVE  IsList(s \o t) /\ Elements(s \o t) = Elements(s) \cup Elements(t)
<1> DEFINE E == Elements(s) \cup Elements(t)
           cat == s \o t
           n == Len(s)
           m == Len(t)
<1>1. (\A k \in 1..Len(s) : s[k] \in E) /\ (\A k \in 1..Len(t) : t[k] \in E)
  BY DEF Elements
<1> HIDE DEF E
<1>2. s \in Seq(E) /\ t \in Seq(E) /\ n \in Nat /\ m \in Nat
  BY <1>1, ListIsSeq DEF IsList
<1>3. /\ cat \in Seq(E) /\ Len(cat) = n + m
      /\ \A k \in 1..(n + m) : cat[k] = IF k <= n THEN s[k] ELSE t[k - n]
  BY <1>2, ConcatProperties
<1>4. IsList(cat) /\ \A k \in 1..Len(cat) : cat[k] \in E
  BY <1>3, ListIsSeq
<1> HIDE DEF cat, n, m
<1>5. ASSUME NEW e \in Elements(s)
      PROVE  e \in Elements(cat)
  <2>1. PICK k \in 1..n : e = s[k]
    BY DEF Elements, n
  <2>2. k \in 1..(n + m) /\ k <= n
    BY <1>2
  <2> QED BY <1>3, <2>1, <2>2 DEF Elements
<1>6. ASSUME NEW e \in Elements(t)
      PROVE  e \in Elements(cat)
  <2>1. PICK k \in 1..m : e = t[k]
    BY DEF Elements, m
  <2>2. k + n \in 1..(n + m) /\ ~(k + n <= n) /\ (k + n) - n = k
    BY <1>2
  <2>3. cat[k + n] = t[k]
    BY <1>3, <2>2
  <2> QED BY <1>3, <2>1, <2>2, <2>3 DEF Elements
<1>7. Elements(cat) \subseteq E
  BY <1>4 DEF Elements
<1> QED BY <1>4, <1>5, <1>6, <1>7 DEF cat, E

\* What comes first in the first of two lists comes first in both together.
LEMMA ConcatFirst ==
  ASSUME NEW s, IsList(s), NEW t, IsList(t), Len(s) > 0
  PROVE  IsList(s \o t) /\ Len(s \o t) > 0 /\ (s \o t)[1] = s[1]
<1> DEFINE E == Elements(s) \cup Elements(t)
<1>1. (\A k \in 1..Len(s) : s[k] \in E) /\ (\A k \in 1..Len(t) : t[k] \in E)
  BY DEF Elements
<1> HIDE DEF E
<1>2. s \in Seq(E) /\ t \in Seq(E) /\ Len(s) \in Nat /\ Len(t) \in Nat
  BY <1>1, ListIsSeq DEF IsList
<1>3. /\ s \o t \in Seq(E) /\ Len(s \o t) = Len(s) + Len(t)
      /\ \A k \in 1..(Len(s) + Len(t)) : (s \o t)[k] = IF k <= Len(s) THEN s[k] ELSE t[k - Len(s)]
  BY <1>2, ConcatProperties
<1>4. 1 \in 1..(Len(s) + Len(t)) /\ 1 <= Len(s) /\ Len(s) + Len(t) > 0
  BY <1>2
<1>5. IsList(s \o t)
  BY <1>3, ListIsSeq
<1>6. (s \o t)[1] = s[1]
  BY <1>3, <1>4
<1>7. Len(s \o t) > 0
  BY <1>3, <1>4
<1> QED BY <1>5, <1>6, <1>7

\* FlattenSeq joins one list after the other.
LEMMA FlattenRuns ==
  ASSUME NEW seqs, Len(seqs) \in Nat, Len(seqs) # 0
  PROVE  \E f : /\ FlattenSeq(seqs) = f[Len(seqs)]
                /\ \A i \in 1..Len(seqs) : f[i] = IF i = 1 THEN seqs[i] ELSE f[i - 1] \o seqs[i]
<1> DEFINE n == Len(seqs)
           Made(f, m) == f = [i \in 1..m |-> IF i = 1 THEN seqs[i] ELSE f[i - 1] \o seqs[i]]
           f == CHOOSE f : Made(f, n)
<1>1. FlattenSeq(seqs) = IF n = 0 THEN seqs ELSE f[n]
  BY Zenon DEF FlattenSeq
<1> DEFINE S == {m \in Nat : \E g : Made(g, m)}
<1>2. 0 \in S
  <2>1. Made(<<>>, 0)
    OBVIOUS
  <2> HIDE DEF Made
  <2> QED BY <2>1
<1>3. ASSUME NEW m \in Nat, m \in S
      PROVE  m + 1 \in S
  <2>1. PICK g : Made(g, m)
    BY <1>3
  <2> DEFINE h == [i \in 1..(m + 1) |-> IF i = 1 THEN seqs[i] ELSE g[i - 1] \o seqs[i]]
  <2>2. \A i \in 1..m : h[i] = g[i]
    <3> DEFINE joined(i) == IF i = 1 THEN seqs[i] ELSE g[i - 1] \o seqs[i]
    <3>1. h = [i \in 1..(m + 1) |-> joined(i)] /\ g = [i \in 1..m |-> joined(i)]
      BY Zenon, <2>1
    <3>2. \A i \in 1..m : i \in 1..(m + 1)
      OBVIOUS
    <3> HIDE DEF joined, h
    <3> QED BY <3>1, <3>2
  <2>3. \A i \in 1..(m + 1) : i # 1 => i - 1 \in 1..m
    OBVIOUS
  <2>4. Made(h, m + 1)
    <3>1. h = [i \in 1..(m + 1) |-> IF i = 1 THEN seqs[i] ELSE g[i - 1] \o seqs[i]]
      OBVIOUS
    <3> HIDE DEF h
    <3> QED BY <2>2, <2>3, <3>1
  <2> HIDE DEF h, Made
  <2> QED BY <2>4
<1>4. Nat \subseteq S
  <2> HIDE DEF S
  <2> QED BY <1>2, <1>3, Inductively
<1>5. Made(f, n)
  <2>1. \E g : Made(g, n)
    BY <1>4
  <2> HIDE DEF Made
  <2> QED BY <2>1
<1>6. FlattenSeq(seqs) = f[n]
  BY Zenon, <1>1
<1> HIDE DEF f
<1>7. \A i \in 1..n : f[i] = IF i = 1 THEN seqs[i] ELSE f[i - 1] \o seqs[i]
  BY <1>5
<1> QED BY <1>6, <1>7

\* What comes first in the first list comes first.
LEMMA FlattenFirst ==
  ASSUME NEW seqs, Len(seqs) \in Nat, Len(seqs) > 0,
         \A i \in 1..Len(seqs) : IsList(seqs[i]), Len(seqs[1]) > 0
  PROVE  1 \in DOMAIN FlattenSeq(seqs) /\ FlattenSeq(seqs)[1] = seqs[1][1]
<1> DEFINE n == Len(seqs)
<1>1. PICK f : /\ FlattenSeq(seqs) = f[n]
               /\ \A i \in 1..n : f[i] = IF i = 1 THEN seqs[i] ELSE f[i - 1] \o seqs[i]
  BY FlattenRuns
<1> DEFINE T == {m \in 0..n : m > 0 => IsList(f[m]) /\ Len(f[m]) > 0 /\ f[m][1] = seqs[1][1]}
<1>2. 0 \in T
  OBVIOUS
<1>3. ASSUME NEW m \in 0..(n - 1), m \in T
      PROVE  m + 1 \in T
  <2>1. m + 1 \in 1..n /\ m + 1 \in 0..n /\ (m + 1) - 1 = m
    OBVIOUS
  <2>2. f[m + 1] = IF m + 1 = 1 THEN seqs[m + 1] ELSE f[(m + 1) - 1] \o seqs[m + 1]
    BY Zenon, <1>1, <2>1
  <2>3. CASE m = 0
    <3>1. m + 1 = 1
      BY <2>3
    <3>2. f[m + 1] = seqs[1] /\ IsList(seqs[1])
      BY <2>1, <2>2, <3>1
    <3> QED BY <2>1, <3>2
  <2>4. CASE m # 0
    <3>1. IsList(f[m]) /\ Len(f[m]) > 0 /\ f[m][1] = seqs[1][1] /\ IsList(seqs[m + 1])
      BY <1>3, <2>1, <2>4
    <3>2. f[m + 1] = f[m] \o seqs[m + 1]
      <4>1. m + 1 # 1
        BY <2>4
      <4> QED BY Zenon, <2>1, <2>2, <4>1
    <3>3. /\ IsList(f[m] \o seqs[m + 1]) /\ Len(f[m] \o seqs[m + 1]) > 0
          /\ (f[m] \o seqs[m + 1])[1] = f[m][1]
      BY <3>1, ConcatFirst
    <3> QED BY <2>1, <3>1, <3>2, <3>3
  <2> QED BY <2>3, <2>4
<1>4. n \in T
  <2> HIDE DEF T, n
  <2>1. n \in Nat /\ n \in 0..n
    BY DEF n
  <2> QED BY <1>2, <1>3, <2>1, UpTo
<1>5. IsList(f[n]) /\ Len(f[n]) > 0 /\ f[n][1] = seqs[1][1]
  BY <1>4
<1>6. 1 \in DOMAIN f[n]
  <2> DEFINE w == f[n]
  <2>1. Len(w) \in Nat /\ Len(w) > 0 /\ w = [k \in 1..Len(w) |-> w[k]]
    BY <1>5 DEF IsList
  <2> HIDE DEF w
  <2>2. DOMAIN w = 1..Len(w)
    BY <2>1
  <2>3. 1 \in 1..Len(w)
    BY <2>1
  <2>4. 1 \in DOMAIN w
    BY <2>2, <2>3
  <2> QED BY <2>4 DEF w
<1> QED BY <1>1, <1>5, <1>6

\* ... and so do any number of them.
LEMMA FlattenElements ==
  ASSUME NEW seqs, IsList(seqs), \A i \in 1..Len(seqs) : IsList(seqs[i])
  PROVE  /\ IsList(FlattenSeq(seqs))
         /\ Elements(FlattenSeq(seqs)) = UNION {Elements(seqs[i]) : i \in 1..Len(seqs)}
<1> DEFINE n == Len(seqs)
           First(m) == UNION {Elements(seqs[i]) : i \in 1..m}
<1>2. n \in Nat
  BY DEF IsList
<1>3. CASE n = 0
  <2>1. FlattenSeq(seqs) = seqs
    BY <1>3 DEF FlattenSeq
  <2>2. 1..n = {}
    BY <1>3
  <2>3. Elements(seqs) = {} /\ First(n) = {}
    BY <2>2 DEF Elements
  <2> QED BY <2>1, <2>3
<1>4. CASE n # 0
  <2>1. PICK f : /\ FlattenSeq(seqs) = f[n]
                 /\ \A i \in 1..n : f[i] = IF i = 1 THEN seqs[i] ELSE f[i - 1] \o seqs[i]
    BY <1>2, <1>4, FlattenRuns
  <2> DEFINE T == {m \in 0..n : m > 0 => IsList(f[m]) /\ Elements(f[m]) = First(m)}
  <2>6. 0 \in T
    BY <1>2
  <2>7. ASSUME NEW m \in 0..(n - 1), m \in T
        PROVE  m + 1 \in T
    <3>1. m + 1 \in 1..n /\ m + 1 \in 0..n /\ (m + 1) - 1 = m
      BY <1>2
    <3>2. IsList(seqs[m + 1])
      BY <3>1
    <3>3. First(m + 1) = First(m) \cup Elements(seqs[m + 1])
      <4>1. \A i : i \in 1..(m + 1) <=> i \in 1..m \/ i = m + 1
        OBVIOUS
      <4> QED BY <4>1
    <3>4. IsList(f[m + 1]) /\ Elements(f[m + 1]) = First(m + 1)
      <4>1. f[m + 1] = IF m + 1 = 1 THEN seqs[m + 1] ELSE f[(m + 1) - 1] \o seqs[m + 1]
        BY Zenon, <2>1, <3>1
      <4>2. CASE m = 0
        <5>1. m + 1 = 1
          BY <4>2
        <5>2. f[m + 1] = seqs[m + 1]
          BY Zenon, <4>1, <5>1
        <5>3. First(m) = {}
          <6>1. 1..m = {}
            BY <4>2
          <6> QED BY <6>1
        <5> HIDE DEF First
        <5> QED BY <3>2, <3>3, <5>2, <5>3
      <4>3. CASE m # 0
        <5>1. IsList(f[m]) /\ Elements(f[m]) = First(m)
          BY <1>2, <2>7, <4>3
        <5>2. f[m + 1] = f[m] \o seqs[m + 1]
          <6>1. m + 1 # 1
            BY <1>2, <4>3
          <6> QED BY Zenon, <3>1, <4>1, <6>1
        <5> HIDE DEF First
        <5> QED BY <3>2, <3>3, <5>1, <5>2, ConcatElements
      <4> QED BY <4>2, <4>3
    <3> HIDE DEF First
    <3> QED BY <3>1, <3>4
  <2>8. n \in T
    <3> HIDE DEF T, n
    <3>1. n \in 0..n
      BY <1>2
    <3> QED BY <1>2, <2>6, <2>7, <3>1, UpTo
  <2>9. IsList(f[n]) /\ Elements(f[n]) = First(n)
    <3> HIDE DEF First, n
    <3> QED BY <1>2, <1>4, <2>8
  <2> QED BY <2>1, <2>9
<1> QED BY <1>3, <1>4

\* What is true of its elements is true of two lists one after the other, ...
LEMMA PutsAre ==
  ASSUME NEW s
  PROVE  AllPuts(s) <=> IsList(s) /\ \A p \in Elements(s) : PutFits(p)
BY DEF AllPuts, Elements

LEMMA ConcatPuts ==
  ASSUME NEW s, AllPuts(s), NEW t, AllPuts(t)
  PROVE  AllPuts(s \o t)
<1>1. /\ IsList(s) /\ \A p \in Elements(s) : PutFits(p)
      /\ IsList(t) /\ \A p \in Elements(t) : PutFits(p)
  BY PutsAre
<1> DEFINE both == s \o t
<1>2. IsList(both) /\ Elements(both) = Elements(s) \cup Elements(t)
  BY <1>1, ConcatElements
<1> HIDE DEF both
<1>3. AllPuts(both)
  BY <1>1, <1>2, PutsAre
<1> QED BY <1>3 DEF both

\* ... and of any number of them.
LEMMA FlattenPuts ==
  ASSUME NEW seqs, IsList(seqs), \A i \in 1..Len(seqs) : AllPuts(seqs[i])
  PROVE  AllPuts(FlattenSeq(seqs))
<1>1. \A i \in 1..Len(seqs) : IsList(seqs[i]) /\ \A p \in Elements(seqs[i]) : PutFits(p)
  BY PutsAre
<1>2. /\ IsList(FlattenSeq(seqs))
      /\ Elements(FlattenSeq(seqs)) = UNION {Elements(seqs[i]) : i \in 1..Len(seqs)}
  BY <1>1, FlattenElements
<1> QED BY <1>1, <1>2, PutsAre

LEMMA FewPuts ==
  /\ AllPuts(<<>>)
  /\ \A p : PutFits(p) => AllPuts(<<p>>)
  /\ \A p, q : PutFits(p) /\ PutFits(q) => AllPuts(<<p, q>>)
BY FewElements, PutsAre

LEMMA HashIsNotZeros == \A bytes : Sha256(bytes) # Zeros
BY DEF Sha256, Zeros

\* What the transactions of a block put and delete.
LEMMA TxPuts ==
  ASSUME NEW t, IsTx(t), AllPay(t.outputs)
  PROVE  AllPuts(PutsOf(t))
<1> DEFINE id == HashTx(t)
           entry(n) == [key_pair |-> KeyPair(CHOOSE k \in 1..MAX_KEYS :
                                       t.outputs[n].public_key_hash = HashPubKey(k)),
                        amt |-> t.outputs[n].amt, spent |-> 0]
           own(n) == \E k \in 1..MAX_KEYS : t.outputs[n].public_key_hash = HashPubKey(k)
           utxo(n) == [to |-> <<"utxos", MakeUtxoPoolKey(id, n - 1)>>, value |-> t.outputs[n]]
           mine(n) == [to |-> <<"wallet", MakeUtxoPoolKey(id, n - 1)>>, value |-> entry(n)]
           made(n) == <<utxo(n)>> \o IF own(n) THEN <<mine(n)>> ELSE <<>>
           name(in) == MakeUtxoPoolKey(in.prev_tx_id, in.prev_utxo_output)
           gone(in) == <<[to |-> <<"utxos", name(in)>>, value |-> NULL],
                         [to |-> <<"wallet", name(in)>>, value |-> NULL]>>
           ins == [k \in DOMAIN Inputs(t) |-> gone(t.inputs[k])]
           outs == [n \in DOMAIN t.outputs |-> made(n)]
<1>1. PutsOf(t) = FlattenSeq(outs) \o FlattenSeq(ins)
  BY Zenon DEF PutsOf
<1>2. /\ DOMAIN t.outputs = 1..Len(t.outputs) /\ Len(t.outputs) \in Nat
      /\ DOMAIN Inputs(t) = 1..Len(Inputs(t)) /\ Len(Inputs(t)) \in Nat
  BY DEF IsTx, IsList
<1>3. ASSUME NEW n \in DOMAIN t.outputs
      PROVE  AllPuts(made(n))
  <2>1. IsOutput(t.outputs[n]) /\ t.outputs[n].amt \in Int
    BY <1>2 DEF AllPay, IsPayment
  <2>2. PutFits(utxo(n))
    BY <2>1 DEF PutFits, Fits, Databases
  <2>3. IsEntry(entry(n)) /\ OnePair(entry(n).key_pair) /\ entry(n).amt \in Int
    <3> DEFINE k == CHOOSE k \in 1..MAX_KEYS : t.outputs[n].public_key_hash = HashPubKey(k)
    <3>1. IsPair(KeyPair(k)) /\ OnePair(KeyPair(k))
      BY DEF IsPair, KeyPair, OnePair
    <3>2. entry(n) = [key_pair |-> KeyPair(k), amt |-> t.outputs[n].amt, spent |-> 0]
      OBVIOUS
    <3> HIDE DEF k, entry
    <3> QED BY <2>1, <3>1, <3>2 DEF IsEntry
  <2> HIDE DEF entry
  <2>4. PutFits(mine(n))
    <3>1. /\ mine(n).value = entry(n) /\ mine(n).to[1] = "wallet"
          /\ mine(n).to[2][1] = id /\ mine(n).to[2][2] = n - 1
      BY DEF MakeUtxoPoolKey
    <3>2. id # Zeros
      BY HashIsNotZeros DEF HashTx
    <3>3. n - 1 \in Int
      BY <1>2
    <3> HIDE DEF mine, id
    <3> QED BY <2>3, <3>1, <3>2, <3>3 DEF PutFits, Fits, Databases
  <2> HIDE DEF utxo, mine, own
  <2>5. AllPuts(<<utxo(n)>>) /\ AllPuts(IF own(n) THEN <<mine(n)>> ELSE <<>>)
    BY <2>2, <2>4, FewPuts
  <2> QED BY <2>5, ConcatPuts
<1>4. ASSUME NEW in
      PROVE  AllPuts(gone(in))
  <2> HIDE DEF name
  <2>1. /\ PutFits([to |-> <<"utxos", name(in)>>, value |-> NULL])
        /\ PutFits([to |-> <<"wallet", name(in)>>, value |-> NULL])
    BY DEF PutFits, Databases
  <2> QED BY <2>1, FewPuts
<1> HIDE DEF made, gone
<1>5. IsList(outs) /\ \A n \in 1..Len(outs) : AllPuts(outs[n])
  BY <1>2, <1>3 DEF IsList
<1>6. IsList(ins) /\ \A k \in 1..Len(ins) : AllPuts(ins[k])
  BY <1>2, <1>4 DEF IsList
<1> HIDE DEF ins, outs
<1>7. AllPuts(FlattenSeq(outs)) /\ AllPuts(FlattenSeq(ins))
  BY <1>5, <1>6, FlattenPuts
<1> QED BY <1>1, <1>7, ConcatPuts

\* A copy is a transaction with the same inputs and outputs.
LEMMA CopyIsTx ==
  ASSUME NEW t, IsTx(t)
  PROVE  IsTx(CopyTx(t))
<1>1. CopyTx(t).inputs = Inputs(t) /\ CopyTx(t).outputs = t.outputs
  BY DEF CopyTx
<1>2. Inputs(CopyTx(t)) = IF Inputs(t) = NULL THEN <<>> ELSE Inputs(t)
  BY <1>1 DEF Inputs
<1>3. IsList(<<>>) /\ Len(<<>>) = 0
  BY DEF IsList
<1> QED BY <1>1, <1>2, <1>3 DEF IsTx

LEMMA BuiltIsTx ==
  ASSUME NEW t, IsBuilt(t)
  PROVE  IsTx(t)
<1>1. Inputs(t) = IF t.inputs = NULL THEN <<>> ELSE t.inputs
  BY DEF Inputs
<1>2. IsList(<<>>) /\ Len(<<>>) = 0
  BY DEF IsList
<1> QED BY <1>1, <1>2 DEF IsTx, IsBuilt, IsSpend, AllPay, IsPayment

LEMMA InitValues == Init => ValuesInv
<1> SUFFICES ASSUME Init PROVE ValuesInv
  OBVIOUS
<1>1. BufferFilledExactly
  BY DEF Init, NoBuffer, Allocated, NewBuffer, BufferFilledExactly
<1>2. IsList(<<>>) /\ Len(<<>>) = 0
  BY DEF IsList
<1>3. keys \in 0..MAX_KEYS
  BY BoundsAssumption DEF Init
<1> QED BY <1>1, <1>2, <1>3, FewPuts DEF Init, ValuesInv, Underway, NothingInHand

\* A put fills a buffer and stores it; a delete takes the entry away.
LEMMA PutValues == ValuesInv /\ PutNext => ValuesInv'
<1> SUFFICES ASSUME ValuesInv, PutNext PROVE ValuesInv'
  OBVIOUS
<1> DEFINE to == Head(puts).to
           value == Head(puts).value
<1>1. /\ PutFits(puts[1]) /\ AllPuts(Tail(puts)) /\ Head(puts) = puts[1]
  <2> DEFINE E == {puts[k] : k \in 1..Len(puts)}
  <2>1. IsList(puts) /\ (\A k \in 1..Len(puts) : PutFits(puts[k])) /\ puts # <<>>
    BY DEF ValuesInv, AllPuts, PutNext
  <2>2. \A k \in 1..Len(puts) : puts[k] \in E
    OBVIOUS
  <2>3. \A e \in E : PutFits(e)
    BY <2>1
  <2> HIDE DEF E
  <2>4. puts \in Seq(E)
    BY <2>1, <2>2, ListIsSeq
  <2>5. Tail(puts) \in Seq(E) /\ Len(puts) >= 1 /\ Head(puts) = puts[1]
    BY <2>1, <2>4
  <2>6. 1 \in 1..Len(puts)
    BY <2>1, <2>5 DEF IsList
  <2> QED BY <2>1, <2>3, <2>5, <2>6, ListIsSeq DEF AllPuts
<1>2. PutFits(Head(puts))
  BY <1>1
<1>3. AllPuts(puts') /\ UNCHANGED <<keys, pending>> /\ Underway'
  <2>1. AllPuts(puts') /\ UNCHANGED <<keys, pending, tx, input_keys, tx_hash, signed>>
    BY <1>1 DEF PutNext
  <2> QED BY <2>1, UnderwayStays DEF ValuesInv
<1>4. CASE value = NULL
  <2>1. /\ db' = [k \in DOMAIN db \ {to} |-> db[k]]
        /\ held' = [k \in DOMAIN held \ {to} |-> held[k]]
        /\ buf' = buf
    BY <1>4 DEF PutNext
  <2> HIDE DEF to, value
  <2>2. BufferFilledExactly'
    BY <2>1 DEF ValuesInv, BufferFilledExactly
  <2>3. DOMAIN db' = DOMAIN held'
    BY <2>1 DEF ValuesInv
  <2>4. \A k \in DOMAIN held' : Entry(k, db'[k], held'[k])
    BY <2>1 DEF ValuesInv
  <2>5. \A n \in 1..Len(pending') : IsBuilt(pending'[n]) /\ AllUnlockable(pending'[n])
    BY <1>3 DEF ValuesInv
  <2> QED BY <1>3, <2>2, <2>3, <2>4, <2>5 DEF ValuesInv
<1>5. CASE value # NULL
  <2>1. /\ buf' = SerAlloc(to, value)
        /\ db' = [k \in DOMAIN db \cup {to} |->
                    IF k = to THEN BytesAt(buf'.mem, 0, buf'.written) ELSE db[k]]
        /\ held' = [k \in DOMAIN held \cup {to} |-> IF k = to THEN value ELSE held[k]]
    BY <1>5 DEF PutNext
  <2>2. Fits(to, value)
    BY <1>2, <1>5 DEF PutFits
  <2> HIDE DEF to, value
  <2>3. PICK len \in Nat \ {0} : Filled(to, value, SerAlloc(to, value), len)
    BY <2>2, AllocFilled
  <2>4. BufferFilledExactly'
    BY <2>1, <2>3 DEF BufferFilledExactly, Filled
  <2>5. DOMAIN db' = DOMAIN held'
    BY <2>1 DEF ValuesInv
  <2>6. ASSUME NEW k \in DOMAIN held'
        PROVE  Entry(k, db'[k], held'[k])
    <3>1. CASE k = to
      <4>1. db'[k] = BytesAt(SerAlloc(to, value).mem, 0, SerAlloc(to, value).written)
            /\ held'[k] = value
        BY <2>1, <2>5, <3>1
      <4> QED BY <2>2, <3>1, <4>1 DEF Entry
    <3>2. CASE k # to
      BY <2>1, <3>2 DEF ValuesInv
    <3> QED BY <3>1, <3>2
  <2>7. \A n \in 1..Len(pending') : IsBuilt(pending'[n]) /\ AllUnlockable(pending'[n])
    BY <1>3 DEF ValuesInv
  <2> QED BY <1>3, <2>4, <2>5, <2>6, <2>7 DEF ValuesInv
<1> QED BY <1>4, <1>5

\* The transactions of a mined block: a coinbase and copies of what is pending.
LEMMA MinedTxs ==
  ASSUME NEW coinbase, IsTx(coinbase), AllPay(coinbase.outputs), NEW txs,
         IsList(pending), \A n \in 1..Len(pending) : IsBuilt(pending[n]),
         txs = <<coinbase>> \o [n \in DOMAIN pending |-> CopyTx(pending[n])]
  PROVE  /\ IsList(txs) /\ Len(txs) = Len(pending) + 1
         /\ txs[1] = coinbase
         /\ \A k \in 2..Len(txs) : txs[k] = CopyTx(pending[k - 1])
         /\ \A k \in 1..Len(txs) : IsTx(txs[k]) /\ AllPay(txs[k].outputs)
<1> DEFINE n == Len(pending)
           copies == [k \in DOMAIN pending |-> CopyTx(pending[k])]
           E == {coinbase} \cup {copies[k] : k \in 1..n}
<1>1. n \in Nat /\ DOMAIN pending = 1..n
  BY DEF IsList
<1>2. IsList(copies) /\ Len(copies) = n
  BY <1>1 DEF IsList
<1>3. \A k \in 1..n : /\ IsTx(copies[k]) /\ copies[k] = CopyTx(pending[k])
                       /\ AllPay(copies[k].outputs)
  <2> SUFFICES ASSUME NEW k \in 1..n
               PROVE  /\ IsTx(copies[k]) /\ copies[k] = CopyTx(pending[k])
                      /\ AllPay(copies[k].outputs)
    OBVIOUS
  <2>1. IsBuilt(pending[k]) /\ copies[k] = CopyTx(pending[k])
    BY <1>1
  <2>2. IsTx(CopyTx(pending[k]))
    BY <2>1, BuiltIsTx, CopyIsTx
  <2>3. CopyTx(pending[k]).outputs = pending[k].outputs
    BY DEF CopyTx
  <2> HIDE DEF copies
  <2> QED BY <2>1, <2>2, <2>3 DEF IsBuilt
<1> HIDE DEF copies, n
<1>4. coinbase \in E /\ \A k \in 1..n : copies[k] \in E
  OBVIOUS
<1>5. \A e \in E : IsTx(e) /\ AllPay(e.outputs)
  BY <1>3
<1> HIDE DEF E
<1>6. copies \in Seq(E) /\ <<coinbase>> \in Seq(E) /\ Len(<<coinbase>>) = 1
  BY <1>2, <1>4, ListIsSeq
<1>7. /\ txs \in Seq(E) /\ Len(txs) = n + 1 /\ txs[1] = coinbase
      /\ \A k \in 2..(n + 1) : txs[k] = copies[k - 1]
  <2> DEFINE one == <<coinbase>>
  <2>1. txs = one \o copies
    BY DEF copies
  <2>2. one \in Seq(E) /\ copies \in Seq(E) /\ Len(one) = 1 /\ one[1] = coinbase /\ Len(copies) = n
    BY <1>2, <1>6
  <2> HIDE DEF one
  <2>3. /\ one \o copies \in Seq(E)
        /\ Len(one \o copies) = 1 + n
        /\ \A k \in 1..(1 + n) : (one \o copies)[k] = IF k <= 1 THEN one[k] ELSE copies[k - 1]
    <3>1. /\ one \o copies \in Seq(E)
          /\ Len(one \o copies) = Len(one) + Len(copies)
          /\ \A k \in 1..(Len(one) + Len(copies)) :
               (one \o copies)[k] = IF k <= Len(one) THEN one[k] ELSE copies[k - Len(one)]
      BY <2>2, ConcatProperties
    <3> QED BY <2>2, <3>1
  <2>4. 1 \in 1..(1 + n) /\ \A k \in 2..(n + 1) : k \in 1..(1 + n) /\ ~(k <= 1)
    BY <1>1
  <2> DEFINE cat == one \o copies
  <2>5. cat \in Seq(E) /\ Len(cat) = 1 + n /\ cat[1] = coinbase
    BY <2>2, <2>3, <2>4
  <2>6. \A k \in 2..(n + 1) : cat[k] = copies[k - 1]
    BY <2>3, <2>4
  <2> HIDE DEF cat
  <2>7. Len(cat) = n + 1
    BY <1>1, <2>5
  <2> QED BY <2>1, <2>5, <2>6, <2>7 DEF cat
<1>8. IsList(txs) /\ \A k \in 1..Len(txs) : IsTx(txs[k]) /\ AllPay(txs[k].outputs)
  BY <1>5, <1>7, ListIsSeq
<1>9. \A k \in 2..(n + 1) : k - 1 \in 1..n
  BY <1>1
<1> QED BY <1>3, <1>7, <1>8, <1>9 DEF n

\* An output to a key that is there.
LEMMA PaysSomebody ==
  ASSUME NEW amt \in Int, NEW key
  PROVE  IsPayment(Output(amt, key))
<1>1. HashPubKey(key) # Zeros
  BY HashIsNotZeros DEF HashPubKey
<1> QED BY <1>1 DEF IsPayment, IsOutput, Output

\* Without inputs there is nothing to unlock.
LEMMA NothingToUnlock ==
  ASSUME NEW t, t.inputs = <<>>
  PROVE  AllUnlockable(t)
<1>1. DOMAIN t.inputs = {}
  OBVIOUS
<1> QED BY <1>1 DEF AllUnlockable

\* What can be unlocked can be when it was copied into a block, and from there.
LEMMA CopyUnlockable ==
  ASSUME NEW t, IsBuilt(t), AllUnlockable(t)
  PROVE  AllUnlockable(CopyTx(CopyTx(t)))
<1> DEFINE u == CopyTx(t)
           v == CopyTx(u)
<1>1. u = [inputs |-> Inputs(t), outputs |-> t.outputs]
      /\ v = [inputs |-> Inputs(u), outputs |-> u.outputs]
  BY DEF CopyTx
<1>2. CASE t.inputs = NULL
  <2>1. u.inputs = <<>>
    BY <1>1, <1>2 DEF Inputs
  <2>2. v.inputs = <<>>
    BY <1>1, <2>1 DEF Inputs
  <2> QED BY <2>2, NothingToUnlock
<1>3. CASE t.inputs # NULL
  <2>1. u = t
    BY <1>1, <1>3 DEF Inputs, IsBuilt
  <2> QED BY <2>1
<1> QED BY <1>2, <1>3

\* mine_block makes values that can be stored.
LEMMA MineValues == ValuesInv /\ Mine => ValuesInv'
<1> SUFFICES ASSUME ValuesInv, Mine PROVE ValuesInv'
  OBVIOUS
<1> DEFINE coinbase == [inputs |-> NULL, outputs |-> <<Output(REWARD, CoinbaseKey)>>]
           txs == <<coinbase>> \o [n \in DOMAIN pending |-> CopyTx(pending[n])]
           headerAt(now) == [timestamp |-> now, all_tx |-> HashAllTx(txs),
                             prev_header_hash |-> top, nonce |-> 0]
           putAt(now) == [to |-> <<"blocks", HashBlockheader(headerAt(now))>>,
                          value |-> [header |-> headerAt(now), txs |-> txs]]
           each == [i \in DOMAIN txs |-> PutsOf(txs[i])]
<1>0. PICK now \in TIMES : puts' = <<PutKey(CoinbaseKey), putAt(now)>> \o FlattenSeq(each)
  BY Zenon DEF Mine
<1> DEFINE header == headerAt(now)
           block == [header |-> header, txs |-> txs]
           put == [to |-> <<"blocks", HashBlockheader(header)>>, value |-> block]
<1>1. /\ puts' = <<PutKey(CoinbaseKey), put>> \o FlattenSeq(each)
      /\ pending' = <<>>
      /\ UNCHANGED <<db, held, buf, tx, input_keys, tx_hash, signed>>
      /\ keys < MAX_KEYS /\ keys' = keys + 1
  BY Zenon, <1>0 DEF Mine
<1>2. IsTx(coinbase) /\ CopyTx(coinbase).inputs = <<>> /\ AllPay(coinbase.outputs)
  <2> DEFINE outs == <<Output(REWARD, CoinbaseKey)>>
  <2>1. IsList(outs) /\ Len(outs) = 1 /\ outs[1] = Output(REWARD, CoinbaseKey)
    BY DEF IsList
  <2>2. IsOutput(Output(REWARD, CoinbaseKey)) /\ IsPayment(Output(REWARD, CoinbaseKey))
    BY PaysSomebody, AmountsAssumption DEF IsPayment
  <2>3. IsList(<<>>) /\ Len(<<>>) = 0 /\ Inputs(coinbase) = <<>>
    BY DEF IsList, Inputs
  <2>4. coinbase.outputs = outs
    OBVIOUS
  <2>7. CopyTx(coinbase).inputs = <<>>
    BY <2>3 DEF CopyTx
  <2> HIDE DEF outs, coinbase
  <2>5. (\A k \in 1..Len(outs) : IsOutput(outs[k])) /\ AllPay(outs)
    BY <2>1, <2>2 DEF AllPay
  <2>6. \A k \in 1..Len(<<>>) : FALSE
    BY <2>3
  <2> QED BY <2>1, <2>3, <2>4, <2>5, <2>6, <2>7 DEF IsTx
<1> HIDE DEF coinbase
<1>3. /\ IsList(txs) /\ \A k \in 1..Len(txs) : IsTx(txs[k]) /\ AllPay(txs[k].outputs)
      /\ \A k \in 1..Len(txs) : AllUnlockable(CopyTx(txs[k]))
  <2>1. txs = <<coinbase>> \o [n \in DOMAIN pending |-> CopyTx(pending[n])]
    OBVIOUS
  <2> HIDE DEF txs
  <2>2. IsList(pending) /\ \A n \in 1..Len(pending) : IsBuilt(pending[n])
    BY DEF ValuesInv
  <2>3. /\ IsList(txs) /\ Len(txs) = Len(pending) + 1
        /\ txs[1] = coinbase
        /\ \A k \in 2..Len(txs) : txs[k] = CopyTx(pending[k - 1])
        /\ \A k \in 1..Len(txs) : IsTx(txs[k]) /\ AllPay(txs[k].outputs)
    BY <1>2, <2>1, <2>2, MinedTxs
  <2>4. AllUnlockable(CopyTx(txs[1]))
    BY <1>2, <2>3, NothingToUnlock
  <2>5. ASSUME NEW k \in 2..Len(txs)
        PROVE  AllUnlockable(CopyTx(txs[k]))
    <3>1. k - 1 \in 1..Len(pending)
      BY <2>2, <2>3 DEF IsList
    <3>2. IsBuilt(pending[k - 1]) /\ AllUnlockable(pending[k - 1])
      BY <3>1 DEF ValuesInv
    <3> QED BY <2>3, <3>2, CopyUnlockable
  <2>6. \A k \in 1..Len(txs) : k = 1 \/ k \in 2..Len(txs)
    BY <2>2, <2>3 DEF IsList
  <2> QED BY <2>3, <2>4, <2>5, <2>6
<1> HIDE DEF txs
<1>4. IsBlock(block) /\ BlockUnlockable(block)
  <2>1. IsHeader(header)
    BY DEF IsHeader
  <2> HIDE DEF header
  <2> QED BY <1>3, <2>1 DEF IsBlock, BlockUnlockable
<1> HIDE DEF header, block
<1>5. PutFits(put)
  BY <1>4 DEF PutFits, Fits, Databases
<1>6. PutFits(PutKey(CoinbaseKey))
  BY DEF PutFits, Fits, Databases, PutKey, KeyPair, IsPair
<1>7. IsList(each) /\ \A k \in 1..Len(each) : AllPuts(each[k])
  <2>1. DOMAIN txs = 1..Len(txs) /\ Len(txs) \in Nat
    BY <1>3 DEF IsList
  <2> QED BY <1>3, <2>1, TxPuts DEF IsList
<1> HIDE DEF put, each
<1>8. AllPuts(puts')
  <2>1. AllPuts(<<PutKey(CoinbaseKey), put>>) /\ AllPuts(FlattenSeq(each))
    BY <1>5, <1>6, <1>7, FewPuts, FlattenPuts
  <2> QED BY <1>1, <2>1, ConcatPuts
<1>9. IsList(<<>>) /\ Len(<<>>) = 0
  BY DEF IsList
<1>10. BufferFilledExactly'
  BY <1>1 DEF ValuesInv, BufferFilledExactly
<1>11. \A to \in DOMAIN held : Entry(to, db[to], held[to])
  BY DEF ValuesInv
<1>12. keys' \in 0..MAX_KEYS
  BY <1>1, BoundsAssumption DEF ValuesInv
<1>13. Underway'
  BY <1>1, UnderwayStays DEF ValuesInv
<1> QED BY <1>1, <1>8, <1>9, <1>10, <1>11, <1>12, <1>13 DEF ValuesInv

\* The wallet entry an input is made from.
LEMMA EntryTaken ==
  ASSUME ValuesInv, NEW to \in UnspentEntries
  PROVE  /\ to \in DOMAIN held /\ to[1] = "wallet" /\ Find(to).value = held[to]
         /\ IsEntry(held[to]) /\ OnePair(held[to].key_pair)
         /\ PutFits(MarkedSpent(to)) /\ MarkedSpent(to).to = to
         /\ MarkedSpent(to).value = [key_pair |-> held[to].key_pair, amt |-> held[to].amt, spent |-> 1]
         /\ IsSpend(InputFrom(to)) /\ Find(to).value.amt \in Int
<1>1. to \in DOMAIN db /\ to \in DOMAIN held /\ to[1] = "wallet"
  BY DEF UnspentEntries, ValuesInv
<1>2. Entry(to, db[to], held[to])
  BY <1>1 DEF ValuesInv
<1>3. Find(to).value = held[to]
  BY <1>1, <1>2, EntryReads DEF AsRead
<1>4. /\ IsEntry(held[to]) /\ OnePair(held[to].key_pair) /\ held[to].amt \in Int
      /\ to[2][1] # Zeros /\ to[2][2] \in Int
  BY <1>1, <1>2 DEF Entry, Fits
<1> DEFINE entry == held[to]
<1>5. MarkedSpent(to) = [to |-> to, value |-> [entry EXCEPT !.spent = 1]]
  BY <1>3 DEF MarkedSpent
<1>6. entry = [key_pair |-> entry.key_pair, amt |-> entry.amt, spent |-> entry.spent]
      /\ IsPair(entry.key_pair)
  BY <1>4 DEF IsEntry
<1> HIDE DEF entry
<1>7. [entry EXCEPT !.spent = 1] = [key_pair |-> entry.key_pair, amt |-> entry.amt, spent |-> 1]
  BY <1>6
<1>8. /\ IsEntry([key_pair |-> entry.key_pair, amt |-> entry.amt, spent |-> 1])
      /\ OnePair([key_pair |-> entry.key_pair, amt |-> entry.amt, spent |-> 1].key_pair)
      /\ [key_pair |-> entry.key_pair, amt |-> entry.amt, spent |-> 1].amt \in Int
  BY <1>4, <1>6 DEF IsEntry, entry
<1>9. PutFits(MarkedSpent(to))
  BY <1>1, <1>4, <1>5, <1>7, <1>8 DEF PutFits, Fits, Databases
<1>10. IsSpend(InputFrom(to))
  BY <1>4 DEF IsSpend, IsInput, InputFrom
<1> QED BY <1>1, <1>3, <1>4, <1>5, <1>7, <1>9, <1>10 DEF entry

\* What the entries taken add up to is an amount.
LEMMA TakenRuns ==
  ASSUME NEW seq, IsList(seq)
  PROVE  \E r : /\ Runs(r, "taken", <<>>, 0, seq)
                /\ FoldLeft(LAMBDA acc, to : acc + Find(to).value.amt, 0, seq) = r[Len(seq)]
<1> DEFINE Made(g) ==
             g = [s \in SUBSET DOMAIN seq |->
                    IF s = {} THEN 0 ELSE g[s \ {Max(s)}] + Find(seq[Max(s)]).value.amt]
           f == CHOOSE g : Made(g)
<1>1. FoldLeft(LAMBDA acc, to : acc + Find(to).value.amt, 0, seq) = f[DOMAIN seq]
  BY Zenon DEF FoldLeft, MapThenFoldSet
<1>2. \A g, s : Turn("taken", <<>>, g[s \ {Max(s)}], seq[Max(s)])
                   = g[s \ {Max(s)}] + Find(seq[Max(s)]).value.amt
  BY DEF Turn
<1>3. \A g : Made(g) <=> Folded(g, "taken", <<>>, 0, seq)
  BY <1>2 DEF Folded
<1>4. Folded(f, "taken", <<>>, 0, seq)
  <2>1. \E g : Made(g)
    BY <1>3, FoldMade
  <2> HIDE DEF Made
  <2> QED BY <1>3, <2>1
<1>5. \E r : Runs(r, "taken", <<>>, 0, seq) /\ f[DOMAIN seq] = r[Len(seq)]
  <2> HIDE DEF f
  <2> QED BY <1>4, FoldRuns
<1> QED BY Zenon, <1>1, <1>5

LEMMA TakenIsAmount ==
  ASSUME NEW seq, IsList(seq), \A k \in 1..Len(seq) : Find(seq[k]).value.amt \in Int
  PROVE  FoldLeft(LAMBDA acc, to : acc + Find(to).value.amt, 0, seq) \in Int
<1>1. PICK r : /\ Runs(r, "taken", <<>>, 0, seq)
               /\ FoldLeft(LAMBDA acc, to : acc + Find(to).value.amt, 0, seq) = r[Len(seq)]
  BY Zenon, TakenRuns
<1> DEFINE n == Len(seq)
           S == {k \in 0..n : r[k] \in Int}
<1>2. n \in Nat
  BY DEF IsList
<1>3. \A k \in 0..(n - 1) : r[k + 1] = r[k] + Find(seq[k + 1]).value.amt
  BY <1>1 DEF Runs, Turn
<1>4. \A k \in 0..(n - 1) : k + 1 \in 1..n /\ k + 1 \in 0..n
  BY <1>2
<1>5. 0 \in S
  <2>1. r[0] = 0
    BY Zenon, <1>1 DEF Runs
  <2> HIDE DEF n
  <2>2. 0 \in 0..n
    BY <1>2
  <2> QED BY <2>1, <2>2
<1>6. \A k \in 0..(n - 1) : k \in S => k + 1 \in S
  BY <1>3, <1>4
<1>7. n \in S
  <2> HIDE DEF S, n
  <2>1. n \in 0..n
    BY <1>2
  <2> QED BY <1>2, <1>5, <1>6, <2>1, UpTo
<1> HIDE DEF n
<1>8. r[n] \in Int
  BY <1>7
<1> QED BY Zenon, <1>1, <1>8 DEF n

\* What build_tx makes of the entries it takes; what it adds up is not told.
Builds(n, from, amt, change) ==
  /\ n \in 1..MAX_INPUTS /\ from \in [1..n -> UnspentEntries]
  /\ amt \in Int /\ (change = <<>> \/ \E left \in Int : change = <<Output(left, keys + 1)>>)
  /\ tx' = [inputs  |-> [k \in 1..n |-> InputFrom(from[k])],
            outputs |-> <<Output(amt, FOREIGN_KEY)>> \o change]
  /\ input_keys' = [k \in 1..n |-> Find(from[k]).value.key_pair.private]
  /\ puts' = [k \in 1..n |-> MarkedSpent(from[k])]
  /\ keys' = keys + Len(change)

LEMMA TxBuilds ==
  ASSUME ValuesInv, NEW amt \in AMOUNTS, BuildTx(amt)
  PROVE  \E n, from, change : Builds(n, from, amt, change)
<1> DEFINE total(from) == FoldLeft(LAMBDA acc, to : acc + Find(to).value.amt, 0, from)
           change(from) ==
             IF total(from) = amt THEN <<>> ELSE <<Output(total(from) - amt, keys + 1)>>
           Made(n, from) ==
             /\ tx' = [inputs  |-> [k \in 1..n |-> InputFrom(from[k])],
                       outputs |-> <<Output(amt, FOREIGN_KEY)>> \o change(from)]
             /\ input_keys' = [k \in 1..n |-> Find(from[k]).value.key_pair.private]
             /\ puts' = [k \in 1..n |-> MarkedSpent(from[k])]
             /\ keys' = keys + Len(change(from))
<1>1. \E n \in 1..MAX_INPUTS : \E from \in [1..n -> UnspentEntries] : Made(n, from)
  BY Zenon DEF BuildTx
<1>2. PICK n \in 1..MAX_INPUTS : \E from \in [1..n -> UnspentEntries] : Made(n, from)
  BY Zenon, <1>1
<1>3. PICK from \in [1..n -> UnspentEntries] : Made(n, from)
  BY Zenon, <1>2
<1>4. amt \in Int /\ total(from) - amt \in Int
  <2>1. IsList(from) /\ \A k \in 1..Len(from) : Find(from[k]).value.amt \in Int
    <3>1. n \in Nat
      BY BoundsAssumption
    <3>2. IsList(from) /\ Len(from) = n /\ \A k \in 1..n : from[k] \in UnspentEntries
      BY <3>1 DEF IsList
    <3> QED BY <3>2, EntryTaken
  <2>2. total(from) \in Int
    BY <2>1, TakenIsAmount
  <2>3. amt \in Int
    BY AmountsAssumption
  <2> HIDE DEF total
  <2> QED BY <2>2, <2>3
<1>5. change(from) = <<>> \/ \E left \in Int : change(from) = <<Output(left, keys + 1)>>
  <2> HIDE DEF total
  <2>1. change(from) = <<>> \/ change(from) = <<Output(total(from) - amt, keys + 1)>>
    BY Zenon
  <2> HIDE DEF change
  <2> QED BY <1>4, <2>1
<1> HIDE DEF total, change
<1>6. Builds(n, from, amt, change(from))
  BY <1>3, <1>4, <1>5 DEF Builds
<1> HIDE DEF Made
<1> QED BY Zenon, <1>6

\* create_blank_sig_txhash, input by input.
Blank(in) == [in EXCEPT !.signature = Zeros, !.sig_len = 0]
LEMMA BlankInputs ==
  /\ \A in : IsInput(in) =>
       Blank(in) = [pub_key |-> in.pub_key, sig_len |-> 0, signature |-> Zeros,
                    prev_tx_id |-> in.prev_tx_id, prev_utxo_output |-> in.prev_utxo_output]
  /\ \A t : IsBuilt(t) =>
       BlankSigTx(t) = [inputs  |-> [k \in 1..Len(t.inputs) |-> Blank(t.inputs[k])],
                        outputs |-> t.outputs]
<1>1. ASSUME NEW in, IsInput(in)
      PROVE  Blank(in) = [pub_key |-> in.pub_key, sig_len |-> 0, signature |-> Zeros,
                          prev_tx_id |-> in.prev_tx_id, prev_utxo_output |-> in.prev_utxo_output]
  <2> DEFINE key == in.pub_key
             len == in.sig_len
             sig == in.signature
             id == in.prev_tx_id
             vout == in.prev_utxo_output
             blank == Blank(in)
  <2>1. /\ in = [pub_key |-> key, sig_len |-> len, signature |-> sig,
                 prev_tx_id |-> id, prev_utxo_output |-> vout]
        /\ blank = [in EXCEPT !.signature = Zeros, !.sig_len = 0]
    BY <1>1 DEF IsInput, Blank
  <2> HIDE DEF key, len, sig, id, vout, blank
  <2>2. blank = [pub_key |-> key, sig_len |-> 0, signature |-> Zeros,
                 prev_tx_id |-> id, prev_utxo_output |-> vout]
    BY <2>1
  <2> QED BY Zenon, <2>2 DEF key, id, vout, blank
<1>2. ASSUME NEW t, IsBuilt(t)
      PROVE  BlankSigTx(t) = [inputs  |-> [k \in 1..Len(t.inputs) |-> Blank(t.inputs[k])],
                              outputs |-> t.outputs]
  <2>1. DOMAIN t.inputs = 1..Len(t.inputs)
    BY <1>2 DEF IsBuilt, IsList
  <2> QED BY <2>1 DEF BlankSigTx, Blank
<1> QED BY <1>1, <1>2

\* build_tx makes a transaction, and values that can be stored.
LEMMA BuildValues ==
  NullIsNoValue /\ ValuesInv /\ (\E amt \in AMOUNTS : BuildTx(amt)) => ValuesInv'
<1> SUFFICES ASSUME NullIsNoValue, ValuesInv, NEW amt \in AMOUNTS, BuildTx(amt) PROVE ValuesInv'
  OBVIOUS
<1>1. PICK n, from, change : Builds(n, from, amt, change)
  BY TxBuilds
<1>2. UNCHANGED <<db, held, buf, pending, tx_hash, signed>> /\ tx = NULL /\ keys < MAX_KEYS
  BY Zenon DEF BuildTx
<1>3. n \in Nat /\ \A k \in 1..n : from[k] \in UnspentEntries
  BY <1>1, BoundsAssumption DEF Builds
<1>4. AllPuts(puts')
  <2>1. puts' = [k \in 1..n |-> MarkedSpent(from[k])]
    BY <1>1 DEF Builds
  <2>2. \A k \in 1..n : PutFits(MarkedSpent(from[k]))
    BY <1>3, EntryTaken
  <2> QED BY <1>3, <2>1, <2>2 DEF AllPuts, IsList
<1>5. IsBuilt(tx') /\ Len(tx'.inputs) = n /\ Len(change) \in 0..1
      /\ \A k \in 1..n : tx'.inputs[k] = InputFrom(from[k])
  <2> DEFINE ins == [k \in 1..n |-> InputFrom(from[k])]
             one == <<Output(amt, FOREIGN_KEY)>>
             outs == one \o change
             E == {Output(amt, FOREIGN_KEY)} \cup {change[k] : k \in 1..Len(change)}
  <2>1. tx' = [inputs |-> ins, outputs |-> outs]
    BY <1>1 DEF Builds
  <2>2. IsList(ins) /\ \A k \in 1..Len(ins) : IsSpend(ins[k])
    <3>1. \A k \in 1..n : IsSpend(InputFrom(from[k]))
      BY <1>3, EntryTaken
    <3>2. Len(ins) = n /\ IsList(ins)
      BY <1>3 DEF IsList
    <3> QED BY <3>1, <3>2
  <2>8. Len(ins) = n /\ \A k \in 1..n : ins[k] = InputFrom(from[k])
    BY <1>3
  <2>3. amt \in Int /\ \A a \in Int : \A k : IsPayment(Output(a, k))
    BY <1>1, PaysSomebody DEF Builds
  <2>4. IsList(change) /\ (\A k \in 1..Len(change) : IsPayment(change[k])) /\ Len(change) \in 0..1
    <3>1. CASE change = <<>>
      BY <3>1 DEF IsList
    <3>2. CASE \E left \in Int : change = <<Output(left, keys + 1)>>
      <4>1. PICK left \in Int : change = <<Output(left, keys + 1)>>
        BY <3>2
      <4> QED BY <2>3, <4>1 DEF IsList
    <3> QED BY <1>1, <3>1, <3>2 DEF Builds
  <2>5. one \in Seq(E) /\ change \in Seq(E) /\ Len(one) = 1 /\ \A e \in E : IsPayment(e)
    <3>1. change \in Seq(E)
      BY <2>4, ListIsSeq
    <3> QED BY <2>3, <2>4, <3>1
  <2> HIDE DEF one, E, ins
  <2>6. outs \in Seq(E) /\ Len(outs) >= 1
    BY <2>5
  <2> HIDE DEF outs
  <2>7. IsList(outs) /\ AllPay(outs)
    BY <2>5, <2>6, ListIsSeq DEF AllPay
  <2>9. n >= 1
    BY <1>1 DEF Builds
  <2> QED BY <2>1, <2>2, <2>4, <2>6, <2>7, <2>8, <2>9 DEF IsBuilt
<1>6. BufferFilledExactly'
  BY <1>2 DEF ValuesInv, BufferFilledExactly
<1>7. \A to \in DOMAIN held : Entry(to, db[to], held[to])
  BY DEF ValuesInv
<1>8. keys' \in 0..MAX_KEYS
  <2>1. keys' = keys + Len(change)
    BY <1>1 DEF Builds
  <2>2. keys \in 0..MAX_KEYS /\ keys < MAX_KEYS /\ MAX_KEYS \in Nat
    BY <1>2, BoundsAssumption DEF ValuesInv
  <2> DEFINE more == Len(change)
  <2>3. keys' = keys + more /\ more \in 0..1
    BY <1>5, <2>1
  <2> HIDE DEF more
  <2> QED BY <2>2, <2>3
<1>9. signed = -1 /\ tx_hash = NULL
  BY <1>2 DEF NullIsNoValue, ValuesInv, Underway, NothingInHand, InTheMaking, IsBuilt
<1>10. \A k \in 1..n : input_keys'[k] = tx'.inputs[k].pub_key
  <2> SUFFICES ASSUME NEW k \in 1..n PROVE input_keys'[k] = tx'.inputs[k].pub_key
    OBVIOUS
  <2>1. /\ input_keys'[k] = Find(from[k]).value.key_pair.private
        /\ tx'.inputs[k].pub_key = Find(from[k]).value.key_pair.public
    BY <1>1, <1>5 DEF Builds, InputFrom
  <2>2. Find(from[k]).value = held[from[k]] /\ OnePair(held[from[k]].key_pair)
    BY <1>3, EntryTaken
  <2> QED BY <2>1, <2>2 DEF OnePair
<1>11. BlankSigTx(tx') = tx'
  <2> DEFINE ins == tx'.inputs
  <2>1. tx' = [inputs |-> ins, outputs |-> tx'.outputs] /\ Len(ins) = n /\ IsList(ins)
    BY <1>5 DEF IsBuilt
  <2>2. \A k \in 1..n : Blank(ins[k]) = ins[k]
    <3> SUFFICES ASSUME NEW k \in 1..n PROVE Blank(ins[k]) = ins[k]
      OBVIOUS
    <3>1. ins[k] = InputFrom(from[k]) /\ IsInput(InputFrom(from[k]))
      BY <1>3, <1>5, EntryTaken DEF IsSpend
    <3> QED BY <3>1, BlankInputs DEF InputFrom
  <2>3. BlankSigTx(tx') = [inputs |-> [k \in 1..Len(ins) |-> Blank(ins[k])], outputs |-> tx'.outputs]
    BY <1>5, BlankInputs
  <2> HIDE DEF ins
  <2>4. [k \in 1..Len(ins) |-> Blank(ins[k])] = ins
    BY <2>1, <2>2 DEF IsList
  <2> QED BY <2>1, <2>3, <2>4
<1>12. Underway'
  <2>1. n <= MAX_INPUTS
    BY <1>1, BoundsAssumption DEF Builds
  <2> QED BY <1>2, <1>5, <1>9, <1>10, <1>11, <2>1 DEF Underway, InTheMaking
<1> QED BY <1>2, <1>4, <1>6, <1>7, <1>8, <1>12 DEF ValuesInv

\* A transaction with one more signature.
SignedAt(t, i, key, hash) == [t EXCEPT !.inputs[i] = WithSignature(@, key, hash)]
InputsSigned(t, i, in) == [k \in 1..Len(t.inputs) |-> IF k = i THEN in ELSE t.inputs[k]]

\* Signing an input changes that input only.
LEMMA InputSigned ==
  ASSUME NEW t, IsBuilt(t), NEW i \in 1..Len(t.inputs), NEW key, NEW hash
  PROVE  /\ SignedAt(t, i, key, hash)
              = [inputs |-> InputsSigned(t, i, WithSignature(t.inputs[i], key, hash)),
                 outputs |-> t.outputs]
         /\ IsInput(WithSignature(t.inputs[i], key, hash))
<1> DEFINE in == WithSignature(t.inputs[i], key, hash)
           ins == t.inputs
           outs == t.outputs
           old == t.inputs[i]
<1>1. old = [pub_key |-> old.pub_key, sig_len |-> old.sig_len, signature |-> old.signature,
             prev_tx_id |-> old.prev_tx_id, prev_utxo_output |-> old.prev_utxo_output]
  BY DEF IsBuilt, IsSpend, IsInput
<1>2. in = [old EXCEPT !.signature = Signature(key, hash), !.sig_len = SIGNATURE_LEN]
  BY DEF WithSignature
<1>3. IsInput(in)
  <2> HIDE DEF old, in
  <2> QED BY <1>1, <1>2 DEF IsInput
<1>4. /\ t = [inputs |-> ins, outputs |-> outs] /\ ins = [k \in 1..Len(ins) |-> ins[k]]
      /\ DOMAIN ins = 1..Len(ins)
  BY DEF IsBuilt, IsList
<1>5. SignedAt(t, i, key, hash) = [t EXCEPT !.inputs = [ins EXCEPT ![i] = in]]
  BY DEF SignedAt
<1> HIDE DEF in
<1>6. [ins EXCEPT ![i] = in] = [k \in 1..Len(ins) |-> IF k = i THEN in ELSE ins[k]]
  <2> HIDE DEF ins
  <2> QED BY <1>4
<1> DEFINE new == [k \in 1..Len(ins) |-> IF k = i THEN in ELSE ins[k]]
<1>7. [t EXCEPT !.inputs = new] = [inputs |-> new, outputs |-> outs]
  <2> HIDE DEF new, ins, outs
  <2> QED BY <1>4
<1> QED BY <1>3, <1>5, <1>6, <1>7 DEF in, InputsSigned

\* sign_tx takes the hash, or signs one input more of what has that hash.
LEMMA HashUnderway == NullIsNoValue /\ Underway /\ HashForSigning => Underway'
<1> SUFFICES ASSUME NullIsNoValue, Underway, HashForSigning PROVE Underway'
  OBVIOUS
<1>1. /\ InTheMaking /\ signed = -1 /\ signed' = 0 /\ tx_hash' = HashTx(tx)
      /\ tx' = tx /\ input_keys' = input_keys
  BY DEF Underway, NothingInHand, HashForSigning
<1>2. BlankSigTx(tx) = tx /\ Len(tx.inputs) \in Nat
  BY <1>1 DEF InTheMaking, IsBuilt, IsList
<1>3. signed' \in 0..Len(tx'.inputs) /\ tx_hash' = HashTx(BlankSigTx(tx'))
      /\ \A k \in 1..signed' : FALSE
  BY <1>1, <1>2
<1> QED BY <1>1, <1>3 DEF Underway, InTheMaking

LEMMA SignUnderway == Underway /\ SignInput => Underway'
<1> SUFFICES ASSUME Underway, SignInput PROVE Underway'
  OBVIOUS
<1> DEFINE place == signed + 1
           n == Len(tx.inputs)
           key == input_keys[place]
           old == tx.inputs[place]
           in == WithSignature(old, key, tx_hash)
           ins == [k \in 1..n |-> IF k = place THEN in ELSE tx.inputs[k]]
<1>1. /\ signed >= 0 /\ signed < n /\ signed' = signed + 1
      /\ UNCHANGED <<input_keys, tx_hash>>
      /\ tx' = SignedAt(tx, place, key, tx_hash)
  BY DEF SignInput, SignedAt
<1>2. /\ InTheMaking /\ signed \in 0..n /\ tx_hash = HashTx(BlankSigTx(tx))
      /\ \A k \in 1..signed : tx.inputs[k].signature = Signature(tx.inputs[k].pub_key, tx_hash)
  BY <1>1 DEF Underway, NothingInHand, InTheMaking
<1>3. /\ IsBuilt(tx) /\ n \in Nat /\ n <= MAX_INPUTS /\ place \in 1..n
      /\ \A k \in 1..n : IsSpend(tx.inputs[k]) /\ input_keys[k] = tx.inputs[k].pub_key
      /\ n >= 1 /\ \A k \in 1..n : IsInput(tx.inputs[k])
  BY <1>1, <1>2 DEF InTheMaking, IsBuilt, IsList, IsSpend
<1> HIDE DEF key
<1>4. tx' = [inputs |-> InputsSigned(tx, place, in), outputs |-> tx.outputs] /\ IsInput(in)
  BY <1>1, <1>3, InputSigned
<1>5. /\ in.pub_key = old.pub_key /\ in.signature = Signature(key, tx_hash)
      /\ in.prev_tx_id = old.prev_tx_id /\ in.prev_utxo_output = old.prev_utxo_output
  <2>1. IsInput(old)
    BY <1>3
  <2> HIDE DEF old
  <2> QED BY <2>1 DEF IsInput, WithSignature
<1> HIDE DEF in, place
<1>6. /\ IsList(ins) /\ Len(ins) = n /\ (\A k \in 1..n : IsInput(ins[k]))
      /\ \A k \in 1..n : ins[k] = IF k = place THEN in ELSE tx.inputs[k]
  BY <1>3, <1>4 DEF IsList
<1>13. \A k \in 1..n : IsSpend(ins[k])
  <2>1. IsSpend(in)
    BY <1>3, <1>4, <1>5 DEF IsSpend
  <2> HIDE DEF ins
  <2> QED BY <1>3, <1>6, <2>1
<1> HIDE DEF ins
<1>7. tx' = [inputs |-> ins, outputs |-> tx.outputs]
  BY <1>4 DEF ins, InputsSigned
<1>8. IsBuilt(tx') /\ tx'.inputs = ins
  BY <1>3, <1>6, <1>7, <1>13 DEF IsBuilt
<1>9. \A k \in 1..n : ins[k].pub_key = tx.inputs[k].pub_key
  BY <1>5, <1>6
<1>10. BlankSigTx(tx') = BlankSigTx(tx)
  <2>1. \A k \in 1..n : Blank(ins[k]) = Blank(tx.inputs[k])
    BY <1>3, <1>4, <1>5, <1>6, BlankInputs
  <2>2. BlankSigTx(tx) = [inputs |-> [k \in 1..n |-> Blank(tx.inputs[k])], outputs |-> tx.outputs]
    BY <1>3, BlankInputs
  <2>3. BlankSigTx(tx') = [inputs |-> [k \in 1..n |-> Blank(ins[k])], outputs |-> tx.outputs]
    BY <1>6, <1>7, <1>8, BlankInputs
  <2> QED BY <2>1, <2>2, <2>3
<1>11. \A k \in 1..signed' : ins[k].signature = Signature(ins[k].pub_key, tx_hash)
  <2> SUFFICES ASSUME NEW k \in 1..signed'
               PROVE  ins[k].signature = Signature(ins[k].pub_key, tx_hash)
    OBVIOUS
  <2>1. k \in 1..n /\ (k = place \/ k \in 1..signed)
    BY <1>1, <1>2, <1>3 DEF place
  <2>2. CASE k = place
    BY <1>3, <1>5, <1>6, <2>1, <2>2 DEF key
  <2>3. CASE k \in 1..signed /\ k # place
    BY <1>2, <1>6, <2>1, <2>3
  <2> QED BY <2>1, <2>2, <2>3
<1>12. signed' \in 0..n
  BY <1>1, <1>2, <1>3
<1> QED BY <1>1, <1>2, <1>3, <1>6, <1>8, <1>9, <1>10, <1>11, <1>12 DEF Underway, InTheMaking

LEMMA SignValues == NullIsNoValue /\ ValuesInv /\ (HashForSigning \/ SignInput) => ValuesInv'
<1> SUFFICES ASSUME NullIsNoValue, ValuesInv, HashForSigning \/ SignInput PROVE ValuesInv'
  OBVIOUS
<1>1. UNCHANGED <<db, held, buf, puts, keys, pending>>
  BY DEF HashForSigning, SignInput
<1>2. Underway'
  BY HashUnderway, SignUnderway DEF ValuesInv
<1>3. BufferFilledExactly' /\ AllPuts(puts')
  BY <1>1 DEF ValuesInv, BufferFilledExactly
<1>4. \A to \in DOMAIN held : Entry(to, db[to], held[to])
  BY DEF ValuesInv
<1> QED BY <1>1, <1>2, <1>3, <1>4 DEF ValuesInv

\* A list of built transactions, and one more.
LEMMA PendingOneMore ==
  ASSUME IsList(pending), \A n \in 1..Len(pending) : IsBuilt(pending[n]),
         IsBuilt(tx), pending' = Append(pending, tx)
  PROVE  /\ IsList(pending') /\ Len(pending') = Len(pending) + 1
         /\ \A n \in 1..Len(pending') :
              pending'[n] = IF n = Len(pending) + 1 THEN tx ELSE pending[n]
         /\ \A n \in 1..Len(pending') : IsBuilt(pending'[n])
<1> DEFINE n == Len(pending)
           more == [k \in 1..(n + 1) |-> IF k = n + 1 THEN tx ELSE pending[k]]
<1>1. n \in Nat /\ pending = [k \in 1..n |-> pending[k]]
  BY DEF IsList
<1> HIDE DEF n
<1>2. pending' = more
  BY <1>1, AppendList
<1>3. IsList(more) /\ Len(more) = n + 1
  BY <1>1 DEF IsList
<1>4. \A k \in 1..(n + 1) : more[k] = IF k = n + 1 THEN tx ELSE pending[k]
  OBVIOUS
<1>5. \A k \in 1..(n + 1) : k # n + 1 => k \in 1..n
  BY <1>1
<1> HIDE DEF more
<1> QED BY <1>2, <1>3, <1>4, <1>5 DEF n

\* What build_tx has finished can be unlocked, every input of it.
LEMMA FinishedUnlockable ==
  ASSUME Underway, FinishTx
  PROVE  IsBuilt(tx) /\ AllUnlockable(tx)
<1>1. InTheMaking /\ signed = Len(tx.inputs)
  BY DEF Underway, NothingInHand, FinishTx
<1>2. IsBuilt(tx) /\ DOMAIN tx.inputs = 1..Len(tx.inputs) /\ Len(tx.inputs) \in Nat
  BY <1>1 DEF InTheMaking, IsBuilt, IsList
<1>3. /\ tx_hash = HashTx(BlankSigTx(tx))
      /\ \A k \in 1..signed : tx.inputs[k].signature = Signature(tx.inputs[k].pub_key, tx_hash)
  BY <1>1, <1>2 DEF InTheMaking
<1> QED BY <1>1, <1>2, <1>3 DEF AllUnlockable, CheckInputUnlockable

LEMMA FinishValues == ValuesInv /\ FinishTx => ValuesInv'
<1> SUFFICES ASSUME ValuesInv, FinishTx PROVE ValuesInv'
  OBVIOUS
<1>1. /\ UNCHANGED <<db, held, buf, keys>>
      /\ NothingInHand' /\ pending' = Append(pending, tx)
  BY DEF FinishTx, NothingInHand
<1>2. IsBuilt(tx) /\ AllUnlockable(tx)
  BY FinishedUnlockable DEF ValuesInv
<1>3. IsList(pending') /\ \A n \in 1..Len(pending') : IsBuilt(pending'[n]) /\ AllUnlockable(pending'[n])
  <2>1. /\ IsList(pending)
        /\ \A n \in 1..Len(pending) : IsBuilt(pending[n]) /\ AllUnlockable(pending[n])
    BY DEF ValuesInv
  <2>2. /\ IsList(pending') /\ Len(pending') = Len(pending) + 1
        /\ \A n \in 1..Len(pending') :
             pending'[n] = IF n = Len(pending) + 1 THEN tx ELSE pending[n]
        /\ \A n \in 1..Len(pending') : IsBuilt(pending'[n])
    BY <1>1, <1>2, <2>1, PendingOneMore
  <2>3. \A n \in 1..Len(pending') : n = Len(pending) + 1 \/ n \in 1..Len(pending)
    BY <2>1, <2>2 DEF IsList
  <2> QED BY <1>2, <2>1, <2>2, <2>3
<1>4. AllPuts(puts')
  <2>1. PutFits(PutKey(keys))
    BY DEF PutFits, Fits, Databases, PutKey, KeyPair, IsPair
  <2>2. puts' = <<PutKey(keys)>> \/ puts' = <<>>
    BY DEF FinishTx
  <2> QED BY <2>1, <2>2, FewPuts
<1>5. BufferFilledExactly'
  BY <1>1 DEF ValuesInv, BufferFilledExactly
<1>6. \A to \in DOMAIN held : Entry(to, db[to], held[to])
  BY DEF ValuesInv
<1>7. keys' \in 0..MAX_KEYS /\ Underway'
  BY <1>1 DEF ValuesInv, Underway
<1> QED BY <1>1, <1>3, <1>4, <1>5, <1>6, <1>7 DEF ValuesInv

LEMMA ValuesStay == NullIsNoValue /\ ValuesInv /\ [Next]_vars => ValuesInv'
<1> SUFFICES ASSUME NullIsNoValue, ValuesInv, [Next]_vars PROVE ValuesInv'
  OBVIOUS
<1>1. CASE Next
  BY <1>1, PutValues, MineValues, BuildValues, SignValues, FinishValues DEF Next
<1>2. CASE UNCHANGED vars
  <2>1. Underway'
    BY <1>2, UnderwayStays DEF vars, ValuesInv
  <2> QED BY <1>2, <2>1 DEF vars, ValuesInv, BufferFilledExactly
<1> QED BY <1>1, <1>2

\* Whatever the node does, every value in a database is what was put there, as
\* bytes, and what it has signed can be unlocked.
THEOREM ValuesInvariant == NullIsNoValue => (Spec => []ValuesInv)
<1> SUFFICES ASSUME NullIsNoValue PROVE Spec => []ValuesInv
  OBVIOUS
<1>1. Init => ValuesInv
  BY InitValues
<1>2. ValuesInv /\ [Next]_vars => ValuesInv'
  BY ValuesStay
<1> QED BY <1>1, <1>2, PTL DEF Spec

\* The size every serialiser allocates is what it writes, byte for byte, for
\* every length of its fields and every number of inputs, outputs, transactions.
THEOREM BuffersFilledExactly == NullIsNoValue => (Spec => []BufferFilledExactly)
<1>1. ValuesInv => BufferFilledExactly
  BY DEF ValuesInv
<1> QED BY <1>1, ValuesInvariant, PTL

\* What a database gives back is what was put there, and the reader stops where
\* the writer did.
THEOREM DatabasesReadBack == NullIsNoValue => (Spec => []ReadsBack)
<1>1. ValuesInv => ReadsBack
  BY EntryReads DEF ValuesInv, ReadsBack
<1> QED BY <1>1, ValuesInvariant, PTL

\* What sign_tx signs is what check_input_unlockable verifies, for any number of
\* inputs, when the transaction waits and when its block is read back.
THEOREM SignedIsUnlockable == NullIsNoValue => (Spec => []SignaturesVerify)
<1>1. ASSUME ValuesInv PROVE SignaturesVerify
  <2>1. ASSUME NEW n \in DOMAIN pending
        PROVE  AllUnlockable(pending[n])
    BY <1>1 DEF ValuesInv, IsList
  <2>2. ASSUME NEW to \in DOMAIN db, to[1] = "blocks", NEW i \in DOMAIN Find(to).value.txs
        PROVE  AllUnlockable(Find(to).value.txs[i])
    <3> DEFINE block == held[to]
               txs == [k \in DOMAIN block.txs |-> CopyTx(block.txs[k])]
    <3>1. Entry(to, db[to], block)
      BY <1>1 DEF ValuesInv
    <3>2. IsBlock(block) /\ BlockUnlockable(block)
      BY <2>2, <3>1 DEF Entry, Fits
    <3>3. Find(to).value = AsRead(to, block)
      BY <3>1, EntryReads
    <3> HIDE DEF block
    <3>4. AsRead(to, block).txs = txs
      BY <2>2, <3>2 DEF AsRead, IsBlock
    <3>5. DOMAIN block.txs = 1..Len(block.txs)
      BY <3>2 DEF IsBlock, IsList
    <3>6. i \in 1..Len(block.txs) /\ Find(to).value.txs[i] = CopyTx(block.txs[i])
      BY <2>2, <3>3, <3>4, <3>5
    <3> QED BY <3>2, <3>6 DEF BlockUnlockable
  <2> QED BY <2>1, <2>2 DEF SignaturesVerify
<1> QED BY <1>1, ValuesInvariant, PTL

\* A database has an entry for every value meant to be in it and no other, none is
\* empty, and the parts of a transaction under construction agree.
THEOREM StorageTypes == NullIsNoValue => (Spec => []TypeOK)
<1> SUFFICES ASSUME NullIsNoValue PROVE Spec => []TypeOK
  OBVIOUS
<1>1. ASSUME ValuesInv PROVE TypeOK
  <2>1. DOMAIN db = DOMAIN held /\ keys \in 0..MAX_KEYS
    BY <1>1 DEF ValuesInv
  <2>2. ASSUME NEW to \in DOMAIN db
        PROVE  to[1] \in {"blocks", "utxos", "wallet", "keys"} /\ Len(db[to]) > 0
    <3>1. Entry(to, db[to], held[to])
      BY <1>1 DEF ValuesInv
    <3> QED BY <3>1, EntryReads DEF Entry, Fits, Databases
  <2>3. /\ signed \in -1..MAX_INPUTS
        /\ tx = NULL => signed = -1 /\ input_keys = <<>>
        /\ tx_hash = NULL <=> signed = -1
    <3>1. CASE NothingInHand
      BY <3>1, BoundsAssumption DEF NothingInHand
    <3>2. CASE InTheMaking
      <4>1. tx # NULL
        BY <3>2 DEF InTheMaking, IsBuilt, NullIsNoValue
      <4>2. \A t : HashTx(t) # NULL
        BY DEF HashTx, Sha256, NullIsNoValue
      <4>3. Len(tx.inputs) \in Nat /\ Len(tx.inputs) <= MAX_INPUTS
        BY <3>2 DEF InTheMaking, IsBuilt, IsList
      <4> QED BY <3>2, <4>1, <4>2, <4>3, BoundsAssumption DEF InTheMaking
    <3> QED BY <1>1, <3>1, <3>2 DEF ValuesInv, Underway
  <2> QED BY <2>1, <2>2, <2>3 DEF TypeOK
<1> QED BY <1>1, ValuesInvariant, PTL
-----------------------------------------------------------------------------
(* Nothing that is signed can be changed.                                  *)

\* A transaction without its signatures is one that can be hashed, ...
LEMMA BlankIsTx ==
  ASSUME NullIsNoValue, NEW t, IsList(t.inputs), \A k \in 1..Len(t.inputs) : IsInput(t.inputs[k]),
         IsList(t.outputs), \A k \in 1..Len(t.outputs) : IsOutput(t.outputs[k])
  PROVE  /\ IsTx(BlankSigTx(t)) /\ BlankSigTx(t).outputs = t.outputs
         /\ Inputs(BlankSigTx(t)) = [k \in 1..Len(t.inputs) |-> Blank(t.inputs[k])]
<1> DEFINE ins == t.inputs
           outs == t.outputs
           blank == [k \in 1..Len(ins) |-> Blank(ins[k])]
<1>1. DOMAIN ins = 1..Len(ins) /\ Len(ins) \in Nat
  BY DEF IsList
<1>2. BlankSigTx(t) = [inputs |-> blank, outputs |-> outs]
  BY <1>1 DEF BlankSigTx, Blank
<1>3. IsList(blank) /\ Len(blank) = Len(ins)
  BY <1>1 DEF IsList
<1>4. \A k \in 1..Len(ins) : IsInput(Blank(ins[k]))
  <2> SUFFICES ASSUME NEW k \in 1..Len(ins) PROVE IsInput(Blank(ins[k]))
    OBVIOUS
  <2>1. IsInput(ins[k])
    OBVIOUS
  <2> QED BY <2>1, BlankInputs DEF IsInput
<1>5. \A k \in 1..Len(blank) : IsInput(blank[k])
  BY <1>3, <1>4
<1> HIDE DEF blank, ins, outs
<1>6. BlankSigTx(t).inputs = blank /\ BlankSigTx(t).outputs = outs
  BY <1>2
<1>7. blank # NULL
  BY <1>3 DEF NullIsNoValue
<1>8. Inputs(BlankSigTx(t)) = blank
  BY <1>6, <1>7 DEF Inputs
<1> QED BY <1>3, <1>5, <1>6, <1>8 DEF IsTx, ins, outs, blank

\* ... and with that hash come the same outputs and, but for signatures, the same
\* inputs: a signature holds for nothing else.
LEMMA BlankHashTells ==
  ASSUME NullIsNoValue,
         NEW t, IsList(t.inputs), \A k \in 1..Len(t.inputs) : IsInput(t.inputs[k]),
         IsList(t.outputs), \A k \in 1..Len(t.outputs) : IsOutput(t.outputs[k]),
         NEW u, IsList(u.inputs), \A k \in 1..Len(u.inputs) : IsInput(u.inputs[k]),
         IsList(u.outputs), \A k \in 1..Len(u.outputs) : IsOutput(u.outputs[k]),
         HashTx(BlankSigTx(t)) = HashTx(BlankSigTx(u))
  PROVE  /\ t.outputs = u.outputs /\ Len(t.inputs) = Len(u.inputs)
         /\ \A k \in 1..Len(t.inputs) : Blank(t.inputs[k]) = Blank(u.inputs[k])
<1>1. /\ IsTx(BlankSigTx(t)) /\ BlankSigTx(t).outputs = t.outputs
      /\ Inputs(BlankSigTx(t)) = [k \in 1..Len(t.inputs) |-> Blank(t.inputs[k])]
  BY BlankIsTx
<1>2. /\ IsTx(BlankSigTx(u)) /\ BlankSigTx(u).outputs = u.outputs
      /\ Inputs(BlankSigTx(u)) = [k \in 1..Len(u.inputs) |-> Blank(u.inputs[k])]
  BY BlankIsTx
<1>3. Inputs(BlankSigTx(t)) = Inputs(BlankSigTx(u)) /\ BlankSigTx(t).outputs = BlankSigTx(u).outputs
  BY <1>1, <1>2, TxHashTells
<1> DEFINE f == [k \in 1..Len(t.inputs) |-> Blank(t.inputs[k])]
           g == [k \in 1..Len(u.inputs) |-> Blank(u.inputs[k])]
<1>4. f = g
  BY Zenon, <1>1, <1>2, <1>3
<1>5. /\ Len(f) = Len(t.inputs) /\ Len(g) = Len(u.inputs)
      /\ \A k \in 1..Len(t.inputs) : f[k] = Blank(t.inputs[k])
      /\ \A k \in 1..Len(u.inputs) : g[k] = Blank(u.inputs[k])
  BY DEF IsList
<1> HIDE DEF f, g
<1> QED BY <1>1, <1>2, <1>3, <1>4, <1>5

\* t is u with something changed that is signed: it has the signatures of u.
Varies(t, u) ==
  /\ IsList(t.inputs) /\ \A k \in 1..Len(t.inputs) : IsInput(t.inputs[k])
  /\ IsList(t.outputs) /\ \A k \in 1..Len(t.outputs) : IsOutput(t.outputs[k])
  /\ \A k \in 1..Len(t.inputs) : \E i \in 1..Len(u.inputs) : t.inputs[k].signature = u.inputs[i].signature
  /\ \/ t.outputs # u.outputs \/ Len(t.inputs) # Len(u.inputs)
     \/ \E k \in 1..Len(t.inputs) : Blank(t.inputs[k]) # Blank(u.inputs[k])

LEMMA VariantRefused ==
  ASSUME NullIsNoValue, NEW u, IsBuilt(u), AllUnlockable(u), NEW t, Varies(t, u),
         NEW k \in DOMAIN t.inputs
  PROVE  CheckInputUnlockable(t.inputs[k], HashTx(BlankSigTx(t))) # 0
<1> DEFINE ht == HashTx(BlankSigTx(t))
           hu == HashTx(BlankSigTx(u))
<1>1. /\ IsList(u.inputs) /\ (\A i \in 1..Len(u.inputs) : IsInput(u.inputs[i]))
      /\ IsList(u.outputs) /\ (\A i \in 1..Len(u.outputs) : IsOutput(u.outputs[i]))
  BY DEF IsBuilt, IsSpend, AllPay, IsPayment
<1>2. ht # hu
  BY <1>1, BlankHashTells DEF Varies
<1>3. k \in 1..Len(t.inputs) /\ DOMAIN u.inputs = 1..Len(u.inputs)
  BY <1>1 DEF Varies, IsList
<1>4. PICK i \in 1..Len(u.inputs) : t.inputs[k].signature = u.inputs[i].signature
  BY <1>3 DEF Varies
<1>5. u.inputs[i].signature = Signature(u.inputs[i].pub_key, hu)
  BY <1>3 DEF AllUnlockable, CheckInputUnlockable
<1> HIDE DEF ht, hu
<1>6. \A a, b : Signature(a, hu) # Signature(b, ht)
  BY <1>2 DEF Signature
<1>7. t.inputs[k].signature # Signature(t.inputs[k].pub_key, ht)
  BY <1>4, <1>5, <1>6
<1> QED BY <1>7 DEF CheckInputUnlockable, ht

\* Another output in the place of one, ...
LEMMA OutputVaries ==
  ASSUME NEW u, IsBuilt(u), NEW n \in 1..Len(u.outputs), NEW o, IsOutput(o), o # u.outputs[n],
         NEW t, t.inputs = u.inputs,
         t.outputs = [k \in 1..Len(u.outputs) |-> IF k = n THEN o ELSE u.outputs[k]]
  PROVE  Varies(t, u)
<1> DEFINE outs == [k \in 1..Len(u.outputs) |-> IF k = n THEN o ELSE u.outputs[k]]
<1>1. /\ IsList(u.inputs) /\ (\A i \in 1..Len(u.inputs) : IsInput(u.inputs[i]))
      /\ IsList(u.outputs) /\ (\A i \in 1..Len(u.outputs) : IsOutput(u.outputs[i]))
  BY DEF IsBuilt, IsSpend, AllPay, IsPayment
<1>2. IsList(outs) /\ Len(outs) = Len(u.outputs)
  BY <1>1 DEF IsList
<1>3. outs[n] = o /\ \A k \in 1..Len(u.outputs) : IsOutput(outs[k])
  BY <1>1
<1> HIDE DEF outs
<1>4. t.outputs = outs
  BY DEF outs
<1> QED BY <1>1, <1>2, <1>3, <1>4 DEF Varies

\* ... another input, with the same signature, ...
LEMMA InputVaries ==
  ASSUME NEW u, IsBuilt(u), NEW n \in 1..Len(u.inputs), NEW in, IsInput(in),
         in.signature = u.inputs[n].signature, Blank(in) # Blank(u.inputs[n]),
         NEW t, t.outputs = u.outputs,
         t.inputs = [k \in 1..Len(u.inputs) |-> IF k = n THEN in ELSE u.inputs[k]]
  PROVE  Varies(t, u)
<1> DEFINE ins == [k \in 1..Len(u.inputs) |-> IF k = n THEN in ELSE u.inputs[k]]
<1>1. /\ IsList(u.inputs) /\ (\A i \in 1..Len(u.inputs) : IsInput(u.inputs[i]))
      /\ IsList(u.outputs) /\ (\A i \in 1..Len(u.outputs) : IsOutput(u.outputs[i]))
  BY DEF IsBuilt, IsSpend, AllPay, IsPayment
<1>2. IsList(ins) /\ Len(ins) = Len(u.inputs)
  BY <1>1 DEF IsList
<1>3. /\ ins[n] = in /\ \A k \in 1..Len(u.inputs) : IsInput(ins[k])
      /\ \A k \in 1..Len(u.inputs) : ins[k].signature = u.inputs[k].signature
  BY <1>1
<1> HIDE DEF ins
<1>4. t.inputs = ins
  BY DEF ins
<1> QED BY <1>1, <1>2, <1>3, <1>4 DEF Varies

\* ... or one more or one less of either.
LEMMA CountVaries ==
  ASSUME NEW u, IsBuilt(u), NEW t
  PROVE  /\ \A o : IsOutput(o) /\ t.inputs = u.inputs /\ t.outputs = Append(u.outputs, o) => Varies(t, u)
         /\ t.inputs = Append(u.inputs, u.inputs[1]) /\ t.outputs = u.outputs => Varies(t, u)
         /\ t.inputs = u.inputs /\ t.outputs = Tail(u.outputs) => Varies(t, u)
         /\ t.inputs = SubSeq(u.inputs, 2, Len(u.inputs)) /\ t.outputs = u.outputs => Varies(t, u)
<1> DEFINE ins == u.inputs
           outs == u.outputs
           I == {ins[k] : k \in 1..Len(ins)}
           O == {outs[k] : k \in 1..Len(outs)}
<1>1. /\ IsList(ins) /\ (\A i \in 1..Len(ins) : IsInput(ins[i])) /\ Len(ins) >= 1
      /\ IsList(outs) /\ (\A i \in 1..Len(outs) : IsOutput(outs[i])) /\ Len(outs) >= 1
  BY DEF IsBuilt, IsSpend, AllPay, IsPayment
<1>2. ins \in Seq(I) /\ outs \in Seq(O) /\ Len(ins) \in Nat /\ Len(outs) \in Nat
  BY <1>1, ListIsSeq DEF IsList
<1>3. /\ \A x \in I : IsInput(x) /\ \E i \in 1..Len(ins) : x.signature = ins[i].signature
      /\ \A x \in O : IsOutput(x)
  BY <1>1
<1>4. ins[1] \in I
  BY <1>1, <1>2
<1> HIDE DEF I, O, ins, outs
<1>5. ASSUME NEW more, more \in Seq(I), Len(more) # Len(ins), t.inputs = more, t.outputs = outs
      PROVE  Varies(t, u)
  <2>1. IsList(more) /\ \A k \in 1..Len(more) : more[k] \in I
    BY <1>5, ListIsSeq
  <2> QED BY <1>1, <1>3, <1>5, <2>1 DEF Varies, ins, outs
<1>6. ASSUME NEW S, O \subseteq S, \A x \in S : IsOutput(x), NEW more, more \in Seq(S), Len(more) # Len(outs),
             t.inputs = ins, t.outputs = more
      PROVE  Varies(t, u)
  <2>1. IsList(more) /\ \A k \in 1..Len(more) : more[k] \in S
    BY <1>6, ListIsSeq
  <2> QED BY <1>1, <1>6, <2>1 DEF Varies, ins, outs
<1>7. ASSUME NEW o, IsOutput(o), t.inputs = ins, t.outputs = Append(outs, o)
      PROVE  Varies(t, u)
  <2> DEFINE S == O \cup {o}
  <2>1. Append(outs, o) \in Seq(S) /\ Len(Append(outs, o)) # Len(outs)
    <3>1. outs \in Seq(S)
      BY <1>2
    <3> QED BY <1>2, <3>1
  <2>2. O \subseteq S /\ \A x \in S : IsOutput(x)
    BY <1>3, <1>7
  <2> HIDE DEF S
  <2> QED BY <1>6, <1>7, <2>1, <2>2
<1>8. ASSUME t.inputs = Append(ins, ins[1]), t.outputs = outs
      PROVE  Varies(t, u)
  <2>1. Append(ins, ins[1]) \in Seq(I) /\ Len(Append(ins, ins[1])) # Len(ins)
    BY <1>2, <1>4
  <2> QED BY <1>5, <1>8, <2>1
<1>9. ASSUME t.inputs = ins, t.outputs = Tail(outs)
      PROVE  Varies(t, u)
  <2>1. outs # <<>>
    BY <1>1
  <2>2. Tail(outs) \in Seq(O) /\ Len(Tail(outs)) # Len(outs)
    BY <1>2, <2>1
  <2> QED BY <1>3, <1>6, <1>9, <2>2
<1>10. ASSUME t.inputs = SubSeq(ins, 2, Len(ins)), t.outputs = outs
       PROVE  Varies(t, u)
  <2>1. SubSeq(ins, 2, Len(ins)) \in Seq(I) /\ Len(SubSeq(ins, 2, Len(ins))) # Len(ins)
    BY <1>1, <1>2, SubSeqProperties
  <2> QED BY <1>5, <1>10, <2>1
<1> QED BY <1>7, <1>8, <1>9, <1>10 DEF ins, outs

\* The variants, one by one.
MoreFor(u, n)  == [u EXCEPT !.outputs[n].amt = @ + 1]
ForNobody(u, n) == [u EXCEPT !.outputs[n].public_key_hash = Zeros]
OtherVout(u, k) == [u EXCEPT !.inputs[k].prev_utxo_output = 1 - @]
OtherId(u, k)  == [u EXCEPT !.inputs[k].prev_tx_id = Zeros]

LEMMA MoreForVaries ==
  ASSUME NEW u, IsBuilt(u), NEW n \in 1..Len(u.outputs)
  PROVE  Varies(MoreFor(u, n), u) /\ Varies(ForNobody(u, n), u)
<1> DEFINE ins == u.inputs
           outs == u.outputs
           len == Len(outs)
           amt == outs[n].amt
           hash == outs[n].public_key_hash
           more == [amt |-> amt + 1, public_key_hash |-> hash]
           lost == [amt |-> amt, public_key_hash |-> Zeros]
           moreOuts == [k \in 1..len |-> IF k = n THEN more ELSE outs[k]]
           lostOuts == [k \in 1..len |-> IF k = n THEN lost ELSE outs[k]]
<1>1. /\ u = [inputs |-> ins, outputs |-> outs]
      /\ outs = [k \in 1..len |-> outs[k]]
      /\ n \in 1..len
      /\ outs[n] = [amt |-> amt, public_key_hash |-> hash]
      /\ amt \in Int /\ hash # Zeros
  BY DEF IsBuilt, IsList, AllPay, IsPayment, IsOutput
<1>2. /\ MoreFor(u, n) = [u EXCEPT !.outputs = [outs EXCEPT ![n] = [outs[n] EXCEPT !.amt = amt + 1]]]
      /\ ForNobody(u, n) =
           [u EXCEPT !.outputs = [outs EXCEPT ![n] = [outs[n] EXCEPT !.public_key_hash = Zeros]]]
  BY DEF MoreFor, ForNobody
<1>3. IsOutput(more) /\ IsOutput(lost)
  BY DEF IsOutput
<1> HIDE DEF ins, outs, len, amt, hash
<1>4. more # outs[n] /\ lost # outs[n]
  BY <1>1
<1>5. [outs[n] EXCEPT !.amt = amt + 1] = more /\ [outs[n] EXCEPT !.public_key_hash = Zeros] = lost
  BY <1>1
<1> HIDE DEF more, lost
<1>6. [outs EXCEPT ![n] = more] = moreOuts /\ [outs EXCEPT ![n] = lost] = lostOuts
  BY <1>1
<1> HIDE DEF moreOuts, lostOuts
<1>7. /\ [u EXCEPT !.outputs = moreOuts] = [inputs |-> ins, outputs |-> moreOuts]
      /\ [u EXCEPT !.outputs = lostOuts] = [inputs |-> ins, outputs |-> lostOuts]
  BY <1>1
<1>8. /\ MoreFor(u, n) = [inputs |-> ins, outputs |-> moreOuts]
      /\ ForNobody(u, n) = [inputs |-> ins, outputs |-> lostOuts]
  BY <1>2, <1>5, <1>6, <1>7
<1>9. /\ MoreFor(u, n).inputs = ins /\ MoreFor(u, n).outputs = moreOuts
      /\ ForNobody(u, n).inputs = ins /\ ForNobody(u, n).outputs = lostOuts
  BY <1>8
<1> QED BY <1>3, <1>4, <1>9, OutputVaries DEF moreOuts, lostOuts, ins, outs, len

LEMMA OtherInputVaries ==
  ASSUME NEW u, IsBuilt(u), NEW k \in 1..Len(u.inputs)
  PROVE  Varies(OtherVout(u, k), u) /\ Varies(OtherId(u, k), u)
<1> DEFINE ins == u.inputs
           outs == u.outputs
           len == Len(ins)
           in == ins[k]
           vout == in.prev_utxo_output
           moved == [in EXCEPT !.prev_utxo_output = 1 - vout]
           lost == [in EXCEPT !.prev_tx_id = Zeros]
           movedIns == [i \in 1..len |-> IF i = k THEN moved ELSE ins[i]]
           lostIns == [i \in 1..len |-> IF i = k THEN lost ELSE ins[i]]
<1>1. /\ u = [inputs |-> ins, outputs |-> outs]
      /\ ins = [i \in 1..len |-> ins[i]]
      /\ k \in 1..len
      /\ IsInput(in) /\ in.prev_tx_id # Zeros /\ vout \in Int
  BY DEF IsBuilt, IsList, IsSpend
<1>2. /\ OtherVout(u, k) = [u EXCEPT !.inputs = [ins EXCEPT ![k] = [in EXCEPT !.prev_utxo_output = 1 - vout]]]
      /\ OtherId(u, k) = [u EXCEPT !.inputs = [ins EXCEPT ![k] = [in EXCEPT !.prev_tx_id = Zeros]]]
  BY DEF OtherVout, OtherId
<1>3. /\ IsInput(moved) /\ moved.signature = in.signature /\ moved.prev_utxo_output = 1 - vout
      /\ IsInput(lost) /\ lost.signature = in.signature /\ lost.prev_tx_id = Zeros
  <2> HIDE DEF in, vout
  <2> QED BY <1>1 DEF IsInput
<1> HIDE DEF in, vout, moved, lost
<1>4. Blank(moved) # Blank(in) /\ Blank(lost) # Blank(in)
  <2>1. /\ Blank(moved).prev_utxo_output = moved.prev_utxo_output
        /\ Blank(lost).prev_tx_id = lost.prev_tx_id
        /\ Blank(in).prev_utxo_output = in.prev_utxo_output /\ Blank(in).prev_tx_id = in.prev_tx_id
    BY <1>1, <1>3, BlankInputs
  <2>2. 1 - vout # vout
    BY <1>1
  <2> QED BY <1>1, <1>3, <2>1, <2>2 DEF vout
<1>5. in = ins[k]
  BY DEF in
<1> HIDE DEF ins, outs, len
<1>6. [ins EXCEPT ![k] = moved] = movedIns /\ [ins EXCEPT ![k] = lost] = lostIns
  BY <1>1
<1> HIDE DEF movedIns, lostIns
<1>7. /\ [u EXCEPT !.inputs = movedIns] = [inputs |-> movedIns, outputs |-> outs]
      /\ [u EXCEPT !.inputs = lostIns] = [inputs |-> lostIns, outputs |-> outs]
  BY <1>1
<1>8. /\ OtherVout(u, k) = [inputs |-> movedIns, outputs |-> outs]
      /\ OtherId(u, k) = [inputs |-> lostIns, outputs |-> outs]
  BY <1>2, <1>6, <1>7 DEF moved, lost
<1>9. /\ OtherVout(u, k).inputs = movedIns /\ OtherVout(u, k).outputs = outs
      /\ OtherId(u, k).inputs = lostIns /\ OtherId(u, k).outputs = outs
  BY <1>8
<1>10. /\ moved.signature = u.inputs[k].signature /\ Blank(moved) # Blank(u.inputs[k])
       /\ lost.signature = u.inputs[k].signature /\ Blank(lost) # Blank(u.inputs[k])
  BY <1>3, <1>4, <1>5 DEF ins
<1>11. /\ OtherVout(u, k).inputs = [i \in 1..Len(u.inputs) |-> IF i = k THEN moved ELSE u.inputs[i]]
       /\ OtherId(u, k).inputs = [i \in 1..Len(u.inputs) |-> IF i = k THEN lost ELSE u.inputs[i]]
       /\ OtherVout(u, k).outputs = u.outputs /\ OtherId(u, k).outputs = u.outputs
  BY Zenon, <1>9 DEF movedIns, lostIns, ins, outs, len
<1> DEFINE tv == OtherVout(u, k)
           ti == OtherId(u, k)
<1>12. /\ tv.inputs = [i \in 1..Len(u.inputs) |-> IF i = k THEN moved ELSE u.inputs[i]]
       /\ ti.inputs = [i \in 1..Len(u.inputs) |-> IF i = k THEN lost ELSE u.inputs[i]]
       /\ tv.outputs = u.outputs /\ ti.outputs = u.outputs
  BY Zenon, <1>11
<1> HIDE DEF tv, ti
<1>13. \A other, t :
         /\ IsInput(other) /\ other.signature = u.inputs[k].signature
         /\ Blank(other) # Blank(u.inputs[k])
         /\ t.outputs = u.outputs
         /\ t.inputs = [i \in 1..Len(u.inputs) |-> IF i = k THEN other ELSE u.inputs[i]]
         => Varies(t, u)
  BY InputVaries
<1>14. Varies(tv, u)
  BY Zenon, <1>3, <1>10, <1>12, <1>13
<1>15. Varies(ti, u)
  BY Zenon, <1>3, <1>10, <1>12, <1>13
<1> QED BY <1>14, <1>15 DEF tv, ti

LEMMA VariantsVary ==
  ASSUME NEW u, IsBuilt(u), NEW t \in Variants(u)
  PROVE  Varies(t, u)
<1>1. u = [inputs |-> u.inputs, outputs |-> u.outputs]
  BY DEF IsBuilt
<1>2. DOMAIN u.inputs = 1..Len(u.inputs) /\ DOMAIN u.outputs = 1..Len(u.outputs)
  BY DEF IsBuilt, IsList
<1>3. IsOutput(Output(0, FOREIGN_KEY))
  BY DEF IsOutput, Output
<1> DEFINE another == Output(0, FOREIGN_KEY)
<1>4. \/ \E n \in DOMAIN u.outputs : t = MoreFor(u, n)
      \/ \E n \in DOMAIN u.outputs : t = ForNobody(u, n)
      \/ \E k \in DOMAIN u.inputs : t = OtherVout(u, k)
      \/ \E k \in DOMAIN u.inputs : t = OtherId(u, k)
      \/ t = [u EXCEPT !.outputs = Append(u.outputs, another)]
      \/ t = [u EXCEPT !.inputs = Append(u.inputs, u.inputs[1])]
      \/ t = [u EXCEPT !.outputs = Tail(u.outputs)]
      \/ t = [u EXCEPT !.inputs = SubSeq(u.inputs, 2, Len(u.inputs))]
  BY DEF Variants, MoreFor, ForNobody, OtherVout, OtherId
<1> HIDE DEF another
<1>5. ASSUME NEW others, t = [u EXCEPT !.outputs = others]
      PROVE  t.inputs = u.inputs /\ t.outputs = others
  BY <1>1, <1>5
<1>6. ASSUME NEW others, t = [u EXCEPT !.inputs = others]
      PROVE  t.inputs = others /\ t.outputs = u.outputs
  BY <1>1, <1>6
<1>7. CASE \E n \in DOMAIN u.outputs : t = MoreFor(u, n) \/ t = ForNobody(u, n)
  BY <1>2, <1>7, MoreForVaries
<1>8. CASE \E k \in DOMAIN u.inputs : t = OtherVout(u, k) \/ t = OtherId(u, k)
  BY <1>2, <1>8, OtherInputVaries
<1>9. CASE t = [u EXCEPT !.outputs = Append(u.outputs, another)]
  <2>1. t.inputs = u.inputs /\ t.outputs = Append(u.outputs, another)
    BY <1>5, <1>9
  <2> QED BY <1>3, <2>1, CountVaries DEF another
<1>10. CASE t = [u EXCEPT !.inputs = Append(u.inputs, u.inputs[1])]
  <2>1. t.inputs = Append(u.inputs, u.inputs[1]) /\ t.outputs = u.outputs
    BY <1>6, <1>10
  <2> QED BY <2>1, CountVaries
<1>11. CASE t = [u EXCEPT !.outputs = Tail(u.outputs)]
  <2>1. t.inputs = u.inputs /\ t.outputs = Tail(u.outputs)
    BY <1>5, <1>11
  <2> QED BY <2>1, CountVaries
<1>12. CASE t = [u EXCEPT !.inputs = SubSeq(u.inputs, 2, Len(u.inputs))]
  <2>1. t.inputs = SubSeq(u.inputs, 2, Len(u.inputs)) /\ t.outputs = u.outputs
    BY <1>6, <1>12
  <2> QED BY <2>1, CountVaries
<1> QED BY <1>4, <1>7, <1>8, <1>9, <1>10, <1>11, <1>12

\* No signature of a pending transaction holds for a variant of it that
\* somebody could make on the way: another amount, receiver or spent output,
\* one output or input more or less (VariantsRefused).
THEOREM ChangesAreRefused == NullIsNoValue => (Spec => []VariantsRefused)
<1>1. ASSUME NullIsNoValue, ValuesInv PROVE VariantsRefused
  <2>1. DOMAIN pending = 1..Len(pending)
    BY <1>1 DEF ValuesInv, IsList
  <2>2. ASSUME NEW n \in DOMAIN pending, NEW t \in Variants(pending[n]), NEW k \in DOMAIN t.inputs
        PROVE  CheckInputUnlockable(t.inputs[k], HashTx(BlankSigTx(t))) # 0
    <3>1. IsBuilt(pending[n]) /\ AllUnlockable(pending[n])
      BY <1>1, <2>1 DEF ValuesInv
    <3>2. Varies(t, pending[n])
      BY <3>1, VariantsVary
    <3> QED BY <1>1, <3>1, <3>2, VariantRefused
  <2> QED BY <2>2 DEF VariantsRefused
<1>2. CASE NullIsNoValue
  BY <1>1, <1>2, ValuesInvariant, PTL
<1> QED BY <1>2

-----------------------------------------------------------------------------
(* A name tells what it names.                                             *)

\* hash_pub_key: different keys, different hashes.
LEMMA KeyHashTells ==
  ASSUME NEW j, NEW k, HashPubKey(j) = HashPubKey(k)
  PROVE  j = k
<1> DEFINE c(key) == SerPubKey(NewBuffer, key)
<1>1. IsBuffer(NewBuffer) /\ NewBuffer.at = 0
  BY NewIsBuffer
<1>2. ASSUME NEW key
      PROVE  /\ IsBuffer(c(key)) /\ HashPubKey(key) = Sha256(AllBytes(c(key)))
             /\ \A mem : Shows(mem, c(key), 0) => DeserPubKey([mem |-> mem, at |-> 0]).value = key
  <2>1. /\ PUB_KEY_SER_LEN \in Nat /\ Appends(NewBuffer, c(key), PUB_KEY_SER_LEN)
        /\ \A mem : Shows(mem, c(key), NewBuffer.at) =>
             DeserPubKey([mem |-> mem, at |-> NewBuffer.at])
               = [value |-> key, at |-> NewBuffer.at + PUB_KEY_SER_LEN]
    BY <1>1, PubKeyKept, LengthsPositive
  <2>2. HashPubKey(key) = Sha256(BytesAt(c(key).mem, 0, PUB_KEY_SER_LEN))
    BY Zenon DEF HashPubKey
  <2> HIDE DEF c
  <2>3. IsBuffer(c(key)) /\ c(key).at = PUB_KEY_SER_LEN
    BY <1>1, <2>1 DEF Appends
  <2>4. \A mem : Shows(mem, c(key), 0) => DeserPubKey([mem |-> mem, at |-> 0]).value = key
    BY <1>1, <2>1
  <2> QED BY <2>2, <2>3, <2>4 DEF AllBytes
<1> HIDE DEF c
<1>3. c(j).at = c(k).at /\ \A a \in 0..(c(j).at - 1) : c(j).mem[a] = c(k).mem[a]
  <2>1. Sha256(AllBytes(c(j))) = Sha256(AllBytes(c(k)))
    BY Zenon, <1>2
  <2>2. IsBuffer(c(j)) /\ IsBuffer(c(k))
    BY Zenon, <1>2
  <2> QED BY <2>1, <2>2, HashTells
<1>4. Shows(c(j).mem, c(j), 0) /\ Shows(c(j).mem, c(k), 0)
  BY <1>2, <1>3 DEF Shows, IsBuffer
<1>5. DeserPubKey([mem |-> c(j).mem, at |-> 0]).value = j
  BY Zenon, <1>2, <1>4
<1>6. DeserPubKey([mem |-> c(j).mem, at |-> 0]).value = k
  BY Zenon, <1>2, <1>4
<1> QED BY Zenon, <1>5, <1>6

\* hash_blockheader: different headers, different hashes.
LEMMA HeaderHashTells ==
  ASSUME NEW j, IsHeader(j), NEW k, IsHeader(k), HashBlockheader(j) = HashBlockheader(k)
  PROVE  j = k
<1> DEFINE c(header) == SerBlockheader(NewBuffer, header)
<1>1. IsBuffer(NewBuffer) /\ NewBuffer.at = 0
  BY NewIsBuffer
<1>2. ASSUME NEW header, IsHeader(header)
      PROVE  /\ IsBuffer(c(header)) /\ HashBlockheader(header) = Sha256(AllBytes(c(header)))
             /\ \A mem : Shows(mem, c(header), 0) =>
                  DeserBlockheader([mem |-> mem, at |-> 0]).value = header
  <2>1. /\ Appends(NewBuffer, c(header), SizeSerBlockheader)
        /\ \A mem : Shows(mem, c(header), NewBuffer.at) =>
             DeserBlockheader([mem |-> mem, at |-> NewBuffer.at])
               = [value |-> header, at |-> NewBuffer.at + SizeSerBlockheader]
    BY <1>1, <1>2, BlockheaderKept
  <2>2. HashBlockheader(header) = Sha256(BytesAt(c(header).mem, 0, c(header).at))
    <3>1. HashBlockheader(header)
            = Sha256(BytesAt(Allocated(SizeSerBlockheader, c(header)).mem, 0,
                             Allocated(SizeSerBlockheader, c(header)).written))
      BY Zenon DEF HashBlockheader
    <3> HIDE DEF c
    <3>2. /\ Allocated(SizeSerBlockheader, c(header)).mem = c(header).mem
          /\ Allocated(SizeSerBlockheader, c(header)).written = c(header).at
      BY DEF Allocated
    <3> QED BY Zenon, <3>1, <3>2
  <2> HIDE DEF c
  <2>3. IsBuffer(c(header))
    BY <2>1 DEF Appends
  <2>4. \A mem : Shows(mem, c(header), 0) =>
          DeserBlockheader([mem |-> mem, at |-> 0]).value = header
    BY <1>1, <2>1
  <2> QED BY <2>2, <2>3, <2>4 DEF AllBytes
<1> HIDE DEF c
<1>3. c(j).at = c(k).at /\ \A a \in 0..(c(j).at - 1) : c(j).mem[a] = c(k).mem[a]
  <2>1. Sha256(AllBytes(c(j))) = Sha256(AllBytes(c(k)))
    BY Zenon, <1>2
  <2>2. IsBuffer(c(j)) /\ IsBuffer(c(k))
    BY Zenon, <1>2
  <2> QED BY <2>1, <2>2, HashTells
<1>4. Shows(c(j).mem, c(j), 0) /\ Shows(c(j).mem, c(k), 0)
  BY <1>2, <1>3 DEF Shows, IsBuffer
<1>5. DeserBlockheader([mem |-> c(j).mem, at |-> 0]).value = j
  BY Zenon, <1>2, <1>4
<1>6. DeserBlockheader([mem |-> c(j).mem, at |-> 0]).value = k
  BY Zenon, <1>2, <1>4
<1> QED BY Zenon, <1>5, <1>6

\* hash_all_tx: the same hash, the same first transaction.
LEMMA AllTxTells ==
  ASSUME NEW txs, IsList(txs), Len(txs) > 0, NEW other, IsList(other), Len(other) > 0,
         HashAllTx(txs) = HashAllTx(other)
  PROVE  HashTx(txs[1]) = HashTx(other[1])
<1> DEFINE each(list) == [i \in DOMAIN list |-> Bytes(HashTx(list[i]), SHA_HASH_LEN)]
           all(list) == FlattenSeq(each(list))
<1>1. ASSUME NEW list, IsList(list), Len(list) > 0
      PROVE  1 \in DOMAIN all(list) /\ all(list)[1] = <<HashTx(list[1]), 1, SHA_HASH_LEN>>
  <2> DEFINE seqs == each(list)
  <2>1. Len(list) \in Nat /\ DOMAIN list = 1..Len(list)
    BY <1>1 DEF IsList
  <2>2. Len(seqs) = Len(list)
    BY <2>1
  <2>3. \A i \in 1..Len(list) : seqs[i] = Bytes(HashTx(list[i]), SHA_HASH_LEN)
    BY <2>1
  <2> HIDE DEF seqs
  <2>4. \A v : /\ IsList(Bytes(v, SHA_HASH_LEN)) /\ Len(Bytes(v, SHA_HASH_LEN)) > 0
               /\ Bytes(v, SHA_HASH_LEN)[1] = <<v, 1, SHA_HASH_LEN>>
    <3> SUFFICES ASSUME NEW v
                 PROVE  /\ IsList(Bytes(v, SHA_HASH_LEN)) /\ Len(Bytes(v, SHA_HASH_LEN)) > 0
                        /\ Bytes(v, SHA_HASH_LEN)[1] = <<v, 1, SHA_HASH_LEN>>
      OBVIOUS
    <3>1. SHA_HASH_LEN \in Nat \ {0} /\ 1 \in 1..SHA_HASH_LEN
      BY LengthsPositive
    <3>2. Len(Bytes(v, SHA_HASH_LEN)) = SHA_HASH_LEN
      BY <3>1 DEF Bytes
    <3> QED BY <3>1, <3>2 DEF Bytes, IsList
  <2>5. /\ \A i \in 1..Len(seqs) : IsList(seqs[i])
        /\ Len(seqs[1]) > 0 /\ seqs[1][1] = <<HashTx(list[1]), 1, SHA_HASH_LEN>>
    <3>1. 1 \in 1..Len(list)
      BY <1>1, <2>1
    <3> QED BY <2>2, <2>3, <2>4, <3>1
  <2>6. 1 \in DOMAIN FlattenSeq(seqs) /\ FlattenSeq(seqs)[1] = seqs[1][1]
    BY <1>1, <2>1, <2>2, <2>5, FlattenFirst
  <2> QED BY <2>5, <2>6 DEF seqs
<1>2. Sha256(all(txs)) = Sha256(all(other))
  BY Zenon DEF HashAllTx
<1> HIDE DEF all
<1>3. 1 \in Ends(all(txs))
  BY <1>1 DEF Ends
<1>4. all(txs)[1] = all(other)[1]
  BY <1>2, <1>3, SameEnds
<1>5. <<HashTx(txs[1]), 1, SHA_HASH_LEN>> = <<HashTx(other[1]), 1, SHA_HASH_LEN>>
  BY Zenon, <1>1, <1>4
<1> QED BY <1>5


\* The wallet entries that a transaction's inputs and outputs name.
InputName(in) == <<"wallet", MakeUtxoPoolKey(in.prev_tx_id, in.prev_utxo_output)>>
OutputName(t, n) == <<"wallet", MakeUtxoPoolKey(HashTx(t), n - 1)>>
InputNames(t) == {InputName(in) : in \in Elements(Inputs(t))}
OutputNames(t) == {OutputName(t, n) : n \in 1..Len(t.outputs)}

\* What a block puts for an output and deletes for an input.
IsOwn(out) == \E k \in 1..MAX_KEYS : out.public_key_hash = HashPubKey(k)
EntryFor(out) ==
  [key_pair |-> KeyPair(CHOOSE k \in 1..MAX_KEYS : out.public_key_hash = HashPubKey(k)),
   amt |-> out.amt, spent |-> 0]
UtxoPut(t, n) ==
  [to |-> <<"utxos", MakeUtxoPoolKey(HashTx(t), n - 1)>>, value |-> t.outputs[n]]
WalletPut(t, n) == [to |-> OutputName(t, n), value |-> EntryFor(t.outputs[n])]
MadeBy(t, n) == {UtxoPut(t, n)} \cup IF IsOwn(t.outputs[n]) THEN {WalletPut(t, n)} ELSE {}
TakenBy(in) ==
  {[to |-> <<"utxos", MakeUtxoPoolKey(in.prev_tx_id, in.prev_utxo_output)>>, value |-> NULL],
   [to |-> InputName(in), value |-> NULL]}

\* The writes that a block makes for one of its transactions.
LEMMA PutsOfTx ==
  ASSUME NEW t, IsTx(t)
  PROVE  /\ IsList(PutsOf(t))
         /\ Elements(PutsOf(t)) = (UNION {MadeBy(t, n) : n \in 1..Len(t.outputs)})
                                    \cup UNION {TakenBy(in) : in \in Elements(Inputs(t))}
<1> DEFINE id == HashTx(t)
           entry(n) == [key_pair |-> KeyPair(CHOOSE k \in 1..MAX_KEYS :
                                       t.outputs[n].public_key_hash = HashPubKey(k)),
                        amt |-> t.outputs[n].amt, spent |-> 0]
           own(n) == \E k \in 1..MAX_KEYS : t.outputs[n].public_key_hash = HashPubKey(k)
           utxo(n) == [to |-> <<"utxos", MakeUtxoPoolKey(id, n - 1)>>, value |-> t.outputs[n]]
           mine(n) == [to |-> <<"wallet", MakeUtxoPoolKey(id, n - 1)>>, value |-> entry(n)]
           made(n) == <<utxo(n)>> \o IF own(n) THEN <<mine(n)>> ELSE <<>>
           name(in) == MakeUtxoPoolKey(in.prev_tx_id, in.prev_utxo_output)
           gone(in) == <<[to |-> <<"utxos", name(in)>>, value |-> NULL],
                         [to |-> <<"wallet", name(in)>>, value |-> NULL]>>
           ins == [k \in DOMAIN Inputs(t) |-> gone(t.inputs[k])]
           outs == [n \in DOMAIN t.outputs |-> made(n)]
<1>1. PutsOf(t) = FlattenSeq(outs) \o FlattenSeq(ins)
  BY Zenon DEF PutsOf
<1>2. /\ DOMAIN t.outputs = 1..Len(t.outputs) /\ Len(t.outputs) \in Nat
      /\ DOMAIN Inputs(t) = 1..Len(Inputs(t)) /\ Len(Inputs(t)) \in Nat
  BY DEF IsTx, IsList
<1>3. ASSUME NEW n
      PROVE  IsList(made(n)) /\ Elements(made(n)) = MadeBy(t, n)
  <2>1. utxo(n) = UtxoPut(t, n) /\ mine(n) = WalletPut(t, n) /\ (own(n) <=> IsOwn(t.outputs[n]))
    BY Zenon DEF UtxoPut, WalletPut, OutputName, EntryFor, IsOwn
  <2> HIDE DEF utxo, mine, own
  <2> DEFINE one == <<utxo(n)>>
             more == IF own(n) THEN <<mine(n)>> ELSE <<>>
  <2>2. IsList(one) /\ Elements(one) = {utxo(n)}
    BY FewElements
  <2>3. IsList(more) /\ Elements(more) = IF own(n) THEN {mine(n)} ELSE {}
    BY FewElements
  <2>4. made(n) = one \o more
    BY Zenon
  <2> HIDE DEF one, more, made
  <2>5. IsList(made(n)) /\ Elements(made(n)) = Elements(one) \cup Elements(more)
    BY <2>2, <2>3, <2>4, ConcatElements
  <2> QED BY <2>1, <2>2, <2>3, <2>5 DEF MadeBy
<1>4. ASSUME NEW in
      PROVE  IsList(gone(in)) /\ Elements(gone(in)) = TakenBy(in)
  <2> DEFINE a == [to |-> <<"utxos", name(in)>>, value |-> NULL]
             b == [to |-> <<"wallet", name(in)>>, value |-> NULL]
  <2>1. TakenBy(in) = {a, b}
    BY Zenon DEF TakenBy, InputName
  <2>2. gone(in) = <<a, b>>
    BY Zenon
  <2> HIDE DEF a, b, gone
  <2> QED BY <2>1, <2>2, FewElements
<1>5. \A k \in 1..Len(Inputs(t)) : t.inputs[k] = Inputs(t)[k]
  <2>1. CASE t.inputs = NULL
    BY <2>1 DEF Inputs
  <2>2. CASE t.inputs # NULL
    BY <2>2 DEF Inputs
  <2> QED BY <2>1, <2>2
<1> HIDE DEF made, gone
<1>6. /\ IsList(outs) /\ Len(outs) = Len(t.outputs)
      /\ \A n \in 1..Len(outs) : outs[n] = made(n)
  BY <1>2 DEF IsList
<1>7. /\ IsList(ins) /\ Len(ins) = Len(Inputs(t))
      /\ \A k \in 1..Len(ins) : ins[k] = gone(Inputs(t)[k])
  BY <1>2, <1>5 DEF IsList
<1> HIDE DEF ins, outs
<1>8. /\ IsList(FlattenSeq(outs))
      /\ Elements(FlattenSeq(outs)) = UNION {MadeBy(t, n) : n \in 1..Len(t.outputs)}
  <2>1. \A n \in 1..Len(outs) : IsList(outs[n]) /\ Elements(outs[n]) = MadeBy(t, n)
    BY <1>3, <1>6
  <2>2. /\ IsList(FlattenSeq(outs))
        /\ Elements(FlattenSeq(outs)) = UNION {Elements(outs[n]) : n \in 1..Len(outs)}
    BY <1>6, <2>1, FlattenElements
  <2>3. {Elements(outs[n]) : n \in 1..Len(outs)} = {MadeBy(t, n) : n \in 1..Len(t.outputs)}
    BY <1>6, <2>1
  <2> QED BY <2>2, <2>3
<1>9. /\ IsList(FlattenSeq(ins))
      /\ Elements(FlattenSeq(ins)) = UNION {TakenBy(in) : in \in Elements(Inputs(t))}
  <2>1. \A k \in 1..Len(ins) : IsList(ins[k]) /\ Elements(ins[k]) = TakenBy(Inputs(t)[k])
    BY <1>4, <1>7
  <2>2. /\ IsList(FlattenSeq(ins))
        /\ Elements(FlattenSeq(ins)) = UNION {Elements(ins[k]) : k \in 1..Len(ins)}
    BY <1>7, <2>1, FlattenElements
  <2>3. UNION {Elements(ins[k]) : k \in 1..Len(ins)} = UNION {TakenBy(in) : in \in Elements(Inputs(t))}
    <3> DEFINE list == Inputs(t)
    <3>1. /\ \A k \in 1..Len(list) : Elements(ins[k]) = TakenBy(list[k])
          /\ Len(ins) = Len(list)
      BY <1>7, <2>1
    <3>2. Elements(list) = {list[k] : k \in 1..Len(list)}
      BY DEF Elements
    <3> HIDE DEF list
    <3>3. UNION {Elements(ins[k]) : k \in 1..Len(ins)} = UNION {TakenBy(list[k]) : k \in 1..Len(list)}
      BY <3>1
    <3>4. UNION {TakenBy(list[k]) : k \in 1..Len(list)} = UNION {TakenBy(in) : in \in Elements(list)}
      BY <3>2
    <3> QED BY Zenon, <3>3, <3>4 DEF list
  <2> QED BY <2>2, <2>3
<1> QED BY <1>1, <1>8, <1>9, ConcatElements


\* Everything mined, in a block that is stored or about to be.
BlocksIn(h, seq) ==
  {h[to] : to \in {to \in DOMAIN h : to[1] = "blocks"}}
  \cup {p.value : p \in {p \in Elements(seq) : p.to[1] = "blocks"}}
MinedIn(h, seq) == UNION {Elements(b.txs) : b \in BlocksIn(h, seq)}
Mined == MinedIn(held, puts)

Deletes(seq) == {p.to : p \in {p \in Elements(seq) : p.value = NULL}}
Creates(seq) == {p.to : p \in {p \in Elements(seq) : p.value # NULL}}

\* An entry has the name that its value calls for, count keys having been made.
Named(mined, count, to, value) ==
  /\ to[1] = "keys" => \E k : to = <<"keys", HashPubKey(k)>> /\ value = KeyPair(k)
  /\ to[1] = "blocks" => /\ to[2] = HashBlockheader(value.header)
                         /\ value.header.all_tx = HashAllTx(value.txs) /\ Len(value.txs) > 0
                         /\ \E k \in 1..count :
                              value.txs[1].outputs[1].public_key_hash = HashPubKey(k)
  /\ to[1] = "utxos" => \E t \in mined : \E n \in 1..Len(t.outputs) :
                          to[2] = MakeUtxoPoolKey(HashTx(t), n - 1) /\ value = t.outputs[n]
  /\ to[1] = "wallet" => \E t \in mined : to \in OutputNames(t)

\* What build_inputs does to an entry.
Marks(old, p) == p.to[1] = "wallet" /\ old.spent = 0 /\ p.value = [old EXCEPT !.spent = 1]

\* A put finds nothing in its place, or the same, or what it marks.
Harmless(h, seq) ==
  /\ \A p \in Elements(seq) : p.value # NULL /\ p.to \in DOMAIN h
                                => h[p.to] = p.value \/ Marks(h[p.to], p)
  /\ \A p, q \in Elements(seq) : p.value # NULL /\ q.value # NULL /\ p.to = q.to
                                => p.value = q.value

\* What was mined has taken its inputs out of the wallet, or will, and nothing
\* brings them back.
SpentGone ==
  \A t \in Mined : \A name \in InputNames(t) :
    /\ name \in DOMAIN held => name \in Deletes(puts)
    /\ name \notin Creates(puts)
    /\ \E u \in Mined : name \in OutputNames(u)

\* What is not mined yet has its inputs in the wallet.
Waiting == Elements(pending) \cup (IF tx = NULL THEN {} ELSE {tx})
WaitingInWallet ==
  /\ \A t \in Waiting : InputNames(t) \subseteq DOMAIN held
  /\ Deletes(puts) # {} => Waiting = {}

\* A coinbase is told apart by its key.
CoinbasesKeyed ==
  \A t \in Mined : Inputs(t) = <<>> => \E k \in 1..keys : t.outputs[1].public_key_hash = HashPubKey(k)

NamesInv ==
  /\ \A to \in DOMAIN held : Named(Mined, keys, to, held[to])
  /\ \A p \in Elements(puts) : p.value # NULL => Named(Mined, keys, p.to, p.value)
  /\ \A p \in Elements(puts) : p.to[1] = "blocks" => p.value # NULL
  /\ Harmless(held, puts)
  /\ SpentGone
  /\ WaitingInWallet
  /\ CoinbasesKeyed
  /\ signed >= 0 => puts = <<>>

LEMMA InitNames == Init => NamesInv
<1> SUFFICES ASSUME Init PROVE NamesInv
  OBVIOUS
<1>1. DOMAIN held = {} /\ Elements(puts) = {} /\ Elements(pending) = {} /\ tx = NULL /\ signed = -1
  BY FewElements DEF Init
<1>2. Mined = {}
  BY <1>1 DEF Mined, MinedIn, BlocksIn
<1> QED BY <1>1, <1>2 DEF NamesInv, Harmless, SpentGone, WaitingInWallet, CoinbasesKeyed, Waiting, Deletes

\* A list that is not empty is its first element and the others.
LEMMA HeadAndTail ==
  ASSUME NEW seq, IsList(seq), seq # <<>>
  PROVE  IsList(Tail(seq)) /\ Elements(seq) = {Head(seq)} \cup Elements(Tail(seq))
<1> DEFINE E == Elements(seq)
           tail == Tail(seq)
           n == Len(seq)
<1>1. \A k \in 1..Len(seq) : seq[k] \in E
  BY DEF Elements
<1> HIDE DEF E
<1>2. seq \in Seq(E) /\ n \in Nat
  BY <1>1, ListIsSeq DEF IsList
<1>3. tail \in Seq(E) /\ Head(seq) = seq[1] /\ n >= 1 /\ Len(tail) = n - 1
      /\ \A k \in 1..(n - 1) : tail[k] = seq[k + 1]
  BY <1>2
<1> HIDE DEF tail, n
<1>4. IsList(tail)
  BY <1>3, ListIsSeq
<1>5. Elements(tail) = {tail[k] : k \in 1..(n - 1)} /\ E = {seq[k] : k \in 1..n}
  BY <1>3 DEF Elements, E, n
<1>6. E \subseteq {seq[1]} \cup Elements(tail)
  <2> SUFFICES ASSUME NEW k \in 1..n PROVE seq[k] \in {seq[1]} \cup Elements(tail)
    BY <1>5
  <2>1. CASE k = 1
    BY <2>1
  <2>2. CASE k # 1
    <3>1. k - 1 \in 1..(n - 1) /\ (k - 1) + 1 = k
      BY <1>2, <2>2
    <3>2. tail[k - 1] = seq[k]
      BY <1>3, <3>1
    <3> QED BY <1>5, <3>1, <3>2
  <2> QED BY <2>1, <2>2
<1>7. {seq[1]} \cup Elements(tail) \subseteq E
  <2>1. 1 \in 1..n /\ \A k \in 1..(n - 1) : k + 1 \in 1..n
    BY <1>2, <1>3
  <2> QED BY <1>3, <1>5, <2>1
<1> QED BY <1>3, <1>4, <1>6, <1>7 DEF tail, E

\* One write more: what is mined stays, and what was harmless stays so.
LEMMA PutNames == NullIsNoValue /\ ValuesInv /\ NamesInv /\ PutNext => NamesInv'
<1> SUFFICES ASSUME ValuesInv, NamesInv, PutNext PROVE NamesInv'
  OBVIOUS
<1> DEFINE p == Head(puts)
<1>1. /\ puts # <<>> /\ puts' = Tail(puts)
      /\ UNCHANGED <<keys, pending, tx, signed>>
  BY DEF PutNext
<1>2. Elements(puts) = {p} \cup Elements(puts')
  BY <1>1, HeadAndTail DEF ValuesInv, AllPuts
<1>3. ~(signed' >= 0)
  BY <1>1 DEF NamesInv
<1>4. /\ Deletes(puts') \subseteq Deletes(puts) /\ Creates(puts') \subseteq Creates(puts)
      /\ Waiting' = Waiting
  BY <1>1, <1>2 DEF Deletes, Creates, Waiting
<1>5. CASE p.value = NULL
  <2>1. held' = [k \in DOMAIN held \ {p.to} |-> held[k]]
    BY <1>5 DEF PutNext
  <2>2. p.to[1] # "blocks"
    BY <1>2, <1>5 DEF NamesInv
  <2> HIDE DEF p
  <2>4. /\ \A to \in DOMAIN held' : to \in DOMAIN held /\ to # p.to /\ held'[to] = held[to]
        /\ \A to \in DOMAIN held : to # p.to => to \in DOMAIN held'
    BY <2>1
  <2>3. Mined' = Mined
    <3>1. BlocksIn(held', puts') \subseteq BlocksIn(held, puts)
      BY <1>2, <2>4 DEF BlocksIn
    <3>2. ASSUME NEW to \in DOMAIN held, to[1] = "blocks"
          PROVE  held[to] \in BlocksIn(held', puts')
      <4>1. to \in DOMAIN held' /\ held'[to] = held[to]
        BY <2>2, <2>4, <3>2
      <4> QED BY <3>2, <4>1 DEF BlocksIn
    <3>3. ASSUME NEW q \in Elements(puts), q.to[1] = "blocks"
          PROVE  q.value \in BlocksIn(held', puts')
      <4>1. q \in Elements(puts')
        BY <1>2, <2>2, <3>3
      <4> QED BY <3>3, <4>1 DEF BlocksIn
    <3>4. BlocksIn(held, puts) \subseteq BlocksIn(held', puts')
      BY <3>2, <3>3 DEF BlocksIn
    <3> QED BY <3>1, <3>4 DEF Mined, MinedIn
  <2>5. \A to \in DOMAIN held' : Named(Mined', keys', to, held'[to])
    BY <1>1, <2>3, <2>4 DEF NamesInv
  <2>6. \A q \in Elements(puts') : /\ q.value # NULL => Named(Mined', keys', q.to, q.value)
                                   /\ q.to[1] = "blocks" => q.value # NULL
    BY <1>1, <1>2, <2>3 DEF NamesInv
  <2>7. Harmless(held', puts')
    BY <1>2, <2>4 DEF NamesInv, Harmless
  <2>8. SpentGone'
    <3> SUFFICES ASSUME NEW t \in Mined, NEW name \in InputNames(t)
                 PROVE  /\ name \in DOMAIN held' => name \in Deletes(puts')
                        /\ name \notin Creates(puts')
                        /\ \E u \in Mined : name \in OutputNames(u)
      BY <2>3 DEF SpentGone
    <3>1. /\ name \in DOMAIN held => name \in Deletes(puts)
          /\ name \notin Creates(puts)
          /\ \E u \in Mined : name \in OutputNames(u)
      BY DEF NamesInv, SpentGone
    <3>2. name \in DOMAIN held' => name \in Deletes(puts')
      BY <1>2, <2>4, <3>1 DEF Deletes
    <3> QED BY <1>4, <3>1, <3>2
  <2>9. WaitingInWallet'
    <3>1. p.to \in Deletes(puts)
      BY <1>2, <1>5 DEF Deletes
    <3> QED BY <1>4, <3>1 DEF NamesInv, WaitingInWallet
  <2>10. CoinbasesKeyed'
    BY <1>1, <2>3 DEF NamesInv, CoinbasesKeyed
  <2> QED BY <1>3, <2>5, <2>6, <2>7, <2>8, <2>9, <2>10 DEF NamesInv
<1>6. CASE p.value # NULL
  <2>1. held' = [k \in DOMAIN held \cup {p.to} |-> IF k = p.to THEN p.value ELSE held[k]]
    BY <1>6 DEF PutNext
  <2>2. Named(Mined, keys, p.to, p.value) /\ p \in Elements(puts)
    BY <1>2, <1>6 DEF NamesInv
  <2> HIDE DEF p
  <2>3. /\ DOMAIN held' = DOMAIN held \cup {p.to} /\ held'[p.to] = p.value
        /\ \A to \in DOMAIN held : to # p.to => held'[to] = held[to]
    BY <2>1
  <2>4. p.to \in DOMAIN held => held[p.to] = p.value \/ p.to[1] = "wallet"
    BY <1>6, <2>2 DEF NamesInv, Harmless, Marks
  <2>5. Mined' = Mined
    <3>1. BlocksIn(held', puts') \subseteq BlocksIn(held, puts)
      BY <1>2, <2>3 DEF BlocksIn
    <3>2. BlocksIn(held, puts) \subseteq BlocksIn(held', puts')
      <4>1. ASSUME NEW to \in DOMAIN held, to[1] = "blocks"
            PROVE  held[to] \in BlocksIn(held', puts')
        <5>1. to \in DOMAIN held' /\ held'[to] = held[to]
          BY <2>3, <2>4, <4>1
        <5> QED BY <4>1, <5>1 DEF BlocksIn
      <4>2. ASSUME NEW q \in Elements(puts), q.to[1] = "blocks"
            PROVE  q.value \in BlocksIn(held', puts')
        <5>1. CASE q = p
          BY <2>3, <4>2, <5>1 DEF BlocksIn
        <5>2. CASE q # p
          BY <1>2, <4>2, <5>2 DEF BlocksIn
        <5> QED BY <5>1, <5>2
      <4> QED BY <4>1, <4>2 DEF BlocksIn
    <3> QED BY <3>1, <3>2 DEF Mined, MinedIn
  <2>6. \A to \in DOMAIN held' : Named(Mined', keys', to, held'[to])
    <3> SUFFICES ASSUME NEW to \in DOMAIN held' PROVE Named(Mined, keys, to, held'[to])
      BY <1>1, <2>5
    <3>1. CASE to = p.to
      BY <2>2, <2>3, <3>1
    <3>2. CASE to # p.to
      <4>1. to \in DOMAIN held /\ held'[to] = held[to]
        BY <2>3, <3>2
      <4>2. Named(Mined, keys, to, held[to])
        BY <4>1 DEF NamesInv
      <4> QED BY <4>1, <4>2
    <3> QED BY <3>1, <3>2
  <2>7. \A q \in Elements(puts') : /\ q.value # NULL => Named(Mined', keys', q.to, q.value)
                                   /\ q.to[1] = "blocks" => q.value # NULL
    BY <1>1, <1>2, <2>5 DEF NamesInv
  <2>8. Harmless(held', puts')
    <3>1. ASSUME NEW q \in Elements(puts'), q.value # NULL, q.to \in DOMAIN held'
          PROVE  held'[q.to] = q.value \/ Marks(held'[q.to], q)
      <4>1. CASE q.to = p.to
        <5>1. q.value = p.value
          BY <1>2, <1>6, <2>2, <3>1, <4>1 DEF NamesInv, Harmless
        <5> QED BY <2>3, <4>1, <5>1
      <4>2. CASE q.to # p.to
        <5>1. q.to \in DOMAIN held /\ held'[q.to] = held[q.to] /\ q \in Elements(puts)
          BY <1>2, <2>3, <3>1, <4>2
        <5>2. held[q.to] = q.value \/ Marks(held[q.to], q)
          BY <3>1, <5>1 DEF NamesInv, Harmless
        <5> QED BY <5>1, <5>2
      <4> QED BY <4>1, <4>2
    <3>2. \A q, r \in Elements(puts') : q.value # NULL /\ r.value # NULL /\ q.to = r.to
                                          => q.value = r.value
      BY <1>2 DEF NamesInv, Harmless
    <3> QED BY <3>1, <3>2 DEF Harmless
  <2>9. SpentGone'
    <3> SUFFICES ASSUME NEW t \in Mined, NEW name \in InputNames(t)
                 PROVE  /\ name \in DOMAIN held' => name \in Deletes(puts')
                        /\ name \notin Creates(puts')
                        /\ \E u \in Mined : name \in OutputNames(u)
      BY <2>5 DEF SpentGone
    <3>1. /\ name \in DOMAIN held => name \in Deletes(puts)
          /\ name \notin Creates(puts)
          /\ \E u \in Mined : name \in OutputNames(u)
      BY DEF NamesInv, SpentGone
    <3>2. p.to \in Creates(puts)
      BY <1>6, <2>2 DEF Creates
    <3>3. Deletes(puts) = Deletes(puts')
      BY <1>2, <1>6 DEF Deletes
    <3>4. name \in DOMAIN held' => name \in DOMAIN held
      BY <2>3, <3>1, <3>2
    <3> QED BY <1>4, <3>1, <3>3, <3>4
  <2>10. WaitingInWallet'
    <3>1. Deletes(puts') = Deletes(puts)
      BY <1>2, <1>6 DEF Deletes
    <3> QED BY <1>4, <2>3, <3>1 DEF NamesInv, WaitingInWallet
  <2>11. CoinbasesKeyed'
    BY <1>1, <2>5 DEF NamesInv, CoinbasesKeyed
  <2> QED BY <1>3, <2>6, <2>7, <2>8, <2>9, <2>10, <2>11 DEF NamesInv
<1> QED BY <1>5, <1>6


\* What mine_block makes: the transactions of the new block and what it writes.
NewCoinbase == [inputs |-> NULL, outputs |-> <<Output(REWARD, CoinbaseKey)>>]
BlockPut(header, txs) ==
  [to |-> <<"blocks", HashBlockheader(header)>>, value |-> [header |-> header, txs |-> txs]]
Mines(txs, header) ==
  /\ IsHeader(header) /\ header.all_tx = HashAllTx(txs)
  /\ IsList(txs) /\ Len(txs) > 0 /\ txs[1] = NewCoinbase
  /\ \A t \in Elements(txs) : IsTx(t)
  /\ Elements(txs) = {NewCoinbase} \cup {CopyTx(t) : t \in Elements(pending)}
  /\ Elements(puts') = {PutKey(CoinbaseKey), BlockPut(header, txs)}
                         \cup UNION {Elements(PutsOf(t)) : t \in Elements(txs)}

LEMMA MineMakes ==
  ASSUME ValuesInv, Mine
  PROVE  \E txs, header : Mines(txs, header)
<1> DEFINE txs == <<NewCoinbase>> \o [n \in DOMAIN pending |-> CopyTx(pending[n])]
           headerAt(now) == [timestamp |-> now, all_tx |-> HashAllTx(txs),
                             prev_header_hash |-> top, nonce |-> 0]
           each == [i \in DOMAIN txs |-> PutsOf(txs[i])]
<1>0. PICK now \in TIMES :
        puts' = <<PutKey(CoinbaseKey), BlockPut(headerAt(now), txs)>> \o FlattenSeq(each)
  BY Zenon DEF Mine, NewCoinbase, BlockPut
<1> DEFINE header == headerAt(now)
           puts2 == <<PutKey(CoinbaseKey), BlockPut(header, txs)>>
<1>1. puts' = puts2 \o FlattenSeq(each)
  BY <1>0
<1>2. IsTx(NewCoinbase) /\ AllPay(NewCoinbase.outputs)
  <2> DEFINE outs == <<Output(REWARD, CoinbaseKey)>>
             coinbase == NewCoinbase
  <2>1. IsList(outs) /\ Len(outs) = 1 /\ outs[1] = Output(REWARD, CoinbaseKey)
    BY DEF IsList
  <2>2. IsOutput(Output(REWARD, CoinbaseKey)) /\ IsPayment(Output(REWARD, CoinbaseKey))
    BY PaysSomebody, AmountsAssumption DEF IsPayment
  <2>3. IsList(<<>>) /\ Len(<<>>) = 0 /\ Inputs(coinbase) = <<>>
    BY DEF IsList, Inputs, NewCoinbase
  <2>4. coinbase.outputs = outs
    BY DEF NewCoinbase
  <2> HIDE DEF outs, coinbase
  <2>5. (\A k \in 1..Len(outs) : IsOutput(outs[k])) /\ AllPay(outs)
    BY <2>1, <2>2 DEF AllPay
  <2>6. \A k \in 1..Len(<<>>) : FALSE
    BY <2>3
  <2>7. IsTx(coinbase) /\ AllPay(coinbase.outputs)
    BY <2>1, <2>3, <2>4, <2>5, <2>6 DEF IsTx
  <2> QED BY <2>7 DEF coinbase
<1>3. IsList(pending) /\ \A n \in 1..Len(pending) : IsBuilt(pending[n])
  BY DEF ValuesInv
<1>4. /\ IsList(txs) /\ Len(txs) = Len(pending) + 1 /\ txs[1] = NewCoinbase
      /\ \A k \in 2..Len(txs) : txs[k] = CopyTx(pending[k - 1])
      /\ \A k \in 1..Len(txs) : IsTx(txs[k])
  BY <1>2, <1>3, MinedTxs
<1>5. IsHeader(header) /\ header.all_tx = HashAllTx(txs)
  BY DEF IsHeader
<1> HIDE DEF txs, header
<1>6. Elements(txs) = {NewCoinbase} \cup {CopyTx(t) : t \in Elements(pending)}
  <2> DEFINE n == Len(pending)
  <2>1. n \in Nat /\ Len(txs) = n + 1
    BY <1>3, <1>4 DEF IsList
  <2>2. Elements(txs) = {txs[k] : k \in 1..(n + 1)} /\ Elements(pending) = {pending[k] : k \in 1..n}
    BY <2>1 DEF Elements
  <2>3. \A k \in 2..(n + 1) : txs[k] = CopyTx(pending[k - 1])
    BY <1>4, <2>1
  <2> HIDE DEF n
  <2>4. ASSUME NEW k \in 1..(n + 1)
        PROVE  txs[k] = NewCoinbase \/ \E t \in Elements(pending) : txs[k] = CopyTx(t)
    <3>1. CASE k = 1
      BY <1>4, <3>1
    <3>2. CASE k # 1
      <4>1. k \in 2..(n + 1) /\ k - 1 \in 1..n
        BY <2>1, <3>2
      <4> QED BY <2>2, <2>3, <4>1
    <3> QED BY <3>1, <3>2
  <2>5. NewCoinbase \in Elements(txs)
    <3>1. 1 \in 1..(n + 1)
      BY <2>1
    <3> QED BY <1>4, <2>2, <3>1
  <2>6. ASSUME NEW t \in Elements(pending)
        PROVE  CopyTx(t) \in Elements(txs)
    <3>1. PICK k \in 1..n : t = pending[k]
      BY <2>2
    <3>2. k + 1 \in 2..(n + 1) /\ k + 1 \in 1..(n + 1) /\ (k + 1) - 1 = k
      BY <2>1
    <3>3. txs[k + 1] = CopyTx(t)
      BY <2>3, <3>1, <3>2
    <3> QED BY <2>2, <3>2, <3>3
  <2> QED BY <2>2, <2>4, <2>5, <2>6
<1>7. \A t \in Elements(txs) : IsTx(t)
  BY <1>4 DEF Elements
<1>8. /\ IsList(each) /\ Len(each) = Len(txs)
      /\ \A k \in 1..Len(txs) : each[k] = PutsOf(txs[k])
  <2>1. DOMAIN txs = 1..Len(txs) /\ Len(txs) \in Nat
    BY <1>4 DEF IsList
  <2> QED BY <2>1 DEF IsList
<1> HIDE DEF each
<1>9. \A k \in 1..Len(each) : IsList(each[k])
  BY <1>4, <1>8, PutsOfTx
<1>10. Elements(FlattenSeq(each)) = UNION {Elements(PutsOf(t)) : t \in Elements(txs)}
       /\ IsList(FlattenSeq(each))
  <2>1. /\ Elements(FlattenSeq(each)) = UNION {Elements(each[k]) : k \in 1..Len(each)}
        /\ IsList(FlattenSeq(each))
    BY <1>8, <1>9, FlattenElements
  <2>2. UNION {Elements(each[k]) : k \in 1..Len(each)} = UNION {Elements(PutsOf(txs[k])) : k \in 1..Len(txs)}
    BY <1>8
  <2>3. Elements(txs) = {txs[k] : k \in 1..Len(txs)}
    BY DEF Elements
  <2>4. UNION {Elements(PutsOf(txs[k])) : k \in 1..Len(txs)} = UNION {Elements(PutsOf(t)) : t \in Elements(txs)}
    BY <2>3
  <2> QED BY <2>1, <2>2, <2>4
<1>11. IsList(puts2) /\ Elements(puts2) = {PutKey(CoinbaseKey), BlockPut(header, txs)}
  BY FewElements
<1> HIDE DEF puts2
<1>12. Elements(puts') = {PutKey(CoinbaseKey), BlockPut(header, txs)}
                           \cup UNION {Elements(PutsOf(t)) : t \in Elements(txs)}
  BY <1>1, <1>10, <1>11, ConcatElements
<1>13. Mines(txs, header)
  <2>1. Len(txs) > 0
    BY <1>3, <1>4 DEF IsList
  <2> QED BY <1>4, <1>5, <1>6, <1>7, <1>12, <2>1 DEF Mines
<1> QED BY <1>13


\* A copy of a transaction that build_tx made is the same.
LEMMA CopyOfBuilt ==
  ASSUME NullIsNoValue, NEW t, IsBuilt(t)
  PROVE  CopyTx(t) = t /\ Inputs(t) = t.inputs /\ Inputs(t) # <<>>
<1>1. t.inputs # NULL
  BY DEF NullIsNoValue, IsBuilt
<1>2. Inputs(t) = t.inputs
  BY <1>1 DEF Inputs
<1>3. t = [inputs |-> t.inputs, outputs |-> t.outputs]
  BY DEF IsBuilt
<1>4. Len(t.inputs) >= 1
  BY DEF IsBuilt
<1> QED BY <1>2, <1>3, <1>4 DEF CopyTx

LEMMA MinedAreTxs ==
  ASSUME ValuesInv, NamesInv, NEW t \in Mined
  PROVE  IsTx(t)
<1>1. PICK b \in BlocksIn(held, puts) : t \in Elements(b.txs)
  BY DEF Mined, MinedIn
<1>2. IsBlock(b)
  <2>1. ASSUME NEW to \in DOMAIN held, to[1] = "blocks"
        PROVE  IsBlock(held[to])
    BY <2>1 DEF ValuesInv, Entry, Fits
  <2>2. ASSUME NEW p \in Elements(puts), p.to[1] = "blocks"
        PROVE  IsBlock(p.value)
    BY <2>2 DEF NamesInv, ValuesInv, AllPuts, PutFits, Fits, Elements
  <2> QED BY <1>1, <2>1, <2>2 DEF BlocksIn
<1> QED BY <1>1, <1>2 DEF IsBlock, Elements

\* Two outputs of one name are the same.
LEMMA SameName ==
  ASSUME NEW t, IsTx(t), NEW n \in 1..Len(t.outputs), NEW u, IsTx(u), NEW m \in 1..Len(u.outputs),
         MakeUtxoPoolKey(HashTx(t), n - 1) = MakeUtxoPoolKey(HashTx(u), m - 1)
  PROVE  HashTx(t) = HashTx(u) /\ n = m /\ t.outputs[n] = u.outputs[m]
<1> DEFINE i == HashTx(t)
           j == HashTx(u)
<1>1. <<i, n - 1>> = <<j, m - 1>>
  BY Zenon DEF MakeUtxoPoolKey
<1> HIDE DEF i, j
<1>2. i = j /\ n = m
  BY <1>1
<1>3. t.outputs = u.outputs
  BY <1>2, TxHashTells DEF i, j
<1> QED BY <1>2, <1>3 DEF i, j

\* A transaction that is mined has an id that none has had before.
LEMMA MinedIsNew ==
  ASSUME NullIsNoValue, ValuesInv, NamesInv, Mine, NEW txs, NEW header, Mines(txs, header),
         NEW t \in Elements(txs), NEW u \in Mined
  PROVE  HashTx(t) # HashTx(u)
<1> SUFFICES ASSUME HashTx(t) = HashTx(u) PROVE FALSE
  OBVIOUS
<1>1. puts = <<>> /\ tx = NULL
  BY Zenon DEF Mine
<1>2. IsTx(t) /\ IsTx(u)
  BY MinedAreTxs DEF Mines
<1>3. Inputs(t) = Inputs(u) /\ t.outputs = u.outputs
  BY <1>2, TxHashTells
<1>4. CASE t = NewCoinbase
  <2>1. Inputs(t) = <<>> /\ t.outputs = <<Output(REWARD, CoinbaseKey)>>
    BY <1>4 DEF NewCoinbase, Inputs
  <2>2. PICK k \in 1..keys : u.outputs[1].public_key_hash = HashPubKey(k)
    BY <1>3, <2>1 DEF NamesInv, CoinbasesKeyed
  <2>3. u.outputs[1].public_key_hash = HashPubKey(keys + 1)
    BY <1>3, <2>1 DEF Output, CoinbaseKey
  <2>4. k = keys + 1
    BY <2>2, <2>3, KeyHashTells
  <2> QED BY <2>4 DEF ValuesInv
<1>5. CASE \E w \in Elements(pending) : t = CopyTx(w)
  <2>1. PICK w \in Elements(pending) : t = CopyTx(w)
    BY <1>5
  <2>2. IsBuilt(w)
    BY DEF ValuesInv, Elements
  <2>3. t = w /\ Inputs(w) # <<>>
    BY <2>1, <2>2, CopyOfBuilt
  <2>4. PICK in \in Elements(Inputs(t)) : TRUE
    <3>1. Len(Inputs(t)) \in Nat /\ Len(Inputs(t)) # 0
      BY <1>2, <2>3 DEF IsTx, IsList
    <3>2. 1 \in 1..Len(Inputs(t))
      BY <3>1
    <3> QED BY <3>2 DEF Elements
  <2>5. InputName(in) \in InputNames(t) /\ InputName(in) \in InputNames(u)
    BY <1>3, <2>4 DEF InputNames
  <2>6. InputName(in) \in DOMAIN held
    BY <2>3, <2>5 DEF NamesInv, WaitingInWallet, Waiting
  <2>7. InputName(in) \in Deletes(puts)
    BY <2>5, <2>6 DEF NamesInv, SpentGone
  <2> QED BY <1>1, <2>7, FewElements DEF Deletes
<1> QED BY <1>4, <1>5 DEF Mines


\* A write that a block makes.
Wrote(txs, header, p) ==
  \/ p = PutKey(CoinbaseKey)
  \/ p = BlockPut(header, txs)
  \/ \E t \in Elements(txs) : \E n \in 1..Len(t.outputs) : p = UtxoPut(t, n) \/ p = WalletPut(t, n)
  \/ \E t \in Elements(txs) : \E in \in Elements(Inputs(t)) : p \in TakenBy(in)

LEMMA MineWrites ==
  ASSUME NEW txs, NEW header, Mines(txs, header)
  PROVE  /\ \A p \in Elements(puts') : Wrote(txs, header, p)
         /\ BlockPut(header, txs) \in Elements(puts')
         /\ \A t \in Elements(txs) : \A in \in Elements(Inputs(t)) : TakenBy(in) \subseteq Elements(puts')
<1> DEFINE all == UNION {Elements(PutsOf(t)) : t \in Elements(txs)}
<1>1. Elements(puts') = {PutKey(CoinbaseKey), BlockPut(header, txs)} \cup all
  BY Zenon DEF Mines
<1>2. ASSUME NEW t \in Elements(txs)
      PROVE  Elements(PutsOf(t)) = (UNION {MadeBy(t, n) : n \in 1..Len(t.outputs)})
                                     \cup UNION {TakenBy(in) : in \in Elements(Inputs(t))}
  <2>1. IsTx(t)
    BY DEF Mines
  <2> QED BY Zenon, <2>1, PutsOfTx
<1>3. ASSUME NEW p \in all
      PROVE  Wrote(txs, header, p)
  <2>1. PICK t \in Elements(txs) : p \in Elements(PutsOf(t))
    OBVIOUS
  <2>2. \/ \E n \in 1..Len(t.outputs) : p \in MadeBy(t, n)
        \/ \E in \in Elements(Inputs(t)) : p \in TakenBy(in)
    BY <1>2, <2>1
  <2>3. \A n : p \in MadeBy(t, n) => p = UtxoPut(t, n) \/ p = WalletPut(t, n)
    BY DEF MadeBy
  <2> QED BY <2>2, <2>3 DEF Wrote
<1>4. ASSUME NEW t \in Elements(txs), NEW in \in Elements(Inputs(t))
      PROVE  TakenBy(in) \subseteq all
  <2>1. TakenBy(in) \subseteq Elements(PutsOf(t))
    BY <1>2
  <2> QED BY <2>1
<1> HIDE DEF all
<1>5. \A p \in Elements(puts') : Wrote(txs, header, p)
  BY <1>1, <1>3 DEF Wrote
<1> QED BY <1>1, <1>4, <1>5

\* The databases of a block's writes.
LEMMA WriteTags ==
  /\ \A key : PutKey(key).to[1] = "keys"
  /\ \A header, txs : BlockPut(header, txs).to[1] = "blocks"
  /\ \A t, n : UtxoPut(t, n).to[1] = "utxos" /\ WalletPut(t, n).to[1] = "wallet"
  /\ \A in : \A p \in TakenBy(in) : p.to[1] \in {"utxos", "wallet"} /\ p.value = NULL
  /\ \A in : InputName(in)[1] = "wallet"
BY DEF PutKey, BlockPut, UtxoPut, WalletPut, OutputName, TakenBy, InputName

LEMMA WalletValue == \A t, n : WalletPut(t, n).value = EntryFor(t.outputs[n])
BY DEF WalletPut

\* The blocks after mine_block: those there were and the new one.
LEMMA MinedMore ==
  ASSUME ValuesInv, Mine, NEW txs, NEW header, Mines(txs, header)
  PROVE  Mined' = Mined \cup Elements(txs)
<1> DEFINE new == BlockPut(header, txs)
           blocks == {held[to] : to \in {to \in DOMAIN held : to[1] = "blocks"}}
           ahead == {p.value : p \in {p \in Elements(puts') : p.to[1] = "blocks"}}
<1>1. puts = <<>> /\ held' = held
  BY Zenon DEF Mine
<1>2. Elements(puts) = {}
  BY <1>1, FewElements
<1>3. BlocksIn(held, puts) = blocks
  BY <1>2 DEF BlocksIn
<1>4. BlocksIn(held', puts') = blocks \cup ahead
  BY <1>1 DEF BlocksIn
<1>5. ASSUME NEW p \in Elements(puts'), p.to[1] = "blocks"
      PROVE  p = new
  <2>1. Wrote(txs, header, p)
    BY MineWrites
  <2> QED BY <1>5, <2>1, WriteTags DEF Wrote
<1>6. new \in Elements(puts') /\ new.to[1] = "blocks" /\ new.value.txs = txs
  BY MineWrites, WriteTags DEF BlockPut
<1> HIDE DEF new
<1>7. ahead = {new.value}
  BY <1>5, <1>6
<1> HIDE DEF blocks, ahead
<1>8. (UNION {Elements(b.txs) : b \in blocks \cup ahead})
        = (UNION {Elements(b.txs) : b \in blocks}) \cup Elements(txs)
  BY <1>6, <1>7
<1> QED BY <1>3, <1>4, <1>8 DEF Mined, MinedIn

\* What a block's transaction makes is named after it, and after no other.
LEMMA MadeApart ==
  ASSUME NullIsNoValue, ValuesInv, NamesInv, Mine, NEW txs, NEW header, Mines(txs, header),
         NEW t \in Elements(txs), NEW n \in 1..Len(t.outputs)
  PROVE  /\ \A u \in Mined : \A m \in 1..Len(u.outputs) :
              MakeUtxoPoolKey(HashTx(t), n - 1) # MakeUtxoPoolKey(HashTx(u), m - 1)
         /\ \A u \in Elements(txs) : \A m \in 1..Len(u.outputs) :
              MakeUtxoPoolKey(HashTx(t), n - 1) = MakeUtxoPoolKey(HashTx(u), m - 1)
                => t.outputs[n] = u.outputs[m]
<1>1. IsTx(t) /\ \A u \in Elements(txs) : IsTx(u)
  BY DEF Mines
<1>2. ASSUME NEW u \in Mined, NEW m \in 1..Len(u.outputs)
      PROVE  MakeUtxoPoolKey(HashTx(t), n - 1) # MakeUtxoPoolKey(HashTx(u), m - 1)
  <2>1. HashTx(t) # HashTx(u)
    BY MinedIsNew
  <2>2. IsTx(u)
    BY MinedAreTxs
  <2> QED BY Zenon, <1>1, <2>1, <2>2, SameName
<1>3. ASSUME NEW u \in Elements(txs), NEW m \in 1..Len(u.outputs),
             MakeUtxoPoolKey(HashTx(t), n - 1) = MakeUtxoPoolKey(HashTx(u), m - 1)
      PROVE  t.outputs[n] = u.outputs[m]
  <2>1. IsTx(t) /\ IsTx(u)
    BY <1>1
  <2> QED BY <1>3, <2>1, SameName
<1> QED BY <1>2, <1>3

\* None of it is in the databases already, the coinbase's key perhaps excepted.
LEMMA MineHarmless ==
  ASSUME NullIsNoValue, ValuesInv, NamesInv, Mine, NEW txs, NEW header, Mines(txs, header)
  PROVE  Harmless(held, puts')
<1>1. ASSUME NEW p \in Elements(puts'), p.value # NULL, p.to \in DOMAIN held
      PROVE  held[p.to] = p.value
  <2> DEFINE to == p.to
             old == held[to]
  <2>1. Named(Mined, keys, to, old) /\ Fits(to, old)
    BY <1>1 DEF NamesInv, ValuesInv, Entry
  <2> HIDE DEF old
  <2>2. Wrote(txs, header, p)
    BY MineWrites
  <2>3. CASE p = PutKey(CoinbaseKey)
    <3>1. to = <<"keys", HashPubKey(CoinbaseKey)>> /\ p.value = KeyPair(CoinbaseKey)
      BY <2>3 DEF PutKey
    <3> HIDE DEF to
    <3>2. PICK k : to = <<"keys", HashPubKey(k)>> /\ old = KeyPair(k)
      BY <2>1, <3>1 DEF Named
    <3>3. HashPubKey(k) = HashPubKey(CoinbaseKey)
      BY <3>1, <3>2
    <3>4. k = CoinbaseKey
      BY Zenon, <3>3, KeyHashTells
    <3> QED BY <3>1, <3>2, <3>4 DEF old, to
  <2>4. CASE p = BlockPut(header, txs)
    <3>1. to[1] = "blocks" /\ to[2] = HashBlockheader(header)
      BY <2>4 DEF BlockPut
    <3> HIDE DEF to
    <3>2. /\ HashBlockheader(header) = HashBlockheader(old.header)
          /\ old.header.all_tx = HashAllTx(old.txs) /\ Len(old.txs) > 0
      BY <2>1, <3>1 DEF Named
    <3>3. PICK k \in 1..keys : old.txs[1].outputs[1].public_key_hash = HashPubKey(k)
      BY <2>1, <3>1 DEF Named
    <3>4. /\ IsHeader(old.header) /\ IsList(old.txs) /\ IsTx(old.txs[1])
          /\ IsHeader(header) /\ header.all_tx = HashAllTx(txs)
          /\ IsList(txs) /\ Len(txs) > 0 /\ txs[1] = NewCoinbase /\ IsTx(txs[1])
      <4>1. IsBlock(old)
        BY <2>1, <3>1 DEF Fits
      <4>2. IsHeader(old.header) /\ IsList(old.txs) /\ IsTx(old.txs[1])
        BY <3>2, <4>1 DEF IsBlock, IsList
      <4>3. /\ IsHeader(header) /\ header.all_tx = HashAllTx(txs)
            /\ IsList(txs) /\ Len(txs) > 0 /\ txs[1] = NewCoinbase
            /\ \A t \in Elements(txs) : IsTx(t)
        BY DEF Mines
      <4>4. txs[1] \in Elements(txs)
        BY <4>3 DEF Elements, IsList
      <4> QED BY <4>2, <4>3, <4>4
    <3>5. header = old.header
      BY Zenon, <3>2, <3>4, HeaderHashTells
    <3>6. HashTx(txs[1]) = HashTx(old.txs[1])
      BY <3>2, <3>4, <3>5, AllTxTells
    <3>7. txs[1].outputs = old.txs[1].outputs
      BY <3>4, <3>6, TxHashTells
    <3>8. txs[1].outputs[1].public_key_hash = HashPubKey(CoinbaseKey)
      BY <3>4 DEF NewCoinbase, Output
    <3>9. k = CoinbaseKey
      <4>1. HashPubKey(k) = HashPubKey(CoinbaseKey)
        BY <3>3, <3>7, <3>8
      <4> QED BY Zenon, <4>1, KeyHashTells
    <3>10. keys \in Int
      BY DEF ValuesInv
    <3> QED BY <3>3, <3>9, <3>10 DEF CoinbaseKey
  <2>5. ASSUME NEW t \in Elements(txs), NEW n \in 1..Len(t.outputs),
               p = UtxoPut(t, n) \/ p = WalletPut(t, n)
        PROVE  FALSE
    <3>1. /\ to[1] \in {"utxos", "wallet"}
          /\ to = <<to[1], MakeUtxoPoolKey(HashTx(t), n - 1)>>
      BY <2>5 DEF UtxoPut, WalletPut, OutputName
    <3> HIDE DEF to
    <3>2. \E u \in Mined : \E m \in 1..Len(u.outputs) : to[2] = MakeUtxoPoolKey(HashTx(u), m - 1)
      <4>1. CASE to[1] = "utxos"
        BY <2>1, <4>1 DEF Named
      <4>2. CASE to[1] = "wallet"
        BY <2>1, <4>2 DEF Named, OutputNames, OutputName
      <4> QED BY <3>1, <4>1, <4>2
    <3>3. to[2] = MakeUtxoPoolKey(HashTx(t), n - 1)
      BY <3>1
    <3> QED BY <3>2, <3>3, MadeApart
  <2>6. ASSUME NEW in, p \in TakenBy(in)
        PROVE  FALSE
    BY <1>1, <2>6, WriteTags
  <2> QED BY <2>2, <2>3, <2>4, <2>5, <2>6 DEF Wrote, old
<1>2. ASSUME NEW p \in Elements(puts'), NEW q \in Elements(puts'),
             p.value # NULL, q.value # NULL, p.to = q.to
      PROVE  p.value = q.value
  <2>1. Wrote(txs, header, p) /\ Wrote(txs, header, q)
    BY MineWrites
  <2>2. CASE p.to[1] \in {"keys", "blocks"}
    BY <1>2, <2>1, <2>2, WriteTags DEF Wrote
  <2>3. CASE p.to[1] = "utxos"
    <3>1. PICK t \in Elements(txs) : \E n \in 1..Len(t.outputs) : p = UtxoPut(t, n)
      BY <1>2, <2>1, <2>3, WriteTags DEF Wrote
    <3>2. PICK n \in 1..Len(t.outputs) : p = UtxoPut(t, n)
      BY <3>1
    <3>3. PICK u \in Elements(txs) : \E m \in 1..Len(u.outputs) : q = UtxoPut(u, m)
      BY <1>2, <2>1, <2>3, WriteTags DEF Wrote
    <3>4. PICK m \in 1..Len(u.outputs) : q = UtxoPut(u, m)
      BY <3>3
    <3>5. MakeUtxoPoolKey(HashTx(t), n - 1) = MakeUtxoPoolKey(HashTx(u), m - 1)
      BY <1>2, <3>2, <3>4 DEF UtxoPut
    <3>6. t.outputs[n] = u.outputs[m]
      BY <3>5, MadeApart
    <3> QED BY <3>2, <3>4, <3>6 DEF UtxoPut
  <2>4. CASE p.to[1] = "wallet"
    <3>1. PICK t \in Elements(txs) : \E n \in 1..Len(t.outputs) : p = WalletPut(t, n)
      BY <1>2, <2>1, <2>4, WriteTags DEF Wrote
    <3>2. PICK n \in 1..Len(t.outputs) : p = WalletPut(t, n)
      BY <3>1
    <3>3. PICK u \in Elements(txs) : \E m \in 1..Len(u.outputs) : q = WalletPut(u, m)
      BY <1>2, <2>1, <2>4, WriteTags DEF Wrote
    <3>4. PICK m \in 1..Len(u.outputs) : q = WalletPut(u, m)
      BY <3>3
    <3>5. MakeUtxoPoolKey(HashTx(t), n - 1) = MakeUtxoPoolKey(HashTx(u), m - 1)
      BY <1>2, <3>2, <3>4 DEF WalletPut, OutputName
    <3>6. t.outputs[n] = u.outputs[m]
      BY <3>5, MadeApart
    <3> QED BY Zenon, <3>2, <3>4, <3>6, WalletValue
  <2>5. p.to[1] \in {"keys", "blocks", "utxos", "wallet"}
    BY <2>1, WriteTags DEF Wrote
  <2> QED BY <2>2, <2>3, <2>4, <2>5
<1> QED BY <1>1, <1>2 DEF Harmless

LEMMA MineNames == NullIsNoValue /\ ValuesInv /\ NamesInv /\ Mine => NamesInv'
<1> SUFFICES ASSUME NullIsNoValue, ValuesInv, NamesInv, Mine PROVE NamesInv'
  OBVIOUS
<1>1. PICK txs, header : Mines(txs, header)
  BY MineMakes
<1>2. /\ puts = <<>> /\ tx = NULL /\ keys' = keys + 1 /\ pending' = <<>>
      /\ held' = held /\ tx' = tx /\ signed' = signed /\ keys \in Int
  <2>1. /\ puts = <<>> /\ tx = NULL /\ keys' = keys + 1 /\ pending' = <<>>
        /\ held' = held /\ tx' = tx /\ signed' = signed
    BY Zenon DEF Mine
  <2>2. keys \in Int
    BY DEF ValuesInv
  <2> QED BY <2>1, <2>2
<1>3. Mined' = Mined \cup Elements(txs) /\ Elements(puts) = {} /\ Elements(pending') = {}
  BY <1>1, <1>2, MinedMore, FewElements
<1>4. \A to, value : Named(Mined, keys, to, value) => Named(Mined', keys', to, value)
  BY <1>2, <1>3 DEF Named
<1>5. \A to \in DOMAIN held' : Named(Mined', keys', to, held'[to])
  BY <1>2, <1>4 DEF NamesInv
<1>6. ASSUME NEW p \in Elements(puts')
      PROVE  Named(Mined', keys', p.to, p.value) \/ p.value = NULL
  <2> DEFINE to == p.to
  <2>1. Wrote(txs, header, p)
    BY <1>1, MineWrites
  <2>2. CASE p = PutKey(CoinbaseKey)
    <3>1. to = <<"keys", HashPubKey(CoinbaseKey)>> /\ p.value = KeyPair(CoinbaseKey)
      BY <2>2 DEF PutKey
    <3> HIDE DEF to
    <3>2. Named(Mined', keys', to, p.value)
      BY <3>1 DEF Named
    <3> QED BY <3>2 DEF to
  <2>3. CASE p = BlockPut(header, txs)
    <3>1. /\ to[1] = "blocks" /\ to[2] = HashBlockheader(header)
          /\ p.value.header = header /\ p.value.txs = txs
      BY <2>3 DEF BlockPut
    <3>2. header.all_tx = HashAllTx(txs) /\ Len(txs) > 0 /\ txs[1] = NewCoinbase
      BY <1>1 DEF Mines
    <3>4. txs[1].outputs[1].public_key_hash = HashPubKey(CoinbaseKey)
      BY <3>2 DEF NewCoinbase, Output
    <3>5. CoinbaseKey \in 1..keys'
      BY <1>2 DEF CoinbaseKey, ValuesInv
    <3> HIDE DEF to
    <3>3. Named(Mined', keys', to, p.value)
      BY <3>1, <3>2, <3>4, <3>5 DEF Named
    <3> QED BY <3>3 DEF to
  <2>4. ASSUME NEW t \in Elements(txs), NEW n \in 1..Len(t.outputs),
               p = UtxoPut(t, n) \/ p = WalletPut(t, n)
        PROVE  Named(Mined', keys', p.to, p.value)
    <3>1. t \in Mined'
      BY <1>3
    <3>2. CASE p = UtxoPut(t, n)
      <4>1. /\ to[1] = "utxos" /\ to[2] = MakeUtxoPoolKey(HashTx(t), n - 1)
            /\ p.value = t.outputs[n]
        BY <3>2 DEF UtxoPut
      <4> HIDE DEF to
      <4>2. Named(Mined', keys', to, p.value)
        BY <3>1, <4>1 DEF Named
      <4> QED BY <4>2 DEF to
    <3>3. CASE p = WalletPut(t, n)
      <4>1. to[1] = "wallet" /\ to = OutputName(t, n)
        BY <3>3 DEF WalletPut, OutputName
      <4> HIDE DEF to
      <4>2. to \in OutputNames(t)
        BY <4>1 DEF OutputNames
      <4>3. Named(Mined', keys', to, p.value)
        BY <3>1, <4>1, <4>2 DEF Named
      <4> QED BY <4>3 DEF to
    <3> QED BY <2>4, <3>2, <3>3
  <2>5. \A in : p \in TakenBy(in) => p.value = NULL
    BY WriteTags
  <2> QED BY <2>1, <2>2, <2>3, <2>4, <2>5 DEF Wrote
<1>7. \A p \in Elements(puts') : p.to[1] = "blocks" => p.value # NULL
  <2> SUFFICES ASSUME NEW p \in Elements(puts'), p.to[1] = "blocks" PROVE p.value # NULL
    OBVIOUS
  <2>1. Wrote(txs, header, p)
    BY <1>1, MineWrites
  <2>2. p = BlockPut(header, txs)
    BY <2>1, WriteTags DEF Wrote
  <2>3. p.value = [header |-> header, txs |-> txs]
    BY <2>2 DEF BlockPut
  <2> QED BY Zenon, <2>3 DEF NullIsNoValue
<1>8. Harmless(held', puts')
  <2>1. Harmless(held, puts')
    BY <1>1, MineHarmless
  <2> QED BY <1>2, <2>1
<1>9. ASSUME NEW u \in Mined, NEW name \in OutputNames(u)
      PROVE  name \notin Creates(puts')
  <2> SUFFICES ASSUME NEW p \in Elements(puts'), p.value # NULL, p.to = name PROVE FALSE
    BY DEF Creates
  <2>1. PICK m \in 1..Len(u.outputs) : name = OutputName(u, m)
    BY DEF OutputNames
  <2>2. name[1] = "wallet" /\ name[2] = MakeUtxoPoolKey(HashTx(u), m - 1)
    BY <2>1 DEF OutputName
  <2>3. Wrote(txs, header, p)
    BY <1>1, MineWrites
  <2>4. PICK t \in Elements(txs) : \E n \in 1..Len(t.outputs) : p = WalletPut(t, n)
    BY <2>2, <2>3, WriteTags DEF Wrote
  <2>5. PICK n \in 1..Len(t.outputs) : p = WalletPut(t, n)
    BY <2>4
  <2>6. p.to[2] = MakeUtxoPoolKey(HashTx(t), n - 1)
    BY <2>5 DEF WalletPut, OutputName
  <2>7. MakeUtxoPoolKey(HashTx(t), n - 1) # MakeUtxoPoolKey(HashTx(u), m - 1)
    BY <1>1, MadeApart
  <2> QED BY <2>2, <2>6, <2>7
<1>10. ASSUME NEW t \in Elements(txs)
       PROVE  t = NewCoinbase \/ (t \in Elements(pending) /\ Inputs(t) # <<>>)
  <2>1. t = NewCoinbase \/ \E w \in Elements(pending) : t = CopyTx(w)
    BY <1>1 DEF Mines
  <2>2. ASSUME NEW w \in Elements(pending), t = CopyTx(w)
        PROVE  t = w /\ Inputs(w) # <<>>
    <3>1. IsBuilt(w)
      BY DEF ValuesInv, Elements
    <3> QED BY <2>2, <3>1, CopyOfBuilt
  <2> QED BY <2>1, <2>2
<1>11. SpentGone'
  <2> SUFFICES ASSUME NEW t \in Mined', NEW name \in InputNames(t)
               PROVE  /\ name \in DOMAIN held => name \in Deletes(puts')
                      /\ name \notin Creates(puts')
                      /\ \E u \in Mined' : name \in OutputNames(u)
    BY <1>2 DEF SpentGone
  <2>1. CASE t \in Mined
    <3>1. /\ name \in DOMAIN held => name \in Deletes(puts)
          /\ \E u \in Mined : name \in OutputNames(u)
      BY <2>1 DEF NamesInv, SpentGone
    <3>2. Deletes(puts) = {}
      BY <1>3 DEF Deletes
    <3> QED BY <1>3, <1>9, <3>1, <3>2
  <2>2. CASE t \in Elements(txs)
    <3>1. PICK in \in Elements(Inputs(t)) : name = InputName(in)
      BY DEF InputNames
    <3>2. Inputs(NewCoinbase) = <<>>
      BY DEF Inputs, NewCoinbase
    <3>3. t \in Elements(pending)
      BY <1>10, <2>2, <3>1, <3>2, FewElements
    <3>4. name \in DOMAIN held
      BY <3>3 DEF NamesInv, WaitingInWallet, Waiting
    <3>5. name \in Deletes(puts')
      <4>1. [to |-> name, value |-> NULL] \in TakenBy(in)
        BY <3>1 DEF TakenBy
      <4>2. [to |-> name, value |-> NULL] \in Elements(puts')
        BY <1>1, <2>2, <4>1, MineWrites
      <4> DEFINE p == [to |-> name, value |-> NULL]
      <4>3. p \in Elements(puts') /\ p.to = name /\ p.value = NULL
        BY <4>2
      <4> HIDE DEF p
      <4> QED BY <4>3 DEF Deletes
    <3>6. \E u \in Mined : name \in OutputNames(u)
      <4>1. name[1] = "wallet" /\ Named(Mined, keys, name, held[name])
        BY <3>1, <3>4, WriteTags DEF NamesInv
      <4> QED BY <4>1 DEF Named
    <3> QED BY <1>3, <1>9, <3>5, <3>6
  <2> QED BY <1>3, <2>1, <2>2
<1>12. WaitingInWallet'
  <2>1. Waiting' = {}
    BY <1>2, <1>3 DEF Waiting
  <2> QED BY <2>1 DEF WaitingInWallet
<1>13. CoinbasesKeyed'
  <2> SUFFICES ASSUME NEW t \in Mined', Inputs(t) = <<>>
               PROVE  \E k \in 1..(keys + 1) : t.outputs[1].public_key_hash = HashPubKey(k)
    BY <1>2 DEF CoinbasesKeyed
  <2>1. CASE t \in Mined
    <3>1. PICK k \in 1..keys : t.outputs[1].public_key_hash = HashPubKey(k)
      BY <2>1 DEF NamesInv, CoinbasesKeyed
    <3>2. k \in 1..(keys + 1)
      BY <1>2
    <3> QED BY <3>1, <3>2
  <2>2. CASE t \in Elements(txs)
    <3>1. t = NewCoinbase
      BY <1>10, <2>2
    <3>2. t.outputs[1].public_key_hash = HashPubKey(keys + 1)
      BY <3>1 DEF NewCoinbase, Output, CoinbaseKey
    <3>3. keys + 1 \in 1..(keys + 1)
      BY DEF ValuesInv
    <3> QED BY <3>2, <3>3
  <2> QED BY <1>3, <2>1, <2>2
<1>14. ~(signed' >= 0)
  <2>1. ~InTheMaking
    BY <1>2 DEF InTheMaking, IsBuilt, NullIsNoValue
  <2>2. signed = -1
    BY <2>1 DEF ValuesInv, Underway, NothingInHand
  <2> QED BY <1>2, <2>2
<1> QED BY <1>5, <1>6, <1>7, <1>8, <1>11, <1>12, <1>13, <1>14 DEF NamesInv

-----------------------------------------------------------------------------
(* The other steps.                                                        *)

LEMMA NamedStays ==
  ASSUME NEW mined, NEW count \in Int, NEW more, more >= count, more \in Int, NEW to, NEW value,
         Named(mined, count, to, value)
  PROVE  Named(mined, more, to, value)
BY DEF Named

LEMMA BuildNames ==
  NullIsNoValue /\ ValuesInv /\ NamesInv /\ (\E amt \in AMOUNTS : BuildTx(amt)) => NamesInv'
<1> SUFFICES ASSUME NullIsNoValue, ValuesInv, NamesInv, NEW amt \in AMOUNTS, BuildTx(amt)
             PROVE  NamesInv'
  OBVIOUS
<1>1. PICK n, from, change : Builds(n, from, amt, change)
  BY TxBuilds
<1>2. /\ puts = <<>> /\ tx = NULL
      /\ held' = held /\ pending' = pending /\ signed' = signed
  BY Zenon DEF BuildTx
<1>3. n \in Nat /\ \A k \in 1..n : from[k] \in UnspentEntries
  BY <1>1, BoundsAssumption DEF Builds
<1>4. keys \in Int /\ keys' \in Int /\ keys' >= keys
  <2>1. keys \in Int
    BY DEF ValuesInv
  <2>2. keys' = keys + Len(change) /\ (change = <<>> \/ \E left : change = <<Output(left, keys + 1)>>)
    BY <1>1 DEF Builds
  <2>3. Len(change) \in {0, 1}
    BY <2>2
  <2> QED BY <2>1, <2>2, <2>3
<1>5. Elements(puts) = {} /\ Elements(puts') = {MarkedSpent(from[k]) : k \in 1..n}
  <2>1. puts' = [k \in 1..n |-> MarkedSpent(from[k])]
    BY <1>1 DEF Builds
  <2>2. Len(puts') = n /\ \A k \in 1..n : puts'[k] = MarkedSpent(from[k])
    BY <1>3, <2>1
  <2> QED BY <1>2, <2>2, FewElements DEF Elements
<1>6. ASSUME NEW to \in UnspentEntries
      PROVE  /\ to \in DOMAIN held /\ to[1] = "wallet" /\ MarkedSpent(to).to = to
             /\ MarkedSpent(to).value # NULL /\ Marks(held[to], MarkedSpent(to))
             /\ Named(Mined, keys, to, MarkedSpent(to).value)
             /\ InputName(InputFrom(to)) = to
  <2>1. /\ to \in DOMAIN held /\ to[1] = "wallet" /\ MarkedSpent(to).to = to
        /\ MarkedSpent(to).value = [key_pair |-> held[to].key_pair, amt |-> held[to].amt, spent |-> 1]
        /\ Find(to).value = held[to]
    BY EntryTaken
  <2>2. held[to].spent = 0
    BY <2>1 DEF UnspentEntries
  <2>3. MarkedSpent(to).value = [held[to] EXCEPT !.spent = 1]
    BY <2>1 DEF MarkedSpent
  <2>4. Named(Mined, keys, to, held[to])
    BY <2>1 DEF NamesInv
  <2>5. PICK t \in Mined : to \in OutputNames(t)
    BY <2>1, <2>4 DEF Named
  <2>6. PICK m \in 1..Len(t.outputs) : to = OutputName(t, m)
    BY <2>5 DEF OutputNames
  <2>7. InputName(InputFrom(to)) = to
    <3> DEFINE id == HashTx(t)
    <3>1. to = <<"wallet", <<id, m - 1>>>>
      BY <2>6 DEF OutputName, MakeUtxoPoolKey
    <3>2. InputName(InputFrom(to)) = <<"wallet", <<to[2][1], to[2][2]>>>>
      BY DEF InputName, InputFrom, MakeUtxoPoolKey
    <3> HIDE DEF id
    <3> QED BY <3>1, <3>2
  <2>8. MarkedSpent(to).value # NULL
    BY <2>1 DEF NullIsNoValue
  <2>9. Named(Mined, keys, to, MarkedSpent(to).value)
    BY <2>1, <2>5 DEF Named
  <2>10. Marks(held[to], MarkedSpent(to))
    BY <2>1, <2>2, <2>3 DEF Marks
  <2> QED BY <2>1, <2>7, <2>8, <2>9, <2>10
<1>7. ASSUME NEW p \in Elements(puts')
      PROVE  \E to \in UnspentEntries : p = MarkedSpent(to)
  BY <1>3, <1>5
<1>8. ASSUME NEW p \in Elements(puts')
      PROVE  /\ p.to \in DOMAIN held /\ p.to[1] = "wallet" /\ p.value # NULL
             /\ Marks(held[p.to], p) /\ Named(Mined, keys, p.to, p.value)
  BY <1>6, <1>7
<1>9. Mined' = Mined
  <2>1. BlocksIn(held', puts') = BlocksIn(held, puts)
    <3>1. \A p \in Elements(puts') : p.to[1] # "blocks"
      BY <1>8
    <3> QED BY <1>2, <1>5, <3>1 DEF BlocksIn
  <2> QED BY <2>1 DEF Mined, MinedIn
<1>10. /\ \A to \in DOMAIN held' : Named(Mined', keys', to, held'[to])
       /\ \A p \in Elements(puts') : Named(Mined', keys', p.to, p.value)
  <2>1. \A to \in DOMAIN held : Named(Mined, keys, to, held[to])
    BY DEF NamesInv
  <2> QED BY <1>2, <1>4, <1>8, <1>9, <2>1, NamedStays
<1>11. Harmless(held', puts')
  <2>1. ASSUME NEW p \in Elements(puts'), NEW q \in Elements(puts'), p.to = q.to
        PROVE  p.value = q.value
    <3>1. PICK a \in UnspentEntries : p = MarkedSpent(a)
      BY <1>7
    <3>2. PICK b \in UnspentEntries : q = MarkedSpent(b)
      BY <1>7
    <3>3. a = b
      BY <1>6, <2>1, <3>1, <3>2
    <3> QED BY <3>1, <3>2, <3>3
  <2> QED BY <1>2, <1>8, <2>1 DEF Harmless
<1>12. Deletes(puts') = {} /\ Deletes(puts) = {} /\ Creates(puts') \subseteq DOMAIN held
  BY <1>5, <1>8 DEF Deletes, Creates
<1>13. SpentGone'
  <2> SUFFICES ASSUME NEW t \in Mined, NEW name \in InputNames(t)
               PROVE  /\ name \in DOMAIN held => name \in Deletes(puts')
                      /\ name \notin Creates(puts')
                      /\ \E u \in Mined : name \in OutputNames(u)
    BY <1>2, <1>9 DEF SpentGone
  <2>1. /\ name \in DOMAIN held => name \in Deletes(puts)
        /\ \E u \in Mined : name \in OutputNames(u)
    BY DEF NamesInv, SpentGone
  <2> QED BY <1>12, <2>1
<1>14. WaitingInWallet'
  <2> DEFINE ins == [k \in 1..n |-> InputFrom(from[k])]
  <2>1. tx'.inputs = ins
    BY <1>1 DEF Builds
  <2>2. IsList(ins) /\ Len(ins) = n /\ \A k \in 1..n : ins[k] = InputFrom(from[k])
    BY <1>3 DEF IsList
  <2> HIDE DEF ins
  <2>3. Inputs(tx') = ins
    BY <2>1, <2>2 DEF Inputs, NullIsNoValue
  <2>4. InputNames(tx') \subseteq DOMAIN held
    <3>1. InputNames(tx') = {InputName(ins[k]) : k \in 1..n}
      BY <2>2, <2>3 DEF InputNames, Elements
    <3> QED BY <1>3, <1>6, <2>2, <3>1
  <2>5. Waiting' \subseteq Waiting \cup {tx'}
    BY <1>2 DEF Waiting
  <2> QED BY <1>2, <1>12, <2>4, <2>5 DEF NamesInv, WaitingInWallet
<1>15. CoinbasesKeyed'
  <2> SUFFICES ASSUME NEW t \in Mined, Inputs(t) = <<>>
               PROVE  \E k \in 1..keys' : t.outputs[1].public_key_hash = HashPubKey(k)
    BY <1>9 DEF CoinbasesKeyed
  <2>1. PICK k \in 1..keys : t.outputs[1].public_key_hash = HashPubKey(k)
    BY DEF NamesInv, CoinbasesKeyed
  <2>2. k \in 1..keys'
    BY <1>4
  <2> QED BY <2>1, <2>2
<1>16. ~(signed' >= 0)
  <2>1. ~InTheMaking
    BY <1>2 DEF InTheMaking, IsBuilt, NullIsNoValue
  <2>2. signed = -1
    BY <2>1 DEF ValuesInv, Underway, NothingInHand
  <2> QED BY <1>2, <2>2
<1> QED BY <1>8, <1>10, <1>11, <1>13, <1>14, <1>15, <1>16 DEF NamesInv

\* Nothing but what waits has changed, and its inputs have their names still.
LEMMA NamesStay ==
  ASSUME NamesInv, held' = held, puts' = puts, keys' = keys,
         \A t \in Waiting' : \E u \in Waiting : InputNames(t) = InputNames(u),
         signed' >= 0 => puts = <<>>
  PROVE  NamesInv'
<1>1. Mined' = Mined
  BY DEF Mined
<1>2. SpentGone' /\ CoinbasesKeyed'
  BY <1>1 DEF NamesInv, SpentGone, CoinbasesKeyed
<1>3. WaitingInWallet'
  BY DEF NamesInv, WaitingInWallet
<1>4. /\ \A to \in DOMAIN held' : Named(Mined', keys', to, held'[to])
      /\ \A p \in Elements(puts') : p.value # NULL => Named(Mined', keys', p.to, p.value)
      /\ \A p \in Elements(puts') : p.to[1] = "blocks" => p.value # NULL
      /\ Harmless(held', puts')
  BY <1>1 DEF NamesInv
<1> QED BY <1>2, <1>3, <1>4 DEF NamesInv

LEMMA SignNames ==
  NullIsNoValue /\ ValuesInv /\ NamesInv /\ (HashForSigning \/ SignInput) => NamesInv'
<1> SUFFICES ASSUME NullIsNoValue, ValuesInv, NamesInv, HashForSigning \/ SignInput
             PROVE  NamesInv'
  OBVIOUS
<1>1. CASE HashForSigning
  <2>1. /\ held' = held /\ puts' = puts /\ keys' = keys /\ pending' = pending /\ tx' = tx
        /\ puts = <<>>
    BY <1>1 DEF HashForSigning
  <2>2. Waiting' = Waiting
    BY <2>1 DEF Waiting
  <2> QED BY <2>1, <2>2, NamesStay
<1>2. CASE SignInput
  <2> DEFINE place == signed + 1
             key == input_keys[place]
             n == Len(tx.inputs)
             in == WithSignature(tx.inputs[place], key, tx_hash)
  <2>1. /\ held' = held /\ puts' = puts /\ keys' = keys /\ pending' = pending
        /\ signed >= 0 /\ signed < n /\ tx' = SignedAt(tx, place, key, tx_hash)
    BY <1>2 DEF SignInput, SignedAt
  <2>2. IsBuilt(tx) /\ n \in Nat /\ place \in 1..n /\ IsInput(tx.inputs[place])
    <3>1. InTheMaking /\ signed \in 0..n
      BY <2>1 DEF ValuesInv, Underway, NothingInHand, InTheMaking
    <3>2. IsBuilt(tx) /\ n \in Nat
      BY <3>1 DEF InTheMaking, IsBuilt, IsList
    <3> QED BY <2>1, <3>1, <3>2 DEF IsBuilt, IsSpend
  <2>3. tx' = [inputs |-> InputsSigned(tx, place, in), outputs |-> tx.outputs]
    BY <2>1, <2>2, InputSigned
  <2>4. InputName(in) = InputName(tx.inputs[place])
    <3> DEFINE old == tx.inputs[place]
    <3>1. in = [old EXCEPT !.signature = Signature(key, tx_hash), !.sig_len = SIGNATURE_LEN]
      BY DEF WithSignature
    <3>2. old = [pub_key |-> old.pub_key, sig_len |-> old.sig_len, signature |-> old.signature,
                 prev_tx_id |-> old.prev_tx_id, prev_utxo_output |-> old.prev_utxo_output]
      BY <2>2 DEF IsInput
    <3> HIDE DEF in, old
    <3>3. in.prev_tx_id = old.prev_tx_id /\ in.prev_utxo_output = old.prev_utxo_output
      BY <3>1, <3>2
    <3>4. InputName(in) = InputName(old)
      BY <3>3 DEF InputName
    <3> QED BY <3>4 DEF old
  <2> HIDE DEF in, key
  <2>5. InputNames(tx') = InputNames(tx)
    <3> DEFINE more == InputsSigned(tx, place, in)
               ins == tx.inputs
    <3>1. IsList(more) /\ Len(more) = n /\ \A k \in 1..n : more[k] = IF k = place THEN in ELSE ins[k]
      BY <2>2 DEF InputsSigned, IsList
    <3>2. IsList(ins) /\ Len(ins) = n
      BY <2>2 DEF IsBuilt
    <3>3. Inputs(tx') = more /\ Inputs(tx) = ins
      <4>1. tx'.inputs = more
        BY <2>3
      <4> HIDE DEF more
      <4> QED BY <3>1, <3>2, <4>1 DEF Inputs, NullIsNoValue
    <3> HIDE DEF more, ins, n, place
    <3>4. Elements(more) = {more[k] : k \in 1..n} /\ Elements(ins) = {ins[k] : k \in 1..n}
      BY <3>1, <3>2 DEF Elements
    <3>5. \A k \in 1..n : InputName(more[k]) = InputName(ins[k])
      BY <2>4, <3>1 DEF ins
    <3> QED BY <3>3, <3>4, <3>5 DEF InputNames
  <2>6. tx # NULL
    BY <2>2 DEF IsBuilt, NullIsNoValue
  <2>7. \A t \in Waiting' : \E u \in Waiting : InputNames(t) = InputNames(u)
    <3>1. Waiting = Elements(pending) \cup {tx} /\ Waiting' \subseteq Elements(pending) \cup {tx'}
      BY <2>1, <2>6 DEF Waiting
    <3> QED BY <2>5, <3>1
  <2>8. puts = <<>>
    BY <2>1 DEF NamesInv
  <2> QED BY <2>1, <2>7, <2>8, NamesStay
<1> QED BY <1>1, <1>2

LEMMA FinishNames == NullIsNoValue /\ ValuesInv /\ NamesInv /\ FinishTx => NamesInv'
<1> SUFFICES ASSUME NullIsNoValue, ValuesInv, NamesInv, FinishTx PROVE NamesInv'
  OBVIOUS
<1>1. /\ held' = held /\ keys' = keys /\ tx # NULL /\ signed = Len(tx.inputs)
      /\ pending' = Append(pending, tx) /\ tx' = NULL /\ signed' = -1
      /\ puts' = <<PutKey(keys)>> \/ puts' = <<>>
  BY Zenon DEF FinishTx
<1>2. IsBuilt(tx) /\ signed >= 0
  <2>1. InTheMaking
    BY <1>1 DEF ValuesInv, Underway, NothingInHand
  <2>2. IsBuilt(tx)
    BY <2>1 DEF InTheMaking
  <2> QED BY <1>1, <2>2 DEF IsBuilt, IsList
<1>3. Elements(puts) = {} /\ \A p \in Elements(puts') : p = PutKey(keys)
  <2>1. puts = <<>>
    BY <1>2 DEF NamesInv
  <2> QED BY <1>1, <2>1, FewElements
<1>4. Waiting' = Waiting
  <2> DEFINE n == Len(pending)
  <2>1. /\ n \in Nat /\ Len(pending') = n + 1
        /\ \A k \in 1..(n + 1) : pending'[k] = IF k = n + 1 THEN tx ELSE pending[k]
    BY <1>1, <1>2, PendingOneMore DEF ValuesInv, IsList
  <2>2. Elements(pending') = {pending'[k] : k \in 1..(n + 1)} /\ Elements(pending) = {pending[k] : k \in 1..n}
    BY <2>1 DEF Elements
  <2>3. Waiting' = Elements(pending') /\ Waiting = Elements(pending) \cup {tx}
    BY <1>1 DEF Waiting
  <2> HIDE DEF n
  <2>4. /\ n + 1 \in 1..(n + 1) /\ \A k \in 1..n : k \in 1..(n + 1) /\ k # n + 1
        /\ \A k \in 1..(n + 1) : k # n + 1 => k \in 1..n
    BY <2>1
  <2> QED BY <2>1, <2>2, <2>3, <2>4
<1>5. PutKey(keys).to = <<"keys", HashPubKey(keys)>> /\ PutKey(keys).value = KeyPair(keys)
  BY DEF PutKey
<1>6. PutKey(keys).to[1] = "keys" /\ PutKey(keys).value # NULL
  BY <1>5 DEF KeyPair, NullIsNoValue
<1>7. Mined' = Mined
  <2>1. BlocksIn(held', puts') = BlocksIn(held, puts)
    BY <1>1, <1>3, <1>6 DEF BlocksIn
  <2> QED BY <2>1 DEF Mined, MinedIn
<1>8. Named(Mined, keys, PutKey(keys).to, PutKey(keys).value)
  BY <1>5 DEF Named
<1>9. Harmless(held', puts')
  <2>1. ASSUME PutKey(keys).to \in DOMAIN held
        PROVE  held[PutKey(keys).to] = PutKey(keys).value
    <3> DEFINE to == PutKey(keys).to
    <3>1. Named(Mined, keys, to, held[to])
      BY <2>1 DEF NamesInv
    <3>2. PICK k : to = <<"keys", HashPubKey(k)>> /\ held[to] = KeyPair(k)
      BY <1>6, <3>1 DEF Named
    <3>3. HashPubKey(k) = HashPubKey(keys)
      BY <1>5, <3>2
    <3>4. k = keys
      BY Zenon, <3>3, KeyHashTells
    <3> QED BY <1>5, <3>2, <3>4
  <2> QED BY <1>1, <1>3, <2>1 DEF Harmless
<1>10. Deletes(puts) = {} /\ Deletes(puts') = {} /\ \A name \in Creates(puts') : name[1] = "keys"
  BY <1>3, <1>6 DEF Deletes, Creates
<1>11. SpentGone'
  <2> SUFFICES ASSUME NEW t \in Mined, NEW name \in InputNames(t)
               PROVE  /\ name \in DOMAIN held => name \in Deletes(puts')
                      /\ name \notin Creates(puts')
                      /\ \E u \in Mined : name \in OutputNames(u)
    BY <1>1, <1>7 DEF SpentGone
  <2>1. name \in DOMAIN held => name \in Deletes(puts)
    BY DEF NamesInv, SpentGone
  <2>2. \E u \in Mined : name \in OutputNames(u)
    BY DEF NamesInv, SpentGone
  <2>3. name[1] = "wallet"
    BY WriteTags DEF InputNames
  <2> QED BY <1>10, <2>1, <2>2, <2>3
<1>12. WaitingInWallet' /\ CoinbasesKeyed'
  BY <1>1, <1>4, <1>7, <1>10 DEF NamesInv, WaitingInWallet, CoinbasesKeyed
<1>13. /\ \A to \in DOMAIN held' : Named(Mined', keys', to, held'[to])
       /\ \A p \in Elements(puts') : Named(Mined', keys', p.to, p.value) /\ p.to[1] # "blocks"
  BY <1>1, <1>3, <1>6, <1>7, <1>8 DEF NamesInv
<1> QED BY <1>1, <1>9, <1>11, <1>12, <1>13 DEF NamesInv

LEMMA NamesKept == NullIsNoValue /\ ValuesInv /\ NamesInv /\ [Next]_vars => NamesInv'
<1> SUFFICES ASSUME NullIsNoValue, ValuesInv, NamesInv, [Next]_vars PROVE NamesInv'
  OBVIOUS
<1>1. CASE Next
  BY <1>1, PutNames, MineNames, BuildNames, SignNames, FinishNames DEF Next
<1>2. CASE UNCHANGED vars
  <2>1. Waiting' = Waiting
    BY <1>2 DEF vars, Waiting
  <2> QED BY <1>2, <2>1, NamesStay DEF vars, NamesInv
<1> QED BY <1>1, <1>2

\* Whatever the node does, an entry has the name its value calls for, and the
\* writes ahead find their places free, or what they only mark as spent.
THEOREM NamesInvariant == NullIsNoValue => (Spec => []NamesInv)
<1> SUFFICES ASSUME NullIsNoValue PROVE Spec => []NamesInv
  OBVIOUS
<1>1. Spec => []ValuesInv
  BY ValuesInvariant
<1>2. Init => NamesInv
  BY InitNames
<1>3. ValuesInv /\ NamesInv /\ [Next]_vars => NamesInv'
  BY NamesKept
<1> QED BY <1>1, <1>2, <1>3, PTL DEF Spec

\* No put of mine_block, build_tx or handle_block replaces a value by another,
\* except that a wallet entry becomes spent: hashes tell keys, headers and
\* transactions apart, and no transaction is mined twice.
THEOREM NeverOverwritten == NullIsNoValue => (Spec => NothingOverwritten)
<1> SUFFICES ASSUME NullIsNoValue PROVE Spec => NothingOverwritten
  OBVIOUS
<1> DEFINE Same(to) ==
             \/ held'[to] = held[to]
             \/ /\ to[1] = "wallet" /\ held[to].spent = 0
                /\ held'[to] = [held[to] EXCEPT !.spent = 1]
           Kept == \A to \in DOMAIN held \cap DOMAIN held' : Same(to)
<1>1. ASSUME ValuesInv, NamesInv, [Next]_vars
      PROVE  Kept
  <2>1. CASE PutNext
    <3> DEFINE p == Head(puts)
    <3>1. puts # <<>> /\ p \in Elements(puts)
      BY <2>1, <1>1, HeadAndTail DEF PutNext, ValuesInv, AllPuts
    <3>2. CASE p.value = NULL
      <4>1. held' = [k \in DOMAIN held \ {p.to} |-> held[k]]
        BY <2>1, <3>2 DEF PutNext
      <4> QED BY <4>1
    <3>3. CASE p.value # NULL
      <4>1. held' = [k \in DOMAIN held \cup {p.to} |-> IF k = p.to THEN p.value ELSE held[k]]
        BY <2>1, <3>3 DEF PutNext
      <4>2. p.to \in DOMAIN held => held[p.to] = p.value \/ Marks(held[p.to], p)
        BY <1>1, <3>1, <3>3 DEF NamesInv, Harmless
      <4> HIDE DEF p
      <4> QED BY <4>1, <4>2 DEF Marks
    <3> QED BY <3>2, <3>3
  <2>2. CASE UNCHANGED held
    BY <2>2
  <2>3. PutNext \/ UNCHANGED held
    BY <1>1 DEF Next, vars, Mine, BuildTx, HashForSigning, SignInput, FinishTx
  <2> QED BY <2>1, <2>2, <2>3
<1>2. ValuesInv /\ NamesInv /\ [Next]_vars
        => [\A to \in DOMAIN held \cap DOMAIN held' :
              \/ held'[to] = held[to]
              \/ to[1] = "wallet" /\ held[to].spent = 0 /\ held'[to] = [held[to] EXCEPT !.spent = 1]]_vars
  BY <1>1
<1>3. Spec => []ValuesInv
  BY ValuesInvariant
<1>4. Spec => []NamesInv
  BY NamesInvariant
<1> QED BY <1>2, <1>3, <1>4, PTL DEF Spec, NothingOverwritten
=============================================================================

---------------------------- MODULE Shell_proofs ----------------------------
(***************************************************************************)
(* For every ARG_SIZE, every size of a pointer from 2 on and all lines: a  *)
(* line of fewer than ARG_SIZE words is tokenized in bounds, a command     *)
(* gets the words of its line, and what ends the shell is told.            *)
(***************************************************************************)
EXTENDS Shell, Induction, TLAPS

Words == DOMAIN Shortened

\* How far the tokenizer is, and the size of args that goes with it: until
\* ARG_SIZE words are stored it is what malloc gave; then it is too small
\* for the very next store.
Tokens ==
  /\ i \in 0..Len(words)
  /\ DOMAIN args \subseteq Nat
  /\ \A k \in 0..(i - 1) : k \in DOMAIN args /\ args[k] = words[k + 1]
  /\ i < ARG_SIZE => args_len = ARG_SIZE /\ bytes = SIZEOF_PTR * ARG_SIZE /\ ~past
  /\ i = ARG_SIZE /\ pc = "tokenize" => bytes = 2 * ARG_SIZE
  /\ i > ARG_SIZE => past

Terminated ==
  /\ i = Len(words)
  /\ i \in DOMAIN args /\ args[i] = NULL
  /\ past <=> Len(words) >= ARG_SIZE

IInv ==
  /\ TypeOK
  /\ DOMAIN args \subseteq Nat
  /\ pc \in {"tokenize", "execute"} => Tokens /\ (words = <<>> => blanks > 0)
  /\ pc = "execute" => Terminated
  /\ EndsOnlyFor

-----------------------------------------------------------------------------
(* Lemmas.                                                                 *)

\* What is left of a line is words; an empty line is one without words and blanks.
LEMMA LineLeft ==
  ASSUME NEW line \in Lines
  PROVE  /\ WithoutLast(line).words \in Seq(Words)
         /\ WithoutLast(line).blanks \in Nat
         /\ WithoutLast(line).words = <<>> /\ ~EmptyLine(WithoutLast(line))
              => WithoutLast(line).blanks > 0
<1> DEFINE left == WithoutLast(line)
<1>1. left.words \in Seq(Words) /\ left.blanks \in Nat
  <2>1. CASE line.newline
    BY <2>1, LinesAssumption DEF WithoutLast, Words
  <2>2. CASE ~line.newline /\ line.blanks > 0
    BY <2>2, LinesAssumption DEF WithoutLast, Words
  <2>3. CASE ~line.newline /\ ~(line.blanks > 0)
    <3> DEFINE w == Shortened[Last(line.words)]
               tail == IF w = NoWord THEN <<>> ELSE <<w>>
    <3>1. line.words \in Seq(Words) /\ line.words # <<>>
      BY <2>3, LinesAssumption DEF Words
    <3>2. Front(line.words) \in Seq(Words) /\ Last(line.words) \in Words
      BY <3>1 DEF Front, Last
    <3>3. tail \in Seq(Words)
      <4>1. w = NoWord \/ w \in Words
        BY <3>2, WordsAssumption DEF Words
      <4>2. CASE w = NoWord
        BY <4>2
      <4>3. CASE w # NoWord
        <5> HIDE DEF w
        <5> QED BY <4>1, <4>3
      <4> QED BY <4>2, <4>3
    <3>4. left.words = Front(line.words) \o tail /\ left.blanks \in {0, 1}
      BY <2>3 DEF WithoutLast
    <3> HIDE DEF tail
    <3> QED BY <3>2, <3>3, <3>4
  <2> QED BY <2>1, <2>2, <2>3, LinesAssumption
<1>2. left = [words |-> left.words, blanks |-> left.blanks]
  BY DEF WithoutLast
<1>3. left.words = <<>> /\ ~EmptyLine(left) => left.blanks > 0
  BY <1>1, <1>2 DEF EmptyLine
<1> QED BY <1>1, <1>3

\* Twice as many bytes as there were slots are not enough for one slot more.
LEMMA GrownTooLittle ==
  ASSUME NEW n \in Nat, NEW size \in Nat, size >= 2
  PROVE  size * (n + 1) > 2 * n
<1>1. size * (n + 1) = size * n + size
  OBVIOUS
<1>2. size * n >= 2 * n
  OBVIOUS
<1> QED BY <1>1, <1>2

\* The slots malloc gave are enough for a store into any of the first ARG_SIZE.
LEMMA FirstSlotsFit ==
  ASSUME NEW n \in Nat, NEW m \in Nat, NEW size \in Nat, n < m
  PROVE  ~(size * (n + 1) > size * m)
<1>1. m = (n + 1) + (m - n - 1) /\ m - n - 1 \in Nat
  OBVIOUS
<1> DEFINE d == m - n - 1
<1>2. size * ((n + 1) + d) = size * (n + 1) + size * d
  OBVIOUS
<1>3. size * d >= 0
  BY <1>1
<1> QED BY <1>1, <1>2, <1>3

\* The first null pointer is where the line ends.
LEMMA ArgumentsOfLine ==
  ASSUME IInv, pc = "execute"
  PROVE  ArgLen = Len(words) /\ Arguments = words
<1> DEFINE nulls == {l \in DOMAIN args : args[l] = NULL}
<1>1. Len(words) \in nulls /\ Len(words) \in Nat
  BY DEF IInv, TypeOK, Words, Terminated
<1>2. \A l \in nulls : l \in Nat /\ l >= Len(words)
  <2> SUFFICES ASSUME NEW l \in nulls, l < Len(words) PROVE FALSE
    BY <1>1 DEF IInv, TypeOK, Words
  <2>1. l \in Nat /\ args[l] = words[l + 1] /\ words[l + 1] \in Words
    BY DEF IInv, TypeOK, Words, Tokens, Terminated
  <2> QED BY <2>1, WordsAssumption DEF Words
<1>3. Min(nulls) = Len(words)
  BY <1>1, <1>2 DEF Min
<1>4. ArgLen = Len(words)
  BY <1>1, <1>3 DEF ArgLen
<1>5. \A n \in 1..Len(words) : args[n - 1] = words[n]
  BY DEF IInv, TypeOK, Words, Tokens, Terminated
<1>6. words = [n \in 1..Len(words) |-> words[n]]
  BY DEF IInv, TypeOK, Words
<1> QED BY <1>4, <1>5, <1>6 DEF Arguments

-----------------------------------------------------------------------------
(* The hash a word is turned into.                                         *)

\* What str_to_buf goes through, from what it starts, and one store.
Turns(pairs) == [n \in 1..Min({HASH_LEN, Len(pairs)}) |-> n]
Cleared == [a \in DOMAIN dest |-> IF a < HASH_LEN THEN 0 ELSE Neighbour]
StoreUint(pairs, mem, n) ==
  IF pairs[n] = BadPair THEN mem
  ELSE [a \in DOMAIN mem |-> IF a = n - 1 THEN pairs[n]
                             ELSE IF a \in n..(n + SIZEOF_UINT - 2) THEN 0 ELSE mem[a]]

\* g has the memory after each set of turns, the last turn last.
Stores(g, pairs) ==
  g = [s \in SUBSET DOMAIN Turns(pairs) |->
         IF s = {} THEN Cleared ELSE StoreUint(pairs, g[s \ {Max(s)}], Turns(pairs)[Max(s)])]

\* After n turns: the digits of n bytes, zeros up to the end of the hash, and
\* nothing behind it before the last bytes of the hash were stored.
Filled(pairs, mem, n) ==
  /\ DOMAIN mem = DOMAIN NewDest
  /\ \A a \in DOMAIN mem :
       /\ a < HASH_LEN =>
            mem[a] = IF a < n /\ pairs[a + 1] # BadPair THEN pairs[a + 1] ELSE 0
       /\ a >= HASH_LEN /\ mem[a] # Neighbour => n + SIZEOF_UINT > HASH_LEN + 1

HexByte == 0..255 \cup {BadPair}
HexList == Seq(HexByte)

\* The loop ends with the hash or with the digits.
LEMMA LastTurn ==
  ASSUME NEW pairs \in HexList
  PROVE  /\ Min({HASH_LEN, Len(pairs)}) \in Nat
         /\ Min({HASH_LEN, Len(pairs)}) <= HASH_LEN /\ Min({HASH_LEN, Len(pairs)}) <= Len(pairs)
         /\ \A a \in Nat : a < HASH_LEN => (a < Min({HASH_LEN, Len(pairs)}) <=> a < Len(pairs))
<1>1. Len(pairs) \in Nat
  BY DEF HexList
<1> QED BY <1>1, SizesAssumption DEF Min

\* The last of the first m + 1 turns.
LEMMA LastOfTurns ==
  ASSUME NEW m \in Nat
  PROVE  Max(1..(m + 1)) = m + 1
<1>1. m + 1 \in 1..(m + 1) /\ \A y \in 1..(m + 1) : m + 1 >= y
  OBVIOUS
<1>2. \A x \in 1..(m + 1) : x >= m + 1 => x = m + 1
  OBVIOUS
<1> QED BY <1>1, <1>2 DEF Max

\* One turn.
LEMMA OneTurn ==
  ASSUME NEW pairs \in HexList, NEW n \in Nat, n < HASH_LEN, n < Len(pairs),
         NEW mem, Filled(pairs, mem, n)
  PROVE  Filled(pairs, StoreUint(pairs, mem, n + 1), n + 1)
<1> DEFINE new == StoreUint(pairs, mem, n + 1)
<1> SUFFICES Filled(pairs, new, n + 1)
  OBVIOUS
<1>1. /\ DOMAIN new = DOMAIN mem /\ DOMAIN mem = DOMAIN NewDest
      /\ DOMAIN mem = 0..(HASH_LEN + SIZEOF_UINT - 1)
  BY DEF StoreUint, Filled, NewDest
<1>2. CASE pairs[n + 1] = BadPair
  <2>1. new = mem
    BY <1>2 DEF StoreUint
  <2>2. \A a \in DOMAIN mem : a \in Nat /\ (a < n + 1 => a < n \/ a = n)
    BY <1>1, SizesAssumption
  <2> HIDE DEF new
  <2> SUFFICES ASSUME NEW a \in DOMAIN mem
               PROVE  /\ a < HASH_LEN =>
                           mem[a] = IF a < n + 1 /\ pairs[a + 1] # BadPair THEN pairs[a + 1] ELSE 0
                      /\ a >= HASH_LEN /\ mem[a] # Neighbour => n + 1 + SIZEOF_UINT > HASH_LEN + 1
    BY <1>1, <2>1 DEF Filled
  <2>3. /\ a < HASH_LEN => mem[a] = IF a < n /\ pairs[a + 1] # BadPair THEN pairs[a + 1] ELSE 0
        /\ a >= HASH_LEN /\ mem[a] # Neighbour => n + SIZEOF_UINT > HASH_LEN + 1
    BY DEF Filled
  <2>4. a \in Nat /\ (a < n + 1 <=> a < n \/ a = n)
    BY <2>2
  <2> QED BY <1>2, <2>3, <2>4, SizesAssumption
<1>3. CASE pairs[n + 1] # BadPair
  <2>1. \A a \in DOMAIN mem : new[a] = IF a = n THEN pairs[n + 1]
                                       ELSE IF a \in (n + 1)..(n + SIZEOF_UINT - 1) THEN 0 ELSE mem[a]
    <3>1. n + 1 - 1 = n /\ (n + 1) + SIZEOF_UINT - 2 = n + SIZEOF_UINT - 1
      BY SizesAssumption
    <3> QED BY <1>3, <3>1 DEF StoreUint
  <2> HIDE DEF new
  <2> SUFFICES ASSUME NEW a \in DOMAIN mem
               PROVE  /\ a < HASH_LEN =>
                           new[a] = IF a < n + 1 /\ pairs[a + 1] # BadPair THEN pairs[a + 1] ELSE 0
                      /\ a >= HASH_LEN /\ new[a] # Neighbour => n + 1 + SIZEOF_UINT > HASH_LEN + 1
    BY <1>1 DEF Filled
  <2>2. a \in Nat /\ HASH_LEN \in Nat /\ SIZEOF_UINT \in Nat
    BY <1>1, SizesAssumption
  <2>3. /\ a < HASH_LEN => mem[a] = IF a < n /\ pairs[a + 1] # BadPair THEN pairs[a + 1] ELSE 0
        /\ a >= HASH_LEN /\ mem[a] # Neighbour => n + SIZEOF_UINT > HASH_LEN + 1
    BY DEF Filled
  <2>4. CASE a = n
    BY <1>3, <2>1, <2>2, <2>4
  <2>5. CASE a # n /\ a \in (n + 1)..(n + SIZEOF_UINT - 1)
    BY <2>1, <2>2, <2>5
  <2>6. CASE a # n /\ a \notin (n + 1)..(n + SIZEOF_UINT - 1)
    BY <2>1, <2>2, <2>3, <2>6
  <2> QED BY <2>4, <2>5, <2>6
<1> QED BY <1>2, <1>3

\* All turns.
LEMMA StrToBufFills ==
  ASSUME NEW pairs \in HexList, DOMAIN dest = DOMAIN NewDest
  PROVE  Filled(pairs, StrToBuf(pairs), Min({HASH_LEN, Len(pairs)}))
<1> DEFINE N == Min({HASH_LEN, Len(pairs)})
           D == DOMAIN Turns(pairs)
           V == [DOMAIN dest -> 0..255 \cup {Neighbour}]
           c == [s \in SUBSET D |-> Max(s)]
           step == [p \in D \X V |-> StoreUint(pairs, p[2], p[1])]
           g == CHOOSE g : Stores(g, pairs)
<1>1. StrToBuf(pairs) = g[D]
  BY Zenon DEF StrToBuf, FoldLeft, MapThenFoldSet, Stores, Turns, Cleared, StoreUint
<1>2. N \in Nat /\ N <= HASH_LEN /\ N <= Len(pairs) /\ D = 1..N /\ \A n \in D : Turns(pairs)[n] = n
  BY LastTurn DEF Turns
<1>3. \E f : Stores(f, pairs)
  <2>1. Picks(c, D) /\ IsFiniteSet(D)
    <3>1. ASSUME NEW s \in SUBSET D, s # {} PROVE c[s] \in s
      <4>1. s \in SUBSET (1..N)
        BY <1>2
      <4> HIDE DEF N
      <4>2. Max(s) \in s
        BY <1>2, <3>1, <4>1, LastIndex
      <4> QED BY <4>2
    <3>2. IsFiniteSet(1..N)
      BY <1>2, FS_Interval
    <3> HIDE DEF c, D, N
    <3> QED BY <1>2, <3>1, <3>2 DEF Picks
  <2>2. Cleared \in V
    BY DEF Cleared
  <2>3. step \in [D \X V -> V]
    <3>1. ASSUME NEW n \in D, NEW mem \in V PROVE StoreUint(pairs, mem, n) \in V
      <4>1. pairs[n] \in HexByte
        <5> HIDE DEF D, N, V, c, step, g
        <5>1. Len(pairs) \in Nat /\ n \in 1..N
          BY <1>2 DEF HexList
        <5>2. n \in 1..Len(pairs)
          BY <1>2, <5>1
        <5>3. \A k \in 1..Len(pairs) : pairs[k] \in HexByte
          BY DEF HexList
        <5> QED BY <5>2, <5>3
      <4> HIDE DEF D
      <4> QED BY <4>1 DEF StoreUint, HexByte
    <3> HIDE DEF D, V
    <3> QED BY <3>1
  <2>4. Foldable(D, c, V, Cleared, step)
    <3> HIDE DEF c, D, V, step
    <3> QED BY <2>1, <2>2, <2>3 DEF Foldable
  <2>5. PICK f : Folds(f, D, c, V, Cleared, step)
    <3> HIDE DEF c, D, V, step
    <3> QED BY <2>4, FoldExists
  <2> DEFINE h == [s \in SUBSET D |->
                     IF s = {} THEN Cleared ELSE StoreUint(pairs, f[s \ {Max(s)}], Turns(pairs)[Max(s)])]
  <2>6. ASSUME NEW s \in SUBSET D PROVE f[s] = h[s]
    <3>1. f[s] = IF s = {} THEN Cleared ELSE step[<<c[s], f[s \ {c[s]}]>>]
      BY <2>5 DEF Folds
    <3>2. CASE s # {}
      <4>1. c[s] = Max(s) /\ c[s] \in D
        BY <2>1, <3>2 DEF Picks
      <4>2. f[s \ {c[s]}] \in V
        BY <2>5 DEF Folds
      <4>3. step[<<c[s], f[s \ {c[s]}]>>] = StoreUint(pairs, f[s \ {c[s]}], c[s])
        <5> HIDE DEF c, V, D
        <5> QED BY <4>1, <4>2
      <4> QED BY <1>2, <3>1, <3>2, <4>1, <4>3
    <3> QED BY <3>1, <3>2
  <2>7. f = h
    <3> HIDE DEF V, c, step, h
    <3>1. f \in [SUBSET D -> V]
      BY <2>5 DEF Folds
    <3>2. h = [s \in SUBSET D |-> h[s]]
      BY DEF h
    <3> HIDE DEF D
    <3> QED BY <2>6, <3>1, <3>2
  <2> QED BY <2>7 DEF Stores
<1>4. Stores(g, pairs)
  BY <1>3
<1>5. \A s \in SUBSET D :
        g[s] = IF s = {} THEN Cleared ELSE StoreUint(pairs, g[s \ {Max(s)}], Turns(pairs)[Max(s)])
  <2>1. g = [s \in SUBSET D |->
               IF s = {} THEN Cleared ELSE StoreUint(pairs, g[s \ {Max(s)}], Turns(pairs)[Max(s)])]
    BY <1>4 DEF Stores
  <2> HIDE DEF g, D
  <2> QED BY <2>1
<1> HIDE DEF g, N, D
<1> DEFINE S == {n \in Nat : n <= N => Filled(pairs, g[1..n], n)}
<1>6. 0 \in S
  <2>1. 1..0 = {} /\ {} \in SUBSET D
    OBVIOUS
  <2>2. g[1..0] = Cleared
    BY <1>5, <2>1
  <2>3. \A a \in DOMAIN NewDest : a \in Nat
    BY SizesAssumption DEF NewDest
  <2>4. Filled(pairs, Cleared, 0)
    BY <2>3, SizesAssumption DEF Cleared, Filled
  <2> QED BY <2>2, <2>4
<1>7. \A n \in Nat : n \in S => n + 1 \in S
  <2> SUFFICES ASSUME NEW n \in S, n + 1 <= N PROVE Filled(pairs, g[1..(n + 1)], n + 1)
    OBVIOUS
  <2>1. Filled(pairs, g[1..n], n) /\ n < HASH_LEN /\ n < Len(pairs)
    <3>1. Len(pairs) \in Nat /\ HASH_LEN \in Nat
      BY SizesAssumption DEF HexList
    <3>2. N \in Nat /\ N <= HASH_LEN /\ N <= Len(pairs) /\ n + 1 <= N /\ n \in Nat
      BY <1>2
    <3>3. Filled(pairs, g[1..n], n)
      BY <3>2
    <3> QED BY <3>1, <3>2, <3>3
  <2>2. Max(1..(n + 1)) = n + 1 /\ (1..(n + 1)) \ {n + 1} = 1..n
    BY LastOfTurns
  <2>3. 1..(n + 1) \in SUBSET D /\ 1..(n + 1) # {} /\ n + 1 \in D
    <3>1. n \in Nat /\ N \in Nat /\ n + 1 <= N
      BY <1>2
    <3> HIDE DEF S
    <3>2. D = 1..N
      BY <1>2
    <3>3. 1..(n + 1) \subseteq 1..N /\ n + 1 \in 1..(n + 1)
      BY <3>1
    <3> QED BY <3>2, <3>3
  <2>4. g[1..(n + 1)] = StoreUint(pairs, g[1..n], n + 1)
    <3> DEFINE s == 1..(n + 1)
    <3>1. g[s] = StoreUint(pairs, g[s \ {Max(s)}], Turns(pairs)[Max(s)])
      BY <1>5, <2>3
    <3>2. Turns(pairs)[n + 1] = n + 1
      BY <1>2, <2>3
    <3> HIDE DEF S
    <3> QED BY <2>2, <3>1, <3>2
  <2> QED BY <2>1, <2>4, OneTurn
<1>8. N \in S
  <2> HIDE DEF S
  <2> QED BY <1>2, <1>6, <1>7, Inductively
<1> QED BY <1>1, <1>2, <1>8 DEF N

-----------------------------------------------------------------------------
(* Every step preserves IInv.                                              *)

LEMMA StoreWordStep == ASSUME IInv, StoreWord PROVE IInv'
<1>1. /\ pc = "tokenize" /\ pc' = pc /\ words' = words /\ blanks' = blanks
      /\ i \in Nat /\ i < Len(words) /\ i' = i + 1 /\ Len(words) \in Nat
  BY DEF IInv, TypeOK, Words, Tokens, StoreWord
<1>2. /\ args' = [k \in DOMAIN args \cup {i} |-> IF k = i THEN words[i + 1] ELSE args[k]]
      /\ past' = (past \/ SIZEOF_PTR * (i + 1) > bytes)
      /\ corrupt' = (corrupt \/ SIZEOF_PTR * (i + 1) > bytes)
  BY DEF StoreWord, Store
<1>3. DOMAIN args' \subseteq Nat /\ \A k \in 0..(i' - 1) : k \in DOMAIN args' /\ args'[k] = words[k + 1]
  BY <1>1, <1>2 DEF IInv, TypeOK, Words, Tokens
<1>4. i' < ARG_SIZE => args_len' = ARG_SIZE /\ bytes' = SIZEOF_PTR * ARG_SIZE /\ ~past'
  <2> SUFFICES ASSUME i' < ARG_SIZE
               PROVE  args_len' = ARG_SIZE /\ bytes' = SIZEOF_PTR * ARG_SIZE /\ ~past'
    OBVIOUS
  <2>1. args_len = ARG_SIZE /\ bytes = SIZEOF_PTR * ARG_SIZE /\ ~past
    BY <1>1, SizesAssumption DEF IInv, TypeOK, Words, Tokens
  <2>2. ~(SIZEOF_PTR * (i + 1) > SIZEOF_PTR * ARG_SIZE)
    BY <1>1, SizesAssumption, FirstSlotsFit
  <2>3. args_len' = args_len /\ bytes' = bytes
    BY <1>1, <2>1, SizesAssumption DEF StoreWord
  <2> QED BY <1>2, <2>1, <2>2, <2>3
<1>5. i' = ARG_SIZE => bytes' = 2 * ARG_SIZE
  BY <1>1, SizesAssumption DEF IInv, TypeOK, Words, Tokens, StoreWord, ReallocSize
<1>6. i' > ARG_SIZE => past'
  <2> SUFFICES ASSUME i' > ARG_SIZE, ~past PROVE past'
    BY <1>2
  <2>1. i = ARG_SIZE /\ bytes = 2 * ARG_SIZE
    BY <1>1, SizesAssumption DEF IInv, TypeOK, Words, Tokens
  <2>2. SIZEOF_PTR * (i + 1) > bytes
    BY <2>1, SizesAssumption, GrownTooLittle
  <2> QED BY <1>2, <2>2
<1>7. past' \in BOOLEAN /\ corrupt' \in BOOLEAN /\ (past' => corrupt')
  BY <1>2 DEF IInv, TypeOK, Words
<1>8. \A k \in DOMAIN args' : args'[k] \in Words \cup {NULL, Garbage}
  <2>1. words[i + 1] \in Words
    BY <1>1 DEF IInv, TypeOK, Words
  <2> QED BY <1>2, <2>1 DEF IInv, TypeOK, Words
<1>9. TypeOK'
  BY <1>1, <1>7, <1>8 DEF IInv, TypeOK, Words, StoreWord
<1>10. Tokens'
  BY <1>1, <1>3, <1>4, <1>5, <1>6 DEF Tokens
<1> QED BY <1>1, <1>3, <1>9, <1>10 DEF IInv, EndsOnlyFor

LEMMA StoreNullStep == ASSUME IInv, StoreNull PROVE IInv'
<1>1. /\ pc = "tokenize" /\ pc' = "execute" /\ words' = words /\ blanks' = blanks
      /\ i \in Nat /\ i = Len(words) /\ i' = i /\ args_len' = args_len /\ bytes' = bytes
  BY DEF IInv, TypeOK, Words, Tokens, StoreNull
<1>2. /\ args' = [k \in DOMAIN args \cup {i} |-> IF k = i THEN NULL ELSE args[k]]
      /\ past' = (past \/ SIZEOF_PTR * (i + 1) > bytes)
      /\ corrupt' = (corrupt \/ SIZEOF_PTR * (i + 1) > bytes)
  BY DEF StoreNull, Store
<1>3. /\ DOMAIN args' \subseteq Nat /\ i \in DOMAIN args' /\ args'[i] = NULL
      /\ \A k \in 0..(i - 1) : k \in DOMAIN args' /\ args'[k] = words[k + 1]
  BY <1>1, <1>2 DEF IInv, TypeOK, Words, Tokens
<1>4. i < ARG_SIZE => args_len = ARG_SIZE /\ bytes = SIZEOF_PTR * ARG_SIZE /\ ~past'
  <2> SUFFICES ASSUME i < ARG_SIZE
               PROVE  args_len = ARG_SIZE /\ bytes = SIZEOF_PTR * ARG_SIZE /\ ~past'
    OBVIOUS
  <2>1. args_len = ARG_SIZE /\ bytes = SIZEOF_PTR * ARG_SIZE /\ ~past
    BY <1>1 DEF IInv, TypeOK, Words, Tokens
  <2>2. ~(SIZEOF_PTR * (i + 1) > SIZEOF_PTR * ARG_SIZE)
    BY <1>1, SizesAssumption, FirstSlotsFit
  <2> QED BY <1>2, <2>1, <2>2
<1>5. i >= ARG_SIZE => past'
  <2> SUFFICES ASSUME i >= ARG_SIZE, ~past PROVE past'
    BY <1>2
  <2>1. i = ARG_SIZE /\ bytes = 2 * ARG_SIZE
    BY <1>1, SizesAssumption DEF IInv, TypeOK, Words, Tokens
  <2>2. SIZEOF_PTR * (i + 1) > bytes
    BY <2>1, SizesAssumption, GrownTooLittle
  <2> QED BY <1>2, <2>2
<1>6. past' \in BOOLEAN /\ corrupt' \in BOOLEAN /\ (past' => corrupt')
  BY <1>2 DEF IInv, TypeOK, Words
<1>7. Tokens'
  BY <1>1, <1>3, <1>4, <1>5, SizesAssumption DEF IInv, TypeOK, Words, Tokens
<1>8. Terminated'
  BY <1>1, <1>3, <1>4, <1>5, <1>6, SizesAssumption DEF Terminated
<1>9. \A k \in DOMAIN args' : args'[k] \in Words \cup {NULL, Garbage}
  BY <1>2 DEF IInv, TypeOK, Words
<1>10. TypeOK'
  BY <1>1, <1>6, <1>9 DEF IInv, TypeOK, Words, StoreNull
<1> QED BY <1>1, <1>3, <1>7, <1>8, <1>10 DEF IInv, EndsOnlyFor

LEMMA ReadLineStep == ASSUME IInv, ReadLine PROVE IInv'
<1>1. PICK line \in Lines :
        LET left == WithoutLast(line)
        IN  /\ ~EmptyLine(left)
            /\ words' = left.words /\ blanks' = left.blanks
  BY DEF ReadLine
<1>2. words' \in Seq(Words) /\ blanks' \in Nat /\ (words' = <<>> => blanks' > 0)
  BY <1>1, LineLeft
<1>3. /\ args' = args /\ args_len' = ARG_SIZE /\ bytes' = SIZEOF_PTR * ARG_SIZE
      /\ i' = 0 /\ past' = FALSE /\ pc' = "tokenize" /\ corrupt' = corrupt /\ ended' = ended
  BY DEF ReadLine
<1>4. Len(words') \in Nat
  BY <1>2
<1>5. Tokens'
  BY <1>3, <1>4, SizesAssumption DEF IInv, TypeOK, Words, Tokens
<1>6. pc # "ended" /\ ended = "no"
  BY DEF IInv, TypeOK, ReadLine
<1>7. TypeOK'
  <2>1. \A k \in DOMAIN args' : args'[k] \in DOMAIN Shortened \cup {NULL, Garbage}
    BY <1>3 DEF IInv, TypeOK
  <2>2. corrupt' \in BOOLEAN
    BY <1>3 DEF IInv, TypeOK
  <2>3. i' \in 0..Len(words')
    BY <1>3, <1>4
  <2> QED BY <1>2, <1>3, <1>6, <2>1, <2>2, <2>3 DEF TypeOK, Words
<1> QED BY <1>2, <1>3, <1>5, <1>7 DEF IInv, EndsOnlyFor

LEMMA RunCommandStep == ASSUME IInv, RunCommand PROVE IInv'
<1>1. /\ pc = "execute" /\ ended = "no" /\ words' = words /\ blanks' = blanks
      /\ args' = args /\ past' = past /\ i' = i /\ corrupt' \in BOOLEAN
      /\ corrupt => corrupt'
  BY DEF RunCommand, tokenVars, IInv, TypeOK
<1>2. ArgLen = Len(words) /\ Arguments = words
  BY <1>1, ArgumentsOfLine
<1>3. words # <<>> /\ args[0] = words[1]
  <2>1. words \in Seq(Words) /\ Len(words) \in Nat
    BY DEF IInv, TypeOK, Words
  <2>2. i = Len(words) /\ args[i] = NULL /\ \A k \in 0..(i - 1) : args[k] = words[k + 1]
    BY <1>1 DEF IInv, TypeOK, Words, Tokens, Terminated
  <2>3. Len(words) > 0
    <3>1. args[0] # NULL
      BY DEF RunCommand
    <3> QED BY <2>1, <2>2, <3>1
  <2> QED BY <2>1, <2>2, <2>3
<1>4. CASE args[0] = "exit" /\ End("exit")
  <2>1. Len(words) = 1
    BY <1>1, <1>2, <1>4 DEF RunCommand, Runnable, ShellCommands
  <2>2. words = <<"exit">>
    <3>1. words \in Seq(Words) /\ words[1] = "exit"
      BY <1>3, <1>4 DEF IInv, TypeOK, Words
    <3>2. words = [n \in 1..1 |-> words[n]]
      BY <2>1, <3>1
    <3> QED BY <3>1, <3>2
  <2> QED BY <1>1, <1>4, <2>2 DEF IInv, TypeOK, Words, End, EndsOnlyFor
<1>5. CASE pc' = "read"
  <2>1. ended' = ended
    BY <1>5 DEF RunCommand, End
  <2> QED BY <1>1, <1>5, <2>1 DEF IInv, TypeOK, EndsOnlyFor
<1>6. CASE args[0] \in {"mine", "create_tx"} /\ End("exit of a command")
  BY <1>1, <1>3, <1>6 DEF IInv, TypeOK, Words, End, EndsOnlyFor
<1> QED BY <1>4, <1>5, <1>6 DEF RunCommand

LEMMA Inductive == ASSUME IInv, [Next]_vars PROVE IInv'
<1>1. CASE EndOfInput
  BY <1>1 DEF EndOfInput, End, IInv, TypeOK, Words, EndsOnlyFor, tokenVars
<1>2. CASE ReadEmptyLine
  BY <1>2 DEF ReadEmptyLine, IInv, TypeOK, Words, EndsOnlyFor, tokenVars
<1>3. CASE ReadLine
  BY <1>3, ReadLineStep
<1>4. CASE StoreWord
  BY <1>4, StoreWordStep
<1>5. CASE StoreNull
  BY <1>5, StoreNullStep
<1>6. CASE NoCommandGiven
  <2>1. pc = "execute" /\ args[0] = NULL
    BY <1>6 DEF NoCommandGiven
  <2>2. words = <<>>
    <3> SUFFICES ASSUME words # <<>> PROVE FALSE
      OBVIOUS
    <3>1. args[0] = words[1] /\ words[1] \in Words
      BY <2>1 DEF IInv, TypeOK, Words, Tokens, Terminated
    <3> QED BY <2>1, <3>1, WordsAssumption DEF Words
  <2> QED BY <1>6, <2>1, <2>2 DEF NoCommandGiven, End, IInv, TypeOK, Words, EndsOnlyFor, tokenVars
<1>7. CASE RefuseCommand
  BY <1>7 DEF RefuseCommand, IInv, TypeOK, Words, EndsOnlyFor, tokenVars
<1>8. CASE RunCommand
  BY <1>8, RunCommandStep
<1>9. CASE Crash
  BY <1>9 DEF Crash, End, IInv, TypeOK, Words, EndsOnlyFor, tokenVars
<1>10. CASE UNCHANGED vars
  BY <1>10 DEF vars, IInv, TypeOK, Words, Tokens, Terminated, EndsOnlyFor
<1> QED BY <1>1, <1>2, <1>3, <1>4, <1>5, <1>6, <1>7, <1>8, <1>9, <1>10 DEF Next

\* The inductive invariant holds in every run.
THEOREM Invariance == Spec => []IInv
<1>1. Init => IInv
  <2> SUFFICES ASSUME Init PROVE IInv
    OBVIOUS
  <2>1. words \in Seq(Words) /\ DOMAIN args \subseteq Nat
    BY SizesAssumption DEF Init
  <2> QED BY <2>1 DEF Init, IInv, TypeOK, Words, EndsOnlyFor
<1> QED BY <1>1, Inductive, PTL DEF Spec

-----------------------------------------------------------------------------
(* The properties.                                                         *)

\* The variables have the shapes the code gives them.
THEOREM TypeCorrect == Spec => []TypeOK
<1>1. IInv => TypeOK
  BY DEF IInv
<1> QED BY <1>1, Invariance, PTL

\* When a command is looked up, a line of fewer than ARG_SIZE words has been stored
\* inside the memory of args, its terminating null pointer included.  Of a longer line this is false: realloc
\* forgets the size of a pointer.
THEOREM ShortLinesFit == Spec => [](pc = "execute" /\ Len(words) < ARG_SIZE => ~past)
<1>1. IInv => (pc = "execute" /\ Len(words) < ARG_SIZE => ~past)
  BY SizesAssumption DEF IInv, TypeOK, Words, Terminated
<1> QED BY <1>1, Invariance, PTL

\* A command is looked up and called with the words of the line just read.
THEOREM ArgumentsAlwaysTheLine == Spec => []ArgumentsAreTheLine
<1>1. IInv => ArgumentsAreTheLine
  BY ArgumentsOfLine DEF ArgumentsAreTheLine
<1> QED BY <1>1, Invariance, PTL

\* Apart from the ends of input and the commands' own exits, only a line of
\* blanks and overwritten memory end the shell.
THEOREM EndsForAReason == Spec => []EndsOnlyFor
<1>1. IInv => EndsOnlyFor
  BY DEF IInv, TypeOK, Words
<1> QED BY <1>1, Invariance, PTL

-----------------------------------------------------------------------------
(* Hashes, and what is behind them.                                        *)

\* dest holds the word the last command was called with, and what is behind it
\* is as it was until something is counted as corrupted.
HashInv ==
  /\ DOMAIN dest = DOMAIN NewDest
  /\ HashAsTyped
  /\ ~corrupt => \A a \in DOMAIN dest : a >= HASH_LEN => dest[a] = Neighbour

\* What a command is called with, and the word it makes a hash of.
LEMMA CalledWith ==
  ASSUME IInv, RunCommand
  PROVE  /\ called' = words /\ words # <<>> /\ args[0] = words[1]
         /\ args[0] \in {"create_tx", "print_block"} =>
              args[1] = words[2] /\ HexPairs[words[2]] \in HexList
<1>1. /\ pc = "execute" /\ words \in Seq(Words) /\ Len(words) \in Nat
      /\ args[Len(words)] = NULL /\ \A k \in 0..(Len(words) - 1) : args[k] = words[k + 1]
  BY DEF RunCommand, IInv, TypeOK, Words, Tokens, Terminated
<1>2. ArgLen = Len(words) /\ Arguments = words
  BY <1>1, ArgumentsOfLine
<1>3. Len(words) > 0
  <2>1. args[0] # NULL
    BY DEF RunCommand
  <2> QED BY <1>1, <2>1
<1>4. args[0] = words[1] /\ words # <<>>
  BY <1>1, <1>3
<1>5. ASSUME args[0] \in {"create_tx", "print_block"}
      PROVE  args[1] = words[2] /\ HexPairs[words[2]] \in HexList
  <2>1. ShellCommands["create_tx"] = 4 /\ ShellCommands["print_block"] = 2
    BY DEF ShellCommands
  <2>2. Len(words) = ShellCommands[args[0]]
    BY <1>2 DEF RunCommand, Runnable
  <2>3. Len(words) >= 2
    BY <1>5, <2>1, <2>2
  <2>4. args[1] = words[2] /\ words[2] \in Words
    BY <1>1, <2>3
  <2> QED BY <2>4, WordsAssumption DEF Words, HexList, HexByte
<1> QED BY <1>2, <1>4, <1>5 DEF RunCommand

\* A command that makes a hash makes the one of its word.
LEMMA RunCommandHash == ASSUME IInv, HashInv, RunCommand PROVE HashInv'
<1>1. called' = words /\ words # <<>> /\ args[0] = words[1]
  BY CalledWith
<1>2. ~corrupt' => \A a \in DOMAIN dest : a >= HASH_LEN => dest'[a] = Neighbour
  BY DEF RunCommand
<1>3. CASE args[0] \in {"create_tx", "print_block"}
  <2> DEFINE pairs == HexPairs[words[2]]
             n == Min({HASH_LEN, Len(pairs)})
  <2>1. pairs \in HexList /\ dest' = StrToBuf(pairs)
    BY <1>3, CalledWith DEF RunCommand
  <2>2. Filled(pairs, dest', n)
    BY <2>1, StrToBufFills DEF HashInv
  <2>3. ASSUME NEW a \in 0..(HASH_LEN - 1) PROVE dest'[a] = HashOf(words[2])[a]
    <3>1. a \in Nat /\ a < HASH_LEN /\ a \in DOMAIN NewDest
      BY SizesAssumption DEF NewDest
    <3>2. a < n <=> a < Len(pairs)
      BY <2>1, <3>1, LastTurn
    <3>3. dest'[a] = IF a < n /\ pairs[a + 1] # BadPair THEN pairs[a + 1] ELSE 0
      BY <2>2, <3>1 DEF Filled
    <3> HIDE DEF n
    <3> QED BY <3>2, <3>3 DEF HashOf
  <2>4. DOMAIN dest' = DOMAIN NewDest
    BY <2>2 DEF Filled
  <2> QED BY <1>1, <1>2, <2>3, <2>4 DEF HashInv, HashAsTyped, NewDest
<1>4. CASE args[0] \notin {"create_tx", "print_block"}
  <2>1. dest' = dest
    BY <1>4 DEF RunCommand
  <2> QED BY <1>1, <1>2, <1>4, <2>1 DEF HashInv, HashAsTyped, NewDest
<1> QED BY <1>3, <1>4

\* Nothing else touches the hash.
LEMMA HashStep == ASSUME IInv, HashInv, [Next]_vars PROVE HashInv'
<1>1. CASE RunCommand
  BY <1>1, RunCommandHash
<1>2. CASE ~RunCommand
  <2>1. dest' = dest /\ called' = called /\ (~corrupt' => ~corrupt)
    <3>1. CASE StoreWord \/ StoreNull
      <4>1. ~corrupt' => ~corrupt
        BY <3>1, Zenon DEF StoreWord, StoreNull, Store
      <4>2. dest' = dest /\ called' = called
        BY <3>1 DEF StoreWord, StoreNull
      <4> QED BY <4>1, <4>2, Zenon
    <3>2. CASE ~(StoreWord \/ StoreNull)
      <4>1. UNCHANGED <<dest, called, corrupt>>
        BY <1>2, <3>2 DEF Next, EndOfInput, ReadEmptyLine, ReadLine, NoCommandGiven,
                  RefuseCommand, Crash, vars, tokenVars
      <4> QED BY <4>1
    <3> QED BY <3>1, <3>2
  <2> QED BY <2>1 DEF HashInv, HashAsTyped, NewDest
<1> QED BY <1>1, <1>2

\* The invariant of hashes holds in every run.
THEOREM HashInvariant == Spec => []HashInv
<1>1. Init => HashInv
  BY DEF Init, HashInv, HashAsTyped, NewDest
<1> QED BY <1>1, HashStep, Invariance, PTL DEF Spec

\* A hash has the digits of the word that was typed and then zeros, whatever was
\* typed before, although each store of an unsigned int clears bytes behind its own.
THEOREM HashAlwaysAsTyped == Spec => []HashAsTyped
<1>1. HashInv => HashAsTyped
  BY DEF HashInv
<1> QED BY <1>1, HashInvariant, PTL

\* Memory of other objects is overwritten only by a line of ARG_SIZE words or
\* more, or by a hash given to its last bytes.
THEOREM OnlyCorruptedBy == Spec => CorruptedOnlyBy
<1> DEFINE A == ~corrupt /\ corrupt' =>
                  \/ Len(words) >= ARG_SIZE
                  \/ /\ words[1] \in {"create_tx", "print_block"}
                     /\ Len(HexPairs[words[2]]) + SIZEOF_UINT > HASH_LEN + 1
<1>1. ASSUME IInv, HashInv, [Next]_vars PROVE [A]_vars
  <2> SUFFICES ASSUME ~corrupt, corrupt' PROVE A
    OBVIOUS
  <2>1. CASE StoreWord \/ StoreNull
    <3>1. /\ pc = "tokenize" /\ i \in Nat /\ Len(words) \in Nat /\ i <= Len(words)
          /\ SIZEOF_PTR * (i + 1) > bytes
      <4>1. pc = "tokenize" /\ i \in Nat /\ Len(words) \in Nat /\ i <= Len(words)
        BY <1>1, <2>1 DEF StoreWord, StoreNull, IInv, TypeOK, Words, Tokens
      <4>2. SIZEOF_PTR * (i + 1) > bytes
        BY <2>1 DEF StoreWord, StoreNull, Store
      <4> QED BY <4>1, <4>2
    <3>2. ~(i < ARG_SIZE)
      <4> SUFFICES ASSUME i < ARG_SIZE PROVE FALSE
        OBVIOUS
      <4>1. bytes = SIZEOF_PTR * ARG_SIZE
        BY <1>1, <3>1 DEF IInv, Tokens
      <4> QED BY <3>1, <4>1, SizesAssumption, FirstSlotsFit
    <3> QED BY <3>1, <3>2, SizesAssumption
  <2>2. CASE RunCommand
    <3> DEFINE pairs == HexPairs[words[2]]
               n == Min({HASH_LEN, Len(pairs)})
    <3>1. PICK a \in DOMAIN dest : a >= HASH_LEN /\ dest'[a] # Neighbour
      BY <2>2 DEF RunCommand
    <3>2. args[0] \in {"create_tx", "print_block"}
      BY <1>1, <2>2, <3>1 DEF RunCommand, HashInv
    <3>3. pairs \in HexList /\ dest' = StrToBuf(pairs) /\ words[1] = args[0]
      BY <1>1, <2>2, <3>2, CalledWith DEF RunCommand
    <3>4. Filled(pairs, dest', n)
      BY <1>1, <3>3, StrToBufFills DEF HashInv
    <3>5. n + SIZEOF_UINT > HASH_LEN + 1
      <4>1. a \in DOMAIN dest'
        BY <1>1, <3>1, <3>4 DEF Filled, HashInv
      <4> HIDE DEF n, pairs
      <4> QED BY <3>1, <3>4, <4>1 DEF Filled
    <3>6. n \in Nat /\ n <= Len(pairs) /\ Len(pairs) \in Nat
      <4> HIDE DEF pairs
      <4>1. Len(pairs) \in Nat
        BY <3>3 DEF HexList
      <4> QED BY <3>3, <4>1, LastTurn
    <3> HIDE DEF n, pairs
    <3>7. Len(pairs) + SIZEOF_UINT > HASH_LEN + 1
      BY <3>5, <3>6, SizesAssumption
    <3> QED BY <3>2, <3>3, <3>7 DEF pairs
  <2>3. CASE ~(StoreWord \/ StoreNull \/ RunCommand)
    BY <1>1, <2>3 DEF Next, EndOfInput, ReadEmptyLine, ReadLine, NoCommandGiven, RefuseCommand,
                Crash, vars, tokenVars
  <2> QED BY <2>1, <2>2, <2>3
<1> QED BY <1>1, Invariance, HashInvariant, PTL DEF Spec, CorruptedOnlyBy
=============================================================================

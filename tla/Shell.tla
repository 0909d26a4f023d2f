------------------------------- MODULE Shell -------------------------------
(***************************************************************************)
(* runtime/shell.c: lines are read, split into words and looked up among   *)
(* the commands, until the input ends or a command asks for it.            *)
(*                                                                         *)
(* What a command does to the node is Node's.  Here it returns, or ends    *)
(* the process; create_tx and print_block first turn a word of hex digits  *)
(* into a hash.  Memory is what C gives: an allocation comes with what the *)
(* last owner left in it, and a write past its end changes somebody else's *)
(* memory, after which the process may crash at any time (corrupt).        *)
(***************************************************************************)
EXTENDS Integers, Sequences, SequencesExt, FiniteSetsExt

CONSTANTS
  ARG_SIZE,      \* 32: slots tokenize begins with
  SIZEOF_PTR,    \* 8
  HASH_LEN,      \* 32: PUB_KEY_HASH_LEN, BLOCK_HASH_LEN
  SIZEOF_UINT,   \* 4: what sscanf("%02x") stores
  Lines,         \* [words, blanks, newline]: blanks are the delimiters at the end
  Shortened,     \* a word without its last character, NoWord if that was all
  HexPairs,      \* the values of a word's pairs of hex digits, BadPair for what has no
                 \* digits (pairs with a sign or 0x are left out)
  NoWord, BadPair,
  NULL,          \* the null pointer: ends args
  Garbage,       \* what is in memory nobody has written yet
  Neighbour      \* what is in a byte behind the hash before it is overwritten

ASSUME SizesAssumption ==
  /\ ARG_SIZE \in Nat \ {0} /\ SIZEOF_PTR \in Nat \ {0, 1}
  /\ HASH_LEN \in Nat \ {0} /\ SIZEOF_UINT \in Nat \ {0}

\* A line ends with a newline unless the input ends there; it is not empty.
ASSUME LinesAssumption ==
  \A line \in Lines :
    /\ line.words \in Seq(DOMAIN Shortened)
    /\ line.blanks \in Nat /\ line.newline \in BOOLEAN
    /\ ~line.newline => line.words # <<>> \/ line.blanks > 0

ASSUME WordsAssumption ==
  /\ \A w \in DOMAIN Shortened : Shortened[w] \in DOMAIN Shortened \cup {NoWord}
  /\ {NoWord, NULL} \cap DOMAIN Shortened = {}
  /\ \A w \in DOMAIN Shortened : HexPairs[w] \in Seq(0..255 \cup {BadPair})

\* shell_commands: name -> num_args, the name counted.
ShellCommands ==
  [mine |-> 1, create_tx |-> 4, print_chain |-> 1, print_block |-> 2, exit |-> 1, help |-> 1]

VARIABLES
  pc,        \* "read", "tokenize", "execute" or "ended"
  words,     \* the words of the line that was read
  blanks,    \* the delimiters behind them
  args,      \* the memory of args: slot -> word, NULL or what was there before
  args_len,
  bytes,     \* size of args' allocation
  i,
  past,      \* the tokenizer has written past that size, for this line
  corrupt,   \* history: a write has hit memory of another object
  dest,      \* the hash made of an argument, and the bytes behind it
  called,    \* history: the words the last command was called with
  ended      \* how the process ended

vars == <<pc, words, blanks, args, args_len, bytes, i, past, corrupt, dest, called, ended>>
tokenVars == <<args, args_len, bytes, i, past>>

\* Not written yet, and the bytes an unsigned int can reach behind the end.
NewDest == [a \in 0..(HASH_LEN + SIZEOF_UINT - 1) |-> Neighbour]

Init ==
  /\ pc = "read"
  /\ words = <<>> /\ blanks = 0
  /\ args = [k \in 0..(ARG_SIZE - 1) |-> Garbage] /\ args_len = 0 /\ bytes = 0 /\ i = 0 /\ past = FALSE
  /\ corrupt = FALSE
  /\ dest = NewDest
  /\ called = <<>>
  /\ ended = "no"

End(how) == pc' = "ended" /\ ended' = how

-----------------------------------------------------------------------------
(* shell_read_line.                                                        *)

\* getline returns -1: exit(EXIT_SUCCESS) or exit(EXIT_FAILURE).
EndOfInput ==
  /\ pc = "read"
  /\ End("end of input") \/ End("read error")
  /\ UNCHANGED <<words, blanks, tokenVars, corrupt, dest, called>>

\* Mutant of WithoutLast: a word of one character leaves an empty word.
WithoutLastEmpty(line) ==
  IF line.newline THEN [words |-> line.words, blanks |-> line.blanks]
  ELSE IF line.blanks > 0 THEN [words |-> line.words, blanks |-> line.blanks - 1]
  ELSE [words |-> Front(line.words) \o <<Shortened[Last(line.words)]>>, blanks |-> 0]

\* Whatever character is last is taken off, newline or not.
WithoutLast(line) ==
  IF line.newline THEN [words |-> line.words, blanks |-> line.blanks]
  ELSE IF line.blanks > 0 THEN [words |-> line.words, blanks |-> line.blanks - 1]
  ELSE LET w == Shortened[Last(line.words)]
       IN  [words |-> Front(line.words) \o (IF w = NoWord THEN <<>> ELSE <<w>>),
            blanks |-> IF w = NoWord /\ Len(line.words) > 1 THEN 1 ELSE 0]

\* Mutant of EmptyLine: the length is not looked at.
EmptyLineKept(left) == FALSE

EmptyLine(left) == left = [words |-> <<>>, blanks |-> 0]

\* Mutant of ReadLine: malloc(args_len).
ReadLineShort ==
  /\ pc = "read"
  /\ \E line \in Lines :
       LET left == WithoutLast(line)
       IN  /\ ~EmptyLine(left)
           /\ words' = left.words /\ blanks' = left.blanks
  /\ args_len' = ARG_SIZE
  /\ bytes' = ARG_SIZE
  /\ i' = 0
  /\ past' = FALSE
  /\ pc' = "tokenize"
  /\ UNCHANGED <<args, corrupt, dest, called, ended>>

\* Nothing is left: NULL, and the loop goes round.
ReadEmptyLine ==
  /\ pc = "read"
  /\ \E line \in Lines : EmptyLine(WithoutLast(line))
  /\ words' = <<>> /\ blanks' = 0
  /\ UNCHANGED <<pc, tokenVars, corrupt, dest, called, ended>>

\* The malloc of shell_tokenize follows.
ReadLine ==
  /\ pc = "read"
  /\ \E line \in Lines :
       LET left == WithoutLast(line)
       IN  /\ ~EmptyLine(left)
           /\ words' = left.words /\ blanks' = left.blanks
  /\ args_len' = ARG_SIZE
  /\ bytes' = SIZEOF_PTR * ARG_SIZE
  /\ i' = 0
  /\ past' = FALSE
  /\ pc' = "tokenize"
  /\ UNCHANGED <<args, corrupt, dest, called, ended>>

-----------------------------------------------------------------------------
(* shell_tokenize.                                                         *)

Store(slot, value) ==
  /\ args' = [k \in DOMAIN args \cup {slot} |-> IF k = slot THEN value ELSE args[k]]
  /\ past' = (past \/ SIZEOF_PTR * (slot + 1) > bytes)
  /\ corrupt' = (corrupt \/ SIZEOF_PTR * (slot + 1) > bytes)

\* realloc(args, args_len): as many bytes as there should be slots.
ReallocSize(n) == n

StoreWord ==
  /\ pc = "tokenize" /\ i < Len(words)
  /\ Store(i, words[i + 1])
  /\ i' = i + 1
  /\ IF i' >= args_len
     THEN args_len' = 2 * args_len /\ bytes' = ReallocSize(args_len')
     ELSE UNCHANGED <<args_len, bytes>>
  /\ UNCHANGED <<pc, words, blanks, dest, called, ended>>

\* Mutant of StoreNull: args is not terminated.
StoreNullForgotten ==
  /\ pc = "tokenize" /\ i = Len(words)
  /\ pc' = "execute"
  /\ UNCHANGED <<words, blanks, tokenVars, corrupt, dest, called, ended>>

StoreNull ==
  /\ pc = "tokenize" /\ i = Len(words)
  /\ Store(i, NULL)
  /\ pc' = "execute"
  /\ UNCHANGED <<words, blanks, args_len, bytes, i, dest, called, ended>>

-----------------------------------------------------------------------------
(* shell_execute.                                                          *)

\* arg_len: up to the first null pointer, or to the end of what is known.
ArgLen ==
  LET nulls == {l \in DOMAIN args : args[l] = NULL}
  IN  IF nulls = {} THEN Max(DOMAIN args) + 1 ELSE Min(nulls)

Arguments == [n \in 1..ArgLen |-> args[n - 1]]

\* Mutant of StrToBuf: the buffer is not cleared first.
StrToBufUncleared(pairs) ==
  LET byte(n) == n >= 1 /\ n <= HASH_LEN /\ n <= Len(pairs) /\ pairs[n] # BadPair
      reached(a) == \E n \in 1..(a + 1) : byte(n) /\ a < n - 1 + SIZEOF_UINT
  IN  [a \in DOMAIN dest |-> IF byte(a + 1) THEN pairs[a + 1]
                             ELSE IF reached(a) THEN 0 ELSE dest[a]]

\* str_to_buf: memset, then pair by pair an unsigned int (little-endian: the
\* value, then zeros) at the address of one byte.
StrToBuf(pairs) ==
  LET cleared == [a \in DOMAIN dest |-> IF a < HASH_LEN THEN 0 ELSE Neighbour]
      store(mem, n) ==
        IF pairs[n] = BadPair THEN mem
        ELSE [a \in DOMAIN mem |-> IF a = n - 1 THEN pairs[n]
                                   ELSE IF a \in n..(n + SIZEOF_UINT - 2) THEN 0 ELSE mem[a]]
  IN  FoldLeft(store, cleared, [n \in 1..Min({HASH_LEN, Len(pairs)}) |-> n])

\* HASH_FIND_STR(..., NULL, ...) takes the length of no string.
NoCommandGiven ==
  /\ pc = "execute" /\ args[0] = NULL
  /\ End("crash")
  /\ UNCHANGED <<words, blanks, tokenVars, corrupt, dest, called>>

\* "command not found", "missing arguments", "too many arguments": status 0.
Runnable == args[0] \in DOMAIN ShellCommands /\ ArgLen = ShellCommands[args[0]]

RefuseCommand ==
  /\ pc = "execute" /\ args[0] # NULL /\ ~Runnable
  /\ pc' = "read"
  /\ UNCHANGED <<words, blanks, tokenVars, corrupt, dest, called, ended>>

\* shell_exit returns 1, so main ends; the others return 0, but mine_block and
\* build_tx have exits of their own.
RunCommand ==
  /\ pc = "execute" /\ args[0] # NULL /\ Runnable
  /\ called' = Arguments
  /\ dest' = IF args[0] \in {"create_tx", "print_block"}
             THEN StrToBuf(HexPairs[args[1]]) ELSE dest
  /\ corrupt' = (corrupt \/ \E a \in DOMAIN dest : a >= HASH_LEN /\ dest'[a] # Neighbour)
  /\ \/ args[0] = "exit" /\ End("exit")
     \/ args[0] # "exit" /\ pc' = "read" /\ UNCHANGED ended
     \/ args[0] \in {"mine", "create_tx"} /\ End("exit of a command")
  /\ UNCHANGED <<words, blanks, tokenVars>>

\* The process does not survive what it did to the heap or the stack.
Crash ==
  /\ corrupt /\ pc # "ended"
  /\ End("crash")
  /\ UNCHANGED <<words, blanks, tokenVars, corrupt, dest, called>>

Next ==
  \/ EndOfInput \/ ReadEmptyLine \/ ReadLine
  \/ StoreWord \/ StoreNull
  \/ NoCommandGiven \/ RefuseCommand \/ RunCommand
  \/ Crash

Spec == Init /\ [][Next]_vars

-----------------------------------------------------------------------------
(* Properties.                                                             *)

\* The variables have the shapes the code gives them.
TypeOK ==
  /\ pc \in {"read", "tokenize", "execute", "ended"}
  /\ words \in Seq(DOMAIN Shortened) /\ blanks \in Nat
  /\ i \in 0..Len(words) \/ pc \in {"read", "ended"}
  /\ \A k \in DOMAIN args : args[k] \in DOMAIN Shortened \cup {NULL, Garbage}
  /\ past \in BOOLEAN /\ corrupt \in BOOLEAN
  /\ past => corrupt
  /\ pc = "ended" <=> ended # "no"

\* "Relies on args being null terminated": what a command is chosen by and
\* called with is the words of this line, all of them and nothing that an
\* earlier, longer line left in the memory of args.
ArgumentsAreTheLine == pc = "execute" /\ ~past => Arguments = words

\* "Fills the destination with 0s and terminates early if either input is
\* shorter than the other": a hash has the word's digits, then zeros, also
\* after a longer word, and although every store but the last spoils the
\* bytes behind it.
HashOf(w) ==
  [a \in 0..(HASH_LEN - 1) |->
     IF a < Len(HexPairs[w]) /\ HexPairs[w][a + 1] # BadPair THEN HexPairs[w][a + 1] ELSE 0]
HashAsTyped ==
  called # <<>> /\ called[1] \in {"create_tx", "print_block"} =>
    \A a \in 0..(HASH_LEN - 1) : dest[a] = HashOf(called[2])[a]

\* "until the program is exited with CTRL+C, CTRL+D or exit": what else ends
\* it is a line of blanks, a command that gives up, and memory overwritten.
EndsOnlyFor ==
  pc = "ended" =>
    \/ ended \in {"end of input", "read error"}
    \/ ended = "exit" /\ words = <<"exit">>
    \/ ended = "exit of a command" /\ words # <<>> /\ words[1] \in {"mine", "create_tx"}
    \/ ended = "crash" /\ words = <<>> /\ blanks > 0
    \/ corrupt

\* What overwrites memory of another object: ARG_SIZE words, or a hash whose
\* last bytes are given (stored as an unsigned int at the address of a byte).
CorruptedOnlyBy ==
  [][~corrupt /\ corrupt' =>
       \/ Len(words) >= ARG_SIZE
       \/ /\ words[1] \in {"create_tx", "print_block"}
          /\ Len(HexPairs[words[2]]) + SIZEOF_UINT > HASH_LEN + 1]_vars
=============================================================================

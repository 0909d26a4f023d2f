------------------------------ MODULE MCShell ------------------------------
(* Instance of Shell: 5 slots of 3 bytes to begin with, hashes of 4 bytes, *)
(* an unsigned int of 3; words that are commands, addresses or neither.    *)
EXTENDS Shell

MCShortened ==
  [mine |-> "w", create_tx |-> "w", print_block |-> "w", exit |-> "w", exits |-> "exit",
   w |-> "x", x |-> NoWord, short |-> "w", odd |-> "short", full |-> "odd"]

MCHexPairs ==
  [mine |-> <<BadPair>>, create_tx |-> <<BadPair>>, print_block |-> <<BadPair>>,
   exit |-> <<BadPair>>, exits |-> <<BadPair>>, w |-> <<BadPair>>, x |-> <<BadPair>>,
   short |-> <<7>>, odd |-> <<1, BadPair, 2>>, full |-> <<3, 4, 5, 6>>]

Typed(ws) == [words |-> ws, blanks |-> 0, newline |-> TRUE]

Many(n) == [k \in 1..n |-> IF k = 1 THEN "mine" ELSE "w"]

\* Lines of blanks, lines the input ends after, and lines as they should be.
MCLines ==
  {[words |-> <<>>, blanks |-> b, newline |-> n] : b \in {1, 2}, n \in BOOLEAN}
  \cup {[words |-> ws, blanks |-> b, newline |-> FALSE] :
          ws \in {<<"exits">>, <<"x">>, <<"mine", "x">>}, b \in {0, 1}}
  \cup {Typed(ws) : ws \in {<<>>, <<"mine">>, <<"exit">>, <<"exit", "w">>, <<"print_block">>}}
  \cup {Typed(<<"print_block", w>>) : w \in {"short", "odd"}}
  \cup {Typed(<<"create_tx", w, "x", "w">>) : w \in {"odd", "full"}}
  \cup {Typed(Many(n)) : n \in {4, 5, 11}}
=============================================================================

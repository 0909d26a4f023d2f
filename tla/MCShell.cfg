SPECIFICATION Spec
CONSTANTS
  ARG_SIZE = 5
  SIZEOF_PTR = 3
  HASH_LEN = 4
  SIZEOF_UINT = 3
  Lines <- MCLines
  Shortened <- MCShortened
  HexPairs <- MCHexPairs
  NoWord = NoWord
  BadPair = BadPair
  NULL = NULL
  Garbage = Garbage
  Neighbour = Neighbour
INVARIANTS TypeOK ArgumentsAreTheLine HashAsTyped EndsOnlyFor
PROPERTY CorruptedOnlyBy
CHECK_DEADLOCK FALSE

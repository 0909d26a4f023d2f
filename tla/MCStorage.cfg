SPECIFICATION Spec
CONSTANTS
  SIZEOF_INT = 1
  SIZEOF_LONG = 2
  SHA_HASH_LEN = 3
  PUB_KEY_SER_LEN = 4
  PRIV_KEY_SER_LEN = 2
  SIGNATURE_LEN = 5
  NULL = NULL
  REWARD = 2
  AMOUNTS = {1, 2}
  TIMES = {1}
  FOREIGN_KEY = 0
  MAX_INPUTS = 2
  MAX_KEYS = 4
INVARIANTS TypeOK BufferFilledExactly ReadsBack SignaturesVerify VariantsRefused
PROPERTY NothingOverwritten
CHECK_DEADLOCK FALSE

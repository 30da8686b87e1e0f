SPECIFICATION LoopSpec
CONSTANTS
  BLAKE2_HASH_SIZE = 3
  BYTE_BITS = 2
INVARIANTS
  ReturnsLastNonZero
  RankIndexesABucket
CHECK_DEADLOCK FALSE

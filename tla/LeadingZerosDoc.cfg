SPECIFICATION LoopSpec
CONSTANTS
  BLAKE2_HASH_SIZE = 2
  BYTE_BITS = 2
INVARIANT
  ReturnsLeadingZeros
CHECK_DEADLOCK FALSE

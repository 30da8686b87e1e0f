-------------------------------- MODULE Hash --------------------------------
(***************************************************************************)
(* Blake2Hash (src/hash.rs) and the distance rank of two peer ids          *)
(* (PeerId::distance_rank in src/types.rs).                                *)
(*                                                                         *)
(* A hash is an array of bytes and a byte an array of bits, both with the  *)
(* most significant element at index 0, as in the code.  The code has 32   *)
(* bytes of 8 bits; both sizes are parameters here.                        *)
(***************************************************************************)
EXTENDS Integers, FiniteSetsExt

CONSTANTS
  BLAKE2_HASH_SIZE,   \* number of bytes in a hash
  BYTE_BITS           \* number of bits in a byte

ASSUME HashAssumption ==
  /\ BLAKE2_HASH_SIZE \in Nat \ {0}
  /\ BYTE_BITS \in Nat \ {0}
  /\ BLAKE2_HASH_SIZE * BYTE_BITS >= 2

ByteIndex == 0 .. BLAKE2_HASH_SIZE - 1
BitIndex  == 0 .. BYTE_BITS - 1

Byte       == [BitIndex -> {0, 1}]
Blake2Hash == [ByteIndex -> Byte]

ZeroByte == [j \in BitIndex |-> 0]
ZeroHash == [i \in ByteIndex |-> ZeroByte]

\* Number of bits of a hash, hence number of buckets of a routing table.
max_power == BLAKE2_HASH_SIZE * BYTE_BITS

\* u32::saturating_sub
saturating_sub(a, b) == IF a >= b THEN a - b ELSE 0

\* impl BitXor for Blake2Hash: byte by byte.
bitxor(a, b) ==
  [i \in ByteIndex |-> [j \in BitIndex |-> IF a[i][j] = b[i][j] THEN 0 ELSE 1]]

\* u8::leading_zeros of a byte that is not zero.
byte_leading_zeros(byte) == Min({j \in BitIndex : byte[j] = 1})

NonZeroBytes(h) == {i \in ByteIndex : h[i] # ZeroByte}

(***************************************************************************)
(* Blake2Hash::leading_zeros.  The loop over the bytes skips the zero      *)
(* bytes and overwrites its result at EVERY other byte, without leaving    *)
(* the loop, so the byte that decides is the last non-zero one.  Module    *)
(* LeadingZeros runs that loop and proves that it computes this value.     *)
(***************************************************************************)
leading_zeros_BreakAtFirst(h) ==
  saturating_sub(
    IF NonZeroBytes(h) = {} THEN max_power
    ELSE LET i == Min(NonZeroBytes(h))
         IN  BYTE_BITS * i + byte_leading_zeros(h[i]), 1)

leading_zeros(h) ==
  saturating_sub(
    IF NonZeroBytes(h) = {} THEN max_power
    ELSE LET i == Max(NonZeroBytes(h))
         IN  BYTE_BITS * i + byte_leading_zeros(h[i]), 1)

\* PeerId::distance_rank: the index of the bucket of the one id in the table
\* of the other.
distance_rank(self, other) == leading_zeros(bitxor(self, other))

(***************************************************************************)
(* What the documentation of leading_zeros and of distance_rank describes: *)
(* the zeros in front of the first bit set, less one.                      *)
(***************************************************************************)
LeadingZeroBits(h) ==
  IF NonZeroBytes(h) = {} THEN max_power
  ELSE LET i == Min(NonZeroBytes(h)) IN BYTE_BITS * i + byte_leading_zeros(h[i])
=============================================================================

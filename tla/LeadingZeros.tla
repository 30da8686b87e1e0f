---------------------------- MODULE LeadingZeros ----------------------------
(***************************************************************************)
(* The loop of Blake2Hash::leading_zeros (src/hash.rs) as a state machine: *)
(* one step per byte, one for the return.                                  *)
(***************************************************************************)
EXTENDS Hash

VARIABLES
  bytes,   \* the hash the method is called on (constant in a behaviour)
  pos,     \* the index the iterator yields next
  res,     \* the local of that name; the returned value at the end
  pc       \* "loop" | "done"

loopVars == <<bytes, pos, res, pc>>

LoopTypeOK ==
  /\ bytes \in Blake2Hash
  /\ pos \in 0 .. BLAKE2_HASH_SIZE
  /\ res \in 0 .. max_power
  /\ pc \in {"loop", "done"}

LoopInit ==
  /\ bytes \in Blake2Hash
  /\ pos = 0
  /\ res = max_power
  /\ pc = "loop"

\* `continue`
SkipZeroByte ==
  /\ pc = "loop" /\ pos < BLAKE2_HASH_SIZE
  /\ bytes[pos] = ZeroByte
  /\ pos' = pos + 1
  /\ UNCHANGED <<bytes, res, pc>>

\* The assignment in the else branch; the loop goes on.
TakeByte ==
  /\ pc = "loop" /\ pos < BLAKE2_HASH_SIZE
  /\ bytes[pos] # ZeroByte
  /\ res' = BYTE_BITS * pos + byte_leading_zeros(bytes[pos])
  /\ pos' = pos + 1
  /\ UNCHANGED <<bytes, pc>>

Return_WithoutSub ==
  /\ pc = "loop" /\ pos = BLAKE2_HASH_SIZE
  /\ res' = res
  /\ pc' = "done"
  /\ UNCHANGED <<bytes, pos>>

Return ==
  /\ pc = "loop" /\ pos = BLAKE2_HASH_SIZE
  /\ res' = saturating_sub(res, 1)
  /\ pc' = "done"
  /\ UNCHANGED <<bytes, pos>>

LoopNext == SkipZeroByte \/ TakeByte \/ Return

LoopSpec == LoopInit /\ [][LoopNext]_loopVars
-----------------------------------------------------------------------------
(***************************************************************************)
(* What the method returns is the closed form that the routing tables use. *)
(***************************************************************************)
ReturnsLastNonZero == pc = "done" => res = leading_zeros(bytes)

(***************************************************************************)
(* The result is an index of the bucket vector, which PeerMap and          *)
(* FlatPeerMap use unchecked, and the last bucket is reserved for the      *)
(* all-zero distance: a peer never shares the bucket of its own id.        *)
(***************************************************************************)
RankIndexesABucket ==
  pc = "done" => /\ res \in 0 .. max_power - 1
                 /\ res = max_power - 1 <=> bytes = ZeroHash

(***************************************************************************)
(* The loop invariant: the result so far is the position of the first bit  *)
(* set of the last non-zero byte already visited.                          *)
(***************************************************************************)
Visited == {i \in NonZeroBytes(bytes) : i < pos}

LoopInv ==
  pc = "loop" =>
    \/ Visited = {} /\ res = max_power
    \/ \E i \in Visited : /\ \A k \in Visited : k <= i
                          /\ res = BYTE_BITS * i + byte_leading_zeros(bytes[i])

(***************************************************************************)
(* hash.rs: "Returns the number of leading zeros in the 512-bit number,    *)
(* minus one.  If the answer would be -1, just returns 0."                 *)
(***************************************************************************)
ReturnsLeadingZeros ==
  pc = "done" => res = saturating_sub(LeadingZeroBits(bytes), 1)

=============================================================================

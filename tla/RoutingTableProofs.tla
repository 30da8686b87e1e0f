------------------------- MODULE RoutingTableProofs -------------------------
(***************************************************************************)
(* PeerMap for every hash size, set of ids and set of addresses: the loop  *)
(* that computes the rank of a peer returns the index of a bucket, the     *)
(* table is well formed, every peer is where lookups look for it, the      *)
(* table is a book that never forgets a peer, and count() and              *)
(* find_closest_peers() say what it holds.                                 *)
(***************************************************************************)
EXTENDS RoutingTable, LeadingZeros, PeerMapProofs

\* The state of the table as the lemmas on PeerMap take it.
LEMMA PlacementIsPlaced == Placement <=> Placed(buckets, self_id)
BY DEF Placement, Placed

(***************************************************************************)
(* insert never indexes outside the vector of buckets, and the table keeps *)
(* its shape.                                                              *)
(***************************************************************************)
THEOREM TableTypeOK == Spec => []TypeOK
<1>1. Init => TypeOK
  BY EmptyTable DEF Init, TypeOK
<1>2. TypeOK /\ [Next]_buckets => TypeOK'
  BY SelfAssumption, InsertFacts DEF Next, Insert, TypeOK
<1> QED  BY <1>1, <1>2, PTL DEF Spec

(***************************************************************************)
(* A peer is stored in the bucket of its distance rank and nowhere else,   *)
(* so contains() sees every stored peer.                                   *)
(***************************************************************************)
THEOREM TablePlacement == Spec => []Placement
<1>1. Init => Placement
  BY EmptyTable DEF Init, Placement, Placed
<1>2. TypeOK /\ Placement /\ [Next]_buckets => Placement'
  <2> SUFFICES ASSUME TypeOK, Placement, [Next]_buckets PROVE Placement'
    OBVIOUS
  <2>1. CASE Next
    <3>1. PICK address \in SocketAddr, peer_id \in PeerId : Insert(address, peer_id)
      BY <2>1 DEF Next
    <3>2. buckets \in PeerMaps /\ Placed(buckets, self_id)
      BY PlacementIsPlaced DEF TypeOK
    <3>3. Placed(buckets', self_id)
      BY <3>1, <3>2, SelfAssumption, InsertFacts DEF Insert
    <3> QED  BY <3>3 DEF Placement, Placed
  <2>2. CASE UNCHANGED buckets
    BY <2>2 DEF Placement
  <2> QED  BY <2>1, <2>2
<1> QED  BY <1>1, <1>2, TableTypeOK, PTL DEF Spec

(***************************************************************************)
(* With Placement, the book entry of a peer is what contains() returns.    *)
(***************************************************************************)
LEMMA BookIsContains ==
  ASSUME TypeOK, Placement, NEW p \in PeerId
  PROVE  Book[p] = contains(buckets, self_id, p)
<1> DEFINE r == distance_rank(self_id, p)
<1>1. r \in Rank
  BY SelfAssumption, PeerRank
<1>2. \A k \in Rank : buckets[k][p] # None => k = r
  BY DEF Placement, known_peers
<1>3. CASE \E k \in Rank : buckets[k][p] # None
  <2>1. (CHOOSE k \in Rank : buckets[k][p] # None) = r
    BY <1>1, <1>2, <1>3
  <2> QED  BY <1>3, <2>1 DEF Book, contains
<1>4. CASE ~(\E k \in Rank : buckets[k][p] # None)
  BY <1>1, <1>4 DEF Book, contains
<1> QED  BY <1>3, <1>4

(***************************************************************************)
(* PeerMap implements the abstract ContactBook without evictions: every    *)
(* insert is a Put.                                                        *)
(***************************************************************************)
THEOREM TableKeepsEveryContact == Spec => KeepsEveryContact
<1>1. Init => ContactBook!Init
  BY DEF Init, ContactBook!Init, Book, EmptyPeerMap
<1>2. TypeOK /\ Placement /\ Placement' /\ TypeOK' /\ [Next]_buckets
        => [ContactBook!Next]_Book
  <2> SUFFICES ASSUME TypeOK, Placement, TypeOK', Placement', [Next]_buckets
               PROVE  [ContactBook!Next]_Book
    OBVIOUS
  <2>1. CASE Next
    <3>1. PICK address \in SocketAddr, peer_id \in PeerId : Insert(address, peer_id)
      BY <2>1 DEF Next
    <3> DEFINE rank(p) == distance_rank(self_id, p)
    <3>2. \A p \in PeerId : rank(p) \in Rank
      BY SelfAssumption, PeerRank
    <3>3. buckets' = [buckets EXCEPT ![rank(peer_id)][peer_id] = address]
      BY <3>1 DEF Insert, insert
    <3>4. \A p \in PeerId : Book[p] = buckets[rank(p)][p]
      BY BookIsContains DEF contains
    <3>5. \A p \in PeerId : Book'[p] = buckets'[rank(p)][p]
      <4> SUFFICES ASSUME NEW p \in PeerId PROVE Book'[p] = buckets'[rank(p)][p]
        OBVIOUS
      <4>1. rank(p) \in Rank /\ \A k \in Rank : buckets'[k][p] # None => k = rank(p)
        BY <3>2 DEF Placement, known_peers
      <4>2. CASE \E k \in Rank : buckets'[k][p] # None
        <5>1. (CHOOSE k \in Rank : buckets'[k][p] # None) = rank(p)
          BY <4>1, <4>2
        <5> QED  BY <4>2, <5>1 DEF Book
      <4>3. CASE ~(\E k \in Rank : buckets'[k][p] # None)
        BY <4>1, <4>3 DEF Book
      <4> QED  BY <4>2, <4>3
    <3> HIDE DEF rank
    <3>6. ASSUME NEW p \in PeerId
          PROVE  buckets'[rank(p)][p] = IF p = peer_id THEN address ELSE buckets[rank(p)][p]
      BY <3>2, <3>3 DEF TypeOK, PeerMaps, Bucket
    <3>7. \A p \in PeerId : Book'[p] = IF p = peer_id THEN address ELSE Book[p]
      BY <3>4, <3>5, <3>6
    <3>8. Book' = [Book EXCEPT ![peer_id] = address]
      BY <3>7 DEF Book
    <3>9. ContactBook!Put(peer_id, address)
      BY <3>8 DEF ContactBook!Put
    <3> QED  BY <3>9 DEF ContactBook!Next
  <2>2. CASE UNCHANGED buckets
    BY <2>2 DEF Book
  <2> QED  BY <2>1, <2>2
<1>3. Init /\ [][Next]_buckets => ContactBook!Init /\ [][ContactBook!Next]_Book
  <2>1. Spec => [](TypeOK /\ Placement)
    BY TableTypeOK, TablePlacement, PTL
  <2> QED  BY <1>1, <1>2, <2>1, PTL DEF Spec
<1> QED  BY <1>3 DEF Spec, KeepsEveryContact, ContactBook!Spec

-----------------------------------------------------------------------------
(***************************************************************************)
(* count() is the number of peers that contains() finds: no peer is in two *)
(* buckets, and none is in a bucket where contains() does not look.        *)
(***************************************************************************)
THEOREM TableCount == Spec => []CountsWhatContainsFinds
<1>1. TypeOK /\ Placement => CountsWhatContainsFinds
  BY SelfAssumption, PlacementIsPlaced, CountFacts DEF TypeOK, CountsWhatContainsFinds
<1> QED  BY <1>1, TableTypeOK, TablePlacement, PTL

(***************************************************************************)
(* An answer of find_closest_peers has at most bucket_size entries, each a *)
(* known peer with its address, for every order of iteration of the maps.  *)
(***************************************************************************)
THEOREM TableAnswersAreKnownContacts == Spec => []AnswersAreKnownContacts
<1>1. TypeOK /\ Placement => AnswersAreKnownContacts
  <2> SUFFICES ASSUME TypeOK, Placement,
                      NEW peer_id \in PeerId,
                      NEW answer \in find_closest_peers(buckets, self_id, peer_id)
               PROVE  /\ Len(answer) <= bucket_size
                      /\ \A n \in 1 .. Len(answer) :
                           /\ answer[n][2] # None
                           /\ answer[n][2] = contains(buckets, self_id, answer[n][1])
    BY DEF AnswersAreKnownContacts
  <2>1. buckets \in PeerMaps /\ Placed(buckets, self_id) /\ self_id \in PeerId
    BY PlacementIsPlaced, SelfAssumption DEF TypeOK
  <2>2. /\ Len(answer) <= bucket_size
        /\ \A e \in Items(answer) : \E k \in Rank : e \in EntriesOf(buckets, k)
    BY <2>1, AnswerFacts
  <2>3. \A e \in Items(answer) : e[2] # None /\ e[2] = contains(buckets, self_id, e[1])
    BY <2>1, <2>2, EntryIsContains
  <2> QED  BY <2>2, <2>3 DEF Items
<1> QED  BY <1>1, TableTypeOK, TablePlacement, PTL

\* The peers of an answer are those of its entries.
LEMMA PeersOfItems ==
  ASSUME NEW answer PROVE PeersIn(answer) = {e[1] : e \in Items(answer)}
BY DEF PeersIn, Items

\* An answer with all entries of a bucket has all its peers.
LEMMA PeersOfBucket ==
  ASSUME NEW b, NEW k, NEW answer, EntriesOf(b, k) \subseteq Items(answer)
  PROVE  known_peers(b, k) \subseteq PeersIn(answer)
<1> SUFFICES ASSUME NEW p \in known_peers(b, k) PROVE p \in PeersIn(answer)
  OBVIOUS
<1>1. <<p, b[k][p]>> \in Items(answer) /\ <<p, b[k][p]>>[1] = p
  BY DEF EntriesOf
<1> QED  BY <1>1, PeersOfItems

(***************************************************************************)
(* A peer of the bucket of the wanted id is left out only when peers of    *)
(* that bucket fill the answer.                                            *)
(***************************************************************************)
THEOREM TableTargetBucketComesFirst == Spec => []TargetBucketComesFirst
<1>1. TypeOK => TargetBucketComesFirst
  <2> SUFFICES ASSUME TypeOK,
                      NEW peer_id \in PeerId,
                      NEW answer \in find_closest_peers(buckets, self_id, peer_id)
               PROVE  LET target == known_peers(buckets, distance_rank(self_id, peer_id))
                      IN  \/ target \subseteq PeersIn(answer)
                          \/ Len(answer) = bucket_size /\ PeersIn(answer) \subseteq target
    BY DEF TargetBucketComesFirst
  <2> DEFINE t == distance_rank(self_id, peer_id)
  <2>1. \/ EntriesOf(buckets, t) \subseteq Items(answer)
        \/ Len(answer) = bucket_size /\ Items(answer) \subseteq EntriesOf(buckets, t)
    BY SelfAssumption, AnswerFacts DEF TypeOK
  <2> HIDE DEF t
  <2>2. CASE EntriesOf(buckets, t) \subseteq Items(answer)
    BY <2>2, PeersOfBucket DEF t
  <2>3. CASE Len(answer) = bucket_size /\ Items(answer) \subseteq EntriesOf(buckets, t)
    <3>1. \A e \in EntriesOf(buckets, t) : e[1] \in known_peers(buckets, t)
      BY DEF EntriesOf
    <3>2. PeersIn(answer) \subseteq known_peers(buckets, t)
      BY <2>3, <3>1, PeersOfItems
    <3> QED  BY <2>3, <3>2 DEF t
  <2> QED  BY <2>1, <2>2, <2>3
<1> QED  BY <1>1, TableTypeOK, PTL

(***************************************************************************)
(* An answer that is not full has every known peer of the ranks that the   *)
(* search reaches: those from the wanted id's on, and rank 0 unless the id *)
(* wanted is the own one.                                                  *)
(***************************************************************************)
THEOREM TableShortAnswerCoversAhead == Spec => []ShortAnswerCoversAhead
<1>1. TypeOK /\ Placement => ShortAnswerCoversAhead
  <2> SUFFICES ASSUME TypeOK, Placement,
                      NEW peer_id \in PeerId,
                      NEW answer \in find_closest_peers(buckets, self_id, peer_id),
                      Len(answer) < bucket_size,
                      NEW p \in Known,
                      \/ distance_rank(self_id, p) >= distance_rank(self_id, peer_id)
                      \/ distance_rank(self_id, p) = 0 /\ peer_id # self_id
               PROVE  p \in PeersIn(answer)
    BY DEF ShortAnswerCoversAhead
  <2> DEFINE t == distance_rank(self_id, peer_id)
  <2>1. PICK k \in Rank : p \in PeerId /\ p \in known_peers(buckets, k)
    BY DEF Known
  <2>2. k = distance_rank(self_id, p)
    BY <2>1 DEF Placement
  <2>3. EntriesOf(buckets, k) \subseteq Items(answer)
    <3>1. \A j \in Rank : j >= t \/ (j = 0 /\ peer_id # self_id) =>
            EntriesOf(buckets, j) \subseteq Items(answer)
      BY SelfAssumption, AnswerFacts DEF TypeOK
    <3> QED  BY <2>2, <3>1
  <2> QED  BY <2>1, <2>3, PeersOfBucket
<1> QED  BY <1>1, TableTypeOK, TablePlacement, PTL

-----------------------------------------------------------------------------
(***************************************************************************)
(* The loop of Blake2Hash::leading_zeros, from which all ranks come.       *)
(***************************************************************************)

(***************************************************************************)
(* The variables of the loop of leading_zeros keep their types; in         *)
(* particular the u32 `res` never exceeds the number of bits.              *)
(***************************************************************************)
THEOREM LoopKeepsTypes == LoopSpec => []LoopTypeOK
<1>1. LoopInit => LoopTypeOK
  BY HashAssumption, MaxPower DEF LoopInit, LoopTypeOK
<1>2. LoopTypeOK /\ [LoopNext]_loopVars => LoopTypeOK'
  <2> SUFFICES ASSUME LoopTypeOK, [LoopNext]_loopVars PROVE LoopTypeOK'
    OBVIOUS
  <2> USE DEF LoopTypeOK
  <2>1. CASE SkipZeroByte
    BY <2>1, HashAssumption DEF SkipZeroByte
  <2>2. CASE TakeByte
    <3>1. pos \in ByteIndex /\ pos' \in 0 .. BLAKE2_HASH_SIZE
      BY <2>2, HashAssumption DEF TakeByte, ByteIndex
    <3>2. byte_leading_zeros(bytes[pos]) \in BitIndex
      BY <2>2, <3>1, ByteLeadingZerosRange DEF TakeByte, Blake2Hash
    <3>3. res' \in 0 .. max_power - 1
      BY <2>2, <3>1, <3>2, BitPosition DEF TakeByte
    <3> QED  BY <2>2, <3>1, <3>3, MaxPower DEF TakeByte
  <2>3. CASE Return
    BY <2>3, MaxPower DEF Return, saturating_sub
  <2>4. CASE UNCHANGED loopVars
    BY <2>4 DEF loopVars
  <2> QED  BY <2>1, <2>2, <2>3, <2>4 DEF LoopNext
<1> QED  BY <1>1, <1>2, PTL DEF LoopSpec

\* Every round of the loop of leading_zeros keeps LoopInv.
LEMMA LoopInvStep == LoopTypeOK /\ LoopInv /\ [LoopNext]_loopVars => LoopInv'
<1> SUFFICES ASSUME LoopTypeOK, LoopInv, [LoopNext]_loopVars, pc' = "loop" PROVE LoopInv'
  BY DEF LoopInv
<1> USE DEF LoopTypeOK
<1>1. CASE SkipZeroByte
  <2>1. Visited' = Visited
    BY <1>1, HashAssumption DEF SkipZeroByte, Visited, NonZeroBytes, ByteIndex
  <2> QED  BY <1>1, <2>1 DEF SkipZeroByte, LoopInv
<1>2. CASE TakeByte
  <2>1. pos \in Visited' /\ \A k \in Visited' : k <= pos
    BY <1>2, HashAssumption DEF TakeByte, Visited, NonZeroBytes, ByteIndex
  <2>2. res' = BYTE_BITS * pos + byte_leading_zeros(bytes'[pos])
    BY <1>2 DEF TakeByte
  <2> QED  BY <2>1, <2>2 DEF LoopInv
<1>3. CASE Return
  BY <1>3 DEF Return
<1>4. CASE UNCHANGED loopVars
  BY <1>4 DEF loopVars, LoopInv, Visited
<1> QED  BY <1>1, <1>2, <1>3, <1>4 DEF LoopNext

(***************************************************************************)
(* The loop of Blake2Hash::leading_zeros returns the closed form that the  *)
(* routing tables are specified with: the last non-zero byte decides.      *)
(***************************************************************************)
THEOREM LoopReturnsLastNonZero == LoopSpec => []ReturnsLastNonZero
<1> DEFINE Inv == LoopTypeOK /\ LoopInv /\ ReturnsLastNonZero
<1>1. LoopInit => LoopInv /\ ReturnsLastNonZero
  BY HashAssumption
  DEF LoopInit, LoopInv, ReturnsLastNonZero, Visited, NonZeroBytes, ByteIndex
<1>2. Inv /\ [LoopNext]_loopVars => ReturnsLastNonZero'
  <2> SUFFICES ASSUME Inv, [LoopNext]_loopVars PROVE ReturnsLastNonZero'
    OBVIOUS
  <2>1. CASE Return
    <3>1. Visited = NonZeroBytes(bytes) /\ bytes' = bytes
      BY <2>1, HashAssumption DEF Return, Visited, NonZeroBytes, ByteIndex
    <3>2. BLAKE2_HASH_SIZE - 1 \in Nat
          /\ Visited \in SUBSET (0 .. BLAKE2_HASH_SIZE - 1)
      BY HashAssumption DEF Visited, NonZeroBytes, ByteIndex
    <3>3. CASE Visited = {} /\ res = max_power
      BY <2>1, <3>1, <3>3 DEF Return, ReturnsLastNonZero, leading_zeros
    <3>4. CASE \E i \in Visited :
                 /\ \A k \in Visited : k <= i
                 /\ res = BYTE_BITS * i + byte_leading_zeros(bytes[i])
      <4>1. PICK i \in Visited :
                 /\ \A k \in Visited : k <= i
                 /\ res = BYTE_BITS * i + byte_leading_zeros(bytes[i])
        BY <3>4
      <4>2. Max(NonZeroBytes(bytes)) = i /\ NonZeroBytes(bytes) # {}
        BY <4>1, <3>1, <3>2, MaxUnique
      <4> QED  BY <2>1, <3>1, <4>1, <4>2
               DEF Return, ReturnsLastNonZero, leading_zeros
    <3> QED  BY <2>1, <3>3, <3>4 DEF Return, LoopInv
  <2>2. CASE SkipZeroByte \/ TakeByte
    BY <2>2 DEF SkipZeroByte, TakeByte, ReturnsLastNonZero
  <2>3. CASE UNCHANGED loopVars
    BY <2>3 DEF loopVars, ReturnsLastNonZero
  <2> QED  BY <2>1, <2>2, <2>3 DEF LoopNext
<1>3. LoopInv /\ LoopTypeOK /\ [LoopNext]_loopVars => LoopInv'
  BY LoopInvStep
<1> QED  BY <1>1, <1>2, <1>3, LoopKeepsTypes, PTL DEF LoopSpec

(***************************************************************************)
(* The value the code indexes the bucket vector with is in range for every *)
(* distance, and only the distance zero has the last bucket.               *)
(***************************************************************************)
THEOREM LoopRankIndexesABucket == LoopSpec => []RankIndexesABucket
<1>1. LoopTypeOK /\ ReturnsLastNonZero => RankIndexesABucket
  BY LeadingZerosRange DEF LoopTypeOK, ReturnsLastNonZero, RankIndexesABucket
<1> QED  BY <1>1, LoopKeepsTypes, LoopReturnsLastNonZero, PTL
=============================================================================

-------------------------- MODULE FlatPeerMapProofs --------------------------
(***************************************************************************)
(* FlatPeerMap for every hash size, bucket size, set of ids and set of     *)
(* addresses: the hand-kept count is right, no peer has two slots, only    *)
(* the first slot of a bucket ever changes hands, and the table is a book  *)
(* that forgets at most one peer per insert.                               *)
(***************************************************************************)
EXTENDS FlatPeerMap, HashProofs

-----------------------------------------------------------------------------
(***************************************************************************)
(* Slot arithmetic: the buckets are disjoint parts of the vector.          *)
(***************************************************************************)

\* The constants have their types.
LEMMA Sizes ==
  /\ bucket_size \in Nat /\ bucket_size >= 1
  /\ max_power \in Nat /\ max_power >= 2
  /\ max_power * bucket_size \in Nat
<1>1. bucket_size \in Nat /\ bucket_size >= 1
  BY FlatAssumption
<1> QED  BY <1>1, MaxPower

\* The rank of a peer is the index of a bucket.
LEMMA RankInRange ==
  ASSUME NEW p \in PeerId
  PROVE  distance_rank(peer_id, p) \in Rank
BY FlatAssumption, DistanceRank DEF Rank

\* What lies q buckets further is at least q * bucket_size slots further.
LEMMA BucketStart ==
  ASSUME NEW q \in Nat, NEW r \in Nat, q < r
  PROVE  /\ q * bucket_size \in Nat /\ r * bucket_size \in Nat
         /\ q * bucket_size + bucket_size <= r * bucket_size
<1> DEFINE d == r - q - 1
<1>1. d \in Nat /\ r = q + 1 + d
  OBVIOUS
<1> HIDE DEF d
<1>2. d * bucket_size \in Nat /\ q * bucket_size \in Nat
  BY <1>1, Sizes
<1>3. r * bucket_size = q * bucket_size + bucket_size + d * bucket_size
  BY <1>1, Sizes
<1> QED  BY <1>2, <1>3, Sizes

\* A bucket is a non-empty part of the vector.
LEMMA BucketInside ==
  ASSUME NEW r \in Rank
  PROVE  /\ BucketSlots(r) \subseteq Slot
         /\ BucketSlots(r) \in SUBSET Nat
         /\ \A n \in 0 .. bucket_size - 1 : r * bucket_size + n \in BucketSlots(r)
<1>1. r \in Nat /\ r < max_power
  BY Sizes DEF Rank
<1>2. r * bucket_size \in Nat /\ r * bucket_size + bucket_size <= max_power * bucket_size
  BY <1>1, BucketStart, Sizes
<1> QED  BY <1>2, Sizes DEF BucketSlots, Slot

\* No slot is in two buckets.
LEMMA BucketsDisjoint ==
  ASSUME NEW q \in Rank, NEW r \in Rank, NEW s \in BucketSlots(q), s \in BucketSlots(r)
  PROVE  q = r
<1>1. q \in Nat /\ r \in Nat
  BY DEF Rank
<1>2. /\ s \in Nat
      /\ q * bucket_size <= s /\ s < q * bucket_size + bucket_size
      /\ r * bucket_size <= s /\ s < r * bucket_size + bucket_size
      /\ q * bucket_size \in Nat /\ r * bucket_size \in Nat
  BY <1>1, Sizes, BucketInside DEF BucketSlots
<1>3. ASSUME q < r PROVE FALSE
  BY <1>1, <1>2, <1>3, BucketStart, Sizes
<1>4. ASSUME r < q PROVE FALSE
  BY <1>1, <1>2, <1>4, BucketStart, Sizes
<1> QED  BY <1>1, <1>3, <1>4

\* The first slot of a bucket is a multiple of the bucket size.
LEMMA FirstSlot ==
  ASSUME NEW r \in Rank
  PROVE  (r * bucket_size + 0) % bucket_size = 0
<1>1. r \in Nat
  BY DEF Rank
<1> QED  BY <1>1, Sizes
-----------------------------------------------------------------------------
(***************************************************************************)
(* The vector keeps its shape, and next_eviction never advances (the       *)
(* statement that would advance it is commented out in the code).          *)
(***************************************************************************)
Shape ==
  /\ contacts \in [Slot -> Contact \cup {None}]
  /\ next_eviction = 0

\* The slot where the scan of insert stops is the first that is empty or holds
\* the peer.
LEMMA FirstStopFacts ==
  ASSUME NEW p \in PeerId, Stops(p) # {}
  PROVE  /\ FirstStop(p) \in Slot
         /\ FirstStop(p) \in bucket_for(p)
         /\ contacts[FirstStop(p)] = None \/ contacts[FirstStop(p)].peer_id = p
         /\ \A s \in bucket_for(p) :
              s < FirstStop(p) => contacts[s] # None /\ contacts[s].peer_id # p
<1>1. bucket_for(p) \in SUBSET Nat /\ bucket_for(p) \subseteq Slot
  BY RankInRange, BucketInside DEF bucket_for
<1>2. Stops(p) \in SUBSET Nat
  BY <1>1 DEF Stops
<1>3. FirstStop(p) \in Stops(p) /\ \A s \in Stops(p) : FirstStop(p) <= s
  BY <1>2, MinOfNaturals DEF FirstStop
<1>4. ASSUME NEW s \in bucket_for(p), s < FirstStop(p) PROVE s \notin Stops(p)
  BY <1>1, <1>2, <1>3, <1>4
<1> QED  BY <1>1, <1>3, <1>4 DEF Stops

\* The slot that an eviction takes over is the first of the bucket.
LEMMA EvictedSlot ==
  ASSUME Shape, NEW p \in PeerId
  PROVE  LET e == distance_rank(peer_id, p) * bucket_size + item_to_evict
         IN  e \in bucket_for(p) /\ e \in Slot /\ e % bucket_size = 0
<1> DEFINE r == distance_rank(peer_id, p)
<1>1. r \in Rank
  BY RankInRange
<1>2. item_to_evict = 0
  BY DEF item_to_evict, Shape
<1>3. bucket_for(p) = BucketSlots(r)
  BY DEF bucket_for
<1> HIDE DEF r
<1>4. r * bucket_size + 0 \in BucketSlots(r) /\ BucketSlots(r) \subseteq Slot
  BY <1>1, BucketInside, Sizes
<1>5. (r * bucket_size + 0) % bucket_size = 0
  BY <1>1, FirstSlot
<1> QED  BY <1>2, <1>3, <1>4, <1>5 DEF r

(***************************************************************************)
(* What one insert does: it writes the contact into one slot of the bucket *)
(* of its peer.  The slot held the same peer, or was the first empty one   *)
(* of a bucket without the peer in front of it, or is the first of a full  *)
(* bucket without the peer.                                                *)
(***************************************************************************)
Updates(c, f) == contacts[f] # None /\ contacts[f].peer_id = c.peer_id /\ count' = count

Fills(c, f) ==
  /\ contacts[f] = None
  /\ \A s \in bucket_for(c.peer_id) : s < f => contacts[s] # None /\ contacts[s].peer_id # c.peer_id
  /\ count' = count + 1

Evicts(c, f) ==
  /\ \A s \in bucket_for(c.peer_id) : contacts[s] # None /\ contacts[s].peer_id # c.peer_id
  /\ f % bucket_size = 0
  /\ count' = count

Writes(c, f) ==
  /\ f \in Slot
  /\ f \in bucket_for(c.peer_id)
  /\ contacts' = [contacts EXCEPT ![f] = c]
  /\ next_eviction' = next_eviction

LEMMA InsertWrites ==
  ASSUME Shape, Next
  PROVE  \E c \in Contact, f \in Slot :
           Writes(c, f) /\ (Updates(c, f) \/ Fills(c, f) \/ Evicts(c, f))
<1>1. PICK c \in Contact : InsertUpdate(c) \/ InsertFill(c) \/ InsertEvict(c)
  BY DEF Next
<1> DEFINE p == c.peer_id
<1>2. p \in PeerId
  BY DEF Contact
<1>3. CASE InsertUpdate(c)
  <2>1. Stops(p) # {}
    BY <1>3 DEF InsertUpdate
  <2>2. /\ FirstStop(p) \in Slot /\ FirstStop(p) \in bucket_for(p)
        /\ contacts[FirstStop(p)] = None \/ contacts[FirstStop(p)].peer_id = p
    BY <1>2, <2>1, FirstStopFacts
  <2>3. Writes(c, FirstStop(p)) /\ Updates(c, FirstStop(p))
    BY <1>3, <2>2 DEF InsertUpdate, Writes, Updates
  <2> QED  BY <2>2, <2>3
<1>4. CASE InsertFill(c)
  <2>1. Stops(p) # {}
    BY <1>4 DEF InsertFill
  <2>2. /\ FirstStop(p) \in Slot /\ FirstStop(p) \in bucket_for(p)
        /\ \A s \in bucket_for(p) :
             s < FirstStop(p) => contacts[s] # None /\ contacts[s].peer_id # p
    BY <1>2, <2>1, FirstStopFacts
  <2>3. Writes(c, FirstStop(p)) /\ Fills(c, FirstStop(p))
    BY <1>4, <2>2 DEF InsertFill, Writes, Fills
  <2> QED  BY <2>2, <2>3
<1>5. CASE InsertEvict(c)
  <2> DEFINE e == distance_rank(peer_id, p) * bucket_size + item_to_evict
  <2>1. e \in bucket_for(p) /\ e \in Slot /\ e % bucket_size = 0
    BY <1>2, EvictedSlot
  <2>2. \A s \in bucket_for(p) : contacts[s] # None /\ contacts[s].peer_id # p
    BY <1>5 DEF InsertEvict, Stops
  <2>3. Writes(c, e) /\ Evicts(c, e)
    BY <1>5, <2>1, <2>2 DEF InsertEvict, Writes, Evicts
  <2> QED  BY <2>1, <2>3
<1> QED  BY <1>1, <1>3, <1>4, <1>5

\* What a write leaves in every slot.
LEMMA WrittenSlots ==
  ASSUME Shape, NEW c \in Contact, NEW f \in Slot, Writes(c, f)
  PROVE  /\ contacts'[f] = c
         /\ \A s \in Slot : s # f => contacts'[s] = contacts[s]
         /\ c # None /\ c.peer_id \in PeerId /\ c.address \in SocketAddr
         /\ Shape'
BY NoneAssumption DEF Shape, Writes, Contact

\* The shape of the vector is an invariant.
THEOREM FlatShape == Spec => []Shape
<1>1. Init => Shape
  BY DEF Init, Shape
<1>2. Shape /\ [Next]_vars => Shape'
  <2> SUFFICES ASSUME Shape, [Next]_vars PROVE Shape'
    OBVIOUS
  <2>1. CASE Next
    BY <2>1, InsertWrites, WrittenSlots
  <2>2. CASE UNCHANGED vars
    BY <2>2 DEF vars, Shape
  <2> QED  BY <2>1, <2>2
<1> QED  BY <1>1, <1>2, PTL DEF Spec
-----------------------------------------------------------------------------
\* The occupied slots are finitely many, at most all.
LEMMA OccupiedFinite ==
  /\ IsFiniteSet(Occupied)
  /\ Cardinality(Occupied) \in 0 .. max_power * bucket_size
<1>1. IsFiniteSet(Slot) /\ Cardinality(Slot) = max_power * bucket_size
  <2>1. max_power * bucket_size - 1 \in Int
    BY Sizes
  <2>2. IsFiniteSet(Slot) /\ Cardinality(Slot) =
          IF 0 > max_power * bucket_size - 1 THEN 0 ELSE max_power * bucket_size - 1 - 0 + 1
    BY <2>1, FS_Interval DEF Slot
  <2> QED  BY <2>2, Sizes
<1>2. Occupied \in SUBSET Slot
  BY DEF Occupied
<1>3. IsFiniteSet(Occupied) /\ Cardinality(Occupied) <= Cardinality(Slot)
  BY <1>1, <1>2, FS_Subset
<1>4. Cardinality(Occupied) \in Nat
  BY <1>3, FS_CardinalityType
<1> QED  BY <1>1, <1>3, <1>4, Sizes

(***************************************************************************)
(* count is incremented by the one insert that fills an empty slot and is  *)
(* left alone by updates and evictions, so it is the number of occupied    *)
(* slots.                                                                  *)
(***************************************************************************)
THEOREM FlatCount == Spec => []CountIsOccupied
<1>1. Init => CountIsOccupied
  <2> SUFFICES ASSUME Init PROVE CountIsOccupied
    OBVIOUS
  <2>1. Occupied = {}
    BY DEF Init, Occupied
  <2> QED  BY <2>1, FS_EmptySet DEF Init, CountIsOccupied
<1>2. Shape /\ CountIsOccupied /\ [Next]_vars => CountIsOccupied'
  <2> SUFFICES ASSUME Shape, CountIsOccupied, [Next]_vars PROVE CountIsOccupied'
    OBVIOUS
  <2>1. CASE Next
    <3>1. PICK c \in Contact, f \in Slot :
            Writes(c, f) /\ (Updates(c, f) \/ Fills(c, f) \/ Evicts(c, f))
      BY <2>1, InsertWrites
    <3>2. /\ contacts'[f] = c /\ c # None
          /\ \A s \in Slot : s # f => contacts'[s] = contacts[s]
      BY <3>1, WrittenSlots
    <3>3. Occupied' = Occupied \cup {f}
      BY <3>2 DEF Occupied
    <3>4. /\ IsFiniteSet(Occupied)
          /\ Cardinality(Occupied') =
               IF f \in Occupied THEN Cardinality(Occupied) ELSE Cardinality(Occupied) + 1
      BY <3>3, OccupiedFinite, FS_AddElement
    <3>5. CASE Fills(c, f)
      <4>1. f \notin Occupied /\ count' = count + 1
        BY <3>5 DEF Fills, Occupied
      <4> QED  BY <3>4, <4>1 DEF CountIsOccupied
    <3>6. CASE Updates(c, f) \/ Evicts(c, f)
      <4>1. f \in Occupied /\ count' = count
        BY <3>1, <3>6 DEF Updates, Evicts, Writes, Occupied
      <4> QED  BY <3>4, <4>1 DEF CountIsOccupied
    <3> QED  BY <3>1, <3>5, <3>6
  <2>2. CASE UNCHANGED vars
    BY <2>2 DEF vars, CountIsOccupied, Occupied
  <2> QED  BY <2>1, <2>2
<1> QED  BY <1>1, <1>2, FlatShape, PTL DEF Spec

(***************************************************************************)
(* Type correctness.  The bound on count is no fact about types: it holds  *)
(* because count is the number of occupied slots.                          *)
(***************************************************************************)
THEOREM FlatTypeOK == Spec => []TypeOK
<1>1. Shape /\ CountIsOccupied => TypeOK
  BY OccupiedFinite, Sizes DEF Shape, CountIsOccupied, TypeOK
<1> QED  BY <1>1, FlatShape, FlatCount, PTL

-----------------------------------------------------------------------------
(***************************************************************************)
(* "We DO prevent duplicates though": an insert that stops at an empty     *)
(* slot cannot have missed the peer, because the buckets have no holes and *)
(* a peer is in no bucket but its own.                                     *)
(***************************************************************************)
THEOREM FlatTableInv == Spec => []TableInv
<1>1. Init => TableInv
  <2> SUFFICES ASSUME Init PROVE TableInv
    OBVIOUS
  <2>1. \A s \in Slot : contacts[s] = None
    BY DEF Init
  <2>2. \A r \in Rank : BucketSlots(r) \subseteq Slot
    BY BucketInside
  <2> QED  BY <2>1, <2>2 DEF TableInv, Placement, NoHoles, NoDuplicates, Occupied
<1>2. Shape /\ TableInv /\ [Next]_vars => TableInv'
  <2> SUFFICES ASSUME Shape, TableInv, [Next]_vars PROVE TableInv'
    OBVIOUS
  <2>1. CASE Next
    <3>1. PICK c \in Contact, f \in Slot :
            Writes(c, f) /\ (Updates(c, f) \/ Fills(c, f) \/ Evicts(c, f))
      BY <2>1, InsertWrites
    <3> DEFINE p == c.peer_id
    <3>2. /\ contacts'[f] = c /\ c # None /\ p \in PeerId
          /\ \A s \in Slot : s # f => contacts'[s] = contacts[s]
      BY <3>1, WrittenSlots
    <3>3. f \in bucket_for(p)
      BY <3>1 DEF Writes
    <3>4. Placement'
      <4> SUFFICES ASSUME NEW s \in Slot, contacts'[s] # None
                   PROVE  s \in bucket_for(contacts'[s].peer_id)
        BY DEF Placement, Occupied, bucket_for
      <4>1. CASE s = f
        BY <3>2, <3>3, <4>1
      <4>2. CASE s # f
        BY <3>2, <4>2 DEF TableInv, Placement, Occupied
      <4> QED  BY <4>1, <4>2
    <3>5. NoHoles'
      <4> SUFFICES ASSUME NEW rank \in Rank, NEW s \in BucketSlots(rank),
                          NEW t \in BucketSlots(rank), s < t, contacts'[t] # None
                   PROVE  contacts'[s] # None
        BY DEF NoHoles, BucketSlots
      <4>1. s \in Slot /\ t \in Slot
        BY BucketInside
      <4>2. CASE s = f
        BY <3>2, <4>2
      <4>3. CASE s # f /\ t # f
        BY <3>2, <4>1, <4>3 DEF TableInv, NoHoles
      <4>4. CASE s # f /\ t = f
        <5>1. rank = distance_rank(peer_id, p)
          BY <3>2, <3>3, <4>4, RankInRange, BucketsDisjoint DEF bucket_for
        <5>2. s \in bucket_for(p)
          BY <5>1 DEF bucket_for
        <5>3. contacts[s] # None
          <6>1. CASE Updates(c, f)
            <7>1. contacts[t] # None
              BY <4>4, <6>1 DEF Updates
            <7> QED  BY <7>1 DEF TableInv, NoHoles
          <6>2. CASE Fills(c, f)
            BY <4>4, <5>2, <6>2 DEF Fills
          <6>3. CASE Evicts(c, f)
            BY <5>2, <6>3 DEF Evicts
          <6> QED  BY <3>1, <6>1, <6>2, <6>3
        <5> QED  BY <3>2, <4>1, <4>4, <5>3
      <4> QED  BY <4>2, <4>3, <4>4
    <3>6. \A t \in Slot : contacts[t] # None /\ contacts[t].peer_id = p => t = f
      <4> SUFFICES ASSUME NEW t \in Slot, contacts[t] # None, contacts[t].peer_id = p
                   PROVE  t = f
        OBVIOUS
      <4>1. t \in bucket_for(p)
        BY DEF TableInv, Placement, Occupied
      <4>2. CASE Updates(c, f)
        BY <4>2 DEF Updates, TableInv, NoDuplicates, Occupied
      <4>3. CASE Fills(c, f)
        <5>1. ~(t < f)
          BY <4>1, <4>3 DEF Fills
        <5>2. ~(f < t)
          <6>1. distance_rank(peer_id, p) \in Rank
            BY <3>2, RankInRange
          <6> QED  BY <3>3, <4>1, <4>3, <6>1 DEF Fills, TableInv, NoHoles, bucket_for
        <5> QED  BY <5>1, <5>2, Sizes DEF Slot
      <4>4. CASE Evicts(c, f)
        BY <4>1, <4>4 DEF Evicts
      <4> QED  BY <3>1, <4>2, <4>3, <4>4
    <3>7. NoDuplicates'
      <4> SUFFICES ASSUME NEW s \in Slot, NEW t \in Slot,
                          contacts'[s] # None, contacts'[t] # None,
                          contacts'[s].peer_id = contacts'[t].peer_id
                   PROVE  s = t
        BY DEF NoDuplicates, Occupied
      <4>1. CASE s = f
        BY <3>2, <3>6, <4>1
      <4>2. CASE t = f
        BY <3>2, <3>6, <4>2
      <4>3. CASE s # f /\ t # f
        BY <3>2, <4>3 DEF TableInv, NoDuplicates, Occupied
      <4> QED  BY <4>1, <4>2, <4>3
    <3> QED  BY <3>4, <3>5, <3>7 DEF TableInv
  <2>2. CASE UNCHANGED vars
    BY <2>2 DEF vars, TableInv, Placement, NoHoles, NoDuplicates, Occupied, BucketSlots, bucket_for
  <2> QED  BY <2>1, <2>2
<1> QED  BY <1>1, <1>2, FlatShape, PTL DEF Spec

\* A peer in any slot but the first of its bucket keeps it.
OldContactsStay ==
  [][\A s \in Occupied :
       s % bucket_size # 0 => contacts'[s].peer_id = contacts[s].peer_id]_vars

(***************************************************************************)
(* item_to_evict is not the round-robin of its comment, the statement that *)
(* would advance next_eviction being commented out: only the first slot of *)
(* a bucket ever changes hands, so the newcomers to a full bucket displace *)
(* each other and the peers of the other slots stay for good.              *)
(***************************************************************************)
THEOREM FlatOldContactsStay == Spec => OldContactsStay
<1>1. Shape /\ [Next]_vars
        => [\A s \in Occupied :
              s % bucket_size # 0 => contacts'[s].peer_id = contacts[s].peer_id]_vars
  <2> SUFFICES ASSUME Shape, Next, NEW s \in Slot, contacts[s] # None, s % bucket_size # 0
               PROVE  contacts'[s].peer_id = contacts[s].peer_id
    BY DEF Occupied
  <2>1. PICK c \in Contact, f \in Slot :
          Writes(c, f) /\ (Updates(c, f) \/ Fills(c, f) \/ Evicts(c, f))
    BY InsertWrites
  <2>2. contacts'[f] = c /\ \A t \in Slot : t # f => contacts'[t] = contacts[t]
    BY <2>1, WrittenSlots
  <2>3. CASE s = f
    BY <2>1, <2>2, <2>3 DEF Updates, Fills, Evicts
  <2>4. CASE s # f
    BY <2>2, <2>4
  <2> QED  BY <2>3, <2>4
<1> QED  BY <1>1, FlatShape, PTL DEF Spec, OldContactsStay
-----------------------------------------------------------------------------
(***************************************************************************)
(* The entry of a peer in the book of a vector of slots without            *)
(* duplicates.                                                             *)
(***************************************************************************)
LEMMA BookEntry ==
  ASSUME NEW cs, NEW bk,
         bk = [p \in PeerId |->
                 IF \E s \in Slot : cs[s] # None /\ cs[s].peer_id = p
                 THEN LET s == CHOOSE s \in Slot : cs[s] # None /\ cs[s].peer_id = p
                      IN  cs[s].address
                 ELSE None],
         \A s, t \in Slot : cs[s] # None /\ cs[t] # None /\ cs[s].peer_id = cs[t].peer_id => s = t
  PROVE  /\ \A s \in Slot : cs[s] # None /\ cs[s].peer_id \in PeerId
                              => bk[cs[s].peer_id] = cs[s].address
         /\ \A p \in PeerId :
              (\A s \in Slot : cs[s] # None => cs[s].peer_id # p) => bk[p] = None
<1>1. ASSUME NEW s \in Slot, cs[s] # None, cs[s].peer_id \in PeerId
      PROVE  bk[cs[s].peer_id] = cs[s].address
  <2> DEFINE p == cs[s].peer_id
             t == CHOOSE t \in Slot : cs[t] # None /\ cs[t].peer_id = p
  <2>1. t \in Slot /\ cs[t] # None /\ cs[t].peer_id = p
    BY <1>1
  <2>2. t = s
    BY <1>1, <2>1
  <2>3. bk[p] = cs[t].address
    BY <1>1
  <2> QED  BY <2>2, <2>3
<1>2. ASSUME NEW p \in PeerId, \A s \in Slot : cs[s] # None => cs[s].peer_id # p
      PROVE  bk[p] = None
  BY <1>2
<1> QED  BY <1>1, <1>2

(***************************************************************************)
(* FlatPeerMap implements the abstract ContactBook: updates and fills are  *)
(* Puts, an eviction forgets the one peer of the same rank whose slot is   *)
(* taken over.                                                             *)
(***************************************************************************)
THEOREM FlatForgetsAtMostOne == Spec => ForgetsAtMostOneOfTheSameRank
<1>1. Init => ContactBook!Init
  BY DEF Init, ContactBook!Init, Book
<1>2. Shape /\ TableInv /\ TableInv' /\ [Next]_vars => [ContactBook!Next]_Book
  <2> SUFFICES ASSUME Shape, TableInv, TableInv', [Next]_vars
               PROVE  [ContactBook!Next]_Book
    OBVIOUS
  <2>1. CASE Next
    <3>1. PICK c \in Contact, f \in Slot :
            Writes(c, f) /\ (Updates(c, f) \/ Fills(c, f) \/ Evicts(c, f))
      BY <2>1, InsertWrites
    <3> DEFINE p == c.peer_id
    <3>2. /\ contacts'[f] = c /\ c # None /\ p \in PeerId /\ c.address \in SocketAddr
          /\ \A s \in Slot : s # f => contacts'[s] = contacts[s]
          /\ Shape'
      BY <3>1, WrittenSlots
    <3>3. /\ \A s \in Slot : contacts[s] # None /\ contacts[s].peer_id \in PeerId
                               => Book[contacts[s].peer_id] = contacts[s].address
          /\ \A q \in PeerId :
               (\A s \in Slot : contacts[s] # None => contacts[s].peer_id # q) => Book[q] = None
      <4>1. \A s, t \in Slot : contacts[s] # None /\ contacts[t] # None
                                 /\ contacts[s].peer_id = contacts[t].peer_id => s = t
        BY DEF TableInv, NoDuplicates, Occupied
      <4> QED  BY <4>1, BookEntry DEF Book
    <3>4. /\ \A s \in Slot : contacts'[s] # None /\ contacts'[s].peer_id \in PeerId
                               => Book'[contacts'[s].peer_id] = contacts'[s].address
          /\ \A q \in PeerId :
               (\A s \in Slot : contacts'[s] # None => contacts'[s].peer_id # q) => Book'[q] = None
      <4>1. \A s, t \in Slot : contacts'[s] # None /\ contacts'[t] # None
                                 /\ contacts'[s].peer_id = contacts'[t].peer_id => s = t
        BY DEF TableInv, NoDuplicates, Occupied
      <4> QED  BY <4>1, BookEntry DEF Book
    <3>5. DOMAIN Book = PeerId /\ DOMAIN Book' = PeerId
      BY DEF Book
    <3>6. Book'[p] = c.address
      BY <3>2, <3>4
    <3>7. ASSUME NEW q \in PeerId, q # p, contacts[f] # None => contacts[f].peer_id # q
          PROVE  Book'[q] = Book[q]
      <4>1. CASE \E s \in Slot : contacts[s] # None /\ contacts[s].peer_id = q
        <5>1. PICK s \in Slot : contacts[s] # None /\ contacts[s].peer_id = q
          BY <4>1
        <5>2. s # f /\ contacts'[s] = contacts[s]
          BY <3>2, <3>7, <5>1
        <5> QED  BY <3>3, <3>4, <5>1, <5>2
      <4>2. CASE \A s \in Slot : contacts[s] # None => contacts[s].peer_id # q
        <5>1. \A s \in Slot : contacts'[s] # None => contacts'[s].peer_id # q
          BY <3>2, <3>7, <4>2
        <5> QED  BY <3>3, <3>4, <4>2, <5>1
      <4> QED  BY <4>1, <4>2
    <3>8. Book = [q \in PeerId |-> Book[q]] /\ Book' = [q \in PeerId |-> Book'[q]]
      BY DEF Book
    <3> HIDE DEF p
    <3>9. CASE Updates(c, f) \/ Fills(c, f)
      <4>1. \A q \in PeerId : q # p => Book'[q] = Book[q]
        BY <3>7, <3>9 DEF Updates, Fills, p
      <4>2. Book' = [Book EXCEPT ![p] = c.address]
        BY <3>2, <3>5, <3>6, <3>8, <4>1
      <4>3. ContactBook!Put(p, c.address)
        BY <4>2 DEF ContactBook!Put
      <4> QED  BY <3>2, <4>3 DEF ContactBook!Next
    <3>10. CASE Evicts(c, f)
      <4> DEFINE v == contacts[f].peer_id
      <4>1. /\ contacts[f] # None /\ v # p
            /\ \A s \in bucket_for(p) : contacts[s] # None /\ contacts[s].peer_id # p
        BY <3>1, <3>10 DEF Evicts, Writes, p
      <4>2. contacts[f] \in Contact /\ v \in PeerId /\ contacts[f].address \in SocketAddr
        BY <4>1 DEF Shape, Contact
      <4>3. distance_rank(peer_id, v) = distance_rank(peer_id, p)
        <5>1. f \in bucket_for(v)
          BY <4>1 DEF TableInv, Placement, Occupied
        <5>2. f \in bucket_for(p)
          BY <3>1 DEF Writes, p
        <5> QED  BY <3>2, <4>2, <5>1, <5>2, RankInRange, BucketsDisjoint DEF bucket_for
      <4>4. <<p, v>> \in Evictions
        BY <3>2, <4>1, <4>2, <4>3 DEF Evictions
      <4>5. Book[p] = None
        <5>1. ASSUME NEW s \in Slot, contacts[s] # None, contacts[s].peer_id = p PROVE FALSE
          <6>1. s \in bucket_for(p)
            BY <5>1 DEF TableInv, Placement, Occupied
          <6> QED  BY <4>1, <5>1, <6>1
        <5> QED  BY <3>2, <3>3, <5>1
      <4>6. Book[v] # None
        BY <3>3, <4>1, <4>2, NoneAssumption
      <4>7. Book'[v] = None
        <5>1. ASSUME NEW s \in Slot, contacts'[s] # None, contacts'[s].peer_id = v PROVE FALSE
          <6>1. s # f
            BY <3>2, <4>1, <5>1 DEF p
          <6>2. contacts[s] # None /\ contacts[s].peer_id = v
            BY <3>2, <5>1, <6>1
          <6> QED  BY <4>1, <6>1, <6>2 DEF TableInv, NoDuplicates, Occupied
        <5> QED  BY <3>4, <4>2, <5>1
      <4>8. \A q \in PeerId : q # p /\ q # v => Book'[q] = Book[q]
        BY <3>7
      <4> HIDE DEF v
      <4>9. Book' = [Book EXCEPT ![p] = c.address, ![v] = None]
        BY <3>2, <3>5, <3>6, <3>8, <4>1, <4>2, <4>7, <4>8
      <4>10. ContactBook!PutEvicting(p, c.address, v)
        BY <4>5, <4>6, <4>9 DEF ContactBook!PutEvicting
      <4> QED  BY <3>2, <4>2, <4>4, <4>10 DEF ContactBook!Next
    <3> QED  BY <3>1, <3>9, <3>10
  <2>2. CASE UNCHANGED vars
    BY <2>2 DEF vars, Book
  <2> QED  BY <2>1, <2>2
<1>3. Spec => [](Shape /\ TableInv)
  BY FlatShape, FlatTableInv, PTL
<1>4. Init /\ [][Next]_vars => ContactBook!Init /\ [][ContactBook!Next]_Book
  BY <1>1, <1>2, <1>3, PTL DEF Spec
<1> QED  BY <1>4 DEF Spec, ForgetsAtMostOneOfTheSameRank, ContactBook!Spec
-----------------------------------------------------------------------------
(***************************************************************************)
(* The search.  A bucket contributes its contacts, each once.              *)
(***************************************************************************)
LEMMA BucketContacts ==
  ASSUME Shape, NEW r \in Rank
  PROVE  /\ bucket_contacts(r) \in Seq(Contact)
         /\ \A n \in 1 .. Len(bucket_contacts(r)) :
              \E s \in BucketSlots(r) : contacts[s] # None /\ bucket_contacts(r)[n] = contacts[s]
         /\ \A s \in BucketSlots(r) : contacts[s] # None =>
              \E n \in 1 .. Len(bucket_contacts(r)) : bucket_contacts(r)[n] = contacts[s]
         /\ TableInv =>
              \A m, n \in 1 .. Len(bucket_contacts(r)) :
                m < n => bucket_contacts(r)[m].peer_id # bucket_contacts(r)[n].peer_id
<1> DEFINE slots == [n \in 1 .. bucket_size |-> contacts[r * bucket_size + n - 1]]
           out == filter(slots, Contact)
<1>1. r * bucket_size \in Nat
  BY Sizes DEF Rank
<1>2. BucketSlots(r) \subseteq Slot
  BY BucketInside
<1>3. \A n \in 1 .. bucket_size : r * bucket_size + n - 1 \in BucketSlots(r)
  BY <1>1, Sizes DEF BucketSlots
<1>4. ASSUME NEW s \in BucketSlots(r)
      PROVE  \E n \in 1 .. bucket_size : s = r * bucket_size + n - 1
  <2>1. s - r * bucket_size + 1 \in 1 .. bucket_size
    BY <1>1, Sizes DEF BucketSlots
  <2>2. s = r * bucket_size + (s - r * bucket_size + 1) - 1
    BY <1>1, Sizes DEF BucketSlots
  <2> QED  BY <2>1, <2>2
<1>5. \A n \in 1 .. bucket_size : slots[n] \in Contact \cup {None}
  BY <1>2, <1>3 DEF Shape
<1>6. slots \in Seq(Contact \cup {None}) /\ Len(slots) = bucket_size
  BY <1>5, Sizes
<1>7. \A s \in Slot : contacts[s] # None <=> contacts[s] \in Contact
  BY NoneAssumption DEF Shape
<1>8. bucket_contacts(r) = out
  BY DEF bucket_contacts
<1> HIDE DEF out
<1>9. /\ out \in Seq((Contact \cup {None}) \cap Contact)
      /\ \A n \in 1 .. Len(out) : \E i \in 1 .. bucket_size : out[n] = slots[i]
      /\ \A i \in 1 .. bucket_size : slots[i] \in Contact => \E n \in 1 .. Len(out) : out[n] = slots[i]
      /\ \A m, n \in 1 .. Len(out) : m < n =>
           \E i, j \in 1 .. bucket_size : i < j /\ out[m] = slots[i] /\ out[n] = slots[j]
  <2> DEFINE S == Contact \cup {None}
  <2>1. slots \in Seq(S) /\ out = filter(slots, Contact)
    BY <1>6 DEF out
  <2> HIDE DEF slots, S
  <2>2. Filtered(S, slots, Contact, out)
    BY <2>1, FilterFacts
  <2> QED  BY <1>6, <2>2 DEF S, Filtered
<1>10. (Contact \cup {None}) \cap Contact = Contact
  OBVIOUS
<1>11. out \in Seq(Contact)
  BY <1>9, <1>10
<1>12. \A n \in 1 .. Len(out) : out[n] \in Contact
  BY <1>11
<1>13. ASSUME NEW n \in 1 .. Len(out)
       PROVE  \E s \in BucketSlots(r) : contacts[s] # None /\ out[n] = contacts[s]
  <2>1. PICK i \in 1 .. bucket_size : out[n] = slots[i]
    BY <1>9
  <2>2. slots[i] = contacts[r * bucket_size + i - 1]
    OBVIOUS
  <2> HIDE DEF slots
  <2> QED  BY <1>2, <1>3, <1>7, <1>12, <2>1, <2>2
<1>14. ASSUME NEW s \in BucketSlots(r), contacts[s] # None
       PROVE  \E n \in 1 .. Len(out) : out[n] = contacts[s]
  <2>1. PICK i \in 1 .. bucket_size : s = r * bucket_size + i - 1
    BY <1>4
  <2>2. slots[i] = contacts[s]
    BY <2>1
  <2> HIDE DEF slots
  <2> QED  BY <1>2, <1>7, <1>9, <1>14, <2>2
<1>15. ASSUME TableInv, NEW m \in 1 .. Len(out), NEW n \in 1 .. Len(out), m < n
       PROVE  out[m].peer_id # out[n].peer_id
  <2>1. PICK i \in 1 .. bucket_size, j \in 1 .. bucket_size :
          i < j /\ out[m] = slots[i] /\ out[n] = slots[j]
    BY <1>9, <1>15
  <2> DEFINE a == r * bucket_size + i - 1
             b == r * bucket_size + j - 1
  <2>2. a \in Slot /\ b \in Slot
    BY <1>2, <1>3
  <2>3. a # b
    BY <1>1, <2>1, Sizes
  <2>4. out[m] = contacts[a] /\ out[n] = contacts[b]
    BY <2>1
  <2> HIDE DEF slots, a, b
  <2>5. contacts[a] # None /\ contacts[b] # None
    BY <1>7, <1>12, <2>2, <2>4
  <2> QED  BY <1>15, <2>2, <2>3, <2>4, <2>5 DEF TableInv, NoDuplicates, Occupied
<1> QED  BY <1>8, <1>11, <1>13, <1>14, <1>15

\* The buckets on either side of the target, by how often the index wraps.
LEMMA Wrapped ==
  ASSUME NEW t \in Rank, NEW w \in 0 .. max_power - 1
  PROVE  /\ (t + w) % max_power = IF t + w < max_power THEN t + w ELSE t + w - max_power
         /\ (t - w) % max_power = IF w <= t THEN t - w ELSE t - w + max_power
         /\ (t + w) % max_power \in Rank /\ (t - w) % max_power \in Rank
<1>1. t \in Nat /\ w \in Nat /\ t < max_power /\ w < max_power /\ max_power \in Nat
  BY Sizes DEF Rank
<1>2. (t + w) % max_power = IF t + w < max_power THEN t + w ELSE t + w - max_power
  BY <1>1
<1>3. (t - w) % max_power = IF w <= t THEN t - w ELSE t - w + max_power
  BY <1>1
<1> QED  BY <1>1, <1>2, <1>3 DEF Rank

(***************************************************************************)
(* `results` after each iteration of find_closest_peers.                   *)
(***************************************************************************)
Results(needle, cnt) ==
  LET t == distance_rank(peer_id, needle)
  IN  {r \in [0 .. last_width -> Seq(Contact)] :
         /\ find_closest_peers(needle, cnt) = truncate(r[last_width], cnt)
         /\ r[0] = bucket_contacts(t)
         /\ \A w \in 1 .. last_width :
              r[w] = IF Len(r[w - 1]) >= cnt THEN r[w - 1]
                     ELSE r[w - 1] \o bucket_contacts((t + w) % max_power)
                                   \o bucket_contacts((t - w) % max_power)}

LEMMA ResultsExist ==
  ASSUME Shape, NEW needle \in PeerId, NEW cnt \in Nat
  PROVE  Results(needle, cnt) # {}
<1> DEFINE t == distance_rank(peer_id, needle)
           N == last_width
           A == bucket_contacts(t)
           X(w) == bucket_contacts((t + w) % max_power)
           Y(w) == bucket_contacts((t - w) % max_power)
           Step(w, s) == IF Len(s) >= cnt THEN s ELSE s \o X(w) \o Y(w)
           F == [w \in 1 .. N |-> [s \in Seq(Contact) |-> Step(w, s)]]
           Eq(r) == [w \in 0 .. N |-> IF w = 0 THEN A
                                     ELSE IF Len(r[w - 1]) >= cnt THEN r[w - 1]
                                     ELSE r[w - 1] \o X(w) \o Y(w)]
           results == CHOOSE r : r = Eq(r)
<1>0. N \in Nat /\ t \in Rank /\ A \in Seq(Contact)
  BY Sizes, RankInRange, BucketContacts DEF last_width
<1>1. \A w \in 1 .. N : X(w) \in Seq(Contact) /\ Y(w) \in Seq(Contact)
  <2> SUFFICES ASSUME NEW w \in 1 .. N PROVE X(w) \in Seq(Contact) /\ Y(w) \in Seq(Contact)
    OBVIOUS
  <2>1. w \in 0 .. max_power - 1
    BY Sizes DEF last_width
  <2>2. (t + w) % max_power \in Rank /\ (t - w) % max_power \in Rank
    BY <1>0, <2>1, Wrapped
  <2> QED  BY <2>2, BucketContacts
<1>2. find_closest_peers(needle, cnt) = truncate(results[N], cnt)
  BY DEF find_closest_peers
<1> HIDE DEF X, Y, A, N
<1>3. ASSUME NEW w \in 1 .. N, NEW s \in Seq(Contact) PROVE Step(w, s) \in Seq(Contact)
  BY <1>1
<1>4. F \in LoopBodies(N, Seq(Contact))
  <2> HIDE DEF Step
  <2> QED  BY <1>3 DEF LoopBodies
<1>5. LoopRuns(N, Seq(Contact), A, F) # {}
  <2> HIDE DEF F
  <2> QED  BY <1>0, <1>4, LoopStates
<1>6. PICK g \in [0 .. N -> Seq(Contact)] :
        g[0] = A /\ \A w \in 1 .. N : g[w] = F[w][g[w - 1]]
  BY <1>5 DEF LoopRuns
<1>7. ASSUME NEW w \in 1 .. N PROVE g[w - 1] \in Seq(Contact) /\ g[w] = Step(w, g[w - 1])
  <2>1. w - 1 \in 0 .. N
    BY <1>0
  <2>2. g[w - 1] \in Seq(Contact)
    BY <1>6, <2>1
  <2>3. F[w][g[w - 1]] = Step(w, g[w - 1])
    <3> HIDE DEF Step
    <3> QED BY <2>2
  <2> HIDE DEF Step, F
  <2> QED  BY <1>6, <2>2, <2>3
<1>8. \A r : \A w \in 0 .. N : Eq(r)[w] = IF w = 0 THEN A ELSE Step(w, r[w - 1])
  OBVIOUS
<1>9. g = Eq(g)
  <2>1. \A w \in 0 .. N : w # 0 => w \in 1 .. N
    BY <1>0
  <2>2. g = [w \in 0 .. N |-> g[w]] /\ Eq(g) = [w \in 0 .. N |-> Eq(g)[w]]
    OBVIOUS
  <2> HIDE DEF Step, Eq
  <2>3. \A w \in 0 .. N : Eq(g)[w] = g[w]
    BY <1>6, <1>7, <1>8, <2>1
  <2> QED  BY <2>2, <2>3
<1>10. results = Eq(results)
  <2> HIDE DEF Eq
  <2> QED  BY <1>9
<1>11. results = [w \in 0 .. N |-> results[w]]
  BY <1>10
<1> HIDE DEF results
<1>12. results[0] = A /\ \A w \in 1 .. N : results[w] = Step(w, results[w - 1])
  <2>1. 0 \in 0 .. N /\ \A w \in 1 .. N : w \in 0 .. N /\ w # 0
    BY <1>0
  <2> HIDE DEF Step, Eq
  <2> QED  BY <1>8, <1>10, <2>1
<1>13. \A w \in 0 .. N : results[w] \in Seq(Contact)
  <2> DEFINE Good == {w \in 0 .. N : results[w] \in Seq(Contact)}
  <2>1. 0 \in Good
    BY <1>0, <1>12
  <2>2. \A w \in 1 .. N : w - 1 \in Good => w \in Good
    <3> HIDE DEF Step
    <3> QED  BY <1>3, <1>12
  <2> HIDE DEF Good
  <2>3. \A w \in 0 .. N : w \in Good
    BY <1>0, <2>1, <2>2, CountingUp
  <2> QED  BY <2>3 DEF Good
<1>14. results \in [0 .. N -> Seq(Contact)]
  <2> HIDE DEF Eq
  <2> QED  BY <1>11, <1>13
<1>15. \A w \in 1 .. N : results[w] = IF Len(results[w - 1]) >= cnt THEN results[w - 1]
                                      ELSE results[w - 1] \o X(w) \o Y(w)
  BY <1>12
<1>16. results \in Results(needle, cnt)
  BY <1>2, <1>12, <1>14, <1>15 DEF Results, X, Y, A, N
<1> QED  BY <1>16
-----------------------------------------------------------------------------
\* Contact x is in bucket k.
Holds(k, x) == \E s \in BucketSlots(k) : contacts[s] # None /\ contacts[s] = x

\* A contact is in one bucket, and its peer in no other contact.
LEMMA HeldOnce ==
  ASSUME TableInv, NEW j \in Rank, NEW k \in Rank, NEW x, NEW y,
         Holds(j, x), Holds(k, y), x.peer_id = y.peer_id
  PROVE  j = k /\ x = y
<1>1. PICK s \in BucketSlots(j) : contacts[s] # None /\ contacts[s] = x
  BY DEF Holds
<1>2. PICK q \in BucketSlots(k) : contacts[q] # None /\ contacts[q] = y
  BY DEF Holds
<1>3. s \in Slot /\ q \in Slot
  BY BucketInside
<1>4. s = q
  BY <1>1, <1>2, <1>3 DEF TableInv, NoDuplicates, Occupied
<1> QED  BY <1>1, <1>2, <1>4, BucketsDisjoint

\* contains() returns what is held, and nothing else.
LEMMA HeldIsContained ==
  ASSUME Shape, TableInv
  PROVE  /\ \A k \in Rank : \A x : Holds(k, x) =>
              /\ x \in Contact /\ x.peer_id \in PeerId
              /\ k = distance_rank(peer_id, x.peer_id)
              /\ contains(x.peer_id) = x
         /\ \A p \in PeerId : contains(p) # None =>
              Holds(distance_rank(peer_id, p), contains(p)) /\ contains(p).peer_id = p
<1> DEFINE found(p) == {s \in bucket_for(p) : contacts[s] # None /\ contacts[s].peer_id = p}
<1>0. ASSUME NEW p \in PeerId
      PROVE  /\ bucket_for(p) \subseteq Slot
             /\ found(p) # {} => Min(found(p)) \in found(p)
             /\ contains(p) = IF found(p) = {} THEN None ELSE contacts[Min(found(p))]
  <2>1. bucket_for(p) \in SUBSET Nat /\ bucket_for(p) \subseteq Slot
    BY RankInRange, BucketInside DEF bucket_for
  <2>2. found(p) \in SUBSET Nat
    BY <2>1
  <2>3. contains(p) = IF found(p) = {} THEN None ELSE contacts[Min(found(p))]
    BY DEF contains
  <2>4. found(p) # {} => Min(found(p)) \in found(p)
    <3> HIDE DEF found
    <3> QED  BY <2>2, MinOfNaturals
  <2> QED  BY <2>1, <2>3, <2>4
<1>1. ASSUME NEW k \in Rank, NEW x, Holds(k, x)
      PROVE  /\ x \in Contact /\ x.peer_id \in PeerId
             /\ k = distance_rank(peer_id, x.peer_id)
             /\ contains(x.peer_id) = x
  <2>1. PICK s \in BucketSlots(k) : contacts[s] # None /\ contacts[s] = x
    BY <1>1 DEF Holds
  <2>2. s \in Slot
    BY BucketInside
  <2>3. x \in Contact /\ x.peer_id \in PeerId
    BY <2>1, <2>2 DEF Shape, Contact
  <2> DEFINE p == x.peer_id
  <2>4. s \in bucket_for(p)
    BY <2>1, <2>2 DEF TableInv, Placement, Occupied
  <2>5. k = distance_rank(peer_id, p)
    BY <2>3, <2>4, RankInRange, BucketsDisjoint DEF bucket_for
  <2>6. s \in found(p)
    BY <2>1, <2>4
  <2>7. Min(found(p)) \in found(p) /\ contains(p) = contacts[Min(found(p))]
    BY <1>0, <2>3, <2>6
  <2> DEFINE m == Min(found(p))
  <2>8. m \in Slot /\ contacts[m] # None /\ contacts[m].peer_id = p
    BY <1>0, <2>3, <2>7
  <2> HIDE DEF m
  <2>9. m = s
    BY <2>1, <2>2, <2>8 DEF TableInv, NoDuplicates, Occupied
  <2> QED  BY <2>1, <2>3, <2>5, <2>7, <2>9 DEF m
<1>2. ASSUME NEW p \in PeerId, contains(p) # None
      PROVE  Holds(distance_rank(peer_id, p), contains(p)) /\ contains(p).peer_id = p
  <2>1. Min(found(p)) \in found(p) /\ contains(p) = contacts[Min(found(p))]
    BY <1>0, <1>2
  <2> QED  BY <2>1 DEF Holds, bucket_for
<1> QED  BY <1>1, <1>2

-----------------------------------------------------------------------------
(***************************************************************************)
(* A list that names the contacts of some buckets, all of them and each    *)
(* once.                                                                   *)
(***************************************************************************)
Distinct(s, n) == \A i, j \in 1 .. n : i < j => s[i].peer_id # s[j].peer_id

From(s, K) == \A n \in 1 .. Len(s) : \E k \in K : Holds(k, s[n])

Covers(s, n, K) == \A k \in K : \A x \in Contact : Holds(k, x) => \E i \in 1 .. n : s[i] = x

Lists(s, K) ==
  s \in Seq(Contact) /\ Distinct(s, Len(s)) /\ From(s, K) /\ Covers(s, Len(s), K)

LEMMA BucketLists ==
  ASSUME Shape, TableInv, NEW k \in Rank
  PROVE  Lists(bucket_contacts(k), {k})
BY BucketContacts DEF Lists, Distinct, From, Covers, Holds

\* Indices of two lists put together.
LEMMA ConcatIndices ==
  ASSUME NEW T, NEW s \in Seq(T), NEW x \in Seq(T)
  PROVE  /\ s \o x \in Seq(T) /\ Len(s \o x) = Len(s) + Len(x)
         /\ Len(s) \in Nat /\ Len(x) \in Nat
         /\ \A n \in 1 .. Len(s) : n \in 1 .. Len(s \o x) /\ (s \o x)[n] = s[n]
         /\ \A n \in 1 .. Len(x) :
              Len(s) + n \in 1 .. Len(s \o x) /\ (s \o x)[Len(s) + n] = x[n]
         /\ \A n \in 1 .. Len(s \o x) : n \in 1 .. Len(s) \/ n - Len(s) \in 1 .. Len(x)
         /\ \A n \in 1 .. Len(s \o x) : n \notin 1 .. Len(s) => (s \o x)[n] = x[n - Len(s)]
OBVIOUS

\* Two lists of contacts of some buckets are one such list.
LEMMA FromConcat ==
  ASSUME NEW K, NEW s \in Seq(Contact), NEW x \in Seq(Contact), From(s, K), From(x, K)
  PROVE  /\ s \o x \in Seq(Contact) /\ From(s \o x, K)
         /\ Len(s \o x) >= Len(s)
         /\ \A n \in 1 .. Len(s) : (s \o x)[n] = s[n]
BY ConcatIndices DEF From

\* One more bucket.
LEMMA ListsOneMore ==
  ASSUME TableInv, NEW K \in SUBSET Rank, NEW k \in Rank, k \notin K,
         NEW s, Lists(s, K), NEW x, Lists(x, {k})
  PROVE  Lists(s \o x, K \cup {k})
<1> DEFINE z == s \o x
<1>1. s \in Seq(Contact) /\ x \in Seq(Contact)
  BY DEF Lists
<1>2. /\ z \in Seq(Contact) /\ Len(z) = Len(s) + Len(x)
      /\ Len(s) \in Nat /\ Len(x) \in Nat
      /\ \A n \in 1 .. Len(s) : n \in 1 .. Len(z) /\ z[n] = s[n]
      /\ \A n \in 1 .. Len(x) : Len(s) + n \in 1 .. Len(z) /\ z[Len(s) + n] = x[n]
      /\ \A n \in 1 .. Len(z) : n \in 1 .. Len(s) \/ n - Len(s) \in 1 .. Len(x)
      /\ \A n \in 1 .. Len(z) : n \notin 1 .. Len(s) => z[n] = x[n - Len(s)]
  BY <1>1, ConcatIndices
<1> HIDE DEF z
<1>3. From(z, K \cup {k})
  BY <1>2 DEF Lists, From
<1>4. Covers(z, Len(z), K \cup {k})
  <2> SUFFICES ASSUME NEW j \in K \cup {k}, NEW y \in Contact, Holds(j, y)
               PROVE  \E i \in 1 .. Len(z) : z[i] = y
    BY DEF Covers
  <2>1. CASE j \in K
    <3>1. PICK i \in 1 .. Len(s) : s[i] = y
      BY <2>1 DEF Lists, Covers
    <3> QED  BY <1>2, <3>1
  <2>2. CASE j = k
    <3>1. PICK i \in 1 .. Len(x) : x[i] = y
      BY <2>2 DEF Lists, Covers
    <3> QED  BY <1>2, <3>1
  <2> QED  BY <2>1, <2>2
<1>5. Distinct(z, Len(z))
  <2> SUFFICES ASSUME NEW i \in 1 .. Len(z), NEW j \in 1 .. Len(z), i < j
               PROVE  z[i].peer_id # z[j].peer_id
    BY DEF Distinct
  <2>1. CASE j \in 1 .. Len(s)
    <3>1. i \in 1 .. Len(s)
      BY <2>1
    <3> QED  BY <1>2, <2>1, <3>1 DEF Lists, Distinct
  <2>2. CASE i \notin 1 .. Len(s)
    <3>1. j \notin 1 .. Len(s)
      BY <1>2, <2>2
    <3>2. /\ i - Len(s) \in 1 .. Len(x) /\ j - Len(s) \in 1 .. Len(x)
          /\ i - Len(s) < j - Len(s)
          /\ z[i] = x[i - Len(s)] /\ z[j] = x[j - Len(s)]
      BY <1>2, <2>2, <3>1
    <3> QED  BY <3>2 DEF Lists, Distinct
  <2>3. CASE i \in 1 .. Len(s) /\ j \notin 1 .. Len(s)
    <3>1. z[i] = s[i] /\ j - Len(s) \in 1 .. Len(x) /\ z[j] = x[j - Len(s)]
      BY <1>2, <2>3
    <3>2. PICK l \in K : Holds(l, s[i])
      BY <2>3 DEF Lists, From
    <3>3. Holds(k, x[j - Len(s)])
      BY <3>1 DEF Lists, From
    <3> QED  BY <3>1, <3>2, <3>3, HeldOnce
  <2> QED  BY <2>1, <2>2, <2>3
<1> QED  BY <1>2, <1>3, <1>4, <1>5 DEF Lists, z

(***************************************************************************)
(* The buckets that a search of width w around t has visited: all of them  *)
(* are different as long as 2w is below the number of buckets, and then    *)
(* none is left out.                                                       *)
(***************************************************************************)
Seen(t, w) ==
  {k \in Rank : \E i \in 0 .. w : k = (t + i) % max_power \/ k = (t - i) % max_power}

LEMMA SeenStart ==
  ASSUME NEW t \in Rank
  PROVE  Seen(t, 0) = {t}
<1>1. 0 \in 0 .. max_power - 1 /\ t < max_power /\ 0 <= t /\ t + 0 = t /\ t - 0 = t
  BY Sizes DEF Rank
<1>2. (t + 0) % max_power = t /\ (t - 0) % max_power = t
  BY <1>1, Wrapped
<1>3. 0 .. 0 = {0}
  OBVIOUS
<1> QED  BY <1>2, <1>3 DEF Seen

LEMMA SeenGrows ==
  ASSUME NEW t \in Rank, NEW w \in 1 .. max_power - 1
  PROVE  LET u == (t + w) % max_power
             v == (t - w) % max_power
         IN  /\ u \in Rank /\ v \in Rank
             /\ Seen(t, w) = Seen(t, w - 1) \cup {u, v}
             /\ 2 * w <= max_power => u \notin Seen(t, w - 1) /\ v \notin Seen(t, w - 1)
             /\ 2 * w < max_power => u # v
             /\ 2 * w = max_power => u = v /\ Seen(t, w - 1) \cup {u} = Rank
             /\ 2 * w = max_power + 1 => Seen(t, w - 1) = Rank
<1> DEFINE u == (t + w) % max_power
           v == (t - w) % max_power
           P == max_power
           ahead(i) == IF t + i < P THEN t + i ELSE t + i - P
           behind(i) == IF i <= t THEN t - i ELSE t - i + P
<1>0. P \in Nat /\ t \in Nat /\ t < P /\ w \in Nat /\ w >= 1 /\ w < P
  BY Sizes DEF Rank
<1>1. \A i \in 0 .. w : i \in 0 .. P - 1
  BY <1>0
<1>2. \A i \in 0 .. w : (t + i) % P = ahead(i) /\ (t - i) % P = behind(i)
  BY <1>1, Wrapped
<1>3. u = ahead(w) /\ v = behind(w) /\ u \in Rank /\ v \in Rank
  <2>1. w \in 0 .. max_power - 1
    BY <1>0
  <2> QED  BY <2>1, Wrapped
<1>4. /\ \A k : k \in Seen(t, w) <=> k \in Rank /\ \E i \in 0 .. w : k = ahead(i) \/ k = behind(i)
      /\ \A k : k \in Seen(t, w - 1) <=>
                  k \in Rank /\ \E i \in 0 .. w - 1 : k = ahead(i) \/ k = behind(i)
  <2>1. \A i \in 0 .. w - 1 : i \in 0 .. w
    BY <1>0
  <2> HIDE DEF ahead, behind
  <2> QED  BY <1>2, <2>1 DEF Seen
<1>5. Seen(t, w) = Seen(t, w - 1) \cup {u, v}
  <2>1. \A i \in 0 .. w : i = w \/ i \in 0 .. w - 1
    BY <1>0
  <2>2. w \in 0 .. w /\ \A i \in 0 .. w - 1 : i \in 0 .. w
    BY <1>0
  <2> HIDE DEF u, v, ahead, behind
  <2> QED  BY <1>3, <1>4, <2>1, <2>2
<1>6. ASSUME 2 * w <= P PROVE u \notin Seen(t, w - 1) /\ v \notin Seen(t, w - 1)
  <2>1. ASSUME NEW i \in 0 .. w - 1
        PROVE  u # ahead(i) /\ u # behind(i) /\ v # ahead(i) /\ v # behind(i)
    <3> HIDE DEF u, v, P
    <3> QED  BY <1>0, <1>3, <1>6
  <2> HIDE DEF u, v, ahead, behind
  <2> QED  BY <1>4, <2>1
<1>7. ASSUME 2 * w < P PROVE u # v
  <2> HIDE DEF u, v, P
  <2> QED  BY <1>0, <1>3, <1>7
<1>8. ASSUME NEW k \in Rank, 2 * w = P \/ 2 * w = P + 1, k \notin Seen(t, w - 1)
      PROVE  2 * w = P /\ k = u
  <2>1. k \in Nat /\ k < P
    BY Sizes DEF Rank
  <2> DEFINE d == IF k >= t THEN k - t ELSE k - t + P
  <2>2. d \in Nat /\ d < P /\ k = ahead(d)
    BY <1>0, <2>1
  <2>3. d # 0 => k = behind(P - d)
    BY <1>0, <2>1
  <2> HIDE DEF u, v, P, d
  <2>4. ~(d \in 0 .. w - 1)
    <3> HIDE DEF ahead, behind
    <3> QED  BY <1>4, <1>8, <2>2
  <2>5. ~(P - d \in 0 .. w - 1)
    <3>1. P - d \in 0 .. w - 1 => d # 0
      BY <1>0, <2>2
    <3> HIDE DEF ahead, behind
    <3> QED  BY <1>4, <1>8, <2>3, <3>1
  <2>6. d >= w /\ P - d >= w
    BY <1>0, <2>2, <2>4, <2>5
  <2>7. 2 * w = P /\ d = w
    BY <1>0, <1>8, <2>2, <2>6
  <2> QED  BY <1>3, <2>2, <2>7
<1>9. ASSUME 2 * w = P PROVE u = v /\ Seen(t, w - 1) \cup {u} = Rank
  <2>1. u = v
    <3> HIDE DEF u, v, P
    <3> QED  BY <1>0, <1>3, <1>9
  <2>2. Seen(t, w - 1) \subseteq Rank
    BY DEF Seen
  <2> HIDE DEF u, v
  <2> QED  BY <1>3, <1>8, <1>9, <2>1, <2>2
<1>10. ASSUME 2 * w = P + 1 PROVE Seen(t, w - 1) = Rank
  <2>1. Seen(t, w - 1) \subseteq Rank
    BY DEF Seen
  <2>2. 2 * w # P
    BY <1>0, <1>10
  <2> HIDE DEF u, v, P
  <2> QED  BY <1>8, <1>10, <2>1, <2>2
<1> QED  BY <1>3, <1>5, <1>6, <1>7, <1>9, <1>10

(***************************************************************************)
(* What the search has achieved after width w: the first cnt results hold  *)
(* the whole table, or cnt different peers, or the results are too few but *)
(* complete for the buckets visited, none of them visited twice.           *)
(***************************************************************************)
Searched(t, w, cnt, s) ==
  \/ \E m \in 0 .. cnt : m <= Len(s) /\ Covers(s, m, Rank)
  \/ Len(s) >= cnt /\ Distinct(s, cnt)
  \/ Len(s) < cnt /\ 2 * w < max_power /\ Lists(s, Seen(t, w))

\* A list that is complete or long enough is a good start of a longer one.
LEMMA SearchedExtends ==
  ASSUME NEW t, NEW w, NEW cnt \in Nat, NEW s \in Seq(Contact), NEW x \in Seq(Contact),
         \/ \E m \in 0 .. cnt : m <= Len(s) /\ Covers(s, m, Rank)
         \/ Len(s) >= cnt /\ Distinct(s, cnt)
  PROVE  Searched(t, w, cnt, s \o x)
<1> DEFINE z == s \o x
<1>1. /\ Len(z) >= Len(s) /\ Len(s) \in Nat /\ Len(z) \in Nat
      /\ \A n \in 1 .. Len(s) : z[n] = s[n]
  BY ConcatIndices
<1> HIDE DEF z
<1>2. ASSUME NEW m \in 0 .. cnt, m <= Len(s), Covers(s, m, Rank) PROVE Searched(t, w, cnt, z)
  <2>1. \A i \in 1 .. m : i \in 1 .. Len(s)
    BY <1>1, <1>2
  <2>2. Covers(z, m, Rank)
    BY <1>1, <1>2, <2>1 DEF Covers
  <2>3. m <= Len(z)
    BY <1>1, <1>2
  <2> QED  BY <2>2, <2>3 DEF Searched
<1>3. ASSUME Len(s) >= cnt, Distinct(s, cnt) PROVE Searched(t, w, cnt, z)
  <2>1. Len(z) >= cnt /\ \A i \in 1 .. cnt : i \in 1 .. Len(s)
    BY <1>1, <1>3
  <2>2. Distinct(z, cnt)
    BY <1>1, <1>3, <2>1 DEF Distinct
  <2> QED  BY <2>1, <2>2 DEF Searched
<1> QED  BY <1>2, <1>3 DEF z

\* A list of all buckets is complete or long enough.
LEMMA ListsAll ==
  ASSUME NEW cnt \in Nat, NEW s, NEW K, Lists(s, K), K = Rank \/ Len(s) >= cnt
  PROVE  \/ \E m \in 0 .. cnt : m <= Len(s) /\ Covers(s, m, Rank)
         \/ Len(s) >= cnt /\ Distinct(s, cnt)
<1>1. Len(s) \in Nat
  BY DEF Lists
<1>2. CASE Len(s) >= cnt
  <2>1. \A i \in 1 .. cnt : i \in 1 .. Len(s)
    BY <1>1, <1>2
  <2> QED  BY <1>2, <2>1 DEF Lists, Distinct
<1>3. CASE ~(Len(s) >= cnt)
  <2>1. Len(s) \in 0 .. cnt /\ Len(s) <= Len(s)
    BY <1>1, <1>3
  <2> QED  BY <1>3, <2>1 DEF Lists
<1> QED  BY <1>2, <1>3

\* One iteration of the loop.
LEMMA SearchIteration ==
  ASSUME Shape, TableInv, NEW t \in Rank, NEW w \in 1 .. max_power - 1, NEW cnt \in Nat,
         NEW s \in Seq(Contact), Searched(t, w - 1, cnt, s), Len(s) < cnt
  PROVE  Searched(t, w, cnt, s \o bucket_contacts((t + w) % max_power)
                               \o bucket_contacts((t - w) % max_power))
<1> DEFINE u == (t + w) % max_power
           v == (t - w) % max_power
           x == bucket_contacts(u)
           y == bucket_contacts(v)
           K == Seen(t, w - 1)
<1>1. /\ u \in Rank /\ v \in Rank
      /\ Seen(t, w) = K \cup {u, v}
      /\ 2 * w <= max_power => u \notin K /\ v \notin K
      /\ 2 * w < max_power => u # v
      /\ 2 * w = max_power => u = v /\ K \cup {u} = Rank
      /\ 2 * w = max_power + 1 => K = Rank
  BY SeenGrows
<1>2. K \in SUBSET Rank
  BY DEF Seen
<1> HIDE DEF u, v, K
<1>3. Lists(x, {u}) /\ Lists(y, {v})
  BY <1>1, BucketLists
<1>4. x \in Seq(Contact) /\ y \in Seq(Contact)
  BY <1>3 DEF Lists
<1> HIDE DEF x, y
<1>5. s \o x \in Seq(Contact) /\ s \o x \o y = (s \o x) \o y
  BY <1>4
<1>6. CASE \E m \in 0 .. cnt : m <= Len(s) /\ Covers(s, m, Rank)
  <2>1. x \o y \in Seq(Contact) /\ s \o x \o y = s \o (x \o y)
    BY <1>4
  <2>2. Searched(t, w, cnt, s \o (x \o y))
    BY <1>6, <2>1, SearchedExtends
  <2> QED  BY <2>1, <2>2 DEF x, y, u, v
<1>7. CASE 2 * (w - 1) < max_power /\ Lists(s, K)
  <2>0. w \in Nat /\ max_power \in Nat
    BY Sizes
  <2>1. CASE 2 * w < max_power
    <3>1. Lists(s \o x, K \cup {u})
      BY <1>1, <1>2, <1>3, <1>7, <2>0, <2>1, ListsOneMore
    <3>2. K \cup {u} \in SUBSET Rank /\ v \notin K \cup {u}
      BY <1>1, <1>2, <2>0, <2>1
    <3>3. Lists((s \o x) \o y, (K \cup {u}) \cup {v})
      BY <1>1, <1>3, <3>1, <3>2, ListsOneMore
    <3>4. (K \cup {u}) \cup {v} = Seen(t, w)
      BY <1>1
    <3> DEFINE z == (s \o x) \o y
    <3>5. Lists(z, Seen(t, w))
      BY <3>3, <3>4
    <3> HIDE DEF z
    <3>6. Len(z) \in Nat
      BY <3>5 DEF Lists
    <3>7. CASE Len(z) < cnt
      <4>1. Searched(t, w, cnt, z)
        BY <2>1, <3>5, <3>7 DEF Searched
      <4> QED  BY <4>1 DEF z, x, y, u, v
    <3>8. CASE Len(z) >= cnt
      <4>1. Searched(t, w, cnt, z)
        BY <3>5, <3>8, ListsAll DEF Searched
      <4> QED  BY <4>1 DEF z, x, y, u, v
    <3> QED  BY <3>6, <3>7, <3>8
  <2>2. CASE 2 * w = max_power
    <3>1. Lists(s \o x, Rank)
      <4>1. 2 * w <= max_power
        BY <2>0, <2>2
      <4>2. Lists(s \o x, K \cup {u})
        BY <1>1, <1>2, <1>3, <1>7, <4>1, ListsOneMore
      <4> QED  BY <1>1, <2>2, <4>2
    <3>2. Searched(t, w, cnt, (s \o x) \o y)
      BY <1>4, <1>5, <3>1, ListsAll, SearchedExtends
    <3> QED  BY <3>2 DEF x, y, u, v
  <2>3. CASE 2 * w = max_power + 1
    <3>1. Lists(s, Rank)
      BY <1>1, <1>7, <2>3
    <3>2. x \o y \in Seq(Contact) /\ s \o x \o y = s \o (x \o y)
      BY <1>4
    <3>3. Searched(t, w, cnt, s \o (x \o y))
      BY <3>1, <3>2, ListsAll, SearchedExtends
    <3> QED  BY <3>2, <3>3 DEF x, y, u, v
  <2> QED  BY <1>7, <2>0, <2>1, <2>2, <2>3
<1>8. Len(s) \in Nat
  OBVIOUS
<1> QED  BY <1>6, <1>7, <1>8 DEF Searched, K

(***************************************************************************)
(* What find_closest_peers returns: a truncated list of contacts of the    *)
(* table that starts with the bucket of the needle and is complete or has  *)
(* cnt different peers in front.                                           *)
(***************************************************************************)
GoodResult(needle, cnt, s) ==
  LET A == bucket_contacts(distance_rank(peer_id, needle))
  IN  /\ s \in Seq(Contact)
      /\ From(s, Rank)
      /\ Len(A) <= Len(s) /\ \A n \in 1 .. Len(A) : s[n] = A[n]
      /\ \/ \E m \in 0 .. cnt : m <= Len(s) /\ Covers(s, m, Rank)
         \/ Len(s) >= cnt /\ Distinct(s, cnt)

LEMMA SearchResult ==
  ASSUME Shape, TableInv, NEW needle \in PeerId, NEW cnt \in Nat
  PROVE  \E s : /\ find_closest_peers(needle, cnt) = truncate(s, cnt)
                /\ GoodResult(needle, cnt, s)
<1> DEFINE t == distance_rank(peer_id, needle)
           A == bucket_contacts(t)
           X(w) == bucket_contacts((t + w) % max_power)
           Y(w) == bucket_contacts((t - w) % max_power)
           N == last_width
<1>1. t \in Rank /\ N = max_power - 1 /\ N \in Nat
  BY RankInRange, Sizes DEF last_width
<1>2. PICK r \in Results(needle, cnt) : TRUE
  BY ResultsExist
<1>3. /\ r \in [0 .. N -> Seq(Contact)]
      /\ find_closest_peers(needle, cnt) = truncate(r[N], cnt)
      /\ r[0] = A
      /\ \A w \in 1 .. N : r[w] = IF Len(r[w - 1]) >= cnt THEN r[w - 1]
                                  ELSE r[w - 1] \o X(w) \o Y(w)
  BY <1>2 DEF Results
<1> DEFINE Holding(w) ==
             /\ From(r[w], Rank)
             /\ Len(A) <= Len(r[w]) /\ \A n \in 1 .. Len(A) : r[w][n] = A[n]
             /\ Searched(t, w, cnt, r[w])
           Good == {w \in 0 .. N : Holding(w)}
<1>4. Lists(A, {t})
  BY <1>1, BucketLists
<1>5. 0 \in Good
  <2>1. Lists(A, Seen(t, 0)) /\ 2 * 0 < max_power /\ Len(A) \in Nat
    <3>1. Seen(t, 0) = {t}
      BY <1>1, SeenStart
    <3>2. 2 * 0 < max_power
      BY Sizes
    <3>3. Len(A) \in Nat
      BY <1>4 DEF Lists
    <3> HIDE DEF A, t
    <3> QED  BY <1>4, <3>1, <3>2, <3>3
  <2>2. Searched(t, 0, cnt, A)
    <3>1. CASE Len(A) < cnt
      BY <2>1, <3>1 DEF Searched
    <3>2. CASE Len(A) >= cnt
      BY <2>1, <3>2, ListsAll DEF Searched
    <3> QED  BY <2>1, <3>1, <3>2
  <2>3. From(A, Rank)
    BY <1>1, <1>4 DEF Lists, From
  <2> HIDE DEF A
  <2>4. Holding(0)
    BY <1>3, <2>1, <2>2, <2>3
  <2> HIDE DEF Holding
  <2> QED  BY <1>1, <2>4
<1>6. ASSUME NEW w \in 1 .. N, w - 1 \in Good PROVE w \in Good
  <2> DEFINE s == r[w - 1]
  <2>1. Holding(w - 1) /\ w - 1 \in 0 .. N /\ w \in 0 .. N /\ w \in 1 .. max_power - 1
    BY <1>1, <1>6
  <2>2. s \in Seq(Contact) /\ Len(s) \in Nat
    BY <1>3, <2>1
  <2>3. CASE Len(s) >= cnt
    <3>1. r[w] = s
      BY <1>3, <2>3
    <3>2. Searched(t, w, cnt, s)
      BY <2>1, <2>2, <2>3 DEF Searched
    <3>3. Holding(w)
      <4> HIDE DEF A
      <4> QED BY <2>1, <3>1, <3>2
    <3> HIDE DEF Holding
    <3> QED  BY <2>1, <3>3
  <2>4. CASE Len(s) < cnt
    <3> DEFINE x == X(w)
               y == Y(w)
               z == s \o x \o y
    <3>1. r[w] = z
      <4>1. ~(Len(s) >= cnt)
        BY <2>2, <2>4
      <4>2. r[w] = IF Len(s) >= cnt THEN s ELSE z
        BY <1>3
      <4> QED  BY <4>1, <4>2
    <3>2. Searched(t, w, cnt, z)
      BY <1>1, <2>1, <2>2, <2>4, SearchIteration
    <3>3. (t + w) % max_power \in Rank /\ (t - w) % max_power \in Rank
      BY <1>1, <2>1, Wrapped
    <3>4. x \in Seq(Contact) /\ From(x, Rank) /\ y \in Seq(Contact) /\ From(y, Rank)
      BY <3>3, BucketLists DEF Lists, From
    <3> HIDE DEF x, y, s
    <3>5. /\ s \o x \in Seq(Contact) /\ Len(s \o x) >= Len(s) /\ From(s \o x, Rank)
          /\ \A n \in 1 .. Len(s) : (s \o x)[n] = s[n]
      <4>1. From(s, Rank)
        BY <2>1 DEF s
      <4> QED  BY <2>2, <3>4, <4>1, FromConcat
    <3>6. /\ z \in Seq(Contact) /\ Len(z) >= Len(s \o x) /\ From(z, Rank)
          /\ \A n \in 1 .. Len(s \o x) : z[n] = (s \o x)[n]
      BY <3>4, <3>5, FromConcat
    <3> HIDE DEF z
    <3>7. Len(A) \in Nat /\ Len(s \o x) \in Nat /\ Len(z) \in Nat
      BY <1>4, <3>5, <3>6 DEF Lists
    <3>8. Len(A) <= Len(s) /\ \A n \in 1 .. Len(A) : s[n] = A[n]
      BY <2>1 DEF s
    <3> HIDE DEF A
    <3>9. Len(A) <= Len(z) /\ \A n \in 1 .. Len(A) : z[n] = A[n]
      <4>1. \A n \in 1 .. Len(A) : n \in 1 .. Len(s) /\ n \in 1 .. Len(s \o x)
        BY <2>2, <3>5, <3>7, <3>8
      <4> QED  BY <2>2, <3>5, <3>6, <3>7, <3>8, <4>1
    <3>10. Holding(w)
      BY <3>1, <3>2, <3>6, <3>9
    <3> HIDE DEF Holding
    <3> QED  BY <2>1, <3>10
  <2> QED  BY <2>2, <2>3, <2>4
<1>7. N \in Good
  <2>1. \A w \in 1 .. N : w - 1 \in Good => w \in Good
    BY <1>6
  <2> HIDE DEF Good, N
  <2>2. \A w \in 0 .. N : w \in Good
    BY <1>1, <1>5, <2>1, CountingUp
  <2> QED  BY <1>1, <2>2
<1>8. ~(2 * N < max_power)
  BY <1>1, Sizes
<1>9. r[N] \in Seq(Contact) /\ Holding(N)
  BY <1>1, <1>3, <1>7
<1>10. GoodResult(needle, cnt, r[N])
  <2> HIDE DEF N
  <2> QED  BY <1>8, <1>9 DEF GoodResult, Searched
<1> QED  BY <1>3, <1>10

\* The same for the answer itself, after truncate.
GoodAnswer(needle, cnt, a) ==
  LET A == bucket_contacts(distance_rank(peer_id, needle))
  IN  /\ a \in Seq(Contact) /\ Len(a) \in Nat /\ Len(a) <= cnt
      /\ From(a, Rank)
      /\ \/ Len(A) <= Len(a) /\ \A n \in 1 .. Len(A) : a[n] = A[n]
         \/ Len(a) <= Len(A) /\ \A n \in 1 .. Len(a) : a[n] = A[n]
      /\ \/ Covers(a, Len(a), Rank)
         \/ Len(a) = cnt /\ Distinct(a, cnt)

LEMMA AnswerIsGood ==
  ASSUME Shape, TableInv, NEW needle \in PeerId, NEW cnt \in Nat
  PROVE  GoodAnswer(needle, cnt, find_closest_peers(needle, cnt))
<1> DEFINE A == bucket_contacts(distance_rank(peer_id, needle))
           a == find_closest_peers(needle, cnt)
<1>1. PICK s : a = truncate(s, cnt) /\ GoodResult(needle, cnt, s)
  BY SearchResult
<1>2. /\ s \in Seq(Contact) /\ From(s, Rank)
      /\ Len(A) <= Len(s) /\ \A n \in 1 .. Len(A) : s[n] = A[n]
      /\ \/ \E m \in 0 .. cnt : m <= Len(s) /\ Covers(s, m, Rank)
         \/ Len(s) >= cnt /\ Distinct(s, cnt)
  BY <1>1 DEF GoodResult
<1>3. Len(A) \in Nat
  BY RankInRange, BucketContacts
<1> HIDE DEF A
<1> DEFINE l == IF cnt <= Len(s) THEN cnt ELSE Len(s)
<1>4. /\ l \in Nat /\ l <= cnt /\ l <= Len(s) /\ Len(s) \in Nat
      /\ l = cnt \/ l = Len(s)
  BY <1>2
<1>5. a = SubSeq(s, 1, l)
  BY <1>1 DEF truncate
<1> HIDE DEF a, l
<1>6. a \in Seq(Contact) /\ Len(a) = l /\ \A n \in 1 .. l : a[n] = s[n]
  BY <1>2, <1>4, <1>5
<1>7. From(a, Rank)
  <2>1. \A n \in 1 .. l : n \in 1 .. Len(s)
    BY <1>4
  <2> QED  BY <1>2, <1>6, <2>1 DEF From
<1>8. \/ Len(A) <= Len(a) /\ \A n \in 1 .. Len(A) : a[n] = A[n]
      \/ Len(a) <= Len(A) /\ \A n \in 1 .. Len(a) : a[n] = A[n]
  <2>1. CASE Len(A) <= l
    <3>1. \A n \in 1 .. Len(A) : n \in 1 .. l
      BY <1>3, <1>4, <2>1
    <3> QED  BY <1>2, <1>6, <2>1, <3>1
  <2>2. CASE ~(Len(A) <= l)
    <3>1. l <= Len(A) /\ \A n \in 1 .. l : n \in 1 .. Len(A)
      BY <1>3, <1>4, <2>2
    <3> QED  BY <1>2, <1>6, <3>1
  <2> QED  BY <2>1, <2>2
<1>9. \/ Covers(a, Len(a), Rank)
      \/ Len(a) = cnt /\ Distinct(a, cnt)
  <2>1. ASSUME NEW m \in 0 .. cnt, m <= Len(s), Covers(s, m, Rank)
        PROVE  Covers(a, Len(a), Rank)
    <3>1. \A n \in 1 .. m : n \in 1 .. l
      BY <1>4, <2>1
    <3> QED  BY <1>6, <2>1, <3>1 DEF Covers
  <2>2. ASSUME Len(s) >= cnt, Distinct(s, cnt) PROVE Len(a) = cnt /\ Distinct(a, cnt)
    <3>1. l = cnt
      BY <1>4, <2>2
    <3> QED  BY <1>6, <2>2, <3>1 DEF Distinct
  <2> QED  BY <1>2, <2>1, <2>2
<1> QED  BY <1>4, <1>6, <1>7, <1>8, <1>9 DEF GoodAnswer, A, a

\* A list of cnt different peers names cnt peers.
LEMMA DistinctCount ==
  ASSUME NEW a \in Seq(Contact), NEW cnt \in Nat, Len(a) = cnt, Distinct(a, cnt)
  PROVE  Cardinality(PeersIn(a)) = cnt
<1> DEFINE f == [n \in 1 .. cnt |-> a[n].peer_id]
           S == PeersIn(a)
<1>1. \A n \in 1 .. cnt : f[n] \in S
  BY DEF PeersIn
<1>2. \A x \in S : \E n \in 1 .. cnt : f[n] = x
  BY DEF PeersIn
<1>3. ASSUME NEW i \in 1 .. cnt, NEW j \in 1 .. cnt, f[i] = f[j] PROVE i = j
  <2>1. ~(i < j) /\ ~(j < i)
    BY <1>3 DEF Distinct
  <2> QED  BY <2>1
<1>4. f \in [1 .. cnt -> S]
  BY <1>1
<1> HIDE DEF f, S
<1>5. f \in Bijection(1 .. cnt, S)
  BY <1>2, <1>3, <1>4 DEF Bijection, Injection, Surjection, IsInjective
<1>6. ExistsBijection(1 .. cnt, S)
  BY <1>5 DEF ExistsBijection
<1>7. Cardinality(S) = cnt
  BY <1>6, FS_CountingElements
<1> QED  BY <1>7 DEF S

\* A complete answer names every peer that contains() finds.
LEMMA CoversContained ==
  ASSUME Shape, TableInv, NEW a, Covers(a, Len(a), Rank), NEW p \in PeerId, contains(p) # None
  PROVE  p \in PeersIn(a)
<1>1. Holds(distance_rank(peer_id, p), contains(p)) /\ contains(p).peer_id = p
  BY HeldIsContained
<1>2. distance_rank(peer_id, p) \in Rank /\ contains(p) \in Contact
  BY <1>1, RankInRange, HeldIsContained
<1>3. PICK n \in 1 .. Len(a) : a[n] = contains(p)
  BY <1>1, <1>2 DEF Covers
<1> QED  BY <1>1, <1>3 DEF PeersIn

(***************************************************************************)
(* Every answer of find_closest_peers, in every table the code can build:  *)
(* no longer than asked for, contacts that contains() finds, the bucket of *)
(* the needle first.                                                       *)
(***************************************************************************)
THEOREM FlatAnswersAreKnownContacts == Spec => []AnswersAreKnownContacts
<1>1. Shape /\ TableInv => AnswersAreKnownContacts
  <2> SUFFICES ASSUME Shape, TableInv, NEW needle \in PeerId, NEW cnt \in Counts
               PROVE  LET answer == find_closest_peers(needle, cnt)
                          target == {p \in PeerId : /\ contains(p) # None
                                                    /\ bucket_for(p) = bucket_for(needle)}
                      IN  /\ Len(answer) <= cnt
                          /\ \A n \in 1 .. Len(answer) : contains(answer[n].peer_id) = answer[n]
                          /\ target \subseteq PeersIn(answer) \/ PeersIn(answer) \subseteq target
    BY DEF AnswersAreKnownContacts
  <2> DEFINE a == find_closest_peers(needle, cnt)
             t == distance_rank(peer_id, needle)
             A == bucket_contacts(t)
             target == {p \in PeerId : /\ contains(p) # None
                                       /\ bucket_for(p) = bucket_for(needle)}
  <2>1. cnt \in Nat /\ t \in Rank
    BY Sizes, RankInRange DEF Counts
  <2>2. GoodAnswer(needle, cnt, a)
    BY <2>1, AnswerIsGood
  <2>3. \A n \in 1 .. Len(a) : contains(a[n].peer_id) = a[n]
    BY <2>2, HeldIsContained DEF GoodAnswer, From
  <2>4. Lists(A, {t})
    BY <2>1, BucketLists
  <2> HIDE DEF a
  <2>5. ASSUME NEW p \in target PROVE \E n \in 1 .. Len(A) : A[n].peer_id = p
    <3>1. p \in PeerId /\ contains(p) # None /\ bucket_for(p) = bucket_for(needle)
      OBVIOUS
    <3>2. distance_rank(peer_id, p) = t
      <4>1. distance_rank(peer_id, p) \in Rank
        BY <3>1, RankInRange
      <4>2. t * bucket_size + 0 \in BucketSlots(t)
        BY <2>1, BucketInside, Sizes
      <4>3. BucketSlots(distance_rank(peer_id, p)) = BucketSlots(t)
        BY <3>1 DEF bucket_for
      <4> QED  BY <2>1, <4>1, <4>2, <4>3, BucketsDisjoint
    <3>3. Holds(t, contains(p)) /\ contains(p).peer_id = p /\ contains(p) \in Contact
      BY <2>1, <3>1, <3>2, HeldIsContained
    <3>4. PICK n \in 1 .. Len(A) : A[n] = contains(p)
      BY <2>4, <3>3 DEF Lists, Covers
    <3> QED  BY <3>3, <3>4
  <2>6. ASSUME NEW n \in 1 .. Len(A) PROVE A[n].peer_id \in target
    <3> DEFINE p == A[n].peer_id
    <3>1. Holds(t, A[n])
      BY <2>4 DEF Lists, From
    <3>2. p \in PeerId /\ contains(p) = A[n] /\ t = distance_rank(peer_id, p)
      BY <2>1, <3>1, HeldIsContained
    <3>3. contains(p) # None
      BY <3>1, <3>2 DEF Holds
    <3>4. bucket_for(p) = bucket_for(needle)
      BY <3>2 DEF bucket_for
    <3> QED  BY <3>2, <3>3, <3>4
  <2> HIDE DEF target, A, t
  <2>7. \/ Len(A) <= Len(a) /\ \A n \in 1 .. Len(A) : a[n] = A[n]
        \/ Len(a) <= Len(A) /\ \A n \in 1 .. Len(a) : a[n] = A[n]
    BY <2>2 DEF GoodAnswer, A, t
  <2>8. Len(a) \in Nat /\ Len(A) \in Nat
    BY <2>2, <2>4 DEF GoodAnswer, Lists
  <2>9. target \subseteq PeersIn(a) \/ PeersIn(a) \subseteq target
    <3>1. ASSUME Len(A) <= Len(a), \A n \in 1 .. Len(A) : a[n] = A[n]
          PROVE  target \subseteq PeersIn(a)
      <4>1. \A n \in 1 .. Len(A) : n \in 1 .. Len(a)
        BY <2>8, <3>1
      <4> QED  BY <2>5, <3>1, <4>1 DEF PeersIn
    <3>2. ASSUME Len(a) <= Len(A), \A n \in 1 .. Len(a) : a[n] = A[n]
          PROVE  PeersIn(a) \subseteq target
      <4>1. \A n \in 1 .. Len(a) : n \in 1 .. Len(A)
        BY <2>8, <3>2
      <4> QED  BY <2>6, <3>2, <4>1 DEF PeersIn
    <3> QED  BY <2>7, <3>1, <3>2
  <2>10. Len(a) <= cnt
    BY <2>2 DEF GoodAnswer
  <2> QED  BY <2>3, <2>9, <2>10 DEF a, target
<1> QED  BY <1>1, FlatShape, FlatTableInv, PTL

(***************************************************************************)
(* "(or the most we have anyway)", although the far buckets are visited    *)
(* from both sides: duplicates come only after the whole table.            *)
(***************************************************************************)
THEOREM FlatFindsAsManyPeersAsItCan == Spec => []FindsAsManyPeersAsItCan
<1>1. Shape /\ TableInv => FindsAsManyPeersAsItCan
  <2> SUFFICES ASSUME Shape, TableInv, NEW needle \in PeerId, NEW cnt \in Counts
               PROVE  LET found == PeersIn(find_closest_peers(needle, cnt))
                      IN  \/ Cardinality(found) = cnt
                          \/ \A p \in PeerId : contains(p) # None => p \in found
    BY DEF FindsAsManyPeersAsItCan
  <2> DEFINE a == find_closest_peers(needle, cnt)
  <2>1. cnt \in Nat
    BY Sizes DEF Counts
  <2>2. GoodAnswer(needle, cnt, a)
    BY <2>1, AnswerIsGood
  <2> HIDE DEF a
  <2>3. CASE Covers(a, Len(a), Rank)
    BY <2>3, CoversContained DEF a
  <2>4. CASE Len(a) = cnt /\ Distinct(a, cnt)
    BY <2>1, <2>2, <2>4, DistinctCount DEF GoodAnswer, a
  <2> QED  BY <2>2, <2>3, <2>4 DEF GoodAnswer
<1> QED  BY <1>1, FlatShape, FlatTableInv, PTL

(***************************************************************************)
(* A lookup finds the peer, or names other peers to ask unless the table   *)
(* is empty.                                                               *)
(***************************************************************************)
THEOREM FlatLookupLeadsOn == Spec => []LookupLeadsOn
<1>1. Shape /\ TableInv /\ CountIsOccupied => LookupLeadsOn
  <2> SUFFICES ASSUME Shape, TableInv, CountIsOccupied, NEW p \in PeerId, count # 0
               PROVE  LET res == lookup(p)
                      IN  \/ res.contact # None /\ res.contact.peer_id = p
                          \/ res.others # <<>> /\ p \notin PeersIn(res.others)
    BY DEF LookupLeadsOn
  <2>1. CASE contains(p) # None
    BY <2>1, HeldIsContained DEF lookup
  <2>2. CASE contains(p) = None
    <3> DEFINE a == find_closest_peers(p, bucket_size)
    <3>1. GoodAnswer(p, bucket_size, a)
      BY AnswerIsGood, Sizes
    <3>2. lookup(p).others = a
      BY <2>2 DEF lookup
    <3> HIDE DEF a
    <3>3. p \notin PeersIn(a)
      <4> SUFFICES ASSUME NEW n \in 1 .. Len(a), a[n].peer_id = p PROVE FALSE
        BY DEF PeersIn
      <4>1. PICK k \in Rank : Holds(k, a[n])
        BY <3>1 DEF GoodAnswer, From
      <4>2. contains(p) = a[n] /\ a[n] \in Contact
        BY <4>1, HeldIsContained
      <4> QED  BY <2>2, <4>2, NoneAssumption
    <3>4. Len(a) # 0
      <4>1. CASE Len(a) = bucket_size
        BY <4>1, Sizes
      <4>2. CASE Covers(a, Len(a), Rank)
        <5>1. Occupied # {}
          BY FS_EmptySet DEF CountIsOccupied
        <5>2. PICK s \in Slot : contacts[s] # None
          BY <5>1 DEF Occupied
        <5> DEFINE q == contacts[s].peer_id
        <5>3. contacts[s] \in Contact /\ q \in PeerId /\ s \in bucket_for(q)
          BY <5>2 DEF Shape, Contact, TableInv, Placement, Occupied
        <5>4. Holds(distance_rank(peer_id, q), contacts[s])
          BY <5>2, <5>3 DEF Holds, bucket_for
        <5>5. \E n \in 1 .. Len(a) : a[n] = contacts[s]
          BY <4>2, <5>3, <5>4, RankInRange DEF Covers
        <5> QED  BY <5>5
      <4> QED  BY <3>1, <4>1, <4>2 DEF GoodAnswer
    <3>5. a # <<>>
      BY <3>4
    <3> QED  BY <3>2, <3>3, <3>5
  <2> QED  BY <2>1, <2>2
<1> QED  BY <1>1, FlatShape, FlatTableInv, FlatCount, PTL
=============================================================================

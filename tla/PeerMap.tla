------------------------------- MODULE PeerMap -------------------------------
(***************************************************************************)
(* The routing table of a peer: Bucket and PeerMap in src/types.rs, as     *)
(* operators on table values, so that every worker can hold one.           *)
(*                                                                         *)
(* A bucket is a HashMap from ids to addresses: a function that is None    *)
(* where the map has no entry.  The order in which a HashMap is iterated   *)
(* is unspecified, so a search has one outcome per order of every bucket.  *)
(***************************************************************************)
EXTENDS Hash, Iterators, SequencesExt

CONSTANTS
  PeerId,        \* the ids that occur
  SocketAddr,
  None,          \* Option::None
  bucket_size    \* how many peers an answer holds (16 in the code)

ASSUME PeerMapAssumption ==
  /\ PeerId \subseteq Blake2Hash
  /\ None \notin SocketAddr
  /\ bucket_size \in Nat \ {0}

Rank         == 0 .. max_power - 1
Bucket       == [PeerId -> SocketAddr \cup {None}]
PeerMaps     == [Rank -> Bucket]

EmptyPeerMap_OneBucketShort ==
  [k \in Rank \ {max_power - 1} |-> [p \in PeerId |-> None]]

\* PeerMap::default
EmptyPeerMap == [k \in Rank |-> [p \in PeerId |-> None]]

known_peers(buckets, k) == {p \in PeerId : buckets[k][p] # None}

insert_RankOfTheIdAlone(buckets, self_id, address, peer_id) ==
  [buckets EXCEPT ![leading_zeros(peer_id)][peer_id] = address]

insert_ClearsTheBucket(buckets, self_id, address, peer_id) ==
  [buckets EXCEPT ![distance_rank(self_id, peer_id)] =
     [p \in PeerId |-> IF p = peer_id THEN address ELSE None]]

\* PeerMap::insert with Bucket::insert: no bucket has a bound.
insert(buckets, self_id, address, peer_id) ==
  [buckets EXCEPT ![distance_rank(self_id, peer_id)][peer_id] = address]

\* PeerMap::contains: the address, or None.
contains(buckets, self_id, peer_id) ==
  buckets[distance_rank(self_id, peer_id)][peer_id]

count_NonEmptyBuckets(buckets) ==
  Cardinality({k \in Rank : known_peers(buckets, k) # {}})

\* PeerMap::count: a fold over the buckets.
count(buckets) ==
  LET acc[k \in 0 .. max_power] ==
        IF k = 0 THEN 0 ELSE acc[k - 1] + Cardinality(known_peers(buckets, k - 1))
  IN  acc[max_power]

\* A permutation of the known ids fixes the order of every bucket for one call
\* (an id is in one bucket only).
IterationOrders(buckets) ==
  SetToSeqs(UNION {known_peers(buckets, k) : k \in Rank})

\* self.buckets[k].known_peers.iter()
iter(buckets, k, order) ==
  LET ids == filter(order, known_peers(buckets, k))
  IN  [n \in 1 .. Len(ids) |-> <<ids[n], buckets[k][ids[n]]>>]

take_Everything(n, seq) == seq

take_FromTheEnd(n, seq) ==
  SubSeq(seq, IF n <= Len(seq) THEN Len(seq) - n + 1 ELSE 1, Len(seq))

\* Iterator::take
take(n, seq) == SubSeq(seq, 1, IF n <= Len(seq) THEN n ELSE Len(seq))

target_behind(search_bucket, search_width) ==
  saturating_sub(search_bucket, search_width)

target_ahead(search_bucket, search_width) == search_bucket + search_width

visits_ahead_StopsEarly(search_bucket, search_width) ==
  target_ahead(search_bucket, search_width) + 1 < max_power

visits_ahead(search_bucket, search_width) ==
  target_ahead(search_bucket, search_width) < max_power

\* The guard of the bucket behind the target: it lets through exactly the
\* widths at which target_behind has saturated to 0.
visits_behind(search_bucket, search_width) == search_width > search_bucket

(***************************************************************************)
(* The loop of find_closest_peers.  results[w] is search_results at the    *)
(* end of the iteration with search_width = w; once it is long enough the  *)
(* loop has ended and nothing is added any more.                           *)
(***************************************************************************)
search_results(buckets, search_bucket, order) ==
  LET bucket(visit, k) == IF visit THEN iter(buckets, k, order) ELSE <<>>
      results[w \in 0 .. max_power - 1] ==
        IF w = 0 THEN iter(buckets, search_bucket, order)
        ELSE IF Len(results[w - 1]) >= bucket_size THEN results[w - 1]
        ELSE results[w - 1]
             \o bucket(visits_behind(search_bucket, w), target_behind(search_bucket, w))
             \o bucket(visits_ahead(search_bucket, w), target_ahead(search_bucket, w))
  IN  results[max_power - 1]

\* PeerMap::find_closest_peers: the answers it may give.
find_closest_peers(buckets, self_id, peer_id) ==
  {take(bucket_size, search_results(buckets, distance_rank(self_id, peer_id), order)) :
     order \in IterationOrders(buckets)}

\* PeerMap::lookup: Ok is an address, Err (address None) a list of neighbors.
lookup(buckets, self_id, peer_id) ==
  IF contains(buckets, self_id, peer_id) # None
  THEN {[addr |-> contains(buckets, self_id, peer_id), neighbors |-> <<>>]}
  ELSE {[addr |-> None, neighbors |-> answer] :
          answer \in find_closest_peers(buckets, self_id, peer_id)}
=============================================================================

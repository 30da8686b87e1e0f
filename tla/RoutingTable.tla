---------------------------- MODULE RoutingTable ----------------------------
(***************************************************************************)
(* One PeerMap (src/types.rs) over its life: default(), then any sequence  *)
(* of insert calls.  The queries change nothing; what they answer in every *)
(* reachable table is stated by the invariants.                            *)
(***************************************************************************)
EXTENDS PeerMap

CONSTANT self_id
ASSUME SelfAssumption == self_id \in PeerId

VARIABLE buckets

Init == buckets = EmptyPeerMap

Insert(address, peer_id) == buckets' = insert(buckets, self_id, address, peer_id)

Next == \E address \in SocketAddr, peer_id \in PeerId : Insert(address, peer_id)

Spec == Init /\ [][Next]_buckets
-----------------------------------------------------------------------------
TypeOK == buckets \in PeerMaps

Known == {p \in PeerId : \E k \in Rank : p \in known_peers(buckets, k)}

(***************************************************************************)
(* insert and contains agree on the bucket of a peer: a peer is stored     *)
(* nowhere but in the bucket of its distance rank, the only one a lookup   *)
(* looks into.                                                             *)
(***************************************************************************)
Placement ==
  \A k \in Rank, p \in PeerId :
    p \in known_peers(buckets, k) => k = distance_rank(self_id, p)

(***************************************************************************)
(* count(), a sum over the buckets, is the number of peers that contains() *)
(* finds.                                                                  *)
(***************************************************************************)
CountsWhatContainsFinds ==
  count(buckets) =
    Cardinality({p \in PeerId : contains(buckets, self_id, p) # None})

\* The address of a peer, wherever it is stored.
Book == [p \in PeerId |->
           IF \E k \in Rank : buckets[k][p] # None
           THEN LET k == CHOOSE k \in Rank : buckets[k][p] # None IN buckets[k][p]
           ELSE None]

ContactBook == INSTANCE ContactBook WITH book <- Book, Evictions <- {}

(***************************************************************************)
(* The bucketed table implements a book that never forgets a peer: an      *)
(* insert changes the address of one peer and nothing else.                *)
(***************************************************************************)
KeepsEveryContact == ContactBook!Spec

PeersIn(answer) == {answer[n][1] : n \in 1 .. Len(answer)}

(***************************************************************************)
(* An answer has at most bucket_size entries, each of them a peer the      *)
(* table knows, with the address that contains() would give.               *)
(***************************************************************************)
AnswersAreKnownContacts ==
  \A peer_id \in PeerId : \A answer \in find_closest_peers(buckets, self_id, peer_id) :
    /\ Len(answer) <= bucket_size
    /\ \A n \in 1 .. Len(answer) :
         /\ answer[n][2] # None
         /\ answer[n][2] = contains(buckets, self_id, answer[n][1])

(***************************************************************************)
(* A peer of the bucket of the wanted id is left out only when peers of    *)
(* that same bucket fill the answer.                                       *)
(***************************************************************************)
TargetBucketComesFirst ==
  \A peer_id \in PeerId : \A answer \in find_closest_peers(buckets, self_id, peer_id) :
    LET target == known_peers(buckets, distance_rank(self_id, peer_id))
    IN  \/ target \subseteq PeersIn(answer)
        \/ Len(answer) = bucket_size /\ PeersIn(answer) \subseteq target

(***************************************************************************)
(* What the search reaches: an answer that is not full has every known     *)
(* peer whose rank is that of the wanted id or higher and, unless the id   *)
(* wanted is the table's own, every one of rank 0.  (The ranks in between  *)
(* are not searched: FindsAsManyPeersAsItCan.)                             *)
(***************************************************************************)
ShortAnswerCoversAhead ==
  \A peer_id \in PeerId : \A answer \in find_closest_peers(buckets, self_id, peer_id) :
    Len(answer) < bucket_size =>
      \A p \in Known :
        \/ distance_rank(self_id, p) >= distance_rank(self_id, peer_id)
        \/ distance_rank(self_id, p) = 0 /\ peer_id # self_id
        => p \in PeersIn(answer)
-----------------------------------------------------------------------------
(***************************************************************************)
(* types.rs: "Returns a Vec of the `bucket_size` closest peers we can      *)
(* find to the given one": bucket_size different peers, or all that the    *)
(* table knows if these are fewer.                                         *)
(***************************************************************************)
FindsAsManyPeersAsItCan ==
  \A peer_id \in PeerId : \A answer \in find_closest_peers(buckets, self_id, peer_id) :
    \/ Cardinality(PeersIn(answer)) = bucket_size
    \/ Known \subseteq PeersIn(answer)
=============================================================================

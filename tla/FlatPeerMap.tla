----------------------------- MODULE FlatPeerMap -----------------------------
(***************************************************************************)
(* FlatPeerMap in src/types.rs: the routing table as one vector of slots,  *)
(* bucket_size of them per distance rank, that evicts when a bucket is     *)
(* full.  One action per way an insert can end.                            *)
(***************************************************************************)
EXTENDS Hash, Iterators

CONSTANTS PeerId, SocketAddr, None, bucket_size, peer_id

ASSUME FlatAssumption ==
  /\ PeerId \subseteq Blake2Hash
  /\ peer_id \in PeerId
  /\ bucket_size \in Nat \ {0}

Contact == [peer_id : PeerId, address : SocketAddr]

ASSUME NoneAssumption == None \notin Contact \cup SocketAddr

VARIABLES
  contacts,        \* slot -> Option<Contact>
  count,
  next_eviction

vars == <<contacts, count, next_eviction>>

Rank == 0 .. max_power - 1
Slot == 0 .. max_power * bucket_size - 1

\* The slots of the bucket of a rank, and those of the bucket of a peer.
BucketSlots(rank) == rank * bucket_size .. rank * bucket_size + bucket_size - 1
bucket_for(p)     == BucketSlots(distance_rank(peer_id, p))

Occupied == {s \in Slot : contacts[s] # None}

TypeOK ==
  /\ contacts \in [Slot -> Contact \cup {None}]
  /\ count \in 0 .. max_power * bucket_size
  /\ next_eviction \in 0 .. bucket_size - 1

\* FlatPeerMap::new
Init ==
  /\ contacts = [s \in Slot |-> None]
  /\ count = 0
  /\ next_eviction = 0

\* The scan of insert stops at the first slot of the bucket that is empty or
\* that holds the same peer.
Stops(p) ==
  {s \in bucket_for(p) : contacts[s] = None \/ contacts[s].peer_id = p}

FirstStop_LastSlot(p) == Max(Stops(p))

FirstStop(p) == Min(Stops(p))

\* "We know this peer, update it"
InsertUpdate(c) ==
  /\ Stops(c.peer_id) # {}
  /\ contacts[FirstStop(c.peer_id)] # None
  /\ contacts' = [contacts EXCEPT ![FirstStop(c.peer_id)] = c]
  /\ UNCHANGED <<count, next_eviction>>

InsertFill_Uncounted(c) ==
  /\ Stops(c.peer_id) # {}
  /\ contacts[FirstStop(c.peer_id)] = None
  /\ contacts' = [contacts EXCEPT ![FirstStop(c.peer_id)] = c]
  /\ UNCHANGED <<count, next_eviction>>

\* "Empty slot, snag it."
InsertFill(c) ==
  /\ Stops(c.peer_id) # {}
  /\ contacts[FirstStop(c.peer_id)] = None
  /\ contacts' = [contacts EXCEPT ![FirstStop(c.peer_id)] = c]
  /\ count' = count + 1
  /\ UNCHANGED next_eviction

\* The statement that would advance next_eviction is commented out.
item_to_evict == next_eviction

InsertEvict_EmptiesTheBucket(c) ==
  /\ Stops(c.peer_id) = {}
  /\ contacts' = [s \in Slot |->
       IF s = distance_rank(peer_id, c.peer_id) * bucket_size + item_to_evict THEN c
       ELSE IF s \in bucket_for(c.peer_id) THEN None ELSE contacts[s]]
  /\ UNCHANGED <<count, next_eviction>>

InsertEvict_NoModulo(c) ==
  /\ Stops(c.peer_id) = {}
  /\ contacts' =
       [contacts EXCEPT ![distance_rank(peer_id, c.peer_id) * bucket_size + item_to_evict] = c]
  /\ next_eviction' = next_eviction + 1
  /\ UNCHANGED count

\* "If we've gotten here, the bucket is full!  Choose an item to replace."
InsertEvict(c) ==
  /\ Stops(c.peer_id) = {}
  /\ contacts' =
       [contacts EXCEPT ![distance_rank(peer_id, c.peer_id) * bucket_size + item_to_evict] = c]
  /\ UNCHANGED <<count, next_eviction>>

Next == \E c \in Contact : InsertUpdate(c) \/ InsertFill(c) \/ InsertEvict(c)

Spec == Init /\ [][Next]_vars
-----------------------------------------------------------------------------
\* The contact that contains() returns, or None.
contains(p) ==
  LET found == {s \in bucket_for(p) : contacts[s] # None /\ contacts[s].peer_id = p}
  IN  IF found = {} THEN None ELSE contacts[Min(found)]

\* The contacts of a bucket in slot order.
bucket_contacts(rank) ==
  filter([n \in 1 .. bucket_size |-> contacts[rank * bucket_size + n - 1]], Contact)

truncate_Forgotten(results, cnt) == results

\* Vec::truncate
truncate(results, cnt) ==
  SubSeq(results, 1, IF cnt <= Len(results) THEN cnt ELSE Len(results))

last_width_Half == max_power \div 2 - 1

\* The last search_width of the loop of find_closest_peers.
last_width == max_power - 1

(***************************************************************************)
(* find_closest_peers.  results[w] is `results` after the iteration with   *)
(* search_width = w.  wrapping_sub wraps at 2^64, a multiple of the number *)
(* of buckets (256), so the two steps together are subtraction modulo that *)
(* number.  The assertion on cnt is a precondition: see Counts.            *)
(***************************************************************************)
find_closest_peers(needle, cnt) ==
  LET target_bucket == distance_rank(peer_id, needle)
      results[w \in 0 .. last_width] ==
        IF w = 0 THEN bucket_contacts(target_bucket)
        ELSE IF Len(results[w - 1]) >= cnt THEN results[w - 1]
        ELSE results[w - 1]
             \o bucket_contacts((target_bucket + w) % max_power)
             \o bucket_contacts((target_bucket - w) % max_power)
  IN  truncate(results[last_width], cnt)

\* Ok is a contact, Err (contact None) a list of contacts to ask next.
lookup(p) ==
  [contact |-> contains(p),
   others  |-> IF contains(p) # None THEN <<>> ELSE find_closest_peers(p, bucket_size)]
-----------------------------------------------------------------------------
(***************************************************************************)
(* count, which is maintained by hand, is the number of occupied slots.    *)
(***************************************************************************)
CountIsOccupied == count = Cardinality(Occupied)

\* Every contact is in the bucket of its distance rank.
Placement == \A s \in Occupied : s \in bucket_for(contacts[s].peer_id)

\* Slots fill from the front and are never emptied, so no hole can hide a
\* peer from the scan of insert.
NoHoles ==
  \A rank \in Rank : \A s, t \in BucketSlots(rank) :
    s < t /\ contacts[t] # None => contacts[s] # None

\* "We DO prevent duplicates": no peer has two slots.
NoDuplicates ==
  \A s, t \in Occupied : contacts[s].peer_id = contacts[t].peer_id => s = t

(***************************************************************************)
(* The inductive invariant behind "We DO prevent duplicates though": no    *)
(* peer has two slots.  It needs all three parts: the early return at the  *)
(* first empty slot would insert a second copy of a peer that sits behind  *)
(* a hole or in another bucket.                                            *)
(***************************************************************************)
TableInv == Placement /\ NoHoles /\ NoDuplicates

Book ==
  [p \in PeerId |->
     IF \E s \in Slot : contacts[s] # None /\ contacts[s].peer_id = p
     THEN LET s == CHOOSE s \in Slot : contacts[s] # None /\ contacts[s].peer_id = p
          IN  contacts[s].address
     ELSE None]

Evictions ==
  {e \in PeerId \X PeerId :
     e[1] # e[2] /\ distance_rank(peer_id, e[1]) = distance_rank(peer_id, e[2])}

ContactBook == INSTANCE ContactBook WITH book <- Book

(***************************************************************************)
(* The flat table implements a book: an insert records the contact and     *)
(* forgets at most one peer, of the same rank as the new one.              *)
(***************************************************************************)
ForgetsAtMostOneOfTheSameRank == ContactBook!Spec

PeersIn(answer) == {answer[n].peer_id : n \in 1 .. Len(answer)}

\* What the assertion at the head of find_closest_peers lets through.
Counts == 0 .. max_power * bucket_size

(***************************************************************************)
(* An answer has at most as many entries as were asked for, all of them    *)
(* contacts that contains() finds, and the bucket of the needle comes      *)
(* first.                                                                  *)
(***************************************************************************)
AnswersAreKnownContacts ==
  \A needle \in PeerId, cnt \in Counts :
    LET answer == find_closest_peers(needle, cnt)
        target == {p \in PeerId : /\ contains(p) # None
                                  /\ bucket_for(p) = bucket_for(needle)}
    IN  /\ Len(answer) <= cnt
        /\ \A n \in 1 .. Len(answer) : contains(answer[n].peer_id) = answer[n]
        /\ target \subseteq PeersIn(answer) \/ PeersIn(answer) \subseteq target

(***************************************************************************)
(* "(or the most we have anyway)": an answer names as many different peers *)
(* as were asked for, or all of the table, although far buckets are        *)
(* visited from both sides.                                                *)
(***************************************************************************)
FindsAsManyPeersAsItCan ==
  \A needle \in PeerId, cnt \in Counts :
    LET found == PeersIn(find_closest_peers(needle, cnt))
    IN  \/ Cardinality(found) = cnt
        \/ \A p \in PeerId : contains(p) # None => p \in found

(***************************************************************************)
(* A lookup leads on: it finds the peer or, unless the table is empty,     *)
(* names others to ask, never the wanted peer itself.                      *)
(***************************************************************************)
LookupLeadsOn ==
  \A p \in PeerId :
    LET res == lookup(p)
    IN  \/ res.contact # None /\ res.contact.peer_id = p
        \/ res.others # <<>> /\ p \notin PeersIn(res.others)
        \/ count = 0
=============================================================================

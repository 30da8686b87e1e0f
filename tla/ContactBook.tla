----------------------------- MODULE ContactBook -----------------------------
(***************************************************************************)
(* What a routing table promises, whatever its layout: it is a book with   *)
(* at most one address per peer.  Putting a contact in replaces the        *)
(* address the peer had; where the table evicts, it forgets one other peer *)
(* to make room for a new one, and never more.                             *)
(***************************************************************************)
CONSTANTS
  PeerId, SocketAddr, None,
  Evictions   \* the pairs <<new peer, victim>> the table may choose

VARIABLE book

Init == book = [p \in PeerId |-> None]

Put(peer_id, address) == book' = [book EXCEPT ![peer_id] = address]

PutEvicting(peer_id, address, victim) ==
  /\ book[peer_id] = None
  /\ book[victim] # None
  /\ book' = [book EXCEPT ![peer_id] = address, ![victim] = None]

Next ==
  \E peer_id \in PeerId, address \in SocketAddr :
    \/ Put(peer_id, address)
    \/ \E victim \in PeerId :
         /\ <<peer_id, victim>> \in Evictions
         /\ PutEvicting(peer_id, address, victim)

Spec == Init /\ [][Next]_book
=============================================================================

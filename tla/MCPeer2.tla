------------------------------ MODULE MCPeer2 ------------------------------
(***************************************************************************)
(* Two peers that have each other as bootstrap peer, seen from one of      *)
(* them: each endpoint listens and connects from one socket, so the two    *)
(* connections between them have the same remote address.                  *)
(***************************************************************************)
EXTENDS Peer2

CONSTANTS c1, c2, addr1

MC_RemoteAddr == [c \in Conn |-> addr1]
=============================================================================

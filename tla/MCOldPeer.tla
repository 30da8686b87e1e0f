----------------------------- MODULE MCOldPeer -----------------------------
(***************************************************************************)
(* A peer h that is its own bootstrap peer, as with the default addresses  *)
(* of src/bin/peer.rs, and a peer a that has it for bootstrap peer: two    *)
(* connections for the listener of h, which has a bootstrap task as well.  *)
(***************************************************************************)
EXTENDS OldPeer

CONSTANTS h, a

MC_Bootstrap == [p \in Peer |-> h]
=============================================================================

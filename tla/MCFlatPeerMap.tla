---------------------------- MODULE MCFlatPeerMap ----------------------------
(***************************************************************************)
(* FlatPeerMap with four buckets of two slots.  The own id is 1010; three  *)
(* ids share rank 0, so that their bucket overflows; 1100 and 1001 have    *)
(* rank 1.                                                                 *)
(***************************************************************************)
EXTENDS FlatPeerMap, TLC

Id(b0, b1, b2, b3) ==
  (0 :> (0 :> b0 @@ 1 :> b1)) @@ (1 :> (0 :> b2 @@ 1 :> b3))

MC_peer_id == Id(1, 0, 1, 0)
MC_PeerId ==
  {MC_peer_id, Id(1, 1, 1, 0), Id(0, 0, 1, 0), Id(0, 1, 1, 0),
   Id(1, 1, 0, 0), Id(1, 0, 0, 1)}
=============================================================================

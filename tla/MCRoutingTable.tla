--------------------------- MODULE MCRoutingTable ---------------------------
(***************************************************************************)
(* RoutingTable with hashes of two bytes of two bits, hence four buckets.  *)
(* The own id is 1010; 1110 has rank 0, 1100 and 1001 have rank 1, 1011    *)
(* has rank 2.                                                             *)
(***************************************************************************)
EXTENDS RoutingTable

Id(b0, b1, b2, b3) ==
  (0 :> (0 :> b0 @@ 1 :> b1)) @@ (1 :> (0 :> b2 @@ 1 :> b3))

MC_self_id == Id(1, 0, 1, 0)
MC_PeerId ==
  {MC_self_id, Id(1, 1, 1, 0), Id(1, 1, 0, 0), Id(1, 0, 0, 1), Id(1, 0, 1, 1)}
=============================================================================

--------------------------- MODULE MCWorkerHandle ---------------------------
(***************************************************************************)
(* One worker with id 00 and one other peer with id 10.                    *)
(***************************************************************************)
EXTENDS WorkerHandle

CONSTANTS w1, own, other

Id(b0, b1) == 0 :> (0 :> b0 @@ 1 :> b1)

MC_PeerId == {Id(0, 0), Id(1, 0)}
MC_IdOf   == [w \in Worker |-> Id(0, 0)]
MC_AddrOf == [w \in Worker |-> own]
=============================================================================

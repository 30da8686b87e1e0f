----------------------------- MODULE MCWorkerSim -----------------------------
(***************************************************************************)
(* The three workers of heckin_simulator, or the first two of them, with   *)
(* the delays 0 s, 2 s and 10 s as 0, 1 and 2.                             *)
(***************************************************************************)
EXTENDS WorkerSim

CONSTANTS w1, w2, w3, addr1, addr2, addr3

Id(b0, b1) == 0 :> (0 :> b0 @@ 1 :> b1)

MC_Id       == w1 :> Id(0, 0) @@ w2 :> Id(0, 1) @@ w3 :> Id(1, 0)
MC_Addr     == w1 :> addr1 @@ w2 :> addr2 @@ w3 :> addr3
MC_IdOf     == [w \in Worker |-> MC_Id[w]]
MC_AddrOf   == [w \in Worker |-> MC_Addr[w]]
MC_PeerId   == {MC_Id[w] : w \in Worker}
MC_AddOrder == SelectSeq(<<w1, w2, w3>>, LAMBDA w : w \in Worker)
MC_Delay    == [w \in Worker |-> IF w = w1 THEN 0 ELSE IF w = w2 THEN 1 ELSE 2]

\* The bootstrap node w1 comes second: a message to it may find nobody there.
MC_LateBootstrap == [w \in Worker |-> IF w = w1 THEN 1 ELSE IF w = w2 THEN 0 ELSE 2]
=============================================================================

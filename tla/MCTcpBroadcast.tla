--------------------------- MODULE MCTcpBroadcast ---------------------------
(***************************************************************************)
(* Connections are interchangeable: symmetry for the safety run.           *)
(***************************************************************************)
EXTENDS TcpBroadcast, TLC

MCSymmetry == Permutations(Clients)
=============================================================================

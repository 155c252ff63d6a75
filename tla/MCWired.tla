------------------------------ MODULE MCWired -------------------------------
(* Two meters on a bus of three addresses: one with a single telegram, one *)
(* whose readout takes three.                                              *)
EXTENDS WiredSession, TLC

MCTelegrams == (1 :> 3) @@ (2 :> 1)
=============================================================================

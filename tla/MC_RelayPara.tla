---------------------------- MODULE MC_RelayPara ----------------------------
(* RelayPara on small instances: parachains are interchangeable. *)
EXTENDS RelayPara, TLC

Symmetry == Permutations(Paras)
=============================================================================

----------------------------- MODULE MC_CoreApi -----------------------------
(***************************************************************************)
(* CoreApi for TLC.                                                        *)
(***************************************************************************)
EXTENDS CoreApi, TLC

Symmetry == Permutations(Writes)
=============================================================================

--------------------------- MODULE MC_StandAlone ---------------------------
(***************************************************************************)
(* Bounded instances of StandAlone for TLC.                                *)
(***************************************************************************)
EXTENDS StandAlone, TLC

Symmetry == Permutations(Mutations) \cup Permutations(Extrinsics)
=============================================================================

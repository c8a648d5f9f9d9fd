--------------------------- MODULE MC_WaitForBlock ---------------------------
(***************************************************************************)
(* WaitForBlock for TLC.  The builder imports with NetworkInitialSync, a   *)
(* caller that uses the builder's client imports its own blocks.           *)
(***************************************************************************)
EXTENDS WaitForBlock

MCOrigins == {"NetworkInitialSync", "Own"}
MCAnnounced == {"Own"}
=============================================================================

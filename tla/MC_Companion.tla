---------------------------- MODULE MC_Companion ----------------------------
(* Companion with two parachains, declared in the order first, second. *)
EXTENDS Companion

CONSTANTS first, second

MCOrder == <<first, second>>

=============================================================================

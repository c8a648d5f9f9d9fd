---------------------------- MODULE MC_Timestamp ----------------------------
(* Timestamp on a small instance: threads are interchangeable. *)
EXTENDS Timestamp, TLC

Symmetry == Permutations(Threads)
=============================================================================

------------------------------- MODULE Ledger -------------------------------
(***************************************************************************)
(* What a builder promises its user, with blocks, hashes, pools and        *)
(* reverts left out: the storage after each block is kept for ever, the    *)
(* latest storage can be amended, and a new block adds extrinsics to a     *)
(* copy of it.                                                             *)
(***************************************************************************)
EXTENDS Integers, Sequences

CONSTANTS Mutations, Extrinsics

VARIABLE states   \* states[i] is the storage after block number i - 1

Top == states[Len(states)]

Init == states = << {} >>

\* with_mut_state: only the latest storage changes.
Amend(m) == states' = [states EXCEPT ![Len(states)] = @ \cup {m}]

\* build_block and import_block: a block on top of the latest storage.
Seal(applied) ==
  /\ applied \cap Top = {}
  /\ states' = Append(states, Top \cup applied)

Next ==
  \/ \E m \in Mutations : Amend(m)
  \/ \E applied \in SUBSET Extrinsics : Seal(applied)

Spec == Init /\ [][Next]_states
=============================================================================

------------------------------ MODULE HeadSync ------------------------------
(***************************************************************************)
(* What a relay chain and its parachains promise together, without blocks, *)
(* collations or storage: the relay chain enacts one new block of a        *)
(* parachain at a time, and the parachain's own chain follows with exactly *)
(* that block before the next one is enacted.                              *)
(***************************************************************************)
EXTENDS Integers, Sequences

CONSTANTS
  Paras,    \* parachain ids
  Blocks,   \* names of parachain blocks
  Unknown   \* the relay chain has no head of a parachain

VARIABLES
  line,  \* the canonical blocks of each parachain, oldest first
  seen   \* the head of each parachain that the relay chain has

Tip(p) == line[p][Len(line[p])]

Init ==
  /\ line = [p \in Paras |-> <<1>>]
  /\ seen = [p \in Paras |-> Unknown]

Register(p) ==
  /\ seen[p] = Unknown
  /\ seen' = [seen EXCEPT ![p] = Tip(p)]
  /\ UNCHANGED line

\* The parachain has caught up and a new block of it is enacted.
Enact(p, b) ==
  /\ seen[p] = Tip(p)
  /\ \A i \in 1..Len(line[p]) : line[p][i] # b
  /\ seen' = [seen EXCEPT ![p] = b]
  /\ UNCHANGED line

\* The parachain imports the block that the relay chain enacted.
Follow(p) ==
  /\ seen[p] \notin {Unknown, Tip(p)}
  /\ line' = [line EXCEPT ![p] = Append(@, seen[p])]
  /\ UNCHANGED seen

Next == \E p \in Paras : Register(p) \/ (\E b \in Blocks : Enact(p, b)) \/ Follow(p)

Safety == Init /\ [][Next]_<<line, seen>>

Spec ==
  /\ Safety
  /\ \A p \in Paras : WF_<<line, seen>>(Follow(p))
=============================================================================

-------------------------------- MODULE Core --------------------------------
(***************************************************************************)
(* The chain that core::Builder (core/src/builder/core.rs) keeps in its    *)
(* client and backend, and what the builder's private steps do to it.      *)
(*                                                                         *)
(* A chain is a record:                                                    *)
(*   canon   the canonical blocks; canon[i] is block number i - 1          *)
(*   fin     how many of them are finalized (finalized_hash is the hash    *)
(*           of canon[fin])                                                *)
(*   side    the blocks the client knows that are not canonical: imported  *)
(*           without becoming best, or a genesis block that was replaced   *)
(*   fresh   the next unused block hash                                    *)
(* A block is [hash, parent, root].  Hashes are names: two headers that    *)
(* differ get different names, an unchanged header keeps its name.  root   *)
(* stands for the storage the block's state root commits to; the modules   *)
(* that extend this one say what they keep in it.  Bodies, digests and     *)
(* proofs are left out.  A definition with an underscore in its name is a  *)
(* faulty variant of the one that follows it.                              *)
(***************************************************************************)
EXTENDS Integers, Sequences

\* client.info().best_hash and the header stored under it.
Latest(c) == c.canon[Len(c.canon)]

\* The hashes the client knows as canonical.
CanonHashes(c) == { c.canon[i].hash : i \in 1..Len(c.canon) }

\* The hashes the client knows at all.
KnownHashes(c) == CanonHashes(c) \cup { b.hash : b \in c.side }

NewChain(root) ==
  [ canon |-> << [hash |-> 1, parent |-> 0, root |-> root] >>,
    fin   |-> 1,
    side  |-> {},
    fresh |-> 2 ]

\* ProposerFactory::init on the latest header, then Proposer::propose.
Propose(c, root) == [hash |-> c.fresh, parent |-> Latest(c).hash, root |-> root]

\* The chain once the hash of a proposal is in use.
Proposed(c) ==
  [canon |-> c.canon, fin |-> c.fin, side |-> c.side, fresh |-> c.fresh + 1]

-----------------------------------------------------------------------------
\* Backend::revert(n, revert_finalized = true): n blocks off the tip, never
\* the genesis block, and the finalized block with them.  It starts from the
\* highest leaf, so what was imported on top of a reverted block goes too.
BackendRevert(c, n) ==
  LET keep == IF n < Len(c.canon) THEN Len(c.canon) - n ELSE 1
  IN  [ canon |-> SubSeq(c.canon, 1, keep),
        fin   |-> IF c.fin < keep THEN c.fin ELSE keep,
        side  |-> { b \in c.side :
                      \A i \in keep + 1..Len(c.canon) : c.canon[i].hash # b.parent },
        fresh |-> c.fresh ]

CheckBestHashAndRevert(c, n) ==
  IF c.fin = Len(c.canon) THEN BackendRevert(c, n) ELSE c

\* The header of block b with another state root.
Rehash(c, b, root) ==
  [ hash   |-> IF root = b.root THEN b.hash ELSE c.fresh,
    parent |-> b.parent,
    root   |-> root ]

FreshAfter(c, b, root) == IF root = b.root THEN c.fresh ELSE c.fresh + 1

\* mutate_genesis: the genesis header is made anew and set as Final.  The old
\* one is not reverted and stays known.
MutateGenesis(c, root) ==
  [ canon |-> << Rehash(c, Latest(c), root) >>,
    fin   |-> 1,
    side  |-> IF root = Latest(c).root THEN c.side ELSE c.side \cup {Latest(c)},
    fresh |-> FreshAfter(c, Latest(c), root) ]

\* mutate_normal: block b goes back with its new state root, as Final, behind
\* the block it was behind before.  When nothing was reverted, b stays known
\* beside it.
MutateNormal(c, b, root) ==
  LET below == IF Latest(c) = b THEN SubSeq(c.canon, 1, Len(c.canon) - 1)
                                ELSE c.canon
  IN  [ canon |-> Append(below, Rehash(c, b, root)),
        fin   |-> Len(below) + 1,
        side  |-> IF Latest(c) = b /\ root # b.root THEN c.side \cup {b} ELSE c.side,
        fresh |-> FreshAfter(c, b, root) ]

WithStateCommit_RevertsNumber(c, root) ==
  IF Len(c.canon) = 1
  THEN MutateGenesis(c, root)
  ELSE MutateNormal(CheckBestHashAndRevert(c, Len(c.canon) - 1), Latest(c), root)

\* with_state(Commit, None, exec), where exec turns the latest storage into
\* root.  The state is read before the revert.
WithStateCommit(c, root) ==
  IF Len(c.canon) = 1
  THEN MutateGenesis(c, root)
  ELSE MutateNormal(CheckBestHashAndRevert(c, 1), Latest(c), root)

\* with_state(Commit, None, exec) when a step after the revert returns Err:
\* nothing puts the reverted block back.  mutate_genesis reverts nothing.
WithStateCommitErr(c) ==
  IF Len(c.canon) = 1 THEN c ELSE CheckBestHashAndRevert(c, 1)

-----------------------------------------------------------------------------
\* What client.import_block answers to a block that is to be finalized: a
\* parent that is known but not the best block contradicts finality.
ImportResult(c, b) ==
  CASE b.parent = Latest(c).hash          -> "Imported"
    [] b.parent \in KnownHashes(c)
         /\ b.parent # Latest(c).hash     -> "Error"
    [] OTHER                              -> "UnknownParent"

\* import_block with finalized = true and ForkChoiceStrategy::Custom(true).
\* The results other than Imported and Error are turned into Ok(()).
ImportFinal(c, b) ==
  IF ImportResult(c, b) = "Imported"
  THEN [ canon |-> Append(c.canon, b),
         fin   |-> Len(c.canon) + 1,
         side  |-> c.side \ {b},
         fresh |-> c.fresh ]
  ELSE c

\* import_block with finalized = false and ForkChoiceStrategy::Custom(false).
ImportSide(c, b) ==
  [canon |-> c.canon, fin |-> c.fin, side |-> c.side \cup {b}, fresh |-> c.fresh]

-----------------------------------------------------------------------------
\* Blocks and chains whose storage is taken from R.
BlocksOf(R) == [hash : Nat, parent : Nat, root : R]

ChainsOf(R) ==
  [canon : Seq(BlocksOf(R)), fin : Nat, side : SUBSET BlocksOf(R), fresh : Nat]

\* What every chain a builder leaves behind must satisfy: the canonical
\* blocks are linked by their parent hashes, no hash is used twice, and the
\* best block is final.
Linked(c) ==
  /\ Len(c.canon) > 0
  /\ \A i \in 1..Len(c.canon) : c.canon[i].hash < c.fresh
  /\ \A i \in 1..Len(c.canon) :
       \A j \in 1..Len(c.canon) : c.canon[i].hash = c.canon[j].hash => i = j
  /\ \A i \in 2..Len(c.canon) : c.canon[i].parent = c.canon[i - 1].hash

BestIsFinal(c) == c.fin = Len(c.canon)
=============================================================================

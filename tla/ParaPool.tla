------------------------------ MODULE ParaPool ------------------------------
(***************************************************************************)
(* ParachainBuilder (core/src/builder/parachain.rs) with its transaction   *)
(* pool.  A block that was built is imported aside, waits for the relay    *)
(* chain's judgement and becomes canonical by a second import; the caller  *)
(* may submit extrinsics, mutate the latest state and build again at any   *)
(* time, as nothing asserts that no block is under way.  The storage of a  *)
(* block is the set of the mutations and extrinsics applied up to it.      *)
(* Module RelayPara has the relay chain that judges; here it judges when   *)
(* it likes.                                                               *)
(*                                                                         *)
(* A definition with an underscore in its name is a faulty variant of the  *)
(* one that follows it.                                                    *)
(***************************************************************************)
EXTENDS Core

CONSTANTS
  Mutations,   \* what closures passed to with_mut_state write
  Extrinsics,  \* the extrinsics a caller may submit
  NoBlock,     \* an Option that is None
  MaxPoolHash, \* bound: hashes a run may use
  MaxCache     \* bound: transitions a run may append

Roots  == SUBSET (Mutations \cup Extrinsics)
Blocks == BlocksOf(Roots)

ASSUME TokensAssumption == Mutations \cap Extrinsics = {} /\ NoBlock \notin Blocks
ASSUME PoolBoundsAssumption == MaxPoolHash \in Nat /\ MaxCache \in Nat

VARIABLES
  paraChain,   \* the client's and the backend's chain
  pool,        \* the transaction pool
  nextBlock,   \* BlockStorage.next_block, without its proof
  nextImport,  \* BlockStorage.next_import, without its proof
  imports,     \* ParachainBuilder.imports
  cache,       \* how many transitions the builder's cache holds
  given,       \* history: mutations and extrinsics that returned Ok
  invalid,     \* history: extrinsics the proposer took out of the pool
  lost         \* history: what blocks held that a failed commit lost

poolVars == <<paraChain, pool, nextBlock, nextImport, imports, cache, given, invalid, lost>>

PoolInit ==
  /\ paraChain = NewChain({})
  /\ pool = {}
  /\ nextBlock = NoBlock
  /\ nextImport = NoBlock
  /\ imports = << >>
  /\ cache = 0
  /\ given = {}
  /\ invalid = {}
  /\ lost = {}

-----------------------------------------------------------------------------
\* append_extrinsic: refused if pending or applied.  append_extrinsics is this
\* step for each extrinsic up to the first refusal.
AppendExtrinsic(x) ==
  /\ x \notin pool \cup Latest(paraChain).root
  /\ pool' = pool \cup {x}
  /\ given' = given \cup {x}
  /\ invalid' = invalid \ {x}
  /\ lost' = lost \ {x}
  /\ UNCHANGED <<paraChain, nextBlock, nextImport, imports, cache>>

AppendTransition ==
  /\ cache < MaxCache
  /\ cache' = cache + 1
  /\ UNCHANGED <<paraChain, pool, nextBlock, nextImport, imports, given, invalid, lost>>

\* Pool maintenance: what the best block holds is pruned.
Maintain(xts, c) == xts \ Latest(c).root

ParaBuildBlock_Prunes(included, stale) ==
  LET b == Propose(paraChain, Latest(paraChain).root \cup included)
  IN  /\ paraChain.fresh < MaxPoolHash
      /\ paraChain' = ImportSide(Proposed(paraChain), b)
      /\ pool' = pool \ (stale \cup included)
      /\ nextBlock' = b
      /\ invalid' = invalid \cup stale
      /\ UNCHANGED <<nextImport, imports, cache, given, lost>>

\* build_block: the proposer takes some of the pool and removes what no longer
\* applies; the import aside maintains the pool for the best block, which is
\* the same as before.  A block that was pending is replaced.
ParaBuildBlock(included, stale) ==
  LET b == Propose(paraChain, Latest(paraChain).root \cup included)
  IN  /\ paraChain.fresh < MaxPoolHash
      /\ paraChain' = ImportSide(Proposed(paraChain), b)
      /\ pool' = Maintain(pool \ stale, paraChain')
      /\ nextBlock' = b
      /\ invalid' = invalid \cup stale
      /\ UNCHANGED <<nextImport, imports, cache, given, lost>>

\* FudgeCollator::approve
Approve ==
  /\ nextBlock # NoBlock
  /\ nextBlock' = NoBlock
  /\ nextImport' = nextBlock
  /\ UNCHANGED <<paraChain, pool, imports, cache, given, invalid, lost>>

\* FudgeCollator::reject
Reject ==
  /\ nextBlock # NoBlock
  /\ nextBlock' = NoBlock
  /\ UNCHANGED <<paraChain, pool, nextImport, imports, cache, given, invalid, lost>>

ParaImportBlock_RecordsTaken ==
  /\ nextImport # NoBlock
  /\ ImportResult(paraChain, nextImport) # "Error"
  /\ paraChain' = ImportFinal(paraChain, nextImport)
  /\ pool' = Maintain(pool, paraChain')
  /\ nextImport' = NoBlock
  /\ imports' = Append(imports, nextImport')
  /\ UNCHANGED <<nextBlock, cache, given, invalid, lost>>

\* import_block: an Err of the client keeps next_import; a result that is no
\* import is dropped silently and recorded all the same.
ParaImportBlock ==
  /\ nextImport # NoBlock
  /\ ImportResult(paraChain, nextImport) # "Error"
  /\ paraChain' = ImportFinal(paraChain, nextImport)
  /\ pool' = IF ImportResult(paraChain, nextImport) = "Imported" THEN Maintain(pool, paraChain') ELSE pool
  /\ imports' = Append(imports, nextImport)
  /\ nextImport' = NoBlock
  /\ UNCHANGED <<nextBlock, cache, given, invalid, lost>>

\* with_mut_state: a block may be pending or approved.
ParaWithMutState(m) ==
  /\ paraChain.fresh < MaxPoolHash
  /\ paraChain' = WithStateCommit(paraChain, Latest(paraChain).root \cup {m})
  /\ given' = given \cup {m}
  /\ lost' = lost \ {m}
  /\ UNCHANGED <<pool, nextBlock, nextImport, imports, cache, invalid>>

\* with_mut_state returning Err after the revert.
ParaWithMutStateErr ==
  /\ paraChain' = WithStateCommitErr(paraChain)
  /\ lost' = lost \cup (Latest(paraChain).root \ Latest(paraChain').root)
  /\ UNCHANGED <<pool, nextBlock, nextImport, imports, cache, given, invalid>>

PoolNext ==
  \/ \E x \in Extrinsics : AppendExtrinsic(x)
  \/ AppendTransition
  \/ \E included \in SUBSET pool : \E stale \in SUBSET (pool \ included) :
       ParaBuildBlock(included, stale)
  \/ Approve
  \/ Reject
  \/ ParaImportBlock
  \/ \E m \in Mutations : ParaWithMutState(m)
  \/ ParaWithMutStateErr

PoolSpec == PoolInit /\ [][PoolNext]_poolVars

-----------------------------------------------------------------------------
\* Type invariant.
PoolTypeOK ==
  /\ paraChain \in ChainsOf(Roots)
  /\ pool \subseteq Extrinsics
  /\ {nextBlock, nextImport} \subseteq Blocks \cup {NoBlock}
  /\ imports \in Seq(Blocks)
  /\ cache \in Nat
  /\ {given, invalid, lost} \subseteq Roots

\* Blocks are built, replaced, rejected, approved and dropped by an import that
\* says Ok, with mutations in between.  What a caller was given Ok for is in the
\* latest state or, for extrinsics, still in the pool, unless the proposer found
\* it invalid or a commit failed and lost the block that held it; but never in
\* both, so that no proposer is offered what is applied already.  And no block
\* of the chain, built on a state that was the latest once, undoes what a block
\* below it applied.
AccountedOnce ==
  LET applied == Latest(paraChain).root
  IN  /\ given \subseteq pool \cup applied \cup invalid \cup lost
      /\ pool \cap applied = {}
      /\ \A i, j \in 1..Len(paraChain.canon) :
           i < j => paraChain.canon[i].root \subseteq paraChain.canon[j].root
=============================================================================

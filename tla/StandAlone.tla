----------------------------- MODULE StandAlone -----------------------------
(***************************************************************************)
(* StandAloneBuilder (core/src/builder/stand_alone.rs) on top of           *)
(* core::Builder: one chain, its transaction pool and the block that was   *)
(* built and not yet imported.  The storage of a block is the set of the   *)
(* mutations and extrinsics applied up to it.                              *)
(*                                                                         *)
(* An assert! in the code is a guard here: a call that would panic is not  *)
(* made.  Calls that only read (with_state, with_state_at, pool_state,     *)
(* imports) and calls that fail before they change anything are no steps.  *)
(* A definition with an underscore in its name is a faulty variant of the  *)
(* one that follows it; it shows which mistake a property would catch.     *)
(***************************************************************************)
EXTENDS Core

CONSTANTS
  Mutations,    \* what closures passed to with_mut_state write
  Extrinsics,   \* the extrinsics a caller may submit
  NoBlock,      \* next: None
  CommitFails,  \* may a commit fail after its revert?
  MaxHash,      \* bound: hashes a run may use
  MaxCache      \* bound: transitions a run may append

Roots  == SUBSET (Mutations \cup Extrinsics)
Blocks == BlocksOf(Roots)

ASSUME TokensAssumption == Mutations \cap Extrinsics = {}
ASSUME NoBlockAssumption == NoBlock \notin Blocks
ASSUME CommitFailsAssumption == CommitFails \in BOOLEAN
ASSUME BoundsAssumption == MaxHash \in Nat /\ MaxCache \in Nat

VARIABLES
  chain,      \* the client's and the backend's chain
  pool,       \* the transaction pool: accepted, not yet in a best block
  next,       \* self.next
  imports,    \* self.imports
  cache,      \* how many transitions self.builder.cache holds
  base,       \* Len(chain.canon) when the builder was opened
  committed,  \* history: mutations whose with_mut_state returned Ok
  accepted,   \* history: extrinsics append_extrinsic returned Ok for
  invalid     \* history: extrinsics the proposer took out of the pool

vars == <<chain, pool, next, imports, cache, base, committed, accepted, invalid>>

Init ==
  /\ chain = NewChain({})
  /\ pool = {}
  /\ next = NoBlock
  /\ imports = << >>
  /\ cache = 0
  /\ base = 1
  /\ committed = {}
  /\ accepted = {}
  /\ invalid = {}

-----------------------------------------------------------------------------
\* append_extrinsic: TransactionPool::submit_one validates against the best
\* state, so what is pending or applied already is refused.
\* append_extrinsics is this step for each extrinsic up to the first refusal.
AppendExtrinsic(x) ==
  /\ x \notin pool
  /\ x \notin Latest(chain).root
  /\ pool' = pool \cup {x}
  /\ accepted' = accepted \cup {x}
  /\ invalid' = invalid \ {x}
  /\ UNCHANGED <<chain, next, imports, cache, base, committed>>

\* append_transition pushes to a cache no other operation reads.
AppendTransition ==
  /\ cache < MaxCache
  /\ cache' = cache + 1
  /\ UNCHANGED <<chain, pool, next, imports, base, committed, accepted, invalid>>

BuildBlock_DrainsPool(included, stale) ==
  /\ next = NoBlock
  /\ chain.fresh < MaxHash
  /\ next' = Propose(chain, Latest(chain).root \cup included)
  /\ chain' = Proposed(chain)
  /\ pool' = pool \ (included \cup stale)
  /\ invalid' = invalid \cup stale
  /\ UNCHANGED <<imports, cache, base, committed, accepted>>

BuildBlock_OnEmptyState(included, stale) ==
  /\ next = NoBlock
  /\ chain.fresh < MaxHash
  /\ next' = Propose(chain, included)
  /\ chain' = Proposed(chain)
  /\ pool' = pool \ stale
  /\ invalid' = invalid \cup stale
  /\ UNCHANGED <<imports, cache, base, committed, accepted>>

\* build_block: the proposer takes some of the pool (its time and size limits
\* decide) and removes from the pool what no longer applies.
BuildBlock(included, stale) ==
  /\ next = NoBlock
  /\ chain.fresh < MaxHash
  /\ next' = Propose(chain, Latest(chain).root \cup included)
  /\ chain' = Proposed(chain)
  /\ pool' = pool \ stale
  /\ invalid' = invalid \cup stale
  /\ UNCHANGED <<imports, cache, base, committed, accepted>>

\* Pool maintenance after an import: what the new best block holds is pruned.
Maintain(xts, c) == xts \ Latest(c).root

ImportBlock_NoMaintenance ==
  /\ next # NoBlock
  /\ ImportResult(chain, next) # "Error"
  /\ chain' = ImportFinal(chain, next)
  /\ next' = NoBlock
  /\ imports' = Append(imports, next)
  /\ UNCHANGED <<pool, cache, base, committed, accepted, invalid>>

ImportBlock_RecordsTaken ==
  /\ next # NoBlock
  /\ ImportResult(chain, next) # "Error"
  /\ chain' = ImportFinal(chain, next)
  /\ pool' = Maintain(pool, chain')
  /\ next' = NoBlock
  /\ imports' = Append(imports, next')
  /\ UNCHANGED <<cache, base, committed, accepted, invalid>>

\* import_block when the client returns a result: next is taken, a result
\* other than Imported is dropped silently, the block is recorded either way.
ImportBlock ==
  /\ next # NoBlock
  /\ ImportResult(chain, next) # "Error"
  /\ chain' = ImportFinal(chain, next)
  /\ pool' = IF ImportResult(chain, next) = "Imported"
             THEN Maintain(pool, chain') ELSE pool
  /\ next' = NoBlock
  /\ imports' = Append(imports, next)
  /\ UNCHANGED <<cache, base, committed, accepted, invalid>>

\* import_block when the client returns an error: next was taken already.
ImportBlockErr ==
  /\ next # NoBlock
  /\ next' = NoBlock
  /\ UNCHANGED <<chain, pool, imports, cache, base, committed, accepted, invalid>>

WithMutState_NoAssert(m) ==
  /\ chain.fresh < MaxHash
  /\ chain' = WithStateCommit(chain, Latest(chain).root \cup {m})
  /\ committed' = committed \cup {m}
  /\ UNCHANGED <<pool, next, imports, cache, base, accepted, invalid>>

WithMutState_ReadsReverted(m) ==
  /\ next = NoBlock
  /\ chain.fresh < MaxHash
  /\ chain' = WithStateCommit(chain, Latest(WithStateCommitErr(chain)).root \cup {m})
  /\ committed' = committed \cup {m}
  /\ UNCHANGED <<pool, next, imports, cache, base, accepted, invalid>>

\* with_mut_state: assert!(self.next.is_none()), then the commit of what the
\* closure made of the latest storage.
WithMutState(m) ==
  /\ next = NoBlock
  /\ chain.fresh < MaxHash
  /\ chain' = WithStateCommit(chain, Latest(chain).root \cup {m})
  /\ committed' = committed \cup {m}
  /\ UNCHANGED <<pool, next, imports, cache, base, accepted, invalid>>

\* with_mut_state when execute_with_mut, state_version, mutate_normal or
\* commit_operation returns Err.
WithMutStateErr ==
  /\ CommitFails
  /\ next = NoBlock
  /\ chain' = WithStateCommitErr(chain)
  /\ UNCHANGED <<pool, next, imports, cache, base, committed, accepted, invalid>>

\* The builder is dropped and new is called again on the same database: only
\* the chain is stored there.
Reopen ==
  /\ pool' = {}
  /\ next' = NoBlock
  /\ imports' = << >>
  /\ cache' = 0
  /\ base' = Len(chain.canon)
  /\ accepted' = {}
  /\ invalid' = {}
  /\ UNCHANGED <<chain, committed>>

Next ==
  \/ \E x \in Extrinsics : AppendExtrinsic(x)
  \/ AppendTransition
  \/ \E included \in SUBSET pool : \E stale \in SUBSET (pool \ included) :
       BuildBlock(included, stale)
  \/ ImportBlock
  \/ ImportBlockErr
  \/ \E m \in Mutations : WithMutState(m)
  \/ WithMutStateErr
  \/ Reopen

Spec == Init /\ [][Next]_vars

-----------------------------------------------------------------------------
\* Type invariant.
TypeOK ==
  /\ chain \in ChainsOf(Roots)
  /\ pool \subseteq Extrinsics
  /\ next \in Blocks \cup {NoBlock}
  /\ imports \in Seq(Blocks)
  /\ cache \in Nat
  /\ base \in Nat
  /\ committed \subseteq Mutations
  /\ accepted \subseteq Extrinsics
  /\ invalid \subseteq Extrinsics

\* core/src/builder/core.rs mutates a block by reverting it and setting it
\* again: whatever the sequence of builds, imports, mutations, failures and
\* restarts, the canonical blocks stay linked and uniquely named, the best
\* block is final, and a pending block is a child of the best block.
ChainIntact ==
  /\ Linked(chain)
  /\ BestIsFinal(chain)
  /\ next # NoBlock => /\ next.parent = Latest(chain).hash
                       /\ next.hash < chain.fresh
                       /\ next.hash \notin CanonHashes(chain)

\* core import_block drops AlreadyInChain, KnownBad, UnknownParent and
\* MissingState; stand_alone import_block then records the block in imports.
\* Yet every recorded block is in the chain, at the number that follows from
\* its place in imports, with everything it applied.
ImportsMirrorChain ==
  /\ Len(chain.canon) = base + Len(imports)
  /\ \A i \in 1..Len(imports) :
       imports[i].root \subseteq chain.canon[base + i].root

\* A mutation that with_mut_state returned Ok for is in the latest state for
\* ever: later builds, imports, mutations and restarts keep it.
CommittedSurvive == committed \subseteq Latest(chain).root

\* An extrinsic is never both pending and applied: maintenance runs for
\* every block that enters the chain.
NoReplay == pool \cap Latest(chain).root = {}

\* An accepted extrinsic is pending or applied unless the proposer found it
\* invalid, a failed import included.
NoExtrinsicLost == accepted \subseteq pool \cup Latest(chain).root \cup invalid

\* Each block is built upon the storage, mutations included, of the block below
\* it (test build_relay_block_works_and_mut_is_build_upon); a block that is
\* mutated after its child was built would break this.
StateAccumulates ==
  \A i \in 1..Len(chain.canon) - 1 : chain.canon[i].root \subseteq chain.canon[i + 1].root

\* A step changes the latest block or adds one; what is below the latest
\* block is never altered, and at most one block is lost (a failed commit).
OnlyTipChanges ==
  [][ /\ Len(chain'.canon) >= Len(chain.canon) - 1
      /\ Len(chain'.canon) >= 1
      /\ \A i \in 1..Len(chain.canon) - 1 : chain'.canon[i] = chain.canon[i] ]_vars

\* The comment at core/src/builder/core.rs:414 says that with_state unfinalizes
\* the latest block and re-imports it: so no step makes the chain shorter.
BlocksReimported == [][Len(chain'.canon) >= Len(chain.canon)]_vars

\* A pending block holds the latest storage and adds nothing but extrinsics
\* that are not in it.
PendingOnState ==
  next # NoBlock => /\ Latest(chain).root \subseteq next.root
                    /\ next.root \ Latest(chain).root \subseteq Extrinsics

\* StandAloneBuilder keeps the promise of Ledger: with_mut_state amends the
\* latest storage and nothing else, an import adds a block on top of it, and
\* no other call changes any block's storage.
L == INSTANCE Ledger
       WITH states <- [i \in 1..Len(chain.canon) |-> chain.canon[i].root]

ImplementsLedger == L!Spec
=============================================================================

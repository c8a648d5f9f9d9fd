# TLA+ models of FUDGE

FUDGE (`core/`, `fudge/`) drives Substrate chains inside a test program: it
builds and imports blocks, mutates the latest state in place, and lets a relay
chain and its parachains advance together. These modules model what its builders
keep and do, check it with TLC on small instances, and prove the safety properties
with TLAPS for all instances.

## The system

| part | state | operations | interacts with |
|---|---|---|---|
| `core::Builder` (`builder/core.rs`) | client and backend (the chain), transaction pool, transition cache | `build_block`, `import_block`, `with_state` (read or commit), `append_extrinsic`, `append_transition`, `commit_storage_changes` | Substrate's client, backend, pool and proposer |
| `StandAloneBuilder` | `next` (built, not imported), `imports` | `build_block`, `import_block`, `with_mut_state`, `append_*` | `core::Builder` |
| `RelaychainBuilder` | `next`, `imports`, `parachains` (ids with collators), `collations` | `onboard_para`, `update_para_head`, `build_block`, `import_block` (enacts and collects), `with_mut_state` | `core::Builder`; calls the collators |
| `ParachainBuilder`, `FudgeCollator` | `BlockStorage` (`next_block`, `next_import`) that both share, `imports` | `build_block`, `import_block`, `with_mut_state`; `collation`, `approve`, `reject` | `core::Builder`; called back by the relay chain |
| companion (macro) | the builders | `new`, `evolve`, `with_mut_state`, `append_extrinsic` | relay chain and parachain builders, in a fixed order |
| `CurrTimeProvider` (`inherent/timestamp.rs`) | global registry of clocks, id counter | `create_instance`, `force_new`, `get_instance`, `provide_inherent_data` | shared by threads |
| `ExternalitiesProvider` | an overlay over one state | `execute_with`, `execute_with_mut`, `execute_with_safe` | runs callers' closures for `core::Builder` |
| `FudgeRelayChainProcessInterface` | none | reads, `wait_for_block` | relay client, in tasks beside the builder |
| `StateProvider` | genesis storage under construction | `insert_storage` | Substrate |
| backend and client providers, initiators | configuration | builders | Substrate |
| digests, inherents | none | pure functions of time and best block | called by `build_block` |
| macro parser | the fields read so far | `parse_struct`, `parse_field` | the companion it generates |

What is hard here: a block is mutated by reverting it and setting it again, so its
hash changes under everything that refers to it; many calls do several things that
can fail one after the other; results of an import other than "imported" are
dropped; the relay chain approves what is pending at a parachain *now* but enacts
what it collated one block earlier; clocks are shared by threads; waiters check the
chain and listen for imports while its owner changes it. `PROJECT.json`
lists these hazards with their lines and the properties that would catch them.

## The modules

`Core` holds the operators on a chain that the modules for the builders share. A
chain is a record: the canonical blocks, how many are final, the blocks the client
knows beside them, and the next unused hash. A block is hash, parent and storage
root. Hashes are names: a header that changes gets a new one, an unchanged header
keeps its own. `Core` also states what is assumed of Substrate, which is not part
of the repository:

* `Backend::revert` takes blocks off the tip, never the genesis block, together
  with what was imported on top of them, and makes the new tip final;
* `import_block` of a block to be finalized succeeds on a child of the best block,
  fails on a child of another known block and answers `UnknownParent` otherwise;
* the pool refuses an extrinsic that is pending or applied, and maintenance prunes
  what the new best block contains.

| module | models | its actions are |
|---|---|---|
| `StandAlone` | `StandAloneBuilder` over `core::Builder`, with the pool | the public operations; `ImportBlockErr` and `WithMutStateErr` are their error paths, `Reopen` is dropping the builder and opening the database again |
| `Ledger` | abstract: a list of storages | `Amend` the last one, `Seal` a new one on top |
| `RelayPara` | one `RelaychainBuilder`, its `ParachainBuilder`s and collators, called in any order | the public operations; `import_block` of the relay chain is one action per way it can end |
| `ParaCodes` | the validation codes `onboard_para` writes: hashes, reference counts, past codes | `OnboardPara`, its Err, the next relay block |
| `ParaPool` | one `ParachainBuilder` with its pool, judged at any time | the public operations, `Approve` and `Reject` |
| `Companion` | the generated `new`, `evolve` and `with_mut_state` | the calls of `RelayPara` in the order of the code, one step each, plus the early returns and the panic of a failed assertion |
| `HeadSync` | abstract: a relay chain enacts a block of a parachain, whose chain follows with that block | `Register`, `Enact`, `Follow` |
| `CoreApi` | `core::Builder` as its own users may call it: several built blocks, imports as best, final or aside on any known block, mutations of any known block, the genesis block included | the public operations, one action per way they can end |
| `WaitForBlock` | `wait_for_block` in tasks, against the thread that owns the relay chain | the steps between which the import lock is free; those of a mutation, which takes no lock |
| `Externalities` | `ExternalitiesProvider` and the closures it runs | `ExecuteWith*`, what a closure does, one action per way it can end |
| `Genesis` | `StateProvider::insert_storage` | one child trie at a time, in any order |
| `CompanionParser` | the parser of the macro | one field at a time |
| `Timestamp` | `CurrTimeProvider` and the threads that use it; the slot of an Aura digest | the steps between which the lock is free |
| `CoreProofs`, `StandAloneProofs`, `RelayParaProofs`, `CompanionProofs`, `TimestampProofs`, `WaitForBlockProofs` | theorems about the module of that name | |
| `PartsProofs` | theorems about the six modules that `MC_Parts` runs | |
| `Induction` | induction over the numbers and over the rounds of a loop, for the proofs | |
| `MC_*` | instances for TLC (symmetry, order of parachains; `MC_Parts` runs six modules one at a time) | |

`RelayPara` extends `Core`; `Companion` extends `RelayPara` and is its composition
with the driver. Conventions: an `assert!` is a guard (in `Companion`, where the
caller is modelled, a failed one is the state `panicked`); a call that returns Err
before it changes anything is no step; definitions with an underscore are faulty
variants, one for each property, kept to show which mistake the property finds.

Storage is abstract. In `StandAlone` it is the set of mutations and extrinsics
applied so far. A relay block's is the parachain heads, the registered parachains
and what callers wrote. A parachain block's is the execution that produced it and
what callers wrote, so two executions never have the same root; it also has the
number of the relay block it was built against, which is what the parachain inherent
takes from the relay chain. The storage proof of a parachain build is the root it can
be compacted against. In `ParaCodes` a code stands for its hash.

Further assumptions on Substrate, each stated at the head of the module that uses it:

* `CoreApi`: a block becomes best or final only above the finalized block; the backend
  sets a block as final on the finalized block only, or on any block while only the
  genesis block is final, and the client finalizes the parents of a block it imports
  as final; once a block is reverted its number finds nothing while its hash may
  still find the header in a cache. `Backend::revert` goes down the best chain, as in
  `Core`: that it starts elsewhere when a block as high as the best one but on another
  parent was imported last is not modelled, and neither are later calls that name a
  reverted block. A run ends when a block was set whose parent is gone;
* `WaitForBlock`: an import holds the import lock until listeners were told, and they
  are told nothing if its origin is `NetworkInitialSync`; the backend operations of a
  mutation take no lock and tell nobody;
* `Externalities`: the overlay is a stack of layers, one per open transaction, and
  draining it asserts that none is open;
* `Genesis`: `ChildInfo::try_update` holds for equal infos, and a HashMap is visited in
  any order.

## The runs

| run | bounds | shows |
|---|---|---|
| `stand_alone` | 2 mutations, 2 extrinsics, hashes below 7 | no failing commit: `imports` and chain agree block by block although results of imports are dropped; committed mutations and accepted extrinsics survive builds, imports, failed imports and restarts; the chain implements `Ledger` |
| `stand_alone_faults` | same, hashes below 6, commits may fail | the chain stays linked and final, a pending block fits on the best one and its storage, no replay, blocks below the tip never change |
| `stand_alone_reimport` | 1 counterexample | see Findings |
| `relay_para` | 2 parachains, 2 calls of `onboard_para`, relay hashes below 7, parachain hashes below 4 | any order of calls, only imports fail: approval always finds a block, the enacted heads of one loop survive its later commits, pending blocks are not canonical, `imports` and relay chain agree |
| `relay_para_faults` | same, relay hashes below 6 | imports, commits and reads fail at any point of `import_block`, callers reject: chains and collations stay well formed |
| `companion` | 2 parachains, 3 evolves | each evolve adds one block per parachain and two relay blocks per parachain, leaves nothing pending, never panics if no call fails; the enacted, the approved and the imported block are the same and a child of the head before; the relay parents of a parachain's blocks advance; every block that is built gets imported; `HeadSync` is implemented, its liveness included |
| `companion_faults` | 3 evolves, at most 2 calls that return Err | after Errs at any point, two evolves that return Ok restore agreement (one is not enough); a candidate that was injected and not enacted, since a closure's Err does not undo its writes, has a collation that enacts it later |
| `core_api_commit` | 1 counterexample | see Findings |
| `wait_for_block` | 2 waiters, 3 hashes, announced and silent origins | no announced import falls between check and listener, and what is announced is heard unless the timer is first |
| `wait_for_block_timeout` | 1 counterexample | see Findings |
| `timestamp` | 2 threads, 2 clocks, 2 ticks, 1 reset, times up to 6, slots of 2 | ids are not shared, no tick is lost, time goes forward up to saturation, and the slot too if the block time is at least a slot |
| `parts` | see below | six components that share no state, one at a time (`MC_Parts`), so that the states are the sum of theirs |

What `parts` shows of each component, and its bounds:

* `Genesis` (1 key beside the code, 2 values, 2 child tries, 2 infos, 2 inserts): Ok of
  `insert_storage` is the union, independent of the order of a HashMap; Err leaves a part
  of it (`InsertOutcome`);
* `Externalities` (2 keys, 2 values, 3 open transactions, 4 operations, 2 closures): what
  is stored is what the closure saw, and the result tells whether it closed more than it
  opened (`ClosureOutcome`);
* `CompanionParser` (all structs of up to 3 fields with up to 2 attributes): a struct is
  accepted if and only if a declarative definition accepts it, with the same meaning
  (`AcceptsTheRight`);
* `ParaCodes` (2 parachains, 3 codes, 2 blocks after genesis, 4 calls): whatever is
  onboarded again or shared, each code a parachain has or had can be found and is counted
  (`CodesResolvable`), and a change drops none but the one replaced before in the same
  block (`CodeHistoryKept`);
* `ParaPool` (2 mutations, 2 extrinsics, hashes below 5, failing commits): blocks are
  replaced, rejected, dropped by a silent import and mutated under; what was accepted is
  applied or pending, never both, unless the proposer found it invalid or a failed
  commit lost its block (`AccountedOnce`);
* `CoreApi` (2 writes, 2 built blocks at a time, hashes below 6): imports re-organise the
  chain, and while blocks are best and not final a mutation of an older one, or of the
  genesis block, succeeds and drops those above it (`core.rs:819` reverts nothing then).
  The blocks below the finalized one survive all of this, and every Err; only
  `commit_storage_changes` above block one loses them, when the best block is final
  (`OnlyDeepCommitsLoseFinal`).

The bounds let each interesting case happen: a chain of several blocks with the
genesis case, both kinds of mutation, two collations in one import, double
onboarding, a block built twice before it is approved, a mutation while a block is
pending, saturation of time, a commit to block two, an unbalanced closure on a provider
that ran one before. In `companion` the hash bounds are never reached: a write that is
there already changes no hash. All runs but those of `StandAlone` turn the deadlock
check off: callers may stop calling, and do at a bound.

Fairness is assumed where code runs on once it was called, and nowhere of a caller. In
`Companion`: weak fairness of the steps of `evolve`, which is straight-line code. In
`WaitForBlock`: weak fairness of the rest of an import that holds the lock, and of
reading a notification that is in the queue; none of the timer, and none of the check
of the chain. `HeadSync` has weak fairness of `Follow`: it is promised, and the
companion implements it.

## Findings

`stand_alone_reimport`: the comment at `core/src/builder/core.rs:414` says that the
latest block is unfinalized and imported again to mutate it. When a step between
the revert and the commit returns Err, it is not imported again and the chain is one
block shorter.

`core_api_commit`: `commit_storage_changes` (`core.rs:286`) passes the number of the
block to `check_best_hash_and_revert`, which takes how many blocks to revert; `with_state`
passes 1. Changes committed to the latest block lose the blocks below it from block two
on, although the README promises to mutate "the latest state of a given chain".

`wait_for_block_timeout`: a comment in `wait_for_block` (`relay_chain.rs:1262`) says that
it polls "until the block is imported or the timeout is fired", but the relay chain
imports with `BlockOrigin::NetworkInitialSync` (`relay_chain.rs:725`), which listeners are
not told of. In the trace a waiter listens, its block is imported with that origin and
the timer fires (`TimeoutMeansNotImported`).

Not findings, since no text says otherwise, but worth knowing: an `evolve` that
returned Err after collecting leaves its collation behind; the next `evolve` builds
another parachain block, enacts the old one and approves the new one
(`TwoEvolvesHeal` with one instead of two is violated). An `evolve` whose parachain
build failed leaves a relay block in `next`; the next call panics (`NoPanic` is checked
without faults). Onboarding a parachain twice in one relay block overwrites the entry of
`PastCodeHash` (`CodeHistoryKept` excepts it). A comment at
`companion/src/parse/mod.rs:112` says that fields of other kinds are not supported
currently: the parser accepts and keeps them, and so does `CompanionParser`.

## The proofs

Every theorem is about all values of the constants: any parachains, threads, waiters,
storages, structs and bounds. All the invariants and step properties of the passing runs
are proved; what is left to TLC, and why, is at the end.

**Chains** (`CoreProofs`). The facts that every builder's proof uses: what a commit, a
failed commit and an import do to a chain (`CommitEffect`, `CommitErrEffect`,
`ImportEffect`), and that each keeps it linked, uniquely named and final
(`CommitIntact`, `LinkedAgain`, `LinkedLonger`, `LinkedShorter`).

**`StandAlone`** (`StandAloneProofs`). Under failing commits: `TypeCorrect`,
`ChainStaysIntact`, `PendingBuiltOnState`, `StorageAccumulates`, `ExtrinsicsNotReplayed`,
`HistoryIsImmutable`. `ChainIntact` is not inductive without the types, and `NoReplay`
needs what is pending to be built on the latest storage; `Inv` is their conjunction.
What makes the argument work is that the pending block is a child of the best block and
has an unused hash: so an import is never dropped silently (`ImportIsGrowth`), and a
mutation, which is guarded by `next = NoBlock`, may rename the best block. With
`CommitFails = FALSE`: `ImportsAreInChain`, `CommittedAreKept`, `ExtrinsicsAreKept` and
the refinement `StandAloneImplementsLedger`, each step being `Amend`, `Seal` or a stutter
(`StepRefines`). The assumption is needed: the run `stand_alone_reimport` shows what a
failed commit costs.

**`RelayPara`** (`RelayParaProofs`). Under every fault: `RelayParaTypeCorrect`,
`ChainsStayIntact`, `CollationsStaySound`, `PendingStaysAside`, `CandidatesAreRetried`. The
inductive invariant `Inv` adds to the four invariants that a pending relay block was built
on the latest storage (`RelaySound`), and that what is pending or approved at a parachain
has a hash and an execution below the next unused ones and was never canonical there
(`ParaSound`): an import could otherwise make a pending block canonical. Enacting is a
loop with a commit for each collation; its lemmas are about the value after any number of
rounds. Three theorems exclude the faults that would spoil them:

| theorem | faults excluded | why |
|---|---|---|
| `RelayImportsAreChain` | commit | a failed commit drops the block that `imports` has |
| `ApprovedAreInRelayState` | commit | a failed commit takes an enacted head away again |
| `ApprovalNeverFails` | read, commit, reject | a rejected or an already approved block is not pending, though its collation may be left behind |

**`Companion`** (`CompanionProofs`). Each step of `new`, `evolve` and `with_mut_state` is a call
of `RelayPara` or changes no builder (`CompanionCallsBuilders`: `CompanionSpec => Spec`), so
that all the above holds of a companion, Errs in the middle of an `evolve` included. Two
invariants of their own follow the calls:

* Without faults, `Progress` says for each call of `new` and of a turn of `evolve` how far the
  current parachain is (`Stage`: settled, head set, built, enacted), that the others are
  settled, and how long every chain is. With it no call of `evolve` can fail
  (`EvolveErrImpossible`), whatever callers mutated: the proof fits the head, the approved
  block is the collated one and a child of the parachain's latest block. From it follow
  `EvolveAdvancesEveryChain`, `RelayParentsIncrease`, `ApprovedBlockIsEnacted` and
  `CompanionKeepsSync`, the safety part of `HeadSync` (`Register` is the onboarding, `Enact` the
  second import of a turn, `Follow` the parachain's import, all else a stutter).
  `CompanionDoesNotPanic` needs only that a relay block is in `next` between its build and its
  import (`Quiet`). Faults are excluded (`Faults = {}`) since an Err of the parachain's build,
  between the two, leaves the relay block there and makes the next call panic, and since an
  `evolve` that ends early advances some chains only.
* With every fault, `Healing` says what has been put in order since the last Err, and proves
  `TwoOkEvolvesHeal`. The first turn after an Err may enact a collation that the Err left and
  approve another block for it, but at its end nothing is collated or pending, as its second
  import approves all that its first one collected (`Covered`, `Tidy`). Every later turn ends
  with its parachain settled; the first parachain has to wait for the second `evolve`, which
  is why one is not enough.

A companion has at least one parachain here (`OrderAssumption`); with none, `evolve` does
nothing.

**`Timestamp`** (`TimestampProofs`). `RegistryTypeCorrect`, `ClocksAreNotShared`,
`TicksAreExact`, `TimeGoesForward`, `SlotsGoForward`. The first invariant adds that a
thread that has put a time holds a copy of a clock that is there, and that ids from the
counter upwards are unused. That time goes forward needs a second one, `Trail`: a copy
trails its clock unless the clock was reset since, what was put is of the copy, and every
time handed out is one the clock showed at an earlier tick.

**`WaitForBlock`** (`WaitForBlockProofs`). `NoCallMissesItsImport`. The invariant says what a
task may believe in each of its states: what was announced is in the chain, and none is
announced between a check that did not find it and the listener, since the lock is held.

**The parts** (`PartsProofs`). The specification of each component is proved about by
itself; `PartsTypeCorrect` is about their composition in `MC_Parts`.

* `ParaPool`: `ExtrinsicsAccountedOnce`, with `PoolInv`: a block that waits holds what its
  parent holds *if* the parent is in the chain, for a mutation gives the parent a new hash.
* `ParaCodes`: `CodesAreResolvable` and `CodeHistoryIsKept`, with `CodesInv`: every block's
  storage is resolvable and its list of parachains increasing, so that sorting is
  determined and an id is there once.
* `Genesis`: `InsertsAreUnions`, with the loop invariant `Merged`: the tries that are not to
  do any more are merged, the others as before.
* `Externalities`: `ClosuresEndRight`, with `LayersCounted`: the layers of the overlay are
  those left by earlier closures and those this one opened and did not close.
* `CoreApi`: `FinalizedIsKept`. The type invariant is inductive and enough, as it has that
  the finalized block is in the chain. What carries the argument is that a line a block is
  imported or set on has the finalized block in it (`ReorganisedEffect`, `SetFinalEffect`),
  so that what a revert of at most one block left final stays (`RevertMany`, `StillFinalOn`).
* `CompanionParser`: `ParserAcceptsTheRight`, with the loop invariant `ReadSoFar`.

Also proved there and not listed, since only `PartsTypeCorrect` is a property of a run: the
types of each part (`PoolTypeCorrect`, `GenesisTypeCorrect`, `OverlayTypeCorrect`,
`CoreApiTypeCorrect`, `ParserTypeCorrect`).

**Induction.** Loops of the code (enact one collation after the other, revert block by
block) are recursive functions over `0..n`, and the installed provers cannot
instantiate the library's induction theorems. `Induction` proves induction for a *set* of
numbers from the pigeonhole principle (`SetInduction`), and that a loop of n rounds has a
value after each round (`Iterates`); what a recursive function computes follows.

Assumptions are the named ASSUMEs of the modules: bounds are natural numbers, mutations and
extrinsics are different things, `None` and its like are none of the values, a slot is not
empty. TLC evaluates them on the instances of the runs.

Model-checked only: liveness, which needs fairness, is out of the provers' reach. It is
`BuiltIsImported`, `AnnouncedIsHeard`, and the fairness part of `ImplementsHeadSync`.

## Not modelled

* Encodings, bodies, proofs' contents, logging. Poisoned locks.
* The relay chain's pool and `append_transition`: they are the same code of
  `core::Builder` that `StandAlone` has. The companion's `append_extrinsic` only
  forwards to the pools.
* `provider/backend.rs` and the setters of `initiator.rs`: configuration for Substrate's
  constructors, with no protocol to get wrong. Opening a database that exists is
  `Reopen` in `StandAlone`.
* Imports that re-organise a chain are in `CoreApi` only: the builders above
  `core::Builder` never ask for one.
* What `force_enact_collations` reads at a stale hash (`relay_chain.rs:782`): that the read
  may fail is modelled, the validation data and code hash it returns are not.
* Two parachains of a companion with one id: the parser accepts them, and the relay chain
  then holds two collators for the id. `RelayPara` has an id onboarded twice with the
  same collator.
* The Babe digest, which copies a slot it is given.
* What `append_transition` caches is applied by no operation; the models have its size.

## Plan

All safety properties of the runs are proved. What could follow:

1. `NoPanic` under faults that cannot hit the parachain's build, which takes faults that are
   told apart by the call they hit.
2. The relay chain's pool in `RelayPara`, as `ParaPool` has it for a parachain.
3. Two parachains of a companion that share an id.

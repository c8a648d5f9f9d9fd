----------------------------- MODULE RelayPara -----------------------------
(***************************************************************************)
(* RelaychainBuilder (core/src/builder/relay_chain.rs) with the            *)
(* ParachainBuilders (core/src/builder/parachain.rs) it onboarded.  The    *)
(* relay chain asks each parachain's FudgeCollator for a collation of the  *)
(* block that is pending there, enacts it one relay block later and        *)
(* approves it; the approved block may then be imported by its parachain.  *)
(* The collator and the builder of a parachain share its BlockStorage.     *)
(*                                                                         *)
(* The storage of a relay block is the head of each parachain (Heads), the *)
(* registered parachains (Parachains), the parachains with a candidate     *)
(* that was injected and not enacted (PendingAvailabilityCommitments) and  *)
(* what callers wrote.  That of a parachain block is the block execution   *)
(* that made it, the number of the relay block in its inherent and what    *)
(* callers wrote.  Callers use the builders in any order.  An assert! in   *)
(* the code is a guard; a call that fails before it changes anything is no *)
(* step.  Parachain blocks are built with InherentBuilder's inherent data. *)
(* The transaction pools are those of module StandAlone and are left out.  *)
(* A definition with an underscore in its name is a faulty variant of the  *)
(* one that follows it.                                                    *)
(***************************************************************************)
EXTENDS Core

CONSTANTS
  Paras,          \* parachain ids
  Writes,         \* what closures passed to with_mut_state write
  None,           \* an Option that is None
  Faults,         \* what may fail: imports, commits, reads; do callers reject?
  MaxRelayHash,   \* bound: relay hashes a run may use
  MaxParaHash,    \* bound: hashes of one parachain a run may use
  MaxOnboard      \* bound: calls of onboard_para

ParaRoots  == [of : Nat, at : Nat, writes : SUBSET Writes]
ParaBlocks == BlocksOf(ParaRoots)
RelayRoots == [ heads      : [Paras -> ParaBlocks \cup {None}],
                registered : SUBSET Paras,
                pending    : SUBSET Paras,
                writes     : SUBSET Writes ]

\* (Block, StorageProof): the proof can be compacted against one state root.
Builds == [block : ParaBlocks, proof : ParaRoots]

Collations == [id : Paras, head : ParaBlocks]

ASSUME NoneAssumption ==
  None \notin ParaBlocks \cup BlocksOf(RelayRoots) \cup Builds
ASSUME FaultsAssumption == Faults \subseteq {"import", "commit", "read", "reject"}
ASSUME BoundsAssumption == {MaxRelayHash, MaxParaHash, MaxOnboard} \subseteq Nat

VARIABLES
  relay,         \* the relay chain
  relayNext,     \* RelaychainBuilder.next
  relayImports,  \* RelaychainBuilder.imports
  parachains,    \* RelaychainBuilder.parachains, in the order of onboarding
  collations,    \* RelaychainBuilder.collations
  para,          \* the chain of each parachain
  nextBlock,     \* BlockStorage.next_block of each parachain
  nextImport,    \* BlockStorage.next_import of each parachain
  paraImports    \* ParachainBuilder.imports of each parachain

relayVars == <<relay, relayNext, relayImports, parachains, collations>>
paraVars  == <<para, nextBlock, nextImport, paraImports>>
vars      == <<relayVars, paraVars>>

Init ==
  /\ relay = NewChain([ heads |-> [p \in Paras |-> None],
                         registered |-> {}, pending |-> {}, writes |-> {} ])
  /\ relayNext = None
  /\ relayImports = << >>
  /\ parachains = << >>
  /\ collations = << >>
  /\ para = [p \in Paras |-> NewChain([of |-> 1, at |-> 0, writes |-> {}])]
  /\ nextBlock = [p \in Paras |-> None]
  /\ nextImport = [p \in Paras |-> None]
  /\ paraImports = [p \in Paras |-> << >>]

\* The parachain heads in the latest relay state (the storage map Heads).
Heads(c) == Latest(c).root.heads

-----------------------------------------------------------------------------
\* The relay chain.

SetHead(root, p, head) == [root EXCEPT !.heads[p] = head]

\* onboard_para with the parachain's current head; an id may come twice.
OnboardPara(p) ==
  /\ relayNext = None
  /\ Len(parachains) < MaxOnboard
  /\ relay.fresh < MaxRelayHash
  /\ relay' = WithStateCommit(relay,
                 [SetHead(Latest(relay).root, p, Latest(para[p])) EXCEPT
                    !.registered = @ \cup {p}])
  /\ parachains' = Append(parachains, p)
  /\ UNCHANGED <<relayNext, relayImports, collations, paraVars>>

\* update_para_head with the parachain's current head.
UpdateParaHead(p) ==
  /\ relayNext = None
  /\ relay.fresh < MaxRelayHash
  /\ relay' = WithStateCommit(relay, SetHead(Latest(relay).root, p, Latest(para[p])))
  /\ UNCHANGED <<relayNext, relayImports, parachains, collations, paraVars>>

RelayWithMutState_NoAssert(w) ==
  /\ relay.fresh < MaxRelayHash
  /\ relay' = WithStateCommit(relay, [Latest(relay).root EXCEPT !.writes = @ \cup {w}])
  /\ UNCHANGED <<relayNext, relayImports, parachains, collations, paraVars>>

RelayWithMutState(w) ==
  /\ relayNext = None
  /\ relay.fresh < MaxRelayHash
  /\ relay' = WithStateCommit(relay, [Latest(relay).root EXCEPT !.writes = @ \cup {w}])
  /\ UNCHANGED <<relayNext, relayImports, parachains, collations, paraVars>>

\* onboard_para, update_para_head or with_mut_state when the commit fails.
RelayWithMutStateErr ==
  /\ "commit" \in Faults
  /\ relayNext = None
  /\ relay' = WithStateCommitErr(relay)
  /\ UNCHANGED <<relayNext, relayImports, parachains, collations, paraVars>>

RelayBuildBlock ==
  /\ relayNext = None
  /\ relay.fresh < MaxRelayHash
  /\ relayNext' = Propose(relay, Latest(relay).root)
  /\ relay' = Proposed(relay)
  /\ UNCHANGED <<relayImports, parachains, collations, paraVars>>

\* The candidate is injected, and taken out again when its head is enacted.
Enacted(root, collation) ==
  [SetHead(root, collation.id, collation.head) EXCEPT !.pending = @ \ {collation.id}]

Injected(root, collation) == [root EXCEPT !.pending = @ \cup {collation.id}]

ForceEnact_StateReadOnce(c, n) ==
  LET after[i \in 0..n] ==
        IF i = 0 THEN c
        ELSE WithStateCommit(after[i - 1],
               Enacted(Latest(c).root, collations[i]))
  IN  after[n]

ForceEnact_SkipsLast(c, n) ==
  LET after[i \in 0..n] ==
        IF i = 0 THEN c
        ELSE LET d == after[i - 1]
             IN  IF i = n THEN d
                 ELSE WithStateCommit(d, Enacted(Latest(d).root, collations[i]))
  IN  after[n]

\* force_enact_collations: chain c after the first n collations were enacted,
\* each by a commit of its own.
ForceEnact(c, n) ==
  LET after[i \in 0..n] ==
        IF i = 0 THEN c
        ELSE LET d == after[i - 1]
             IN  WithStateCommit(d, Enacted(Latest(d).root, collations[i]))
  IN  after[n]

ApproveFirst_Forgets(n) ==
  LET ids == { collations[i].id : i \in 1..n }
  IN  /\ nextBlock' = [p \in Paras |-> IF p \in ids THEN None ELSE nextBlock[p]]
      /\ UNCHANGED nextImport

\* judge(Approved) for the first n collations: what is pending at each of the
\* parachains, whatever that is now, is what it may import.
ApproveFirst(n) ==
  LET ids == { collations[i].id : i \in 1..n }
  IN  /\ nextBlock' = [p \in Paras |-> IF p \in ids THEN None ELSE nextBlock[p]]
      /\ nextImport' = [p \in Paras |-> IF p \in ids THEN nextBlock[p] ELSE nextImport[p]]

\* approve fails with NextBlockNotFound.
Unapprovable(i) == nextBlock[collations[i].id] = None

\* persisted_validation_data is found for a parachain that has a head.
HasValidationData(c, p) == Heads(c)[p] # None

\* FudgeCollator::create_collation: the proof has to fit the head that relay
\* chain c stores, and the runtime is called at the pending block.
Collatable(c, p, build) ==
  /\ HasValidationData(c, p)
  /\ build.proof = Heads(c)[p].root
  /\ build.block \in para[p].side

CollectFirst_NoDedup(n, pending) ==
  LET after[i \in 0..n] ==
        IF i = 0 THEN << >>
        ELSE LET p == parachains[i]
             IN  IF pending[p] = None THEN after[i - 1]
                 ELSE Append(after[i - 1], [id |-> p, head |-> pending[p].block])
  IN  after[n]

\* collect_collations over the first n onboarded parachains, with pending as
\* the pending blocks.
CollectFirst(n, pending) ==
  LET after[i \in 0..n] ==
        IF i = 0 THEN << >>
        ELSE LET p == parachains[i]
                 known == { after[i - 1][j].id : j \in 1..Len(after[i - 1]) }
             IN  IF pending[p] = None \/ p \in known THEN after[i - 1]
                 ELSE Append(after[i - 1], [id |-> p, head |-> pending[p].block])
  IN  after[n]

\* collect_collations returns Err at the i-th onboarded parachain.
CollectFails(c, pending, i) ==
  LET p == parachains[i]
  IN  ~HasValidationData(c, p) \/ (pending[p] # None /\ ~Collatable(c, p, pending[p]))

\* Collations 1 to n get enacted: their validation data is read at the block
\* that was just imported, their core is looked up in the latest state.
Enactable(n) ==
  LET c == ImportFinal(relay, relayNext)
  IN  \A i \in 1..n : /\ HasValidationData(c, collations[i].id)
                      /\ collations[i].id \in Latest(c).root.registered

\* What import_block does before force_enact_collations.
RelayImported ==
  /\ relayNext # None
  /\ ImportResult(relay, relayNext) # "Error"
  /\ relayNext' = None
  /\ relayImports' = Append(relayImports, relayNext)

\* force_enact_collations when it enacts and approves every collation.
ForceEnactAll ==
  /\ Enactable(Len(collations))
  /\ \A i \in 1..Len(collations) : ~Unapprovable(i)
  /\ relay' = ForceEnact(ImportFinal(relay, relayNext), Len(collations))
  /\ ApproveFirst(Len(collations))

RelayImportBlock_NoReset ==
  /\ RelayImported
  /\ ForceEnactAll
  /\ \A i \in 1..Len(parachains) : ~CollectFails(relay', nextBlock', i)
  /\ collations' = collations \o CollectFirst(Len(parachains), nextBlock')
  /\ UNCHANGED <<parachains, para, paraImports>>

\* import_block returning Ok.
RelayImportBlock ==
  /\ RelayImported
  /\ ForceEnactAll
  /\ \A i \in 1..Len(parachains) : ~CollectFails(relay', nextBlock', i)
  /\ collations' = CollectFirst(Len(parachains), nextBlock')
  /\ UNCHANGED <<parachains, para, paraImports>>

\* import_block, when collect_collations fails at the n-th onboarded
\* parachain: what was collected before stays.
RelayImportCollectErr(n) ==
  /\ RelayImported
  /\ ForceEnactAll
  /\ \A i \in 1..n - 1 : ~CollectFails(relay', nextBlock', i)
  /\ "read" \in Faults \/ CollectFails(relay', nextBlock', n)
  /\ collations' = CollectFirst(n - 1, nextBlock')
  /\ UNCHANGED <<parachains, para, paraImports>>

\* import_block, when approve fails for collation n, which was enacted: the
\* collations are kept, the ones that were approved included.
RelayImportJudgeErr(n) ==
  /\ RelayImported
  /\ Enactable(n)
  /\ Unapprovable(n)
  /\ \A i \in 1..n - 1 : ~Unapprovable(i)
  /\ relay' = ForceEnact(ImportFinal(relay, relayNext), n)
  /\ ApproveFirst(n - 1)
  /\ UNCHANGED <<parachains, collations, para, paraImports>>

RelayImportEnactErr_Forgets(n, what) ==
  /\ what \in Faults
  /\ RelayImported
  /\ Enactable(n - 1)
  /\ \A i \in 1..n - 1 : ~Unapprovable(i)
  /\ LET c == ForceEnact(ImportFinal(relay, relayNext), n - 1)
     IN  relay' \in {c, WithStateCommit(c, Injected(Latest(c).root, collations[n]))}
  /\ ApproveFirst(n - 1)
  /\ collations' = << >>
  /\ UNCHANGED <<parachains, para, paraImports>>

\* import_block, when collation n is not enacted.  A read at the imported
\* block's hash, stale once something was enacted, may fail before the closure
\* is run or in it, and what the closure had written is committed all the same.
\* A commit that fails loses the latest block.
RelayImportEnactErr(n, what) ==
  /\ what \in Faults
  /\ RelayImported
  /\ Enactable(n - 1)
  /\ \A i \in 1..n - 1 : ~Unapprovable(i)
  /\ LET c == ForceEnact(ImportFinal(relay, relayNext), n - 1)
     IN  relay' \in IF what = "commit" THEN {WithStateCommitErr(c)}
                    ELSE {c, WithStateCommit(c, Injected(Latest(c).root, collations[n]))}
  /\ ApproveFirst(n - 1)
  /\ UNCHANGED <<parachains, collations, para, paraImports>>

\* import_block, when the client returns an error: next was taken already.
RelayImportErr ==
  /\ "import" \in Faults
  /\ relayNext # None
  /\ relayNext' = None
  /\ UNCHANGED <<relay, relayImports, parachains, collations, paraVars>>

-----------------------------------------------------------------------------
\* A parachain.

\* InherentBuilder::parachain_inherent: the number of the best relay block is
\* the relay parent number of the validation data, which has to be there.
RelayParentNumber == Len(relay.canon) - 1

ParaBuildBlock_AsBest(p) ==
  LET c == para[p]
      b == Propose(c, [of |-> c.fresh, at |-> RelayParentNumber, writes |-> Latest(c).root.writes])
  IN  /\ c.fresh < MaxParaHash
      /\ para' = [para EXCEPT ![p] = ImportFinal(Proposed(c), b)]
      /\ nextBlock' = [nextBlock EXCEPT ![p] = [block |-> b, proof |-> Latest(c).root]]
      /\ UNCHANGED <<relayVars, nextImport, paraImports>>

\* build_block: also imports the block, not as best and not final, and
\* replaces a block that was pending.
ParaBuildBlock(p) ==
  LET c == para[p]
      b == Propose(c, [of |-> c.fresh, at |-> RelayParentNumber, writes |-> Latest(c).root.writes])
  IN  /\ c.fresh < MaxParaHash
      /\ HasValidationData(relay, p)
      /\ para' = [para EXCEPT ![p] = ImportSide(Proposed(c), b)]
      /\ nextBlock' = [nextBlock EXCEPT ![p] = [block |-> b, proof |-> Latest(c).root]]
      /\ UNCHANGED <<relayVars, nextImport, paraImports>>

\* with_mut_state: there is no assert about a pending block here.
ParaWithMutState(p, w) ==
  LET c == para[p]
  IN  /\ c.fresh < MaxParaHash
      /\ para' = [para EXCEPT ![p] =
                    WithStateCommit(c, [Latest(c).root EXCEPT !.writes = @ \cup {w}])]
      /\ UNCHANGED <<relayVars, nextBlock, nextImport, paraImports>>

ParaWithMutStateErr(p) ==
  /\ "commit" \in Faults
  /\ para' = [para EXCEPT ![p] = WithStateCommitErr(@)]
  /\ UNCHANGED <<relayVars, nextBlock, nextImport, paraImports>>

ParaImportBlock_RecordsBuild(p) ==
  LET b == nextImport[p].block
  IN  /\ nextImport[p] # None
      /\ ImportResult(para[p], b) # "Error"
      /\ para' = [para EXCEPT ![p] = ImportFinal(@, b)]
      /\ paraImports' = [paraImports EXCEPT ![p] = Append(@, nextImport[p])]
      /\ nextImport' = [nextImport EXCEPT ![p] = None]
      /\ UNCHANGED <<relayVars, nextBlock>>

ParaImportBlock_KeepsImport(p) ==
  LET b == nextImport[p].block
  IN  /\ nextImport[p] # None
      /\ ImportResult(para[p], b) # "Error"
      /\ para' = [para EXCEPT ![p] = ImportFinal(@, b)]
      /\ paraImports' = [paraImports EXCEPT ![p] = Append(@, b)]
      /\ UNCHANGED <<relayVars, nextBlock, nextImport>>

\* import_block: with nothing to import it only warns; an Err of the client
\* keeps next_import; a result that is no import is recorded all the same.
ParaImportBlock(p) ==
  LET b == nextImport[p].block
  IN  /\ nextImport[p] # None
      /\ ImportResult(para[p], b) # "Error"
      /\ para' = [para EXCEPT ![p] = ImportFinal(@, b)]
      /\ paraImports' = [paraImports EXCEPT ![p] = Append(@, b)]
      /\ nextImport' = [nextImport EXCEPT ![p] = None]
      /\ UNCHANGED <<relayVars, nextBlock>>

\* judge(Rejected), which only callers that hold the collator use.
Reject(p) ==
  /\ "reject" \in Faults
  /\ nextBlock[p] # None
  /\ nextBlock' = [nextBlock EXCEPT ![p] = None]
  /\ UNCHANGED <<relayVars, para, nextImport, paraImports>>

-----------------------------------------------------------------------------
\* import_block returning Err.
RelayImportFails ==
  \/ \E n \in 1..Len(parachains) : RelayImportCollectErr(n)
  \/ \E n \in 1..Len(collations) : RelayImportJudgeErr(n)
  \/ \E n \in 1..Len(collations), what \in {"read", "commit"} : RelayImportEnactErr(n, what)
  \/ RelayImportErr

RelayStep ==
  \/ \E p \in Paras : OnboardPara(p) \/ UpdateParaHead(p)
  \/ \E w \in Writes : RelayWithMutState(w)
  \/ RelayWithMutStateErr
  \/ RelayBuildBlock
  \/ RelayImportBlock
  \/ RelayImportFails

ParaStep(p) ==
  \/ ParaBuildBlock(p)
  \/ \E w \in Writes : ParaWithMutState(p, w)
  \/ ParaWithMutStateErr(p)
  \/ ParaImportBlock(p)
  \/ Reject(p)

Next == RelayStep \/ \E p \in Paras : ParaStep(p)

Spec == Init /\ [][Next]_vars

-----------------------------------------------------------------------------
\* Type invariant.
TypeOK ==
  /\ relay \in ChainsOf(RelayRoots)
  /\ relayNext \in BlocksOf(RelayRoots) \cup {None}
  /\ relayImports \in Seq(BlocksOf(RelayRoots))
  /\ parachains \in Seq(Paras)
  /\ collations \in Seq(Collations)
  /\ para \in [Paras -> ChainsOf(ParaRoots)]
  /\ nextBlock \in [Paras -> Builds \cup {None}]
  /\ nextImport \in [Paras -> Builds \cup {None}]
  /\ paraImports \in [Paras -> Seq(ParaBlocks)]

\* core/src/builder/relay_chain.rs enacts collations by mutating the block it
\* has just imported, parachain.rs imports blocks aside and mutates with them
\* pending: whatever the order of calls and failures, every chain stays linked
\* and uniquely named with a final best block, and a pending relay block is a
\* child of the best one.
ChainsIntact ==
  /\ Linked(relay) /\ BestIsFinal(relay)
  /\ \A p \in Paras : Linked(para[p]) /\ BestIsFinal(para[p])
  /\ relayNext # None => /\ relayNext.parent = Latest(relay).hash
                         /\ relayNext.hash < relay.fresh
                         /\ relayNext.hash \notin CanonHashes(relay)

\* force_enact_collations looks the collator up by id: collations are of
\* onboarded parachains and no parachain has two, onboarded twice or not.
CollationsSound ==
  /\ \A i \in 1..Len(collations) : \E j \in 1..Len(parachains) : parachains[j] = collations[i].id
  /\ \A i, j \in 1..Len(collations) : collations[i].id = collations[j].id => i = j

\* parachain.rs build_block imports the block aside (Custom(false)): a block
\* becomes canonical only once it was approved, so a pending one is not.
PendingNotCanonical ==
  \A p \in Paras : nextBlock[p] # None =>
    \A i \in 1..Len(para[p].canon) : para[p].canon[i].root.of # nextBlock[p].block.root.of

\* relay_chain.rs import_block records the block before it enacts: as long as
\* commits do not fail the recorded blocks are the relay chain, parent by parent,
\* although imports fail and each block may be mutated many times afterwards.
RelayImportsMirror ==
  /\ Len(relay.canon) = 1 + Len(relayImports)
  /\ \A i \in 1..Len(relayImports) : relayImports[i].parent = relay.canon[i + 1].parent

\* relay_chain.rs import_block approves what is pending at the parachain, not
\* what was collated: unless a read or a commit fails or a caller rejects,
\* something is pending whenever a collation is waiting, also after an import
\* that failed, so that approve never fails and collations never get stuck.
ApprovalCannotFail == \A i \in 1..Len(collations) : ~Unapprovable(i)

\* externalities.rs execute_with_mut commits what a closure wrote although the
\* closure returned Err, so a candidate may be injected and not enacted.  Its
\* collation is then there and is tried again: no step leaves such a candidate
\* without a collation, except a failed commit, which brings back an older state.
Retried(p) == \E i \in 1..Len(collations) : collations[i].id = p

HalfEnactedIsRetried ==
  [][ \A p \in Latest(relay').root.pending :
        \/ Retried(p)'
        \/ p \in Latest(relay).root.pending /\ ~Retried(p)
        \/ Len(relay'.canon) < Len(relay.canon) ]_vars

\* relay_chain.rs force_enact_collations: as long as commits do not fail, a
\* parachain block becomes importable only in a step whose relay state has the
\* collated head of that parachain.
EnactedBeforeApproved ==
  [][ \A p \in Paras :
        nextImport'[p] \notin {nextImport[p], None} =>
          \E i \in 1..Len(collations) :
            collations[i].id = p /\ Heads(relay')[p] = collations[i].head ]_vars
=============================================================================

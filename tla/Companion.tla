----------------------------- MODULE Companion -----------------------------
(***************************************************************************)
(* What the companion macro (core/src/builder/companion/src/expand/mod.rs) *)
(* generates over a relay chain and its parachains: new onboards every     *)
(* parachain and makes one relay block, evolve takes each parachain in     *)
(* turn through a fixed protocol of seven calls of module RelayPara, and   *)
(* between calls of evolve the caller may mutate any chain.                *)
(*                                                                         *)
(* An assert! that fails is the state "panicked" here.  An Err ends new    *)
(* (there is no companion then) or evolve (the companion can be used on).  *)
(* append_extrinsic fills the transaction pools, which are left out.  A    *)
(* definition with an underscore in its name is a faulty variant of the    *)
(* one that follows it.                                                    *)
(***************************************************************************)
EXTENDS RelayPara

CONSTANTS
  Order,       \* the parachains in the order the struct declares them
  MaxEvolves,  \* bound: calls of evolve
  MaxErrs      \* bound: calls that return Err

\* A companion without parachains, whose evolve does nothing, is left out.
ASSUME OrderAssumption ==
  /\ Order \in Seq(Paras)
  /\ Order # << >>
  /\ \A p \in Paras : \E i \in 1..Len(Order) : Order[i] = p
  /\ \A i, j \in 1..Len(Order) : Order[i] = Order[j] => i = j
ASSUME CompanionBoundsAssumption == MaxEvolves \in Nat /\ MaxErrs \in Nat

VARIABLES
  pc,       \* the call that new or evolve makes next
  at,       \* which parachain of Order it is about
  evolves,  \* how many calls of evolve there were
  errs,     \* how many calls returned Err
  clean     \* how many calls of evolve, up to two, returned Ok since the last Err

companionVars == <<relayVars, paraVars, pc, at, evolves, errs, clean>>

CompanionInit ==
  /\ Init
  /\ pc = "onboard"
  /\ at = 1
  /\ evolves = 0
  /\ errs = 0
  /\ clean = 0

Current == Order[at]

Goto(label) == pc' = label /\ UNCHANGED <<at, evolves, errs, clean>>

\* The caller gets an Err.
Failed ==
  /\ errs < MaxErrs
  /\ errs' = errs + 1
  /\ clean' = 0

-----------------------------------------------------------------------------
\* new: onboard_para for every parachain, then one relay block.
NewOnboard ==
  /\ pc = "onboard"
  /\ OnboardPara(Current)
  /\ pc' = IF at = Len(Order) THEN "newBuild" ELSE pc
  /\ at' = IF at = Len(Order) THEN 1 ELSE at + 1
  /\ UNCHANGED <<evolves, errs, clean>>

NewBuild_Skipped ==
  /\ pc = "newBuild"
  /\ UNCHANGED vars
  /\ Goto("idle")

NewBuild ==
  /\ pc = "newBuild"
  /\ RelayBuildBlock
  /\ Goto("newImport")

NewImport ==
  /\ pc = "newImport"
  /\ RelayImportBlock
  /\ Goto("idle")

\* new returns Err and drops the builders.
NewErr ==
  /\ Faults # {}
  /\ pc \in {"onboard", "newBuild", "newImport"}
  /\ UNCHANGED vars
  /\ Goto("dropped")

-----------------------------------------------------------------------------
\* evolve, for the parachain Current.

EvolveStart ==
  /\ pc = "idle"
  /\ evolves < MaxEvolves
  /\ pc' = "update"
  /\ at' = 1
  /\ evolves' = evolves + 1
  /\ UNCHANGED <<vars, errs, clean>>

EvolveUpdate ==
  /\ pc = "update"
  /\ UpdateParaHead(Current)
  /\ Goto("relayBuild1")

EvolveRelayBuild1 ==
  /\ pc = "relayBuild1"
  /\ RelayBuildBlock
  /\ Goto("paraBuild")

EvolveParaBuild_SkipsImport ==
  /\ pc = "paraBuild"
  /\ ParaBuildBlock(Current)
  /\ Goto("relayBuild2")

EvolveParaBuild ==
  /\ pc = "paraBuild"
  /\ ParaBuildBlock(Current)
  /\ Goto("relayImport1")

EvolveRelayImport1 ==
  /\ pc = "relayImport1"
  /\ RelayImportBlock
  /\ Goto("relayBuild2")

EvolveRelayBuild2 ==
  /\ pc = "relayBuild2"
  /\ RelayBuildBlock
  /\ Goto("relayImport2")

EvolveRelayImport2 ==
  /\ pc = "relayImport2"
  /\ RelayImportBlock
  /\ Goto("paraImport")

\* The next parachain of evolve, or its return.
EvolveAdvance ==
  /\ pc' = IF at = Len(Order) THEN "idle" ELSE "update"
  /\ at' = IF at = Len(Order) THEN 1 ELSE at + 1
  /\ clean' = IF at = Len(Order) /\ clean < 2 THEN clean + 1 ELSE clean
  /\ UNCHANGED <<evolves, errs>>

\* para.import_block with no next_import only warns.
EvolveParaImport ==
  /\ pc = "paraImport"
  /\ IF nextImport[Current] = None THEN UNCHANGED vars ELSE ParaImportBlock(Current)
  /\ EvolveAdvance

\* The ? of evolve: the call that is due returns Err.  The builds and
\* para.import_block change nothing when they fail.
EvolveErr ==
  /\ \/ pc \in {"relayImport1", "relayImport2"} /\ RelayImportFails
     \/ pc = "update" /\ RelayWithMutStateErr
     \/ /\ Faults # {}
        /\ pc \in {"update", "relayBuild1", "paraBuild", "relayBuild2", "paraImport"}
        /\ UNCHANGED vars
     \/ /\ pc = "paraImport"
        /\ nextImport[Current] # None
        /\ ImportResult(para[Current], nextImport[Current].block) = "Error"
        /\ UNCHANGED vars
  /\ pc' = "idle"
  /\ at' = 1
  /\ Failed
  /\ UNCHANGED evolves

\* assert!(self.next.is_none()) fails in the relay chain's with_mut_state, which
\* evolve reaches through update_para_head and a caller directly, or build_block.
Panic ==
  /\ pc \in {"idle", "update", "relayBuild1", "relayBuild2"}
  /\ relayNext # None
  /\ UNCHANGED vars
  /\ Goto("panicked")

-----------------------------------------------------------------------------
\* with_mut_state of the companion.
MutateRelay(w) ==
  /\ pc = "idle"
  /\ RelayWithMutState(w)
  /\ UNCHANGED <<pc, at, evolves, errs, clean>>

MutatePara(p, w) ==
  /\ pc = "idle"
  /\ ParaWithMutState(p, w)
  /\ UNCHANGED <<pc, at, evolves, errs, clean>>

\* with_mut_state returns Err, which may cost the chain its latest block.
MutateErr ==
  /\ pc = "idle"
  /\ RelayWithMutStateErr \/ \E p \in Paras : ParaWithMutStateErr(p)
  /\ Failed
  /\ UNCHANGED <<pc, at, evolves>>

Build == NewOnboard \/ NewBuild \/ NewImport \/ NewErr

Evolve ==
  \/ EvolveUpdate
  \/ EvolveRelayBuild1
  \/ EvolveParaBuild
  \/ EvolveRelayImport1
  \/ EvolveRelayBuild2
  \/ EvolveRelayImport2
  \/ EvolveParaImport
  \/ EvolveErr

CompanionNext ==
  \/ Build
  \/ EvolveStart
  \/ Evolve
  \/ Panic
  \/ MutateErr
  \/ \E w \in Writes : MutateRelay(w)
  \/ \E p \in Paras, w \in Writes : MutatePara(p, w)

\* Once it is called, evolve runs on; nobody has to call it.
CompanionSpec ==
  CompanionInit /\ [][CompanionNext]_companionVars /\ WF_companionVars(Evolve)

-----------------------------------------------------------------------------
\* Nothing is under way between the relay chain and its parachains.
Drained ==
  /\ relayNext = None
  /\ collations = << >>
  /\ \A p \in Paras : nextBlock[p] = None /\ nextImport[p] = None

\* The head that the relay chain stores for p is p's latest block, or what that
\* block was before the caller mutated it.
HeadAgrees(p) ==
  LET head == Heads(relay)[p]
      best == Latest(para[p])
  IN  /\ head # None
      /\ head.root.of = best.root.of
      /\ head.parent = best.parent
      /\ head.root.writes \subseteq best.root.writes

\* expand/mod.rs evolve (README: "Builds one parachain block and two
\* relay-chain blocks"): when it returns, each parachain has got one block and
\* the relay chain two per parachain, whatever was mutated before; the blocks
\* that the builders recorded are those.  Nothing is left pending and the relay
\* chain's heads are up to date, so that the next call starts as the first did.
EvolveAdvancesAll ==
  pc = "idle" =>
    /\ Len(relay.canon) = 2 + 2 * Len(Order) * evolves
    /\ Len(relayImports) = Len(relay.canon) - 1
    /\ \A p \in Paras : /\ Len(para[p].canon) = 1 + evolves
                        /\ Len(paraImports[p]) = evolves
                        /\ HeadAgrees(p)
    /\ Drained

\* The assertions of relay_chain.rs never fail under the companion if no call
\* returns Err.
NoPanic == pc # "panicked"

\* relay_chain.rs approves what is pending now and enacts what was collated
\* one block earlier; under evolve both are the same block.  It is a child of the
\* head the relay chain had stored: the relay chain sees a chain although callers
\* mutate the parachain between its blocks.
ApprovedIsEnacted ==
  [][ \A p \in Paras :
        nextImport'[p] \notin {nextImport[p], None} =>
          /\ Heads(relay')[p] = nextImport'[p].block
          /\ Heads(relay')[p].parent = Heads(relay)[p].hash ]_companionVars

\* A parachain block that evolve builds eventually becomes canonical.
BuiltIsImported ==
  \A p \in Paras : \A k \in 2..MaxParaHash :
    (nextBlock[p] # None /\ nextBlock[p].block.root.of = k)
      ~> \E i \in 1..Len(para[p].canon) : para[p].canon[i].root.of = k

\* The parachain inherent (InherentBuilder::parachain_inherent) names the relay
\* block that is best when the parachain block is built; parachain runtimes
\* refuse a number that does not exceed the last one.  The relay block of new
\* and the two relay blocks per turn of evolve keep the numbers increasing.
RelayParentsAdvance ==
  \A p \in Paras : \A i \in 2..Len(para[p].canon) :
    para[p].canon[i - 1].root.at < para[p].canon[i].root.at

\* The blocks of each parachain, named by the execution that made them, and the
\* latest of them that the relay chain knows of.
Line == [p \in Paras |-> [i \in 1..Len(para[p].canon) |-> para[p].canon[i].root.of]]
Seen == [p \in Paras |-> IF Heads(relay)[p] = None THEN 0 ELSE Heads(relay)[p].root.of]

Sync == INSTANCE HeadSync
  WITH Unknown <- 0, Blocks <- 1..MaxParaHash, line <- Line, seen <- Seen

\* The companion keeps the promise of HeadSync, liveness included: a parachain
\* imports exactly the blocks the relay chain enacted, one by one, although
\* blocks are mutated, renamed and looked up by id on the way.
ImplementsHeadSync == Sync!Spec

\* An evolve that returns Err leaves blocks and collations behind, and the
\* next one may approve another block than it enacts; an Err of with_mut_state
\* may cost a chain a block.  After two calls of evolve that return Ok
\* everything agrees again.
TwoEvolvesHeal == pc = "idle" /\ clean = 2 => Drained /\ \A p \in Paras : HeadAgrees(p)
=============================================================================

-------------------------- MODULE CompanionProofs --------------------------
(***************************************************************************)
(* Proofs about Companion, for any parachains in any order, any writes of  *)
(* callers and any bounds.                                                 *)
(***************************************************************************)
EXTENDS Companion, RelayParaProofs

\* at is always one of the parachains.
AtOne == at \in 1..Len(Order)

\* The parachain that a step is about.
LEMMA CurrentIsPara ==
  ASSUME AtOne
  PROVE  Current \in Paras
BY OrderAssumption DEF AtOne, Current

\* There is a first parachain.
LEMMA FirstPara == Len(Order) \in Nat /\ 1 \in 1..Len(Order)
BY OrderAssumption

\* A step stays at a parachain, or goes to the next or back to the first one.
LEMMA NextAtOne ==
  ASSUME AtOne, [CompanionNext]_companionVars
  PROVE  AtOne'
<1> USE FirstPara DEF AtOne
<1>0. at + 1 \in 1..Len(Order) \/ at = Len(Order)
  OBVIOUS
<1>1. CASE at' = at
  BY <1>1
<1>2. CASE at' = 1
  BY <1>2
<1>3. CASE at' = IF at = Len(Order) THEN 1 ELSE at + 1
  BY <1>0, <1>3
<1>4. CASE UNCHANGED companionVars
  BY <1>4 DEF companionVars
<1>5. CASE NewOnboard \/ EvolveParaImport
  BY <1>3, <1>5 DEF NewOnboard, EvolveParaImport, EvolveAdvance
<1>6. CASE EvolveStart \/ EvolveErr
  BY <1>2, <1>6 DEF EvolveStart, EvolveErr
<1>7. CASE NewBuild \/ NewImport \/ NewErr \/ Panic \/ MutateErr
  BY <1>1, <1>7 DEF NewBuild, NewImport, NewErr, Panic, MutateErr, Goto
<1>8. CASE \/ EvolveUpdate \/ EvolveRelayBuild1 \/ EvolveParaBuild
           \/ EvolveRelayImport1 \/ EvolveRelayBuild2 \/ EvolveRelayImport2
  BY <1>1, <1>8 DEF EvolveUpdate, EvolveRelayBuild1, EvolveParaBuild, EvolveRelayImport1,
                    EvolveRelayBuild2, EvolveRelayImport2, Goto
<1>9. CASE (\E w \in Writes : MutateRelay(w)) \/ \E p \in Paras, w \in Writes : MutatePara(p, w)
  BY <1>1, <1>9 DEF MutateRelay, MutatePara
<1> QED
  BY <1>4, <1>5, <1>6, <1>7, <1>8, <1>9 DEF CompanionNext, Build, Evolve

-----------------------------------------------------------------------------
\* Every step of the companion is a call of RelayPara or changes no builder.
LEMMA StepIsCall ==
  ASSUME AtOne, [CompanionNext]_companionVars
  PROVE  [Next]_vars
<1>0. Current \in Paras
  BY CurrentIsPara
<1>1. CASE UNCHANGED companionVars
  BY <1>1 DEF companionVars, vars
<1>2. CASE UNCHANGED vars
  BY <1>2
<1>3. CASE OnboardPara(Current) \/ UpdateParaHead(Current)
  BY <1>0, <1>3 DEF Next, RelayStep
<1>4. CASE RelayBuildBlock \/ RelayImportBlock \/ RelayImportFails \/ RelayWithMutStateErr
  BY <1>4 DEF Next, RelayStep
<1>5. CASE ParaBuildBlock(Current) \/ ParaImportBlock(Current)
  BY <1>0, <1>5 DEF Next, ParaStep
<1>6. CASE \E p \in Paras : ParaWithMutStateErr(p)
  BY <1>6 DEF Next, ParaStep
<1>7. CASE \E w \in Writes : MutateRelay(w)
  BY <1>7 DEF MutateRelay, Next, RelayStep
<1>8. CASE \E p \in Paras, w \in Writes : MutatePara(p, w)
  BY <1>8 DEF MutatePara, Next, ParaStep
<1>9. CASE Build
  BY <1>2, <1>3, <1>4, <1>9 DEF Build, NewOnboard, NewBuild, NewImport, NewErr
<1>10. CASE EvolveStart \/ Panic
  BY <1>2, <1>10 DEF EvolveStart, Panic
<1>11. CASE Evolve
  BY <1>2, <1>3, <1>4, <1>5, <1>11
     DEF Evolve, EvolveUpdate, EvolveRelayBuild1, EvolveParaBuild, EvolveRelayImport1,
         EvolveRelayBuild2, EvolveRelayImport2, EvolveParaImport, EvolveErr
<1>12. CASE MutateErr
  BY <1>4, <1>6, <1>12 DEF MutateErr
<1> QED
  BY <1>1, <1>7, <1>8, <1>9, <1>10, <1>11, <1>12 DEF CompanionNext

\* The invariant of the builders holds under the companion, as long as at is
\* one of the parachains.
LEMMA AtOneAlways == CompanionSpec => []AtOne
<1>1. CompanionInit => AtOne
  BY FirstPara DEF CompanionInit, AtOne
<1>2. AtOne /\ [CompanionNext]_companionVars => AtOne'
  BY NextAtOne
<1> QED
  BY <1>1, <1>2, PTL DEF CompanionSpec

\* expand/mod.rs: new, evolve and with_mut_state are nothing but calls of the
\* builders in some order, so that all that is proved of any order of calls
\* holds of a companion, Errs in the middle of evolve included.
THEOREM CompanionCallsBuilders == CompanionSpec => Spec
<1>1. CompanionInit => Init
  BY DEF CompanionInit
<1>2. AtOne /\ [CompanionNext]_companionVars => [Next]_vars
  BY StepIsCall
<1> QED
  BY <1>1, <1>2, AtOneAlways, PTL DEF CompanionSpec, Spec

\* externalities.rs execute_with_mut under a companion: a candidate that an
\* evolve injected and did not enact is enacted by a later one.
THEOREM CompanionRetries == CompanionSpec => HalfEnactedIsRetried
BY CompanionCallsBuilders, CandidatesAreRetried

-----------------------------------------------------------------------------
(***************************************************************************)
(* NoPanic needs to know where evolve and new have a relay block that is   *)
(* built and not imported: only between the two calls, where no assertion  *)
(* about it is met.  An Err of the call between them, the parachain's      *)
(* build, leaves the relay block and lets the next call panic; this is why *)
(* faults are excluded.                                                    *)
(***************************************************************************)
\* A relay block is pending only between its build and its import.
PendingOnlyInside ==
  relayNext # None => pc \in {"newImport", "paraBuild", "relayImport1", "relayImport2"}

\* The inductive invariant.
Quiet == NoPanic /\ PendingOnlyInside

\* Every call keeps it.
LEMMA NextQuiet ==
  ASSUME Faults = {}, Quiet, [CompanionNext]_companionVars
  PROVE  Quiet'
<1> USE DEF Quiet, NoPanic, PendingOnlyInside
<1>1. CASE UNCHANGED companionVars
  BY <1>1 DEF companionVars, relayVars
<1>2. CASE Build
  BY <1>2 DEF Build, NewOnboard, NewBuild, NewImport, NewErr, Goto, OnboardPara,
              RelayBuildBlock, RelayImportBlock, RelayImported
<1>3. CASE EvolveStart \/ Panic
  BY <1>3 DEF EvolveStart, Panic, Goto, vars, relayVars
<1>4. CASE EvolveUpdate \/ EvolveRelayBuild1 \/ EvolveRelayBuild2
  BY <1>4 DEF EvolveUpdate, EvolveRelayBuild1, EvolveRelayBuild2, Goto, UpdateParaHead,
              RelayBuildBlock
<1>5. CASE EvolveParaBuild
  BY <1>5 DEF EvolveParaBuild, Goto
<1>6. CASE EvolveRelayImport1 \/ EvolveRelayImport2
  BY <1>6 DEF EvolveRelayImport1, EvolveRelayImport2, Goto, RelayImportBlock, RelayImported
<1>7. CASE EvolveParaImport
  BY <1>7 DEF EvolveParaImport, EvolveAdvance, ParaImportBlock, vars, relayVars
<1>8. CASE EvolveErr
  <2>1. pc' = "idle"
    BY <1>8 DEF EvolveErr
  <2>2. CASE RelayImportFails
    BY <2>1, <2>2 DEF RelayImportFails, RelayImportCollectErr, RelayImportJudgeErr,
                      RelayImportEnactErr, RelayImportErr, RelayImported
  <2>3. CASE pc = "paraImport" /\ UNCHANGED vars
    BY <2>1, <2>3 DEF vars, relayVars
  <2> QED
    BY <1>8, <2>2, <2>3 DEF EvolveErr, RelayWithMutStateErr
<1>9. CASE MutateErr
  BY <1>9 DEF MutateErr, RelayWithMutStateErr, ParaWithMutStateErr
<1>10. CASE \E w \in Writes : MutateRelay(w)
  BY <1>10 DEF MutateRelay, RelayWithMutState
<1>11. CASE \E p \in Paras, w \in Writes : MutatePara(p, w)
  BY <1>11 DEF MutatePara, ParaWithMutState, relayVars
<1> QED
  BY <1>1, <1>2, <1>3, <1>4, <1>5, <1>6, <1>7, <1>8, <1>9, <1>10, <1>11
     DEF CompanionNext, Evolve

\* expand/mod.rs: as long as no call of new or evolve fails, no assertion of
\* relay_chain.rs does, however callers mutate the chains between the calls.
THEOREM CompanionDoesNotPanic ==
  ASSUME Faults = {}
  PROVE  CompanionSpec => []NoPanic
<1>1. CompanionInit => Quiet
  BY DEF CompanionInit, Init, Quiet, NoPanic, PendingOnlyInside
<1>2. Quiet /\ [CompanionNext]_companionVars => Quiet'
  BY NextQuiet
<1>3. Quiet => NoPanic
  BY DEF Quiet
<1> QED
  BY <1>1, <1>2, <1>3, PTL DEF CompanionSpec
-----------------------------------------------------------------------------
(***************************************************************************)
(* What evolve has reached at each of its calls.  The relay chain is seen  *)
(* through its length, its heads and the parachains it has registered.     *)
(***************************************************************************)
\* The parachains that the relay chain has registered.
Registered == Latest(relay).root.registered

\* Nothing of parachain p is under way.
Untouched(p) == nextBlock[p] = None /\ nextImport[p] = None

\* Block b is to be the next block of p.  It names a later relay block than the
\* latest block of p does, and was made by an execution that made no block of p.
Follows(p, b) ==
  /\ b.parent = Latest(para[p]).hash
  /\ Latest(para[p]).root.at < b.root.at
  /\ b.root.of \in 1..MaxParaHash
  /\ \A i \in 1..Len(para[p].canon) : para[p].canon[i].root.of # b.root.of

\* Before the turn of p in evolve and after it.
Settled(p) == Untouched(p) /\ HeadAgrees(p)

\* The relay chain has the latest head of p.
HeadSet(p) == Untouched(p) /\ Heads(relay)[p] = Latest(para[p])

\* p has built a block that the relay chain can collate, and no relay block is
\* later than the one that it names.
Built(p) ==
  /\ nextBlock[p] # None /\ nextImport[p] = None
  /\ Heads(relay)[p] = Latest(para[p])
  /\ Follows(p, nextBlock[p].block)
  /\ nextBlock[p].proof = Latest(para[p]).root
  /\ nextBlock[p].block \in para[p].side
  /\ nextBlock[p].block.root.at <= Len(relay.canon) - 1

\* The relay chain has enacted and approved it.
Enactment(p) ==
  /\ nextBlock[p] = None /\ nextImport[p] # None
  /\ Heads(relay)[p] = nextImport[p].block
  /\ Follows(p, nextImport[p].block)
  /\ nextImport[p].block.root.at < Len(relay.canon) - 1

\* The calls of new.
NewLabels == {"onboard", "newBuild", "newImport"}

\* The calls of evolve for one parachain.
Turns == {"update", "relayBuild1", "paraBuild", "relayImport1", "relayBuild2",
          "relayImport2", "paraImport"}

\* The parachains that new has onboarded, in order.
Onboarded(k) ==
  /\ Len(parachains) = k
  /\ \A j \in 1..k : /\ parachains[j] = Order[j]
                     /\ Order[j] \in Registered
                     /\ Heads(relay)[Order[j]] = Latest(para[Order[j]])
  /\ \A j \in 1..Len(Order) : k < j => Heads(relay)[Order[j]] = None

\* new has made no block yet.
InNew ==
  /\ evolves = 0
  /\ Len(relay.canon) = 1
  /\ collations = << >>
  /\ \A p \in Paras : /\ Len(para[p].canon) = 1
                      /\ Latest(para[p]).root.at = 0
                      /\ Len(paraImports[p]) = 0
                      /\ Untouched(p)
  /\ Onboarded(IF pc = "onboard" THEN at - 1 ELSE Len(Order))

\* All parachains are onboarded, and the latest block of each names a relay
\* block below the latest.
Running ==
  /\ parachains = Order
  /\ \A p \in Paras : /\ p \in Registered
                      /\ Heads(relay)[p] # None
                      /\ Latest(para[p]).root.at < Len(relay.canon) - 1
                      /\ Len(para[p].canon) = Len(paraImports[p]) + 1

\* The length of the relay chain when the turn of the current parachain began.
TurnStart == 2 + 2 * (Len(Order) * (evolves - 1) + (at - 1))

\* How far the turn of parachain p is.
Stage(p) ==
  /\ pc = "update" => Settled(p)
  /\ pc \in {"relayBuild1", "paraBuild"} => HeadSet(p)
  /\ pc \in {"relayImport1", "relayBuild2", "relayImport2"} => Built(p)
  /\ pc = "paraImport" => Enactment(p)
  /\ collations = IF pc \in {"relayBuild2", "relayImport2"}
                  THEN << [id |-> p, head |-> nextBlock[p].block] >>
                  ELSE << >>
  /\ Len(relay.canon) = TurnStart + (IF pc \in {"relayBuild2", "relayImport2"} THEN 1
                                      ELSE IF pc = "paraImport" THEN 2 ELSE 0)

\* In evolve.
InTurn ==
  /\ evolves \in Nat \ {0}
  /\ \A p \in Paras : p # Current => Settled(p)
  /\ Stage(Current)
  /\ \A j \in 1..Len(Order) :
       Len(para[Order[j]].canon) = IF j < at THEN 1 + evolves ELSE evolves

\* Between calls of evolve.
InIdle ==
  /\ evolves \in Nat
  /\ \A p \in Paras : Settled(p) /\ Len(para[p].canon) = 1 + evolves
  /\ collations = << >>
  /\ Len(relay.canon) = 2 + 2 * (Len(Order) * evolves)

\* How far new and evolve are, as long as no call fails.
Progress ==
  /\ pc \in NewLabels \cup Turns \cup {"idle"}
  /\ pc \in NewLabels => InNew
  /\ pc \notin NewLabels => Running
  /\ pc \in Turns => InTurn
  /\ pc = "idle" => InIdle
-----------------------------------------------------------------------------
\* What the calls do, in these terms.

\* Parts of the relay storage.
LEMMA RelayRootParts ==
  ASSUME Inv
  PROVE  /\ relay \in Intact(RelayRoots)
         /\ Len(relay.canon) \in Nat \ {0}
         /\ Latest(relay).root \in RelayRoots
         /\ Heads(relay) \in [Paras -> ParaBlocks \cup {None}]
         /\ Registered \in SUBSET Paras
         /\ \A p \in Paras :
              /\ para[p] \in Intact(ParaRoots)
              /\ Len(para[p].canon) \in Nat \ {0}
              /\ Latest(para[p]) \in ParaBlocks
              /\ Latest(para[p]) # None
              /\ Latest(para[p]).root \in ParaRoots
              /\ Latest(para[p]).root.at \in Nat
<1>1. relay \in Intact(RelayRoots) /\ \A p \in Paras : para[p] \in Intact(ParaRoots)
  BY DEF Inv, RelaySound, ParaSound
<1>2. Latest(relay).root \in RelayRoots /\ Len(relay.canon) \in Nat \ {0}
  BY <1>1, IntactFacts
<1>3. \A p \in Paras : /\ Len(para[p].canon) \in Nat \ {0}
                       /\ Latest(para[p]) \in ParaBlocks
                       /\ Latest(para[p]).root \in ParaRoots
  BY <1>1, IntactFacts DEF ParaBlocks
<1>4. \A r \in ParaRoots : r.at \in Nat
  BY DEF ParaRoots
<1> QED
  BY <1>1, <1>2, <1>3, <1>4, NoneAssumption DEF RelayRoots, Heads, Registered

\* A commit of the relay chain keeps its length and puts its root.
LEMMA RelayCommitEffect ==
  ASSUME Inv, NEW root \in RelayRoots, relay' = WithStateCommit(relay, root)
  PROVE  /\ Len(relay'.canon) = Len(relay.canon)
         /\ Heads(relay') = root.heads
         /\ Registered' = root.registered
<1>1. relay \in Intact(RelayRoots)
  BY RelayRootParts
<1> QED
  BY <1>1, CommitIntact DEF Heads, Registered

\* onboard_para.
LEMMA OnboardEffect ==
  ASSUME Inv, NEW p \in Paras, OnboardPara(p)
  PROVE  /\ Len(relay'.canon) = Len(relay.canon)
         /\ Heads(relay') = [Heads(relay) EXCEPT ![p] = Latest(para[p])]
         /\ Registered' = Registered \cup {p}
         /\ parachains' = Append(parachains, p)
         /\ UNCHANGED <<collations, paraVars>>
<1> DEFINE old == Latest(relay).root
           root == [SetHead(old, p, Latest(para[p])) EXCEPT !.registered = @ \cup {p}]
<1>1. root \in RelayRoots /\ old \in RelayRoots
  BY RelayWrites
<1>2. /\ root.heads = [old.heads EXCEPT ![p] = Latest(para[p])]
      /\ root.registered = old.registered \cup {p}
  BY <1>1 DEF SetHead, RelayRoots
<1>3. relay' = WithStateCommit(relay, root)
  BY DEF OnboardPara
<1> HIDE DEF root
<1>4. /\ Len(relay'.canon) = Len(relay.canon)
      /\ Heads(relay') = root.heads
      /\ Registered' = root.registered
  BY <1>1, <1>3, RelayCommitEffect
<1> QED
  BY <1>2, <1>4 DEF OnboardPara, Heads, Registered

\* update_para_head.
LEMMA UpdateEffect ==
  ASSUME Inv, NEW p \in Paras, UpdateParaHead(p)
  PROVE  /\ Len(relay'.canon) = Len(relay.canon)
         /\ Heads(relay') = [Heads(relay) EXCEPT ![p] = Latest(para[p])]
         /\ Registered' = Registered
         /\ UNCHANGED <<parachains, collations, paraVars>>
<1> DEFINE old == Latest(relay).root
           root == SetHead(old, p, Latest(para[p]))
<1>1. root \in RelayRoots /\ old \in RelayRoots
  BY RelayWrites
<1>2. /\ root.heads = [old.heads EXCEPT ![p] = Latest(para[p])]
      /\ root.registered = old.registered
  BY <1>1 DEF SetHead, RelayRoots
<1>3. relay' = WithStateCommit(relay, root)
  BY DEF UpdateParaHead
<1> HIDE DEF root
<1>4. /\ Len(relay'.canon) = Len(relay.canon)
      /\ Heads(relay') = root.heads
      /\ Registered' = root.registered
  BY <1>1, <1>3, RelayCommitEffect
<1> QED
  BY <1>2, <1>4 DEF UpdateParaHead, Heads, Registered

\* with_mut_state of the relay chain.
LEMMA RelayWriteEffect ==
  ASSUME Inv, NEW w \in Writes, RelayWithMutState(w)
  PROVE  /\ Len(relay'.canon) = Len(relay.canon)
         /\ Heads(relay') = Heads(relay)
         /\ Registered' = Registered
         /\ UNCHANGED <<parachains, collations, paraVars>>
<1> DEFINE old == Latest(relay).root
           root == [old EXCEPT !.writes = @ \cup {w}]
<1>1. root \in RelayRoots /\ old \in RelayRoots
  BY RelayWrites
<1>2. root.heads = old.heads /\ root.registered = old.registered
  BY <1>1 DEF RelayRoots
<1>3. relay' = WithStateCommit(relay, root)
  BY DEF RelayWithMutState
<1> HIDE DEF root
<1>4. /\ Len(relay'.canon) = Len(relay.canon)
      /\ Heads(relay') = root.heads
      /\ Registered' = root.registered
  BY <1>1, <1>3, RelayCommitEffect
<1> QED
  BY <1>2, <1>4 DEF RelayWithMutState, Heads, Registered

\* build_block of the relay chain.
LEMMA RelayBuildEffect ==
  ASSUME RelayBuildBlock
  PROVE  /\ Len(relay'.canon) = Len(relay.canon)
         /\ Heads(relay') = Heads(relay)
         /\ Registered' = Registered
         /\ UNCHANGED <<parachains, collations, paraVars>>
BY DEF RelayBuildBlock, Proposed, Heads, Registered, Latest

\* import_block of the relay chain up to force_enact_collations, when there is
\* nothing to enact.
LEMMA ImportEffectNone ==
  ASSUME Inv, RelayImported, ForceEnactAll, collations = << >>
  PROVE  /\ Len(relay'.canon) = Len(relay.canon) + 1
         /\ Heads(relay') = Heads(relay)
         /\ Registered' = Registered
         /\ nextBlock' = nextBlock /\ nextImport' = nextImport
<1> DEFINE c == ImportFinal(relay, relayNext)
<1>1. /\ c \in Intact(RelayRoots)
      /\ Len(c.canon) = Len(relay.canon) + 1
      /\ Latest(c).root = Latest(relay).root
  BY RelayImportedEffect
<1> HIDE DEF c
<1>2. relay' = c
  <2> DEFINE n == Len(collations)
  <2>1. n = 0 /\ collations \in Seq(Collations) /\ n \in 0..Len(collations)
    BY DEF Inv, TypeOK
  <2> HIDE DEF n
  <2>2. \E f \in [0..n -> Intact(RelayRoots)] :
           /\ f[0] = c
           /\ \A i \in 1..n : f[i] = EnactStep(f[i - 1], i)
           /\ ForceEnact(c, n) = f[n]
    BY <1>1, <2>1, ForceEnactSteps
  <2>3. ForceEnact(c, n) = c
    BY <2>1, <2>2
  <2> QED
    BY <2>3 DEF ForceEnactAll, c, n
<1>3. nextBlock' = nextBlock /\ nextImport' = nextImport
  <2>1. { collations[i].id : i \in 1..Len(collations) } = {}
    OBVIOUS
  <2>2. /\ nextBlock' = [p \in Paras |-> nextBlock[p]]
        /\ nextImport' = [p \in Paras |-> nextImport[p]]
    BY <2>1 DEF ForceEnactAll, ApproveFirst
  <2> QED
    BY <2>2 DEF Inv, TypeOK
<1> QED
  BY <1>1, <1>2, <1>3 DEF Heads, Registered

\* The same when there is one collation.
LEMMA ImportEffectOne ==
  ASSUME Inv, RelayImported, ForceEnactAll, NEW p \in Paras, NEW b \in ParaBlocks,
         collations = << [id |-> p, head |-> b] >>
  PROVE  /\ Len(relay'.canon) = Len(relay.canon) + 1
         /\ Heads(relay') = [Heads(relay) EXCEPT ![p] = b]
         /\ Registered' = Registered
         /\ nextBlock' = [nextBlock EXCEPT ![p] = None]
         /\ nextImport' = [nextImport EXCEPT ![p] = nextBlock[p]]
<1> DEFINE c == ImportFinal(relay, relayNext)
           coll == [id |-> p, head |-> b]
<1>1. /\ c \in Intact(RelayRoots)
      /\ Len(c.canon) = Len(relay.canon) + 1
      /\ Latest(c).root = Latest(relay).root
      /\ Latest(relay).root \in RelayRoots
  BY RelayImportedEffect, RelayRootParts
<1>2. Len(collations) = 1 /\ collations[1] = coll /\ coll \in Collations
      /\ collations \in Seq(Collations) /\ 1 \in 0..Len(collations) /\ 1 \in 1..Len(collations)
  BY DEF Inv, TypeOK, Collations
<1>3. relay' = EnactStep(c, 1)
  <2> HIDE DEF c
  <2> DEFINE n == 1
  <2>0. n = 1 /\ n \in 0..Len(collations)
    BY <1>2
  <2> HIDE DEF n
  <2>1. PICK f \in [0..n -> Intact(RelayRoots)] :
           /\ f[0] = c
           /\ \A i \in 1..n : f[i] = EnactStep(f[i - 1], i)
           /\ ForceEnact(c, n) = f[n]
    BY <1>1, <1>2, <2>0, ForceEnactSteps
  <2>2. ForceEnact(c, 1) = EnactStep(c, 1)
    <3>1. 1 \in 1..n /\ 1 - 1 = 0
      BY <2>0
    <3>2. f[1] = EnactStep(f[1 - 1], 1)
      BY <2>1, <3>1
    <3> QED
      BY <2>0, <2>1, <3>1, <3>2, Zenon
  <2> QED
    BY <1>2, <2>2 DEF ForceEnactAll, c
<1> DEFINE root == Enacted(Latest(c).root, coll)
<1>4. /\ root \in RelayRoots
      /\ root.heads = [Heads(relay) EXCEPT ![p] = b]
      /\ root.registered = Registered
  <2>1. root \in RelayRoots
    BY <1>1, <1>2, EnactedEffect
  <2> QED
    BY <1>1, <2>1 DEF Enacted, SetHead, RelayRoots, Heads, Registered
<1>5. relay' = WithStateCommit(c, root)
  BY <1>2, <1>3 DEF EnactStep
<1> HIDE DEF c, root
<1>6. Len(relay'.canon) = Len(c.canon) /\ Latest(relay').root = root
  BY <1>1, <1>4, <1>5, CommitIntact
<1>7. /\ nextBlock' = [nextBlock EXCEPT ![p] = None]
      /\ nextImport' = [nextImport EXCEPT ![p] = nextBlock[p]]
  <2>1. { collations[i].id : i \in 1..Len(collations) } = {p}
    BY <1>2
  <2>2. /\ nextBlock' = [q \in Paras |-> IF q \in {p} THEN None ELSE nextBlock[q]]
        /\ nextImport' = [q \in Paras |-> IF q \in {p} THEN nextBlock[q] ELSE nextImport[q]]
    BY <2>1 DEF ForceEnactAll, ApproveFirst
  <2>3. /\ nextBlock \in [Paras -> Builds \cup {None}]
        /\ nextImport \in [Paras -> Builds \cup {None}]
    BY DEF Inv, TypeOK
  <2> QED
    BY <2>2, <2>3
<1> QED
  BY <1>1, <1>4, <1>6, <1>7 DEF Heads, Registered

\* collect_collations with nothing pending.
LEMMA CollectNothing ==
  ASSUME parachains \in Seq(Paras), NEW pending \in [Paras -> Builds \cup {None}],
         \A p \in Paras : pending[p] = None,
         NEW n \in 0..Len(parachains)
  PROVE  CollectFirst(n, pending) = << >>
<1> DEFINE s == CollectFirst(n, pending)
<1>1. s \in Seq(Collations) /\ CollectedFrom(s, n, pending)
  BY CollectEffect
<1> HIDE DEF s
<1>2. \A i \in 1..Len(s) : s[i].id \in Paras
  <2>1. \A x \in Collations : x.id \in Paras
    BY DEF Collations
  <2> HIDE DEF CollectedFrom
  <2> QED
    BY <1>1, <2>1
<1>3. \A i \in 1..Len(s) : FALSE
  BY <1>1, <1>2 DEF CollectedFrom
<1>4. Len(s) = 0
  <2>1. Len(s) \in Nat
    BY <1>1
  <2> QED
    BY <1>3, <2>1
<1> QED
  BY <1>1, <1>4 DEF s

\* collect_collations with one parachain's block pending.
LEMMA CollectOne ==
  ASSUME parachains \in Seq(Paras), NEW pending \in [Paras -> Builds \cup {None}],
         NEW p \in Paras, pending[p] # None,
         \A q \in Paras : q # p => pending[q] = None,
         NEW m \in 1..Len(parachains), parachains[m] = p
  PROVE  CollectFirst(Len(parachains), pending) = << [id |-> p, head |-> pending[p].block] >>
<1> DEFINE n == Len(parachains)
           new == [id |-> p, head |-> pending[p].block]
           Has(k) == \E j \in 1..k : parachains[j] = p
<1>1. PICK f \in [0..n -> Seq(Collations)] :
           /\ f[0] = << >>
           /\ \A i \in 1..n : f[i] = CollectStep(f[i - 1], i, pending)
           /\ CollectFirst(n, pending) = f[n]
  <2>1. n \in 0..n
    OBVIOUS
  <2> QED
    BY <2>1, CollectSteps
<1> DEFINE S == { k \in Nat : k <= n => f[k] = IF Has(k) THEN << new >> ELSE << >> }
<1>2. 0 \in S
  BY <1>1
<1>3. ASSUME NEW k \in Nat, k \in S PROVE k + 1 \in S
  <2> SUFFICES ASSUME k + 1 <= n
               PROVE  f[k + 1] = IF Has(k + 1) THEN << new >> ELSE << >>
    OBVIOUS
  <2>1. k + 1 \in 1..n /\ (k + 1) - 1 = k /\ k <= n
    OBVIOUS
  <2>2. f[k + 1] = CollectStep(f[k], k + 1, pending)
    BY <1>1, <2>1
  <2>3. f[k] = IF Has(k) THEN << new >> ELSE << >>
    BY <1>3, <2>1
  <2>4. Has(k + 1) <=> Has(k) \/ parachains[k + 1] = p
    BY <2>1
  <2>5. parachains[k + 1] \in Paras
    BY <2>1
  <2> HIDE DEF Has
  <2>6. CASE parachains[k + 1] # p
    BY <2>2, <2>3, <2>4, <2>5, <2>6 DEF CollectStep
  <2>7. CASE parachains[k + 1] = p /\ Has(k)
    <3>1. f[k] = << new >> /\ p \in { f[k][j].id : j \in 1..Len(f[k]) }
      BY <2>3, <2>7
    <3> QED
      BY <2>2, <2>4, <2>7, <3>1 DEF CollectStep
  <2>8. CASE parachains[k + 1] = p /\ ~Has(k)
    <3>1. f[k] = << >> /\ { f[k][j].id : j \in 1..Len(f[k]) } = {}
      BY <2>3, <2>8
    <3>2. f[k + 1] = Append(<< >>, new)
      BY <2>2, <2>8, <3>1 DEF CollectStep
    <3> QED
      BY <2>4, <2>8, <3>2
  <2> QED
    BY <2>6, <2>7, <2>8
<1>4. n \in S
  <2> HIDE DEF S
  <2>1. \A k \in Nat : k \in S
    BY <1>2, <1>3, SetInduction
  <2> QED
    BY <2>1
<1>5. Has(n)
  OBVIOUS
<1> QED
  BY <1>1, <1>4, <1>5

\* build_block of a parachain.
LEMMA ParaBuildEffect ==
  ASSUME Inv, NEW p \in Paras, ParaBuildBlock(p)
  PROVE  /\ nextBlock'[p] # None
         /\ nextBlock'[p].proof = Latest(para[p]).root
         /\ nextBlock'[p].block \in para'[p].side
         /\ nextBlock'[p].block.parent = Latest(para[p]).hash
         /\ nextBlock'[p].block.root.at = Len(relay.canon) - 1
         /\ nextBlock'[p].block.root.of \in 1..MaxParaHash
         /\ \A i \in 1..Len(para[p].canon) :
              para[p].canon[i].root.of # nextBlock'[p].block.root.of
         /\ para'[p].canon = para[p].canon
         /\ \A q \in Paras : q # p => para'[q] = para[q] /\ nextBlock'[q] = nextBlock[q]
         /\ UNCHANGED <<relayVars, nextImport, paraImports>>
<1> DEFINE c == para[p]
           root == [of |-> c.fresh, at |-> RelayParentNumber, writes |-> Latest(c).root.writes]
           b == Propose(c, root)
           build == [block |-> b, proof |-> Latest(c).root]
<1>1. /\ para' = [para EXCEPT ![p] = ImportSide(Proposed(c), b)]
      /\ nextBlock' = [nextBlock EXCEPT ![p] = build]
      /\ UNCHANGED <<relayVars, nextImport, paraImports>>
  BY DEF ParaBuildBlock
<1>2. /\ para \in [Paras -> ChainsOf(ParaRoots)]
      /\ nextBlock \in [Paras -> Builds \cup {None}]
  BY DEF Inv, TypeOK
<1>3. /\ para'[p] = ImportSide(Proposed(c), b) /\ nextBlock'[p] = build
      /\ \A q \in Paras : q # p => para'[q] = para[q] /\ nextBlock'[q] = nextBlock[q]
  BY <1>1, <1>2
<1>4. build \in Builds
  <2>1. Inv'
    BY ParaBuildBlockInv
  <2>2. nextBlock'[p] \in Builds \cup {None}
    BY <2>1 DEF Inv, TypeOK
  <2>3. ParaSound(c, nextBlock[p], nextImport[p]) /\ RelayParentNumber \in Nat
    BY RelayRootParts DEF Inv, RelayParentNumber
  <2> QED
    BY <2>3, BuildSound
<1>5. build # None
  BY <1>4, BuildType
<1>6. /\ b.parent = Latest(c).hash /\ b.root.at = Len(relay.canon) - 1
      /\ build.block = b /\ build.proof = Latest(c).root
  BY DEF Propose, RelayParentNumber
<1>8. /\ b.root.of \in 1..MaxParaHash
      /\ \A i \in 1..Len(c.canon) : c.canon[i].root.of # b.root.of
  <2>1. /\ \A i \in 1..Len(c.canon) : /\ c.canon[i].root.of < c.fresh
                                      /\ c.canon[i].root.of \in Nat
        /\ c.fresh \in Nat /\ Len(c.canon) \in Nat \ {0}
    <3> HIDE DEF c
    <3>1. c \in Intact(ParaRoots) /\ \A i \in 1..Len(c.canon) : c.canon[i].root.of < c.fresh
      BY DEF Inv, ParaSound, c
    <3>2. \A i \in 1..Len(c.canon) : c.canon[i] \in ParaBlocks
      BY <3>1, IntactFacts DEF ParaBlocks
    <3>3. \A x \in ParaBlocks : x.root.of \in Nat
      BY DEF ParaBlocks, BlocksOf, ParaRoots
    <3> QED
      BY <3>1, <3>2, <3>3, IntactFacts
  <2>2. b.root.of = c.fresh /\ c.fresh < MaxParaHash /\ MaxParaHash \in Nat
    BY BoundsAssumption DEF ParaBuildBlock, Propose
  <2>3. c.fresh > 0
    BY <2>1
  <2> QED
    BY <2>1, <2>2, <2>3
<1>7. b \in ImportSide(Proposed(c), b).side /\ ImportSide(Proposed(c), b).canon = c.canon
  BY DEF ImportSide, Proposed
<1> HIDE DEF build, b
<1> QED
  BY <1>1, <1>3, <1>5, <1>6, <1>7, <1>8

\* with_mut_state of a parachain.
LEMMA ParaWriteEffect ==
  ASSUME Inv, NEW p \in Paras, NEW w \in Writes, ParaWithMutState(p, w)
  PROVE  /\ Len(para'[p].canon) = Len(para[p].canon)
         /\ \A i \in 1..Len(para[p].canon) - 1 : para'[p].canon[i] = para[p].canon[i]
         /\ Latest(para'[p]).parent = Latest(para[p]).parent
         /\ Latest(para'[p]).root.of = Latest(para[p]).root.of
         /\ Latest(para'[p]).root.at = Latest(para[p]).root.at
         /\ Latest(para[p]).root.writes \subseteq Latest(para'[p]).root.writes
         /\ \A q \in Paras : q # p => para'[q] = para[q]
         /\ UNCHANGED <<relayVars, nextBlock, nextImport, paraImports>>
<1> DEFINE c == para[p]
           old == Latest(c).root
           root == [old EXCEPT !.writes = @ \cup {w}]
<1>1. /\ para' = [para EXCEPT ![p] = WithStateCommit(c, root)]
      /\ UNCHANGED <<relayVars, nextBlock, nextImport, paraImports>>
  BY DEF ParaWithMutState
<1>2. c \in Intact(ParaRoots) /\ old \in ParaRoots
  BY RelayRootParts
<1>3. /\ root \in ParaRoots /\ root.of = old.of /\ root.at = old.at
      /\ old.writes \subseteq root.writes
  BY <1>2 DEF ParaRoots
<1>4. /\ para'[p] = WithStateCommit(c, root)
      /\ \A q \in Paras : q # p => para'[q] = para[q]
  BY <1>1 DEF Inv, TypeOK
<1> HIDE DEF root
<1>5. LET d == WithStateCommit(c, root)
      IN  /\ Len(d.canon) = Len(c.canon)
          /\ \A i \in 1..Len(c.canon) - 1 : d.canon[i] = c.canon[i]
          /\ Latest(d).root = root
          /\ Latest(d).parent = Latest(c).parent
  BY <1>2, <1>3, CommitIntact
<1> QED
  BY <1>1, <1>3, <1>4, <1>5

\* import_block of a parachain, of a child of its latest block.
LEMMA ParaImportEffect ==
  ASSUME Inv, NEW p \in Paras, ParaImportBlock(p),
         nextImport[p].block.parent = Latest(para[p]).hash
  PROVE  /\ Len(para'[p].canon) = Len(para[p].canon) + 1
         /\ \A i \in 1..Len(para[p].canon) : para'[p].canon[i] = para[p].canon[i]
         /\ Latest(para'[p]) = nextImport[p].block
         /\ nextImport'[p] = None
         /\ Len(paraImports'[p]) = Len(paraImports[p]) + 1
         /\ \A q \in Paras : q # p => /\ para'[q] = para[q]
                                      /\ nextImport'[q] = nextImport[q]
                                      /\ paraImports'[q] = paraImports[q]
         /\ UNCHANGED <<relayVars, nextBlock>>
<1> DEFINE b == nextImport[p].block
<1>1. /\ nextImport[p] # None
      /\ para' = [para EXCEPT ![p] = ImportFinal(para[p], b)]
      /\ paraImports' = [paraImports EXCEPT ![p] = Append(paraImports[p], b)]
      /\ nextImport' = [nextImport EXCEPT ![p] = None]
      /\ UNCHANGED <<relayVars, nextBlock>>
  BY DEF ParaImportBlock
<1>2. /\ para \in [Paras -> ChainsOf(ParaRoots)]
      /\ nextImport \in [Paras -> Builds \cup {None}]
      /\ paraImports \in [Paras -> Seq(ParaBlocks)]
  BY DEF Inv, TypeOK
<1>3. /\ para'[p] = ImportFinal(para[p], b) /\ nextImport'[p] = None
      /\ paraImports'[p] = Append(paraImports[p], b)
      /\ \A q \in Paras : q # p => /\ para'[q] = para[q]
                                   /\ nextImport'[q] = nextImport[q]
                                   /\ paraImports'[q] = paraImports[q]
  BY <1>1, <1>2
<1>4. /\ b \in BlocksOf(ParaRoots) /\ para[p] \in Intact(ParaRoots)
      /\ b.hash \notin CanonHashes(para[p]) /\ b.hash < para[p].fresh
  BY <1>1, <1>2, BuildType DEF Inv, ParaSound, Waiting
<1>5. b.parent = Latest(para[p]).hash /\ Len(paraImports'[p]) = Len(paraImports[p]) + 1
  BY <1>2, <1>3, <1>4 DEF ParaBlocks
<1> HIDE DEF b
<1>6. LET d == ImportFinal(para[p], b)
      IN  /\ Len(d.canon) = Len(para[p].canon) + 1
          /\ \A i \in 1..Len(para[p].canon) : d.canon[i] = para[p].canon[i]
          /\ Latest(d) = b
  <2> DEFINE c == para[p]
  <2>1. /\ b \in BlocksOf(ParaRoots) /\ c \in Intact(ParaRoots)
        /\ b.parent = Latest(c).hash
        /\ b.hash \notin CanonHashes(c) /\ b.hash < c.fresh
    BY <1>4, <1>5
  <2> HIDE DEF c
  <2>2. LET d == ImportFinal(c, b)
        IN  /\ Len(d.canon) = Len(c.canon) + 1
            /\ \A i \in 1..Len(c.canon) : d.canon[i] = c.canon[i]
            /\ Latest(d) = b
    BY <2>1, ImportIntact
  <2> QED
    BY <2>2 DEF c
<1> QED
  BY <1>1, <1>3, <1>5, <1>6 DEF b
-----------------------------------------------------------------------------
\* The calls of new.

\* Every parachain has one place in Order.
LEMMA OrderFacts ==
  /\ Order \in Seq(Paras) /\ Len(Order) \in Nat \ {0}
  /\ \A j \in 1..Len(Order) : Order[j] \in Paras
  /\ \A p \in Paras : \E j \in 1..Len(Order) : Order[j] = p
  /\ \A i \in 1..Len(Order) : \A j \in 1..Len(Order) : Order[i] = Order[j] => i = j
<1>1. Order \in Seq(Paras) /\ Len(Order) \in Nat /\ Len(Order) # 0
  BY OrderAssumption
<1> QED
  BY <1>1, OrderAssumption

\* Different places of Order are different parachains.
LEMMA OtherPlace ==
  ASSUME NEW i \in 1..Len(Order), NEW j \in 1..Len(Order), i # j
  PROVE  Order[i] # Order[j]
BY OrderFacts

\* Sequences with the same elements are the same.
LEMMA SameSeq ==
  ASSUME NEW S, NEW s \in Seq(S), NEW t \in Seq(S),
         Len(s) = Len(t), \A j \in 1..Len(t) : s[j] = t[j]
  PROVE  s = t
<1>1. s \in [1..Len(t) -> S] /\ t \in [1..Len(t) -> S]
  OBVIOUS
<1> QED
  BY <1>1

\* onboard_para for the next parachain.
LEMMA NewOnboardProgress ==
  ASSUME Inv, AtOne, Progress, NewOnboard
  PROVE  Progress'
<1> DEFINE p == Current
<1>1. /\ p \in Paras /\ pc = "onboard" /\ InNew /\ Onboarded(at - 1)
      /\ at \in 1..Len(Order) /\ at \in Nat /\ p = Order[at]
  BY CurrentIsPara, OrderFacts DEF AtOne, NewOnboard, Progress, NewLabels, InNew, Current
<1>2. /\ Len(relay'.canon) = Len(relay.canon)
      /\ Heads(relay') = [Heads(relay) EXCEPT ![p] = Latest(para[p])]
      /\ Registered' = Registered \cup {p}
      /\ parachains' = Append(parachains, p)
      /\ UNCHANGED <<collations, paraVars>>
  BY <1>1, OnboardEffect DEF NewOnboard
<1>3. /\ pc' \in {"onboard", "newBuild"} /\ evolves' = evolves
      /\ (IF pc' = "onboard" THEN at' - 1 ELSE Len(Order)) = at
  BY <1>1, OrderFacts DEF NewOnboard
<1>0. PICK k : k = at
  OBVIOUS
<1>4. Onboarded(k)'
  <2>1. Len(parachains) = at - 1 /\ parachains \in Seq(Paras)
    BY <1>1 DEF Onboarded, Inv, TypeOK
  <2>2. /\ Len(parachains') = at /\ parachains'[at] = p
        /\ \A j \in 1..at - 1 : parachains'[j] = parachains[j]
    BY <1>1, <1>2, <2>1
  <2>3. Heads(relay) \in [Paras -> ParaBlocks \cup {None}]
    BY RelayRootParts
  <2>4. ASSUME NEW j \in 1..at
        PROVE  /\ parachains'[j] = Order[j]
               /\ Order[j] \in Registered'
               /\ Heads(relay')[Order[j]] = Latest(para'[Order[j]])
    <3>1. CASE j = at
      BY <1>1, <1>2, <2>2, <2>3, <3>1 DEF paraVars
    <3>2. CASE j # at
      <4>1. j \in 1..at - 1 /\ j \in 1..Len(Order) /\ Order[j] \in Paras /\ Order[j] # p
        <5>1. j \in 1..at - 1 /\ j \in 1..Len(Order)
          BY <1>1, <3>2, FirstPara
        <5>2. Order[j] # Order[at]
          BY <1>1, <3>2, <5>1, OtherPlace
        <5> QED
          BY <1>1, <5>1, <5>2, OrderFacts
      <4>2. /\ parachains[j] = Order[j] /\ Order[j] \in Registered
            /\ Heads(relay)[Order[j]] = Latest(para[Order[j]])
        BY <1>1, <4>1 DEF Onboarded
      <4> QED
        BY <1>1, <1>2, <2>2, <2>3, <4>1, <4>2 DEF paraVars
    <3> QED
      BY <3>1, <3>2
  <2>5. ASSUME NEW j \in 1..Len(Order), at < j
        PROVE  Heads(relay')[Order[j]] = None
    <3>1. Order[j] \in Paras /\ Order[j] # p /\ at - 1 < j
      BY <1>1, <2>5, OrderFacts
    <3> QED
      BY <1>1, <1>2, <2>3, <3>1 DEF Onboarded
  <2> QED
    BY <1>0, <2>2, <2>4, <2>5 DEF Onboarded
<1>5. InNew'
  BY <1>0, <1>1, <1>2, <1>3, <1>4 DEF InNew, Untouched, paraVars
<1> QED
  BY <1>3, <1>5 DEF Progress, NewLabels, Turns

\* The relay block of new is built.
LEMMA NewBuildProgress ==
  ASSUME Inv, Progress, NewBuild
  PROVE  Progress'
<1>1. /\ InNew /\ Onboarded(Len(Order)) /\ pc = "newBuild" /\ pc' = "newImport"
      /\ evolves' = evolves
  BY DEF NewBuild, Progress, NewLabels, InNew, Goto
<1>2. /\ Len(relay'.canon) = Len(relay.canon)
      /\ Heads(relay') = Heads(relay)
      /\ Registered' = Registered
      /\ UNCHANGED <<parachains, collations, paraVars>>
  BY RelayBuildEffect DEF NewBuild
<1>3. Onboarded(Len(Order))'
  BY <1>1, <1>2 DEF Onboarded, paraVars
<1>4. InNew'
  BY <1>1, <1>2, <1>3 DEF InNew, Untouched, paraVars
<1> QED
  BY <1>1, <1>4 DEF Progress, NewLabels, Turns

\* The relay block of new is imported, which ends it.
LEMMA NewImportProgress ==
  ASSUME Inv, Progress, NewImport
  PROVE  Progress'
<1>1. /\ InNew /\ Onboarded(Len(Order)) /\ pc = "newImport" /\ pc' = "idle"
      /\ evolves' = evolves
  BY DEF NewImport, Progress, NewLabels, InNew, Goto
<1>2. /\ RelayImported /\ ForceEnactAll
      /\ collations' = CollectFirst(Len(parachains), nextBlock')
      /\ UNCHANGED <<parachains, para, paraImports>>
  BY DEF NewImport, RelayImportBlock
<1>3. /\ Len(relay'.canon) = Len(relay.canon) + 1
      /\ Heads(relay') = Heads(relay)
      /\ Registered' = Registered
      /\ nextBlock' = nextBlock /\ nextImport' = nextImport
  BY <1>1, <1>2, ImportEffectNone DEF InNew
<1>4. parachains \in Seq(Paras) /\ nextBlock \in [Paras -> Builds \cup {None}]
  BY DEF Inv, TypeOK
<1>5. collations' = << >>
  <2>1. \A p \in Paras : nextBlock[p] = None
    BY <1>1 DEF InNew, Untouched
  <2>2. Len(parachains) \in 0..Len(parachains)
    BY <1>4
  <2> QED
    BY <1>2, <1>3, <1>4, <2>1, <2>2, CollectNothing
<1>6. parachains = Order
  <2>1. Len(parachains) = Len(Order) /\ \A j \in 1..Len(Order) : parachains[j] = Order[j]
    BY <1>1 DEF Onboarded
  <2> QED
    BY <1>4, <2>1, OrderFacts, SameSeq
<1>7. ASSUME NEW p \in Paras
      PROVE  /\ p \in Registered' /\ Heads(relay')[p] = Latest(para[p])
             /\ Latest(para[p]) # None
             /\ Latest(para[p]).root.at = 0 /\ Len(para[p].canon) = 1
             /\ Len(paraImports[p]) = 0 /\ nextBlock[p] = None /\ nextImport[p] = None
  <2>1. PICK j \in 1..Len(Order) : Order[j] = p
    BY OrderFacts
  <2> QED
    BY <1>1, <1>3, <2>1, RelayRootParts DEF Onboarded, InNew, Untouched
<1>8. Len(relay'.canon) = 2 /\ evolves' = 0
  BY <1>1, <1>3 DEF InNew
<1>9. Running'
  <2>1. parachains' = Order /\ para' = para /\ paraImports' = paraImports
    BY <1>2, <1>6
  <2>2. ASSUME NEW p \in Paras
        PROVE  /\ p \in Registered' /\ Heads(relay')[p] # None
               /\ Latest(para'[p]).root.at < Len(relay'.canon) - 1
               /\ Len(para'[p].canon) = Len(paraImports'[p]) + 1
    <3>1. p \in Registered' /\ Heads(relay')[p] # None
      BY <1>7
    <3>2. Latest(para[p]).root.at < Len(relay'.canon) - 1
      BY <1>7, <1>8
    <3>3. Len(para[p].canon) = Len(paraImports[p]) + 1
      <4>1. Len(paraImports[p]) = 0 /\ Len(para[p].canon) = 1
        BY <1>7
      <4> QED
        BY <4>1, 0 + 1 = 1, Zenon
    <3> QED
      BY <2>1, <3>1, <3>2, <3>3
  <2> QED
    BY <2>1, <2>2 DEF Running
<1>10. InIdle'
  <2>1. \A p \in Paras : Settled(p)'
    BY <1>2, <1>3, <1>7 DEF Settled, Untouched, HeadAgrees
  <2> QED
    BY <1>2, <1>5, <1>7, <1>8, <2>1, OrderFacts DEF InIdle
<1> QED
  BY <1>1, <1>9, <1>10 DEF Progress, NewLabels, Turns
-----------------------------------------------------------------------------
\* The calls of evolve.

\* What is known in a turn.
LEMMA TurnFacts ==
  ASSUME AtOne, Progress, pc \in Turns
  PROVE  /\ Current \in Paras /\ at \in Nat /\ at \in 1..Len(Order)
         /\ Running /\ InTurn /\ Stage(Current)
         /\ evolves \in Nat \ {0} /\ TurnStart \in Int
<1>1. Current \in Paras /\ at \in Nat /\ at \in 1..Len(Order) /\ Len(Order) \in Nat
  BY CurrentIsPara, OrderFacts DEF AtOne
<1>2. Running /\ InTurn
  BY DEF Progress, Turns, NewLabels
<1>3. evolves \in Nat \ {0} /\ Stage(Current)
  BY <1>2 DEF InTurn
<1>4. Len(Order) * (evolves - 1) \in Int
  BY <1>1, <1>3
<1> QED
  BY <1>1, <1>2, <1>3, <1>4 DEF TurnStart

\* A parachain that is left alone stays settled.
LEMMA StaysSettled ==
  ASSUME NEW q \in Paras, Settled(q), Heads(relay')[q] = Heads(relay)[q],
         para'[q] = para[q], nextBlock'[q] = nextBlock[q], nextImport'[q] = nextImport[q]
  PROVE  Settled(q)'
BY DEF Settled, Untouched, HeadAgrees

\* A call for parachain p that is not the last one of its turn.
LEMMA TurnStays ==
  ASSUME NEW p \in Paras, Current = p, at' = at, evolves' = evolves, pc' \in Turns,
         Running, InTurn, Inv,
         parachains' = parachains, Registered' = Registered, paraImports' = paraImports,
         \A q \in Paras : q # p => /\ Heads(relay')[q] = Heads(relay)[q]
                                   /\ para'[q] = para[q]
                                   /\ nextBlock'[q] = nextBlock[q]
                                   /\ nextImport'[q] = nextImport[q],
         Heads(relay')[p] # None, para'[p].canon = para[p].canon,
         Len(relay'.canon) \in Nat, Len(relay.canon) <= Len(relay'.canon),
         Stage(p)'
  PROVE  Progress'
<1>1. Current' = p
  BY DEF Current
<1>2. \A q \in Paras : q # p => Settled(q)'
  BY StaysSettled DEF InTurn
<1>3. \A q \in Paras : para'[q].canon = para[q].canon
  OBVIOUS
<1>4. \A q \in Paras : Latest(para'[q]) = Latest(para[q])
  BY <1>3 DEF Latest
<1>5. Running'
  <2>1. ASSUME NEW q \in Paras
        PROVE  /\ q \in Registered' /\ Heads(relay')[q] # None
               /\ Latest(para'[q]).root.at < Len(relay'.canon) - 1
               /\ Len(para'[q].canon) = Len(paraImports'[q]) + 1
    <3>1. q \in Registered' /\ Heads(relay')[q] # None
      BY DEF Running
    <3>2. Latest(para[q]).root.at < Len(relay.canon) - 1
      BY DEF Running
    <3>3. Latest(para[q]).root.at \in Nat /\ Len(relay.canon) \in Nat
      BY RelayRootParts
    <3>4. Latest(para[q]).root.at < Len(relay'.canon) - 1
      BY <3>2, <3>3
    <3>5. Len(para[q].canon) = Len(paraImports[q]) + 1
      BY DEF Running
    <3> QED
      BY <1>3, <1>4, <3>1, <3>4, <3>5
  <2> QED
    BY <2>1 DEF Running
<1>6. InTurn'
  <2>1. \A j \in 1..Len(Order) :
          Len(para'[Order[j]].canon) = IF j < at' THEN 1 + evolves' ELSE evolves'
    BY <1>3, OrderFacts DEF InTurn
  <2> QED
    BY <1>1, <1>2, <2>1 DEF InTurn
<1> QED
  BY <1>5, <1>6 DEF Progress, Turns, NewLabels

\* TurnStart is the same during a turn.
LEMMA TurnStartStays ==
  ASSUME at' = at, evolves' = evolves
  PROVE  TurnStart' = TurnStart
BY DEF TurnStart

\* update_para_head.
LEMMA EvolveUpdateProgress ==
  ASSUME Inv, AtOne, Progress, EvolveUpdate
  PROVE  Progress'
<1>1. /\ pc = "update" /\ pc' = "relayBuild1" /\ at' = at /\ evolves' = evolves
      /\ pc \in Turns /\ pc' \in Turns
  BY DEF EvolveUpdate, Goto, Turns
<1>2. PICK p \in Paras : p = Current
  BY <1>1, TurnFacts
<1>3. Running /\ InTurn /\ Stage(p) /\ Settled(p) /\ collations = << >>
      /\ Len(relay.canon) = TurnStart
  BY <1>1, <1>2, TurnFacts DEF Stage
<1>4. /\ Len(relay'.canon) = Len(relay.canon)
      /\ Heads(relay') = [Heads(relay) EXCEPT ![p] = Latest(para[p])]
      /\ Registered' = Registered
      /\ parachains' = parachains /\ collations' = collations
      /\ para' = para /\ nextBlock' = nextBlock /\ nextImport' = nextImport
      /\ paraImports' = paraImports
  BY <1>2, UpdateEffect DEF EvolveUpdate, paraVars
<1>5. /\ Heads(relay')[p] = Latest(para[p])
      /\ \A q \in Paras : q # p => Heads(relay')[q] = Heads(relay)[q]
  BY <1>4, RelayRootParts
<1>6. Latest(para[p]) # None /\ Len(relay.canon) \in Nat
  BY RelayRootParts
<1>7. Stage(p)'
  BY <1>1, <1>3, <1>4, <1>5, TurnStartStays, TurnFacts DEF Stage, HeadSet, Settled, Untouched
<1> QED
  BY <1>1, <1>2, <1>3, <1>4, <1>5, <1>6, <1>7, TurnStays

\* build_block of the relay chain.
LEMMA EvolveRelayBuildProgress ==
  ASSUME Inv, AtOne, Progress, EvolveRelayBuild1 \/ EvolveRelayBuild2
  PROVE  Progress'
<1>1. /\ \/ pc = "relayBuild1" /\ pc' = "paraBuild"
         \/ pc = "relayBuild2" /\ pc' = "relayImport2"
      /\ at' = at /\ evolves' = evolves
      /\ pc \in Turns /\ pc' \in Turns
      /\ RelayBuildBlock
  BY DEF EvolveRelayBuild1, EvolveRelayBuild2, Goto, Turns
<1>2. PICK p \in Paras : p = Current
  BY <1>1, TurnFacts
<1>3. Running /\ InTurn /\ Stage(p)
  BY <1>1, <1>2, TurnFacts
<1>4. /\ Len(relay'.canon) = Len(relay.canon)
      /\ Heads(relay') = Heads(relay)
      /\ Registered' = Registered
      /\ parachains' = parachains /\ collations' = collations
      /\ para' = para /\ nextBlock' = nextBlock /\ nextImport' = nextImport
      /\ paraImports' = paraImports
  BY <1>1, RelayBuildEffect DEF paraVars
<1>5. Len(relay.canon) \in Nat /\ Heads(relay)[p] # None
  BY <1>3, RelayRootParts DEF Running
<1>6. Stage(p)'
  BY <1>1, <1>3, <1>4, TurnStartStays DEF Stage, HeadSet, Untouched, Built, Follows
<1> QED
  BY <1>1, <1>2, <1>3, <1>4, <1>5, <1>6, TurnStays

\* build_block of the parachain.
LEMMA EvolveParaBuildProgress ==
  ASSUME Inv, AtOne, Progress, EvolveParaBuild
  PROVE  Progress'
<1>1. /\ pc = "paraBuild" /\ pc' = "relayImport1" /\ at' = at /\ evolves' = evolves
      /\ pc \in Turns /\ pc' \in Turns
  BY DEF EvolveParaBuild, Goto, Turns
<1>2. PICK p \in Paras : p = Current
  BY <1>1, TurnFacts
<1>3. /\ Running /\ InTurn /\ HeadSet(p) /\ collations = << >>
      /\ Len(relay.canon) = TurnStart + 0
  BY <1>1, <1>2, TurnFacts DEF Stage
<1>4. /\ nextBlock'[p] # None
      /\ nextBlock'[p].proof = Latest(para[p]).root
      /\ nextBlock'[p].block \in para'[p].side
      /\ nextBlock'[p].block.parent = Latest(para[p]).hash
      /\ nextBlock'[p].block.root.at = Len(relay.canon) - 1
      /\ nextBlock'[p].block.root.of \in 1..MaxParaHash
      /\ \A i \in 1..Len(para[p].canon) :
           para[p].canon[i].root.of # nextBlock'[p].block.root.of
      /\ para'[p].canon = para[p].canon
      /\ \A q \in Paras : q # p => para'[q] = para[q] /\ nextBlock'[q] = nextBlock[q]
      /\ relay' = relay /\ parachains' = parachains /\ collations' = collations
      /\ nextImport' = nextImport /\ paraImports' = paraImports
  BY <1>2, ParaBuildEffect DEF EvolveParaBuild, relayVars
<1>5. /\ Latest(para'[p]) = Latest(para[p])
      /\ Registered' = Registered /\ Heads(relay') = Heads(relay)
  BY <1>4 DEF Latest, Registered, Heads
<1>6. /\ Len(relay.canon) \in Nat /\ Heads(relay)[p] # None
      /\ Latest(para[p]).root.at < Len(relay.canon) - 1
  BY <1>3, RelayRootParts DEF Running
<1>7. Built(p)'
  BY <1>3, <1>4, <1>5, <1>6 DEF HeadSet, Untouched, Built, Follows
<1>8. Stage(p)'
  BY <1>1, <1>3, <1>4, <1>7, TurnStartStays DEF Stage
<1> QED
  BY <1>1, <1>2, <1>3, <1>4, <1>5, <1>6, <1>8, TurnStays

\* The first import enacts nothing and keeps the heads; then the block of the
\* parachain is the only one that is pending.
LEMMA FirstImport ==
  ASSUME Inv, AtOne, Progress, pc = "relayImport1", RelayImported, ForceEnactAll,
         NEW p \in Paras, p = Current
  PROVE  /\ Running /\ InTurn /\ Built(p)
         /\ Len(relay.canon) = TurnStart
         /\ Len(relay'.canon) = Len(relay.canon) + 1
         /\ Heads(relay') = Heads(relay)
         /\ Registered' = Registered
         /\ nextBlock' = nextBlock /\ nextImport' = nextImport
         /\ \A q \in Paras : q # p => nextBlock[q] = None
<1>1. pc \in Turns
  BY DEF Turns
<1>2. /\ Running /\ InTurn /\ Built(p) /\ collations = << >>
      /\ Len(relay.canon) = TurnStart + 0 /\ TurnStart \in Int
  BY <1>1, TurnFacts DEF Stage
<1>3. \A q \in Paras : q # p => nextBlock[q] = None
  BY <1>2 DEF InTurn, Settled, Untouched
<1> QED
  BY <1>2, <1>3, ImportEffectNone

\* import_block of the first relay block, which collects the block.
LEMMA EvolveRelayImport1Progress ==
  ASSUME Inv, AtOne, Progress, EvolveRelayImport1
  PROVE  Progress'
<1>1. /\ pc = "relayImport1" /\ pc' = "relayBuild2" /\ at' = at /\ evolves' = evolves
      /\ pc \in Turns /\ pc' \in Turns
  BY DEF EvolveRelayImport1, Goto, Turns
<1>2. /\ RelayImported /\ ForceEnactAll
      /\ collations' = CollectFirst(Len(parachains), nextBlock')
      /\ parachains' = parachains /\ para' = para /\ paraImports' = paraImports
  BY DEF EvolveRelayImport1, RelayImportBlock
<1>3. PICK p \in Paras : p = Current
  BY <1>1, TurnFacts
<1>4. /\ Running /\ InTurn /\ Built(p)
      /\ Len(relay.canon) = TurnStart
      /\ Len(relay'.canon) = Len(relay.canon) + 1
      /\ Heads(relay') = Heads(relay)
      /\ Registered' = Registered
      /\ nextBlock' = nextBlock /\ nextImport' = nextImport
      /\ \A q \in Paras : q # p => nextBlock[q] = None
  BY <1>1, <1>2, <1>3, FirstImport
<1>5. collations' = << [id |-> p, head |-> nextBlock[p].block] >>
  <2>1. parachains \in Seq(Paras) /\ nextBlock \in [Paras -> Builds \cup {None}]
    BY DEF Inv, TypeOK
  <2>2. nextBlock[p] # None
    BY <1>4 DEF Built
  <2>3. at \in 1..Len(parachains) /\ parachains[at] = p
    BY <1>1, <1>3, <1>4, TurnFacts DEF Running, Current
  <2> QED
    BY <1>2, <1>4, <2>1, <2>2, <2>3, CollectOne
<1>6. /\ Len(relay.canon) \in Nat /\ Heads(relay)[p] # None
  BY <1>4, RelayRootParts DEF Running
<1>7. Built(p)'
  <2>1. nextBlock[p].block.root.at \in Int
    <3>1. nextBlock[p] \in Builds
      BY <1>4 DEF Inv, TypeOK, Built
    <3> QED
      BY <3>1 DEF Builds, ParaBlocks, BlocksOf, ParaRoots
  <2> QED
    BY <1>2, <1>4, <1>6, <2>1 DEF Built, Follows
<1>8. Stage(p)'
  BY <1>1, <1>4, <1>5, <1>7, TurnStartStays DEF Stage
<1>9. Len(relay'.canon) \in Nat /\ Len(relay.canon) <= Len(relay'.canon)
  BY <1>4, <1>6
<1> QED
  BY <1>1, <1>2, <1>3, <1>4, <1>6, <1>8, <1>9, TurnStays

\* The second import enacts and approves the block; nothing is pending then.
LEMMA SecondImport ==
  ASSUME Inv, AtOne, Progress, pc = "relayImport2", RelayImported, ForceEnactAll,
         NEW p \in Paras, p = Current
  PROVE  /\ Running /\ InTurn /\ Built(p)
         /\ Len(relay.canon) = TurnStart + 1
         /\ Len(relay'.canon) = Len(relay.canon) + 1
         /\ Heads(relay') = [Heads(relay) EXCEPT ![p] = nextBlock[p].block]
         /\ Registered' = Registered
         /\ nextBlock' = [nextBlock EXCEPT ![p] = None]
         /\ nextImport' = [nextImport EXCEPT ![p] = nextBlock[p]]
         /\ \A q \in Paras : nextBlock'[q] = None
         /\ nextBlock[p].block \in ParaBlocks
<1>1. pc \in Turns
  BY DEF Turns
<1>2. /\ Running /\ InTurn /\ Built(p)
      /\ collations = << [id |-> p, head |-> nextBlock[p].block] >>
      /\ Len(relay.canon) = TurnStart + 1
  BY <1>1, TurnFacts DEF Stage
<1>3. nextBlock[p].block \in ParaBlocks /\ nextBlock \in [Paras -> Builds \cup {None}]
  <2>1. nextBlock[p] \in Builds
    BY <1>2 DEF Inv, TypeOK, Built
  <2> QED
    BY <2>1 DEF Builds, Inv, TypeOK
<1>4. \A q \in Paras : q # p => nextBlock[q] = None
  BY <1>2 DEF InTurn, Settled, Untouched
<1>5. /\ Len(relay'.canon) = Len(relay.canon) + 1
      /\ Heads(relay') = [Heads(relay) EXCEPT ![p] = nextBlock[p].block]
      /\ Registered' = Registered
      /\ nextBlock' = [nextBlock EXCEPT ![p] = None]
      /\ nextImport' = [nextImport EXCEPT ![p] = nextBlock[p]]
  BY <1>2, <1>3, ImportEffectOne
<1>6. \A q \in Paras : nextBlock'[q] = None
  BY <1>3, <1>4, <1>5
<1> QED
  BY <1>2, <1>3, <1>5, <1>6

\* import_block of the second relay block.
LEMMA EvolveRelayImport2Progress ==
  ASSUME Inv, AtOne, Progress, EvolveRelayImport2
  PROVE  Progress'
<1>1. /\ pc = "relayImport2" /\ pc' = "paraImport" /\ at' = at /\ evolves' = evolves
      /\ pc \in Turns /\ pc' \in Turns
  BY DEF EvolveRelayImport2, Goto, Turns
<1>2. /\ RelayImported /\ ForceEnactAll
      /\ collations' = CollectFirst(Len(parachains), nextBlock')
      /\ parachains' = parachains /\ para' = para /\ paraImports' = paraImports
  BY DEF EvolveRelayImport2, RelayImportBlock
<1>3. PICK p \in Paras : p = Current
  BY <1>1, TurnFacts
<1>4. /\ Running /\ InTurn /\ Built(p)
      /\ Len(relay.canon) = TurnStart + 1
      /\ Len(relay'.canon) = Len(relay.canon) + 1
      /\ Heads(relay') = [Heads(relay) EXCEPT ![p] = nextBlock[p].block]
      /\ Registered' = Registered
      /\ nextBlock' = [nextBlock EXCEPT ![p] = None]
      /\ nextImport' = [nextImport EXCEPT ![p] = nextBlock[p]]
      /\ \A q \in Paras : nextBlock'[q] = None
      /\ nextBlock[p].block \in ParaBlocks
  BY <1>1, <1>2, <1>3, SecondImport
<1>5. /\ Heads(relay')[p] = nextBlock[p].block /\ nextBlock[p].block # None
      /\ \A q \in Paras : q # p => Heads(relay')[q] = Heads(relay)[q]
  BY <1>4, RelayRootParts, NoneAssumption
<1>6. /\ nextImport'[p] = nextBlock[p]
      /\ \A q \in Paras : q # p => /\ nextImport'[q] = nextImport[q]
                                   /\ nextBlock'[q] = nextBlock[q]
  BY <1>4 DEF Inv, TypeOK
<1>7. collations' = << >>
  <2>1. parachains \in Seq(Paras) /\ nextBlock' \in [Paras -> Builds \cup {None}]
        /\ Len(parachains) \in 0..Len(parachains)
    BY <1>4 DEF Inv, TypeOK
  <2> QED
    BY <1>2, <1>4, <2>1, CollectNothing
<1>8. /\ Len(relay.canon) \in Nat /\ TurnStart \in Int
      /\ Len(relay'.canon) \in Nat /\ Len(relay.canon) <= Len(relay'.canon)
      /\ Len(relay'.canon) = TurnStart + 2
  BY <1>1, <1>4, RelayRootParts, TurnFacts
<1>9. Enactment(p)'
  <2>1. nextBlock[p].block.root.at \in Int
    BY <1>4 DEF ParaBlocks, BlocksOf, ParaRoots
  <2>2. /\ nextBlock[p] # None
        /\ Follows(p, nextBlock[p].block)
        /\ nextBlock[p].block.root.at <= Len(relay.canon) - 1
    BY <1>4 DEF Built
  <2>3. nextBlock[p].block.root.at < Len(relay'.canon) - 1
    BY <1>4, <1>8, <2>1, <2>2
  <2> QED
    BY <1>2, <1>4, <1>5, <1>6, <2>2, <2>3 DEF Enactment, Follows
<1>10. Stage(p)'
  BY <1>1, <1>7, <1>8, <1>9, TurnStartStays DEF Stage
<1> QED
  BY <1>1, <1>2, <1>3, <1>4, <1>5, <1>6, <1>8, <1>10, TurnStays

\* evolve does not fail: the block can be collated, enacted, approved and
\* imported.
LEMMA EvolveErrImpossible ==
  ASSUME Faults = {}, Inv, AtOne, Progress, ApprovalCannotFail, EvolveErr
  PROVE  FALSE
<1>1. CASE pc \in {"relayImport1", "relayImport2"} /\ RelayImportFails
  <2>1. pc \in Turns
    BY <1>1 DEF Turns
  <2>2. PICK p \in Paras : p = Current
    BY <2>1, TurnFacts
  <2>3. PICK n \in 1..Len(parachains) : RelayImportCollectErr(n)
    BY <1>1 DEF RelayImportFails, RelayImportJudgeErr, RelayImportEnactErr, RelayImportErr,
                ApprovalCannotFail
  <2>4. RelayImported /\ ForceEnactAll /\ CollectFails(relay', nextBlock', n) /\ para' = para
    BY <2>3 DEF RelayImportCollectErr
  <2> DEFINE q == parachains[n]
  <2>5. q \in Paras
    BY DEF Inv, TypeOK
  <2>6. CASE pc = "relayImport1"
    <3>1. /\ Running /\ Built(p)
          /\ Heads(relay') = Heads(relay) /\ nextBlock' = nextBlock
          /\ \A r \in Paras : r # p => nextBlock[r] = None
      BY <2>2, <2>4, <2>6, FirstImport
    <3>2. Heads(relay')[q] # None
      BY <2>5, <3>1 DEF Running
    <3>3. nextBlock'[q] # None => q = p
      BY <2>5, <3>1
    <3>4. /\ nextBlock[p].proof = Heads(relay')[p].root
          /\ nextBlock[p].block \in para[p].side
      BY <3>1 DEF Built
    <3> QED
      BY <2>4, <3>1, <3>2, <3>3, <3>4 DEF CollectFails, HasValidationData, Collatable
  <2>7. CASE pc = "relayImport2"
    <3>1. /\ Running
          /\ Heads(relay') = [Heads(relay) EXCEPT ![p] = nextBlock[p].block]
          /\ \A r \in Paras : nextBlock'[r] = None
          /\ nextBlock[p].block \in ParaBlocks
      BY <2>2, <2>4, <2>7, SecondImport
    <3>2. Heads(relay')[q] # None
      BY <2>5, <3>1, RelayRootParts, NoneAssumption DEF Running
    <3>3. nextBlock'[q] = None
      BY <2>5, <3>1
    <3> QED
      BY <2>4, <3>2, <3>3 DEF CollectFails, HasValidationData
  <2> QED
    BY <1>1, <2>6, <2>7
<1>2. CASE pc = "paraImport" /\ ImportResult(para[Current], nextImport[Current].block) = "Error"
  <2>1. Enactment(Current)
    BY <1>2, TurnFacts DEF Turns, Stage
  <2>2. nextImport[Current].block.parent = Latest(para[Current]).hash
    BY <2>1 DEF Enactment, Follows
  <2> QED
    BY <1>2, <2>2 DEF ImportResult
<1> QED
  BY <1>1, <1>2 DEF EvolveErr, RelayWithMutStateErr

\* evolve is called.
LEMMA EvolveStartProgress ==
  ASSUME Inv, Progress, EvolveStart
  PROVE  Progress'
<1>1. /\ pc = "idle" /\ pc' = "update" /\ at' = 1 /\ evolves' = evolves + 1
      /\ UNCHANGED <<relayVars, paraVars>>
  BY DEF EvolveStart, vars
<1>2. Running /\ InIdle
  BY <1>1 DEF Progress, NewLabels
<1>3. /\ relay' = relay /\ parachains' = parachains /\ collations' = collations
      /\ para' = para /\ nextBlock' = nextBlock /\ nextImport' = nextImport
      /\ paraImports' = paraImports
  BY <1>1 DEF relayVars, paraVars
<1>4. Running'
  BY <1>2, <1>3 DEF Running, Registered
<1>5. \A q \in Paras : Settled(q)' /\ Len(para'[q].canon) = 1 + evolves
  BY <1>2, <1>3 DEF InIdle, Settled, Untouched, HeadAgrees
<1>6. Current' \in Paras
  BY <1>1, OrderFacts DEF Current
<1>7. evolves \in Nat /\ Len(Order) * evolves \in Int
  BY <1>2, OrderFacts DEF InIdle
<1>8. Len(relay'.canon) = TurnStart'
  <2>1. evolves' - 1 = evolves /\ at' - 1 = 0
    BY <1>1, <1>7
  <2>2. TurnStart' = 2 + 2 * (Len(Order) * evolves + 0)
    BY <2>1 DEF TurnStart
  <2>3. Len(relay.canon) = 2 + 2 * (Len(Order) * evolves)
    BY <1>2 DEF InIdle
  <2> QED
    BY <1>3, <1>7, <2>2, <2>3
<1>9. PICK q \in Paras : q = Current'
  BY <1>6
<1>10. Stage(q)'
  <2>1. TurnStart' + 0 = TurnStart'
    BY <1>1, <1>7, <1>8, RelayRootParts, <1>3
  <2> QED
    BY <1>1, <1>2, <1>3, <1>5, <1>8, <2>1 DEF Stage, InIdle
<1>11. InTurn'
  <2>1. evolves' \in Nat \ {0} /\ evolves' = 1 + evolves
    BY <1>1, <1>7
  <2>2. \A j \in 1..Len(Order) :
          Len(para'[Order[j]].canon) = IF j < at' THEN 1 + evolves' ELSE evolves'
    <3> SUFFICES ASSUME NEW j \in 1..Len(Order)
                 PROVE  Len(para'[Order[j]].canon) = IF j < at' THEN 1 + evolves' ELSE evolves'
      OBVIOUS
    <3>1. PICK x \in Paras : x = Order[j]
      BY OrderFacts
    <3>2. Len(para'[x].canon) = evolves'
      BY <1>5, <2>1
    <3>3. ~(j < at')
      BY <1>1
    <3> QED
      BY <3>1, <3>2, <3>3, Zenon
  <2> QED
    BY <1>5, <1>9, <1>10, <2>1, <2>2 DEF InTurn
<1> QED
  BY <1>1, <1>4, <1>11 DEF Progress, Turns, NewLabels

\* What the import of the parachain's block does to the parachains.
LEMMA TurnEnds ==
  ASSUME Inv, AtOne, Progress, EvolveParaImport, NEW p \in Paras, p = Current
  PROVE  /\ Running' /\ InTurn
         /\ \A q \in Paras : Settled(q)'
         /\ Len(para'[p].canon) = 1 + evolves
         /\ \A q \in Paras : q # p => para'[q] = para[q]
         /\ collations' = << >>
         /\ Len(relay'.canon) = TurnStart + 2
<1>1. pc = "paraImport" /\ pc \in Turns
  BY DEF EvolveParaImport, Turns
<1>2. /\ Running /\ InTurn /\ Enactment(p) /\ collations = << >>
      /\ Len(relay.canon) = TurnStart + 2 /\ at \in 1..Len(Order) /\ at \in Nat
      /\ evolves \in Nat
  BY <1>1, TurnFacts DEF Stage
<1>3. nextImport[p] # None /\ ParaImportBlock(p)
  BY <1>2 DEF EvolveParaImport, Enactment
<1>4. Follows(p, nextImport[p].block)
  BY <1>2 DEF Enactment
<1>5. /\ Len(para'[p].canon) = Len(para[p].canon) + 1
      /\ Latest(para'[p]) = nextImport[p].block
      /\ nextImport'[p] = None
      /\ Len(paraImports'[p]) = Len(paraImports[p]) + 1
      /\ \A q \in Paras : q # p => /\ para'[q] = para[q]
                                   /\ nextImport'[q] = nextImport[q]
                                   /\ paraImports'[q] = paraImports[q]
      /\ UNCHANGED <<relayVars, nextBlock>>
  BY <1>3, <1>4, ParaImportEffect DEF Follows
<1>6. /\ relay' = relay /\ parachains' = parachains /\ collations' = collations
      /\ nextBlock' = nextBlock
  BY <1>5 DEF relayVars
<1>7. Len(para[p].canon) = evolves
  <2>1. Len(para[Order[at]].canon) = IF at < at THEN 1 + evolves ELSE evolves
    BY <1>2 DEF InTurn
  <2> QED
    BY <1>2, <2>1 DEF Current
<1>8. Len(para'[p].canon) = 1 + evolves
  BY <1>2, <1>5, <1>7
<1>9. ASSUME NEW q \in Paras
      PROVE  Settled(q)'
  <2>1. CASE q = p
    <3>1. /\ Heads(relay')[p] = Latest(para'[p]) /\ Heads(relay')[p] # None
          /\ nextBlock'[p] = None
      BY <1>2, <1>5, <1>6 DEF Enactment, Running
    <3> QED
      BY <1>5, <2>1, <3>1 DEF Settled, Untouched, HeadAgrees
  <2>2. CASE q # p
    <3>1. Settled(q)
      BY <1>2, <2>2 DEF InTurn
    <3> QED
      BY <1>5, <1>6, <2>2, <3>1, StaysSettled
  <2> QED
    BY <2>1, <2>2
<1>10. Running'
  <2>1. ASSUME NEW q \in Paras
        PROVE  /\ q \in Registered' /\ Heads(relay')[q] # None
               /\ Latest(para'[q]).root.at < Len(relay'.canon) - 1
               /\ Len(para'[q].canon) = Len(paraImports'[q]) + 1
    <3>1. q \in Registered' /\ Heads(relay')[q] # None
      BY <1>2, <1>6 DEF Running, Registered
    <3>2. Latest(para[q]).root.at < Len(relay.canon) - 1
      BY <1>2 DEF Running
    <3>3. nextImport[p].block.root.at < Len(relay.canon) - 1
      BY <1>2 DEF Enactment
    <3>4. Latest(para'[q]).root.at < Len(relay'.canon) - 1
      BY <1>5, <1>6, <3>2, <3>3
    <3>5. Len(para[q].canon) = Len(paraImports[q]) + 1
      BY <1>2 DEF Running
    <3> QED
      BY <1>5, <3>1, <3>4, <3>5
  <2> QED
    BY <1>2, <1>6, <2>1 DEF Running
<1> QED
  BY <1>2, <1>5, <1>6, <1>8, <1>9, <1>10

\* import_block of the parachain, which ends its turn or evolve.
LEMMA EvolveParaImportProgress ==
  ASSUME Inv, AtOne, Progress, EvolveParaImport
  PROVE  Progress'
<1>1. pc = "paraImport" /\ pc \in Turns
  BY DEF EvolveParaImport, Turns
<1>2. PICK p \in Paras : p = Current
  BY <1>1, TurnFacts
<1>3. /\ Running' /\ InTurn
      /\ \A q \in Paras : Settled(q)'
      /\ Len(para'[p].canon) = 1 + evolves
      /\ \A q \in Paras : q # p => para'[q] = para[q]
      /\ collations' = << >>
      /\ Len(relay'.canon) = TurnStart + 2
  BY <1>2, TurnEnds
<1>4. /\ evolves' = evolves /\ evolves \in Nat \ {0}
      /\ at \in 1..Len(Order) /\ at \in Nat /\ Order[at] = p /\ Len(Order) \in Nat
  BY <1>1, <1>2, TurnFacts, OrderFacts DEF EvolveParaImport, EvolveAdvance, Current
<1>5. ASSUME NEW j \in 1..Len(Order)
      PROVE  Len(para'[Order[j]].canon) = IF j < at + 1 THEN 1 + evolves ELSE evolves
  <2>1. CASE j = at
    BY <1>3, <1>4, <2>1
  <2>2. CASE j # at
    <3>1. Order[j] \in Paras /\ Order[j] # p
      BY <1>4, <2>2, OrderFacts
    <3>2. Len(para[Order[j]].canon) = IF j < at THEN 1 + evolves ELSE evolves
      BY <1>3 DEF InTurn
    <3>3. j < at + 1 <=> j < at
      BY <1>4, <2>2
    <3> QED
      BY <1>3, <3>1, <3>2, <3>3
  <2> QED
    BY <2>1, <2>2
<1> DEFINE m == Len(Order) * (evolves - 1)
<1>6. m \in Int /\ TurnStart = 2 + 2 * (m + (at - 1)) /\ Len(Order) * evolves = m + Len(Order)
  <2>1. m \in Int /\ Len(Order) * evolves = m + Len(Order)
    BY <1>4
  <2> QED
    BY <2>1 DEF TurnStart
<1> HIDE DEF m
<1>7. CASE at = Len(Order)
  <2>1. pc' = "idle"
    BY <1>7 DEF EvolveParaImport, EvolveAdvance
  <2>2. ASSUME NEW q \in Paras PROVE Len(para'[q].canon) = 1 + evolves
    <3>1. PICK j \in 1..Len(Order) : Order[j] = q
      BY OrderFacts
    <3>2. j < at + 1
      BY <1>4, <1>7
    <3> QED
      BY <1>5, <3>1, <3>2
  <2>3. Len(relay'.canon) = 2 + 2 * (Len(Order) * evolves)
    BY <1>3, <1>4, <1>6, <1>7
  <2>4. InIdle'
    BY <1>3, <1>4, <2>2, <2>3 DEF InIdle
  <2> QED
    BY <1>3, <2>1, <2>4 DEF Progress, Turns, NewLabels
<1>8. CASE at # Len(Order)
  <2>1. pc' = "update" /\ at' = at + 1
    BY <1>8 DEF EvolveParaImport, EvolveAdvance
  <2>2. at' \in 1..Len(Order)
    BY <1>4, <1>8, <2>1
  <2>3. PICK q \in Paras : q = Current'
    BY <2>2, OrderFacts DEF Current
  <2>4. TurnStart' = 2 + 2 * (m + ((at + 1) - 1))
    BY <1>4, <2>1 DEF TurnStart, m
  <2>5. Len(relay'.canon) = TurnStart' + 0
    BY <1>3, <1>4, <1>6, <2>4
  <2>6. Stage(q)'
    BY <1>3, <2>1, <2>5 DEF Stage
  <2>7. InTurn'
    BY <1>3, <1>4, <1>5, <2>1, <2>3, <2>6 DEF InTurn
  <2> QED
    BY <1>3, <2>1, <2>7 DEF Progress, Turns, NewLabels
<1> QED
  BY <1>7, <1>8

-----------------------------------------------------------------------------
\* with_mut_state between calls of evolve.

\* The heads agree with the latest blocks whatever is written to them.
LEMMA MutateProgress ==
  ASSUME Inv, Progress, pc = "idle", UNCHANGED <<pc, evolves>>,
         UNCHANGED <<parachains, collations, nextBlock, nextImport, paraImports>>,
         Len(relay'.canon) = Len(relay.canon), Heads(relay') = Heads(relay),
         Registered' = Registered,
         \A q \in Paras :
           /\ Len(para'[q].canon) = Len(para[q].canon)
           /\ Latest(para'[q]).parent = Latest(para[q]).parent
           /\ Latest(para'[q]).root.of = Latest(para[q]).root.of
           /\ Latest(para'[q]).root.at = Latest(para[q]).root.at
           /\ Latest(para[q]).root.writes \subseteq Latest(para'[q]).root.writes
  PROVE  Progress'
<1>1. Running /\ InIdle
  BY DEF Progress, NewLabels
<1>2. Running'
  BY <1>1 DEF Running
<1>3. ASSUME NEW q \in Paras PROVE Settled(q)'
  <2>1. Settled(q)
    BY <1>1 DEF InIdle
  <2>2. /\ Heads(relay)[q] # None
        /\ Heads(relay)[q].root.of = Latest(para[q]).root.of
        /\ Heads(relay)[q].parent = Latest(para[q]).parent
        /\ Heads(relay)[q].root.writes \subseteq Latest(para[q]).root.writes
    BY <2>1 DEF Settled, HeadAgrees
  <2>3. Heads(relay)[q].root.writes \subseteq Latest(para'[q]).root.writes
    BY <2>2
  <2>4. HeadAgrees(q)'
    BY <2>2, <2>3 DEF HeadAgrees
  <2> QED
    BY <2>1, <2>4 DEF Settled, Untouched
<1>4. InIdle'
  BY <1>1, <1>3 DEF InIdle
<1> QED
  BY <1>2, <1>4 DEF Progress, Turns, NewLabels

\* with_mut_state of the relay chain.
LEMMA MutateRelayProgress ==
  ASSUME Inv, Progress, NEW w \in Writes, MutateRelay(w)
  PROVE  Progress'
<1>1. pc = "idle" /\ pc' = pc /\ evolves' = evolves
  BY DEF MutateRelay
<1>2. /\ Len(relay'.canon) = Len(relay.canon) /\ Heads(relay') = Heads(relay)
      /\ Registered' = Registered
      /\ UNCHANGED <<parachains, collations, paraVars>>
  BY RelayWriteEffect DEF MutateRelay
<1> QED
  BY <1>1, <1>2, MutateProgress DEF paraVars

\* with_mut_state of a parachain.
LEMMA MutateParaProgress ==
  ASSUME Inv, Progress, NEW p \in Paras, NEW w \in Writes, MutatePara(p, w)
  PROVE  Progress'
<1>1. pc = "idle" /\ pc' = pc /\ evolves' = evolves
  BY DEF MutatePara
<1>2. /\ Len(para'[p].canon) = Len(para[p].canon)
      /\ Latest(para'[p]).parent = Latest(para[p]).parent
      /\ Latest(para'[p]).root.of = Latest(para[p]).root.of
      /\ Latest(para'[p]).root.at = Latest(para[p]).root.at
      /\ Latest(para[p]).root.writes \subseteq Latest(para'[p]).root.writes
      /\ \A q \in Paras : q # p => para'[q] = para[q]
      /\ UNCHANGED <<relayVars, nextBlock, nextImport, paraImports>>
  BY ParaWriteEffect DEF MutatePara
<1>3. /\ relay' = relay /\ parachains' = parachains /\ collations' = collations
      /\ Heads(relay') = Heads(relay) /\ Registered' = Registered
  BY <1>2 DEF relayVars, Heads, Registered
<1> QED
  BY <1>1, <1>2, <1>3, MutateProgress

-----------------------------------------------------------------------------
\* The whole of the companion.

\* What holds before new.
LEMMA InitProgress == CompanionInit => Progress
<1> SUFFICES ASSUME CompanionInit PROVE Progress
  OBVIOUS
<1> DEFINE r == [ heads |-> [p \in Paras |-> None],
                  registered |-> {}, pending |-> {}, writes |-> {} ]
           g == [of |-> 1, at |-> 0, writes |-> {}]
<1>1. /\ Init /\ pc = "onboard" /\ at = 1 /\ evolves = 0
      /\ relay = NewChain(r) /\ \A p \in Paras : para[p] = NewChain(g)
      /\ parachains = << >> /\ collations = << >>
      /\ \A p \in Paras : /\ nextBlock[p] = None /\ nextImport[p] = None
                          /\ paraImports[p] = << >>
  BY DEF CompanionInit, Init
<1>2. /\ r \in RelayRoots /\ g \in ParaRoots /\ g.at = 0
      /\ \A p \in Paras : r.heads[p] = None
  BY DEF RelayRoots, ParaRoots
<1> HIDE DEF r, g
<1>3. Len(NewChain(r).canon) = 1 /\ NewChain(r).canon[1].root = r
  BY <1>2, NewChainIntact
<1>7. Len(NewChain(g).canon) = 1 /\ NewChain(g).canon[1].root = g
  BY <1>2, NewChainIntact
<1> HIDE DEF NewChain
<1>4. ASSUME NEW p \in Paras
      PROVE  Len(para[p].canon) = 1 /\ Latest(para[p]).root.at = 0
  <2>1. Latest(NewChain(g)).root = g
    BY <1>7 DEF Latest
  <2> QED
    BY <1>1, <1>2, <1>7, <2>1
<1>5. Onboarded(at - 1)
  <2>1. \A p \in Paras : Heads(relay)[p] = None
    <3>1. Heads(relay) = r.heads
      BY <1>1, <1>3 DEF Heads, Latest
    <3> QED
      BY <1>2, <3>1
  <2>2. at - 1 = 0 /\ Len(parachains) = 0 /\ \A j \in 1..0 : FALSE
    BY <1>1
  <2>3. \A j \in 1..Len(Order) : Heads(relay)[Order[j]] = None
    BY <2>1, OrderFacts
  <2> QED
    BY <2>2, <2>3 DEF Onboarded
<1>6. InNew
  <2>1. Len(relay.canon) = 1 /\ \A p \in Paras : Len(paraImports[p]) = 0
    BY <1>1, <1>3
  <2> QED
    BY <1>1, <1>4, <1>5, <2>1 DEF InNew, Untouched
<1> QED
  BY <1>1, <1>6 DEF Progress, NewLabels, Turns

\* A step that changes nothing.
LEMMA IdleProgress ==
  ASSUME Progress, UNCHANGED companionVars
  PROVE  Progress'
<1>1. /\ relay' = relay /\ parachains' = parachains /\ collations' = collations
      /\ para' = para /\ nextBlock' = nextBlock /\ nextImport' = nextImport
      /\ paraImports' = paraImports /\ pc' = pc /\ at' = at /\ evolves' = evolves
  BY DEF companionVars, relayVars, paraVars
<1> QED
  BY <1>1 DEF Progress, InNew, Running, InTurn, InIdle, Stage, TurnStart, Onboarded, Settled,
              HeadSet, Built, Enactment, Follows, Untouched, HeadAgrees, Registered, Current

\* Everything that is known about a companion whose calls do not fail.
Sound ==
  /\ Inv
  /\ AtOne
  /\ Quiet
  /\ RelayImportsMirror
  /\ ApprovalCannotFail
  /\ Progress

\* The next step of new, evolve and with_mut_state.
LEMMA NextProgress ==
  ASSUME Faults = {}, Sound, [CompanionNext]_companionVars
  PROVE  Progress'
<1> USE DEF Sound
<1>1. CASE UNCHANGED companionVars
  BY <1>1, IdleProgress
<1>2. CASE Build
  BY <1>2, NewOnboardProgress, NewBuildProgress, NewImportProgress DEF Build, NewErr
<1>3. CASE EvolveStart
  BY <1>3, EvolveStartProgress
<1>4. CASE Evolve
  BY <1>4, EvolveUpdateProgress, EvolveRelayBuildProgress, EvolveParaBuildProgress,
     EvolveRelayImport1Progress, EvolveRelayImport2Progress, EvolveParaImportProgress,
     EvolveErrImpossible DEF Evolve
<1>5. CASE Panic
  BY <1>5 DEF Panic, Quiet, PendingOnlyInside
<1>6. CASE MutateErr
  BY <1>6 DEF MutateErr, RelayWithMutStateErr, ParaWithMutStateErr
<1>7. CASE \E w \in Writes : MutateRelay(w)
  BY <1>7, MutateRelayProgress
<1>8. CASE \E p \in Paras, w \in Writes : MutatePara(p, w)
  BY <1>8, MutateParaProgress
<1> QED
  BY <1>1, <1>2, <1>3, <1>4, <1>5, <1>6, <1>7, <1>8 DEF CompanionNext

\* All of it is inductive.
LEMMA NextSound ==
  ASSUME Faults = {}, Sound, [CompanionNext]_companionVars
  PROVE  Sound'
<1>1. Progress'
  BY NextProgress
<1>2. AtOne' /\ Quiet'
  BY NextAtOne, NextQuiet DEF Sound
<1>3. [Next]_vars
  BY StepIsCall DEF Sound
<1>4. Inv' /\ RelayImportsMirror' /\ ApprovalCannotFail'
  BY <1>3, NextInv, NextMirror, NextApprovable DEF Sound
<1> QED
  BY <1>1, <1>2, <1>4 DEF Sound

\* It holds before new.
LEMMA InitSound == CompanionInit => Sound
<1> SUFFICES ASSUME CompanionInit PROVE Sound
  OBVIOUS
<1>1. Init
  BY DEF CompanionInit
<1>2. AtOne
  BY FirstPara DEF CompanionInit, AtOne
<1>3. Quiet
  BY DEF CompanionInit, Init, Quiet, NoPanic, PendingOnlyInside
<1>4. ApprovalCannotFail
  BY <1>1 DEF Init, ApprovalCannotFail
<1> QED
  BY <1>1, <1>2, <1>3, <1>4, InitInv, InitMirror, InitProgress DEF Sound

\* So it always does.
LEMMA SoundAlways ==
  ASSUME Faults = {}
  PROVE  CompanionSpec => []Sound
<1>1. Sound /\ [CompanionNext]_companionVars => Sound'
  BY NextSound
<1> QED
  BY <1>1, InitSound, PTL DEF CompanionSpec

\* expand/mod.rs evolve: with any number of parachains and whatever callers
\* mutate, each call gives every parachain one block and the relay chain two
\* per parachain, and leaves nothing pending.
THEOREM EvolveAdvancesEveryChain ==
  ASSUME Faults = {}
  PROVE  CompanionSpec => []EvolveAdvancesAll
<1>1. Sound => EvolveAdvancesAll
  <2> SUFFICES ASSUME Sound, pc = "idle" PROVE EvolveAdvancesAll
    BY DEF EvolveAdvancesAll
  <2>1. Running /\ InIdle
    BY DEF Sound, Progress, NewLabels
  <2>2. Len(relay.canon) = 2 + 2 * Len(Order) * evolves
    <3>1. evolves \in Nat /\ Len(relay.canon) = 2 + 2 * (Len(Order) * evolves)
      BY <2>1 DEF InIdle
    <3>2. 2 * (Len(Order) * evolves) = 2 * Len(Order) * evolves
      BY <3>1, OrderFacts
    <3> QED
      BY <3>1, <3>2
  <2>3. Len(relayImports) = Len(relay.canon) - 1
    <3>1. Len(relayImports) \in Nat
      BY DEF Sound, Inv, TypeOK
    <3> QED
      BY <3>1 DEF Sound, RelayImportsMirror
  <2>4. relayNext = None
    BY DEF Sound, Quiet, PendingOnlyInside
  <2>5. ASSUME NEW p \in Paras
        PROVE  /\ Len(para[p].canon) = 1 + evolves
               /\ Len(paraImports[p]) = evolves
               /\ HeadAgrees(p)
               /\ nextBlock[p] = None /\ nextImport[p] = None
    <3>1. /\ Len(para[p].canon) = 1 + evolves /\ evolves \in Nat
          /\ Settled(p)
          /\ Len(para[p].canon) = Len(paraImports[p]) + 1
      BY <2>1 DEF InIdle, Running
    <3>2. Len(paraImports[p]) \in Nat
      BY DEF Sound, Inv, TypeOK
    <3> QED
      BY <3>1, <3>2 DEF Settled, Untouched
  <2> QED
    BY <2>1, <2>2, <2>3, <2>4, <2>5 DEF EvolveAdvancesAll, Drained, InIdle
<1> QED
  BY <1>1, SoundAlways, PTL

-----------------------------------------------------------------------------
\* The relay parents.

\* What a step does to the chain of a parachain: nothing, a block is appended
\* that Follows its latest one, or the latest one is mutated.
LEMMA ParaChainStep ==
  ASSUME Faults = {}, Sound, [CompanionNext]_companionVars, NEW p \in Paras
  PROVE  \/ para'[p].canon = para[p].canon
         \/ /\ Len(para'[p].canon) = Len(para[p].canon) + 1
            /\ \A i \in 1..Len(para[p].canon) : para'[p].canon[i] = para[p].canon[i]
            /\ Latest(para[p]).root.at < Latest(para'[p]).root.at
         \/ /\ Len(para'[p].canon) = Len(para[p].canon)
            /\ \A i \in 1..Len(para[p].canon) - 1 : para'[p].canon[i] = para[p].canon[i]
            /\ Latest(para'[p]).root.at = Latest(para[p]).root.at
<1> USE DEF Sound
<1>1. CASE UNCHANGED para
  BY <1>1
<1>2. CASE EvolveParaBuild
  <2>1. PICK q \in Paras : q = Current
    BY CurrentIsPara
  <2>2. /\ para'[q].canon = para[q].canon
        /\ \A x \in Paras : x # q => para'[x] = para[x]
    BY <1>2, <2>1, ParaBuildEffect DEF EvolveParaBuild
  <2> QED
    BY <2>2
<1>3. CASE EvolveParaImport
  <2>1. pc = "paraImport" /\ pc \in Turns
    BY <1>3 DEF EvolveParaImport, Turns
  <2>2. PICK q \in Paras : q = Current
    BY CurrentIsPara
  <2>3. Enactment(q)
    BY <2>1, <2>2, TurnFacts DEF Stage
  <2>4. ParaImportBlock(q) /\ Follows(q, nextImport[q].block)
    BY <1>3, <2>2, <2>3 DEF EvolveParaImport, Enactment
  <2>5. /\ Len(para'[q].canon) = Len(para[q].canon) + 1
        /\ \A i \in 1..Len(para[q].canon) : para'[q].canon[i] = para[q].canon[i]
        /\ Latest(para'[q]) = nextImport[q].block
        /\ \A x \in Paras : x # q => para'[x] = para[x]
    BY <2>4, ParaImportEffect DEF Follows
  <2>6. Latest(para[q]).root.at < Latest(para'[q]).root.at
    BY <2>4, <2>5 DEF Follows
  <2> QED
    BY <2>5, <2>6
<1>4. ASSUME NEW q \in Paras, NEW w \in Writes, MutatePara(q, w)
      PROVE  \/ para'[p] = para[p]
             \/ /\ Len(para'[p].canon) = Len(para[p].canon)
                /\ \A i \in 1..Len(para[p].canon) - 1 : para'[p].canon[i] = para[p].canon[i]
                /\ Latest(para'[p]).root.at = Latest(para[p]).root.at
  <2>1. ParaWithMutState(q, w)
    BY <1>4 DEF MutatePara
  <2>2. /\ Len(para'[q].canon) = Len(para[q].canon)
        /\ \A i \in 1..Len(para[q].canon) - 1 : para'[q].canon[i] = para[q].canon[i]
        /\ Latest(para'[q]).root.at = Latest(para[q]).root.at
        /\ \A x \in Paras : x # q => para'[x] = para[x]
    BY <2>1, ParaWriteEffect
  <2> QED
    BY <2>2
<1>5. CASE UNCHANGED companionVars \/ Build \/ EvolveStart \/ Panic
  BY <1>1, <1>5
     DEF companionVars, Build, NewOnboard, NewBuild, NewImport, NewErr, EvolveStart, Panic, vars,
         paraVars, OnboardPara, RelayBuildBlock, RelayImportBlock
<1>6. CASE \/ EvolveUpdate \/ EvolveRelayBuild1 \/ EvolveRelayImport1
           \/ EvolveRelayBuild2 \/ EvolveRelayImport2
  BY <1>1, <1>6 DEF EvolveUpdate, EvolveRelayBuild1, EvolveRelayImport1, EvolveRelayBuild2,
                    EvolveRelayImport2, paraVars, UpdateParaHead, RelayBuildBlock,
                    RelayImportBlock
<1>7. CASE EvolveErr
  BY <1>7, EvolveErrImpossible
<1>8. CASE MutateErr
  BY <1>8 DEF MutateErr, RelayWithMutStateErr, ParaWithMutStateErr
<1>9. CASE \E w \in Writes : MutateRelay(w)
  BY <1>1, <1>9 DEF MutateRelay, RelayWithMutState, paraVars
<1> QED
  BY <1>2, <1>3, <1>4, <1>5, <1>6, <1>7, <1>8, <1>9 DEF CompanionNext, Evolve

\* Every step keeps the numbers increasing.
LEMMA NextParents ==
  ASSUME Faults = {}, Sound, RelayParentsAdvance, [CompanionNext]_companionVars
  PROVE  RelayParentsAdvance'
<1> SUFFICES ASSUME NEW p \in Paras, NEW i \in 2..Len(para'[p].canon)
             PROVE  para'[p].canon[i - 1].root.at < para'[p].canon[i].root.at
  BY DEF RelayParentsAdvance
<1> DEFINE old == para[p].canon
           new == para'[p].canon
           n == Len(old)
<1>1. n \in Nat \ {0} /\ i \in Nat /\ i - 1 \in Nat /\ i - 1 >= 1
  BY RelayRootParts DEF Sound
<1>2. \A k \in 2..n : old[k - 1].root.at < old[k].root.at
  BY DEF RelayParentsAdvance
<1>3. \/ new = old
      \/ /\ Len(new) = n + 1
         /\ \A k \in 1..n : new[k] = old[k]
         /\ old[n].root.at < new[Len(new)].root.at
      \/ /\ Len(new) = n
         /\ \A k \in 1..n - 1 : new[k] = old[k]
         /\ new[n].root.at = old[n].root.at
  BY ParaChainStep DEF Latest
<1>4. i \in 2..Len(new)
  OBVIOUS
<1> HIDE DEF old, new
<1>5. CASE new = old
  BY <1>2, <1>4, <1>5 DEF n, new
<1>6. CASE /\ Len(new) = n + 1
           /\ \A k \in 1..n : new[k] = old[k]
           /\ old[n].root.at < new[Len(new)].root.at
  <2>1. CASE i = n + 1
    BY <1>1, <1>6, <2>1 DEF new
  <2>2. CASE i # n + 1
    <3>1. i \in 2..n /\ i \in 1..n /\ i - 1 \in 1..n
      BY <1>1, <1>4, <1>6, <2>2
    <3> QED
      BY <1>2, <1>6, <3>1 DEF new
  <2> QED
    BY <2>1, <2>2
<1>7. CASE /\ Len(new) = n
           /\ \A k \in 1..n - 1 : new[k] = old[k]
           /\ new[n].root.at = old[n].root.at
  <2>1. i \in 2..n /\ i - 1 \in 1..n - 1
    BY <1>1, <1>4, <1>7
  <2>2. new[i - 1] = old[i - 1] /\ new[i].root.at = old[i].root.at
    <3>1. CASE i = n
      BY <1>7, <2>1, <3>1
    <3>2. CASE i # n
      BY <1>1, <1>7, <2>1, <3>2
    <3> QED
      BY <3>1, <3>2
  <2> QED
    BY <1>2, <2>1, <2>2 DEF new
<1> QED
  BY <1>3, <1>5, <1>6, <1>7

\* InherentBuilder::parachain_inherent: along every parachain the relay parent
\* numbers increase, for any number of parachains and calls.
THEOREM RelayParentsIncrease ==
  ASSUME Faults = {}
  PROVE  CompanionSpec => []RelayParentsAdvance
<1>1. CompanionInit => RelayParentsAdvance
  <2>1. CompanionInit => Sound /\ pc = "onboard"
    BY InitSound DEF CompanionInit
  <2>2. Sound /\ pc = "onboard" => \A p \in Paras : Len(para[p].canon) = 1
    BY DEF Sound, Progress, NewLabels, InNew
  <2> QED
    BY <2>1, <2>2 DEF RelayParentsAdvance
<1>2. Sound /\ RelayParentsAdvance /\ [CompanionNext]_companionVars => RelayParentsAdvance'
  BY NextParents
<1> QED
  BY <1>1, <1>2, SoundAlways, PTL DEF CompanionSpec

-----------------------------------------------------------------------------
\* The approved block.

\* Only the second import of a turn approves a block.
LEMMA NextApprovedEnacted ==
  ASSUME Faults = {}, Sound, [CompanionNext]_companionVars, NEW p \in Paras,
         nextImport'[p] \notin {nextImport[p], None}
  PROVE  /\ Heads(relay')[p] = nextImport'[p].block
         /\ Heads(relay')[p].parent = Heads(relay)[p].hash
<1> USE DEF Sound
<1>1. CASE UNCHANGED nextImport
  BY <1>1
<1>2. CASE EvolveRelayImport2
  <2>1. PICK q \in Paras : q = Current
    BY CurrentIsPara
  <2>2. pc = "relayImport2" /\ RelayImported /\ ForceEnactAll
    BY <1>2 DEF EvolveRelayImport2, RelayImportBlock
  <2>3. /\ Built(q)
        /\ Heads(relay') = [Heads(relay) EXCEPT ![q] = nextBlock[q].block]
        /\ nextImport' = [nextImport EXCEPT ![q] = nextBlock[q]]
    BY <2>1, <2>2, SecondImport
  <2>4. p = q /\ nextImport'[p] = nextBlock[p] /\ Heads(relay')[p] = nextBlock[p].block
    BY <2>3, RelayRootParts DEF Inv, TypeOK
  <2>5. nextBlock[p].block.parent = Heads(relay)[p].hash
    BY <2>3, <2>4 DEF Built, Follows
  <2> QED
    BY <2>4, <2>5
<1>3. CASE NewImport
  <2>1. collations = << >>
    BY <1>3 DEF NewImport, Progress, NewLabels, InNew
  <2>2. nextImport' = nextImport
    BY <1>3, <2>1, ImportEffectNone DEF NewImport, RelayImportBlock
  <2> QED
    BY <1>1, <2>2
<1>4. CASE EvolveRelayImport1
  <2>1. pc = "relayImport1" /\ RelayImported /\ ForceEnactAll
    BY <1>4 DEF EvolveRelayImport1, RelayImportBlock
  <2>2. nextImport' = nextImport
    BY <2>1, CurrentIsPara, FirstImport
  <2> QED
    BY <1>1, <2>2
<1>5. CASE EvolveParaImport
  <2>1. nextImport' = nextImport \/ nextImport' = [nextImport EXCEPT ![Current] = None]
    BY <1>5 DEF EvolveParaImport, ParaImportBlock, vars, paraVars
  <2>2. nextImport'[p] \in {nextImport[p], None}
    BY <2>1 DEF Inv, TypeOK
  <2> QED
    BY <2>2
<1>6. CASE EvolveErr
  BY <1>6, EvolveErrImpossible
<1>7. CASE MutateErr
  BY <1>7 DEF MutateErr, RelayWithMutStateErr, ParaWithMutStateErr
<1>8. CASE UNCHANGED companionVars \/ NewOnboard \/ NewBuild \/ NewErr \/ EvolveStart \/ Panic
  BY <1>1, <1>8 DEF companionVars, NewOnboard, NewBuild, NewErr, EvolveStart, Panic, vars,
                    paraVars, OnboardPara, RelayBuildBlock
<1>9. CASE EvolveUpdate \/ EvolveRelayBuild1 \/ EvolveParaBuild \/ EvolveRelayBuild2
  BY <1>1, <1>9 DEF EvolveUpdate, EvolveRelayBuild1, EvolveParaBuild, EvolveRelayBuild2,
                    paraVars, UpdateParaHead, RelayBuildBlock, ParaBuildBlock
<1>10. CASE (\E w \in Writes : MutateRelay(w)) \/ \E q \in Paras, w \in Writes : MutatePara(q, w)
  BY <1>1, <1>10 DEF MutateRelay, MutatePara, RelayWithMutState, ParaWithMutState, paraVars
<1> QED
  BY <1>2, <1>3, <1>4, <1>5, <1>6, <1>7, <1>8, <1>9, <1>10 DEF CompanionNext, Build, Evolve

\* relay_chain.rs force_enact_collations under evolve: what is approved is
\* what is enacted, and a child of the head that the relay chain had stored.
THEOREM ApprovedBlockIsEnacted ==
  ASSUME Faults = {}
  PROVE  CompanionSpec => ApprovedIsEnacted
<1>1. Sound /\ [CompanionNext]_companionVars =>
        [ \A p \in Paras :
            nextImport'[p] \notin {nextImport[p], None} =>
              /\ Heads(relay')[p] = nextImport'[p].block
              /\ Heads(relay')[p].parent = Heads(relay)[p].hash ]_companionVars
  BY NextApprovedEnacted
<1> QED
  BY <1>1, SoundAlways, PTL DEF CompanionSpec, ApprovedIsEnacted

-----------------------------------------------------------------------------
(***************************************************************************)
(* The companion implements the safety part of HeadSync.  onboard_para     *)
(* registers a parachain, the second import of a turn enacts, the import   *)
(* of the parachain follows, and every other step is a stutter: a head     *)
(* that update_para_head refreshes after a mutation names the same block.  *)
(***************************************************************************)
\* The line stays the same as long as blocks are only mutated.
LEMMA LineStays ==
  ASSUME \A p \in Paras :
           /\ Len(para'[p].canon) = Len(para[p].canon)
           /\ \A i \in 1..Len(para[p].canon) :
                para'[p].canon[i].root.of = para[p].canon[i].root.of
  PROVE  Line' = Line
BY DEF Line

\* The same when no chain changes.
LEMMA LineStaysSame ==
  ASSUME \A p \in Paras : para'[p].canon = para[p].canon
  PROVE  Line' = Line
BY LineStays

\* So does what the relay chain has seen, when its heads only change in what was
\* written to them.
LEMMA SeenStays ==
  ASSUME \A p \in Paras :
           \/ Heads(relay')[p] = Heads(relay)[p]
           \/ /\ Heads(relay)[p] # None /\ Heads(relay')[p] # None
              /\ Heads(relay')[p].root.of = Heads(relay)[p].root.of
  PROVE  Seen' = Seen
BY DEF Seen

\* The last block of a line.
LEMMA LineFacts ==
  ASSUME Inv, NEW p \in Paras
  PROVE  /\ Len(Line[p]) = Len(para[p].canon) /\ Len(Line[p]) \in Nat \ {0}
         /\ \A i \in 1..Len(para[p].canon) : Line[p][i] = para[p].canon[i].root.of
         /\ Sync!Tip(p) = Latest(para[p]).root.of
<1>1. Len(para[p].canon) \in Nat \ {0}
  BY RelayRootParts
<1>2. Line[p] = [i \in 1..Len(para[p].canon) |-> para[p].canon[i].root.of]
  BY DEF Line
<1>3. Len(Line[p]) = Len(para[p].canon)
  BY <1>1, <1>2
<1> QED
  BY <1>1, <1>2, <1>3 DEF Sync!Tip, Latest

\* new registers a parachain.
LEMMA OnboardSyncs ==
  ASSUME Sound, NewOnboard
  PROVE  Sync!Next
<1> USE DEF Sound
<1>1. PICK p \in Paras : p = Current
  BY CurrentIsPara
<1>2. /\ Heads(relay') = [Heads(relay) EXCEPT ![p] = Latest(para[p])]
      /\ para' = para
  BY <1>1, OnboardEffect DEF NewOnboard, paraVars
<1>3. Heads(relay)[p] = None
  <2>1. Onboarded(at - 1) /\ at \in 1..Len(Order) /\ at - 1 < at
    BY OrderFacts DEF NewOnboard, Progress, NewLabels, InNew, AtOne
  <2> QED
    BY <1>1, <2>1 DEF Onboarded, Current
<1>4. Line' = Line
  BY <1>2, LineStaysSame
<1>5. /\ Seen[p] = 0 /\ Seen' = [Seen EXCEPT ![p] = Latest(para[p]).root.of]
  <2>1. Heads(relay) \in [Paras -> ParaBlocks \cup {None}] /\ Latest(para[p]) # None
    BY RelayRootParts
  <2> QED
    BY <1>2, <1>3, <2>1 DEF Seen
<1>6. Sync!Register(p)
  BY <1>4, <1>5, LineFacts DEF Sync!Register
<1> QED
  BY <1>6 DEF Sync!Next

\* The second import enacts the block.
LEMMA ImportSyncs ==
  ASSUME Sound, EvolveRelayImport2
  PROVE  Sync!Next
<1> USE DEF Sound
<1>1. PICK p \in Paras : p = Current
  BY CurrentIsPara
<1>2. pc = "relayImport2" /\ RelayImported /\ ForceEnactAll /\ para' = para
  BY DEF EvolveRelayImport2, RelayImportBlock
<1>3. /\ Built(p) /\ nextBlock[p].block \in ParaBlocks
      /\ Heads(relay') = [Heads(relay) EXCEPT ![p] = nextBlock[p].block]
  BY <1>1, <1>2, SecondImport
<1> DEFINE b == nextBlock[p].block
<1>4. /\ Heads(relay)[p] = Latest(para[p])
      /\ b.root.of \in 1..MaxParaHash
      /\ \A i \in 1..Len(para[p].canon) : para[p].canon[i].root.of # b.root.of
  BY <1>3 DEF Built, Follows
<1>5. Line' = Line
  BY <1>2, LineStaysSame
<1>6. Seen[p] = Latest(para[p]).root.of /\ Seen' = [Seen EXCEPT ![p] = b.root.of]
  <2>1. /\ Heads(relay) \in [Paras -> ParaBlocks \cup {None}] /\ Latest(para[p]) # None
        /\ b # None
    BY <1>3, RelayRootParts, NoneAssumption
  <2> QED
    BY <1>3, <1>4, <2>1 DEF Seen
<1> HIDE DEF b
<1>7. Sync!Enact(p, b.root.of)
  BY <1>4, <1>5, <1>6, LineFacts DEF Sync!Enact
<1> QED
  BY <1>4, <1>7 DEF Sync!Next

\* What Append does to a sequence that is given by its elements.
LEMMA AppendIs ==
  ASSUME NEW n \in Nat, NEW s, NEW x, s = [i \in 1..n |-> s[i]]
  PROVE  Append(s, x) = [i \in 1..n + 1 |-> IF i = n + 1 THEN x ELSE s[i]]
<1>1. Len(s) = n
  OBVIOUS
<1> QED
  BY <1>1

\* The parachain follows.
LEMMA FollowSyncs ==
  ASSUME Sound, EvolveParaImport
  PROVE  Sync!Next
<1> USE DEF Sound
<1>1. PICK p \in Paras : p = Current
  BY CurrentIsPara
<1>2. pc = "paraImport" /\ pc \in Turns
  BY DEF EvolveParaImport, Turns
<1>3. Enactment(p)
  BY <1>1, <1>2, TurnFacts DEF Stage
<1> DEFINE b == nextImport[p].block
<1>4. ParaImportBlock(p) /\ Follows(p, b) /\ Heads(relay)[p] = b
  BY <1>1, <1>3 DEF EvolveParaImport, Enactment
<1>5. /\ Len(para'[p].canon) = Len(para[p].canon) + 1
      /\ \A i \in 1..Len(para[p].canon) : para'[p].canon[i] = para[p].canon[i]
      /\ Latest(para'[p]) = b
      /\ \A q \in Paras : q # p => para'[q] = para[q]
      /\ relay' = relay
  BY <1>4, ParaImportEffect DEF Follows, relayVars
<1>6. Heads(relay)[p] # None
  BY <1>2, TurnFacts DEF Running
<1>7. Seen' = Seen /\ Seen[p] = b.root.of
  BY <1>4, <1>5, <1>6 DEF Seen, Heads
<1>8. b.root.of \notin {0, Sync!Tip(p)}
  <2>1. Latest(para[p]).root.of # b.root.of
    BY <1>4, RelayRootParts DEF Follows, Latest
  <2> QED
    BY <1>4, <2>1, LineFacts DEF Follows
<1> HIDE DEF b
<1>9. Line' = [Line EXCEPT ![p] = Append(Line[p], b.root.of)]
  <2> DEFINE n == Len(para[p].canon)
             s == Line[p]
             t == [i \in 1..Len(para'[p].canon) |-> para'[p].canon[i].root.of]
  <2>1. n \in Nat \ {0} /\ Len(para'[p].canon) = n + 1 /\ para'[p].canon[n + 1] = b
    BY <1>5, RelayRootParts DEF Latest
  <2>2. s = [i \in 1..n |-> para[p].canon[i].root.of]
    BY DEF Line
  <2>3. \A i \in 1..n + 1 :
          para'[p].canon[i].root.of = IF i = n + 1 THEN b.root.of ELSE para[p].canon[i].root.of
    <3>1. ASSUME NEW i \in 1..n + 1, i # n + 1 PROVE i \in 1..n
      BY <2>1, <3>1
    <3>2. \A i \in 1..n : para'[p].canon[i] = para[p].canon[i]
      BY <1>5
    <3> HIDE DEF n
    <3> QED
      BY <2>1, <3>1, <3>2, Zenon
  <2>4. t = [i \in 1..n + 1 |-> IF i = n + 1 THEN b.root.of ELSE para[p].canon[i].root.of]
    BY <2>1, <2>3
  <2> HIDE DEF n, t
  <2>5. t = Append(s, b.root.of)
    <3>1. Len(s) = n
      BY <2>1, <2>2
    <3>2. Append(s, b.root.of) = [i \in 1..n + 1 |-> IF i = n + 1 THEN b.root.of ELSE s[i]]
      <4>1. n \in Nat /\ s = [i \in 1..n |-> s[i]]
        BY <2>1, <2>2
      <4> HIDE DEF s
      <4> QED
        BY <4>1, AppendIs
    <3> DEFINE x == b.root.of
               old(i) == para[p].canon[i].root.of
    <3>3. \A i \in 1..n : s[i] = old(i)
      BY <2>2
    <3>4. n \in Nat
      BY <2>1
    <3> HIDE DEF s, x, old
    <3>5. [i \in 1..n + 1 |-> IF i = n + 1 THEN x ELSE s[i]]
          = [i \in 1..n + 1 |-> IF i = n + 1 THEN x ELSE old(i)]
      BY <3>3, <3>4
    <3> QED
      BY <2>4, <3>2, <3>5 DEF x, old
  <2>6. Line' = [q \in Paras |-> IF q = p THEN t ELSE Line[q]]
    BY <1>5 DEF Line, t
  <2> QED
    BY <2>5, <2>6 DEF Line
<1>10. Sync!Follow(p)
  BY <1>7, <1>8, <1>9 DEF Sync!Follow
<1> QED
  BY <1>10 DEF Sync!Next

\* The other steps are stutters.
LEMMA OthersStutter ==
  ASSUME Faults = {}, Sound, [CompanionNext]_companionVars,
         ~NewOnboard, ~EvolveRelayImport2, ~EvolveParaImport
  PROVE  Line' = Line /\ Seen' = Seen
<1> USE DEF Sound
<1>1. CASE UNCHANGED <<relay, para>>
  BY <1>1, LineStaysSame, SeenStays
<1>2. CASE RelayBuildBlock
  BY <1>2, RelayBuildEffect, LineStaysSame, SeenStays DEF paraVars
<1>3. CASE NewImport
  <2>1. collations = << >>
    BY <1>3 DEF NewImport, Progress, NewLabels, InNew
  <2>2. para' = para /\ Heads(relay') = Heads(relay)
    BY <1>3, <2>1, ImportEffectNone DEF NewImport, RelayImportBlock
  <2> QED
    BY <2>2, LineStaysSame, SeenStays
<1>4. CASE EvolveUpdate
  <2>1. PICK p \in Paras : p = Current
    BY CurrentIsPara
  <2>2. /\ Heads(relay') = [Heads(relay) EXCEPT ![p] = Latest(para[p])]
        /\ para' = para
    BY <1>4, <2>1, UpdateEffect DEF EvolveUpdate, paraVars
  <2>3. HeadAgrees(p)
    BY <1>4, <2>1, TurnFacts DEF EvolveUpdate, Turns, Stage, Settled
  <2>4. /\ Heads(relay) \in [Paras -> ParaBlocks \cup {None}] /\ Latest(para[p]) # None
        /\ Heads(relay)[p] # None /\ Heads(relay)[p].root.of = Latest(para[p]).root.of
    BY <2>3, RelayRootParts DEF HeadAgrees
  <2>5. \A q \in Paras :
          \/ Heads(relay')[q] = Heads(relay)[q]
          \/ /\ Heads(relay)[q] # None /\ Heads(relay')[q] # None
             /\ Heads(relay')[q].root.of = Heads(relay)[q].root.of
    BY <2>2, <2>4
  <2> QED
    BY <2>2, <2>5, LineStaysSame, SeenStays
<1>5. CASE EvolveParaBuild
  <2>1. PICK p \in Paras : p = Current
    BY CurrentIsPara
  <2>2. /\ para'[p].canon = para[p].canon /\ relay' = relay
        /\ \A q \in Paras : q # p => para'[q] = para[q]
    BY <1>5, <2>1, ParaBuildEffect DEF EvolveParaBuild, relayVars
  <2> QED
    BY <2>2, LineStaysSame, SeenStays
<1>6. CASE EvolveRelayImport1
  <2>1. /\ pc = "relayImport1" /\ RelayImported /\ ForceEnactAll /\ para' = para
    BY <1>6 DEF EvolveRelayImport1, RelayImportBlock
  <2>2. Heads(relay') = Heads(relay)
    BY <2>1, CurrentIsPara, FirstImport
  <2> QED
    BY <2>1, <2>2, LineStaysSame, SeenStays
<1>7. CASE \E w \in Writes : MutateRelay(w)
  <2>1. Heads(relay') = Heads(relay) /\ para' = para
    BY <1>7, RelayWriteEffect DEF MutateRelay, paraVars
  <2> QED
    BY <2>1, LineStaysSame, SeenStays
<1>8. ASSUME NEW p \in Paras, NEW w \in Writes, MutatePara(p, w)
      PROVE  Line' = Line /\ Seen' = Seen
  <2>1. /\ Len(para'[p].canon) = Len(para[p].canon)
        /\ \A i \in 1..Len(para[p].canon) - 1 : para'[p].canon[i] = para[p].canon[i]
        /\ Latest(para'[p]).root.of = Latest(para[p]).root.of
        /\ \A q \in Paras : q # p => para'[q] = para[q]
        /\ relay' = relay
    BY <1>8, ParaWriteEffect DEF MutatePara, relayVars
  <2>2. ASSUME NEW i \in 1..Len(para[p].canon)
        PROVE  para'[p].canon[i].root.of = para[p].canon[i].root.of
    <3>1. Len(para[p].canon) \in Nat \ {0}
      BY RelayRootParts
    <3>2. CASE i = Len(para[p].canon)
      BY <2>1, <3>2 DEF Latest
    <3>3. CASE i # Len(para[p].canon)
      BY <2>1, <3>1, <3>3
    <3> QED
      BY <3>2, <3>3
  <2>3. Line' = Line
    BY <2>1, <2>2, LineStays
  <2> QED
    BY <2>1, <2>3, SeenStays
<1>9. CASE EvolveErr \/ MutateErr
  BY <1>9, EvolveErrImpossible DEF MutateErr, RelayWithMutStateErr, ParaWithMutStateErr
<1>10. CASE UNCHANGED companionVars \/ NewErr \/ EvolveStart \/ Panic
  BY <1>1, <1>10 DEF companionVars, NewErr, EvolveStart, Panic, vars, relayVars, paraVars
<1>11. CASE NewBuild \/ EvolveRelayBuild1 \/ EvolveRelayBuild2
  BY <1>2, <1>11 DEF NewBuild, EvolveRelayBuild1, EvolveRelayBuild2
<1> QED
  BY <1>3, <1>4, <1>5, <1>6, <1>7, <1>8, <1>9, <1>10, <1>11 DEF CompanionNext, Build, Evolve

\* Before new, each parachain has its first block and the relay chain knows
\* none.
LEMMA InitSyncs == CompanionInit => Sync!Init
<1> SUFFICES ASSUME CompanionInit PROVE Sync!Init
  OBVIOUS
<1>1. Sound /\ pc = "onboard" /\ at = 1
  BY InitSound DEF CompanionInit
<1>2. InNew /\ Onboarded(0)
  BY <1>1 DEF Sound, Progress, NewLabels, InNew
<1>3. \A p \in Paras : Heads(relay)[p] = None
  <2>1. \A j \in 1..Len(Order) : 0 < j
    BY OrderFacts
  <2>2. \A j \in 1..Len(Order) : Heads(relay)[Order[j]] = None
    BY <1>2, <2>1 DEF Onboarded
  <2>3. ASSUME NEW p \in Paras PROVE Heads(relay)[p] = None
    <3>1. PICK j \in 1..Len(Order) : Order[j] = p
      BY OrderFacts
    <3> QED
      BY <2>2, <3>1
  <2> QED
    BY <2>3
<1>4. \A p \in Paras : Line[p] = <<1>>
  <2> DEFINE g == [of |-> 1, at |-> 0, writes |-> {}]
  <2>1. \A p \in Paras : para[p] = NewChain(g)
    BY DEF CompanionInit, Init
  <2>2. g \in ParaRoots /\ g.of = 1
    BY DEF ParaRoots
  <2> HIDE DEF g
  <2>3. ASSUME NEW p \in Paras PROVE Line[p] = <<1>>
    <3>1. Len(para[p].canon) = 1 /\ para[p].canon[1].root = g
      BY <2>1, <2>2, NewChainIntact
    <3>2. Line[p] = [i \in 1..1 |-> para[p].canon[i].root.of]
      BY <3>1 DEF Line
    <3>3. \A i \in 1..1 : para[p].canon[i].root.of = 1
      BY <2>2, <3>1
    <3>4. Line[p] = [i \in 1..1 |-> 1]
      BY <3>2, <3>3
    <3> QED
      BY <3>4
  <2> QED
    BY <2>3
<1>5. Line = [p \in Paras |-> <<1>>]
  BY <1>4 DEF Line
<1>6. Seen = [p \in Paras |-> 0]
  BY <1>3 DEF Seen
<1> QED
  BY <1>5, <1>6 DEF Sync!Init

\* expand/mod.rs evolve: for any parachains, any number of calls and any
\* mutations between them, a parachain imports exactly the blocks that the relay
\* chain enacted, one by one and in their order.
THEOREM CompanionKeepsSync ==
  ASSUME Faults = {}
  PROVE  CompanionSpec => Sync!Safety
<1>1. Sound /\ [CompanionNext]_companionVars => [Sync!Next]_<<Line, Seen>>
  BY OnboardSyncs, ImportSyncs, FollowSyncs, OthersStutter
<1> QED
  BY <1>1, InitSyncs, SoundAlways, PTL DEF CompanionSpec, Sync!Safety

-----------------------------------------------------------------------------
(***************************************************************************)
(* TwoEvolvesHeal, whatever fails.  A call of evolve that returns Ok makes *)
(* order turn by turn.  The first turn after an Err may enact what the Err *)
(* left and approve another block for it, but it collects all that is      *)
(* pending and approves it, so that the next turn starts with no collation *)
(* and no pending block: from then on, a turn ends with its parachain      *)
(* settled.  The first parachain is settled by the second call.            *)
(***************************************************************************)
\* new onboards the parachains in order.
Enrolled ==
  /\ pc = "onboard" => /\ Len(parachains) = at - 1
                       /\ \A j \in 1..at - 1 : parachains[j] = Order[j]
  /\ pc \notin {"onboard", "dropped"} => parachains = Order

\* Nothing is pending and nothing collated.
Tidy == collations = << >> /\ \A q \in Paras : nextBlock[q] = None

\* The first turn since the last Err.
Recovering == clean = 0 /\ at = 1

\* Parachain number j has had a turn since then that was not the first.
Healed(j) == IF clean = 0 THEN 1 < j /\ j < at ELSE clean = 2 \/ 1 < j \/ j < at

\* Every pending block is collated.
Covered ==
  \A q \in Paras : nextBlock[q] # None => \E i \in 1..Len(collations) : collations[i].id = q

\* A child of the latest block of p is the only block that is pending.
Awaits(p) ==
  /\ nextBlock[p] # None
  /\ nextBlock[p].block.parent = Latest(para[p]).hash
  /\ \A q \in Paras : q # p => nextBlock[q] = None

\* The relay chain has enacted the block that p may import.
Approved(p) ==
  /\ nextImport[p] # None
  /\ Heads(relay)[p] = nextImport[p].block
  /\ nextImport[p].block.parent = Latest(para[p]).hash

\* How far the turn of p is.
Mend(p) ==
  IF Recovering
  THEN /\ pc \in {"relayBuild2", "relayImport2"} => Covered
       /\ pc = "paraImport" => Tidy
  ELSE /\ pc \in {"update", "relayBuild1", "paraBuild"} => Tidy
       /\ pc \in {"relayImport1", "relayBuild2", "relayImport2"} => Awaits(p)
       /\ pc = "relayImport1" => collations = << >>
       /\ pc \in {"relayBuild2", "relayImport2"} =>
            collations = << [id |-> p, head |-> nextBlock[p].block] >>
       /\ pc = "paraImport" => Tidy /\ Approved(p)

\* A relay block is pending between its build and its import, or since an Err.
PendingOrFailed ==
  relayNext # None =>
    \/ pc \in {"newImport", "paraBuild", "relayImport1", "relayImport2", "panicked", "dropped"}
    \/ Recovering /\ pc \in {"idle", "update"}

\* The inductive invariant: what evolve has put in order since the last Err.
Healing ==
  /\ clean \in 0..2
  /\ pc \in {"newBuild", "newImport", "idle"} => at = 1
  /\ pc \in NewLabels => clean = 0
  /\ PendingOrFailed
  /\ pc = "idle" =>
       /\ clean # 0 => Tidy
       /\ \A j \in 1..Len(Order) : Healed(j) => Settled(Order[j])
  /\ pc \in Turns =>
       /\ \A j \in 1..Len(Order) : Healed(j) /\ j # at => Settled(Order[j])
       /\ Mend(Current)

\* collect_collations covers what is pending.
LEMMA CollectCovers ==
  ASSUME parachains \in Seq(Paras), NEW pending \in [Paras -> Builds \cup {None}],
         NEW m \in 1..Len(parachains), pending[parachains[m]] # None
  PROVE  LET s == CollectFirst(Len(parachains), pending)
         IN  \E i \in 1..Len(s) : s[i].id = parachains[m]
<1> DEFINE n == Len(parachains)
           p == parachains[m]
           Has(s) == \E i \in 1..Len(s) : s[i].id = p
<1>1. PICK f \in [0..n -> Seq(Collations)] :
           /\ f[0] = << >>
           /\ \A i \in 1..n : f[i] = CollectStep(f[i - 1], i, pending)
           /\ CollectFirst(n, pending) = f[n]
  <2>1. n \in 0..n
    OBVIOUS
  <2> QED
    BY <2>1, CollectSteps
<1> DEFINE S == { k \in Nat : m <= k /\ k <= n => Has(f[k]) }
<1>2. m \in Nat /\ 1 <= m /\ m <= n /\ n \in Nat /\ p \in Paras
  OBVIOUS
<1>3. 0 \in S
  BY <1>2
<1>4. ASSUME NEW k \in Nat, k \in S PROVE k + 1 \in S
  <2> SUFFICES ASSUME m <= k + 1, k + 1 <= n
               PROVE  Has(f[k + 1])
    OBVIOUS
  <2>1. k + 1 \in 1..n /\ (k + 1) - 1 = k /\ k <= n /\ k \in 0..n
    BY <1>2
  <2>2. f[k + 1] = CollectStep(f[k], k + 1, pending) /\ f[k] \in Seq(Collations)
    BY <1>1, <2>1
  <2> DEFINE s == f[k]
             q == parachains[k + 1]
             new == [id |-> q, head |-> pending[q].block]
             known == { s[j].id : j \in 1..Len(s) }
  <2>3. f[k + 1] = IF pending[q] = None \/ q \in known THEN s ELSE Append(s, new)
    BY <2>2 DEF CollectStep
  <2>4. CASE m = k + 1
    <3>1. q = p /\ pending[q] # None
      BY <2>4
    <3>2. CASE q \in known
      BY <2>3, <3>1, <3>2
    <3>3. CASE q \notin known
      <4>1. f[k + 1] = Append(s, new) /\ new.id = p
        BY <2>3, <3>1, <3>3
      <4>2. Len(s) \in Nat /\ Len(Append(s, new)) = Len(s) + 1 /\ Append(s, new)[Len(s) + 1] = new
        BY <2>2
      <4> HIDE DEF new, s
      <4>3. Len(s) + 1 \in 1..Len(f[k + 1]) /\ f[k + 1][Len(s) + 1].id = p
        BY <4>1, <4>2
      <4> QED
        BY <4>3
    <3> QED
      BY <3>2, <3>3
  <2>5. CASE m # k + 1
    <3>1. Has(s)
      BY <1>2, <1>4, <2>1, <2>5
    <3>2. PICK i \in 1..Len(s) : s[i].id = p
      BY <3>1
    <3>3. CASE f[k + 1] = s
      BY <3>1, <3>3
    <3>4. CASE f[k + 1] = Append(s, new)
      <4>1. i \in 1..Len(Append(s, new)) /\ Append(s, new)[i] = s[i]
        BY <2>2
      <4> QED
        BY <3>2, <3>4, <4>1
    <3> QED
      BY <2>3, <3>3, <3>4
  <2> QED
    BY <2>4, <2>5
<1>5. n \in S
  <2> HIDE DEF S
  <2>1. \A k \in Nat : k \in S
    BY <1>3, <1>4, SetInduction
  <2> QED
    BY <1>2, <2>1
<1> QED
  BY <1>1, <1>2, <1>5

\* The parachains stay those of Order.
LEMMA NextEnrolled ==
  ASSUME Inv, AtOne, Enrolled, [CompanionNext]_companionVars
  PROVE  Enrolled'
<1>1. CASE NewOnboard
  <2>1. /\ pc = "onboard" /\ parachains' = Append(parachains, Order[at])
        /\ pc' = (IF at = Len(Order) THEN "newBuild" ELSE "onboard")
        /\ at' = IF at = Len(Order) THEN 1 ELSE at + 1
    BY <1>1 DEF NewOnboard, OnboardPara, Current
  <2>2. /\ parachains \in Seq(Paras) /\ Len(parachains) = at - 1
        /\ \A j \in 1..at - 1 : parachains[j] = Order[j]
    BY <2>1 DEF Enrolled, Inv, TypeOK
  <2>3. at \in 1..Len(Order) /\ at \in Nat /\ Len(Order) \in Nat /\ Order[at] \in Paras
    BY OrderFacts DEF AtOne
  <2>4. /\ parachains' \in Seq(Paras) /\ Len(parachains') = at
        /\ \A j \in 1..at : parachains'[j] = Order[j]
    BY <2>1, <2>2, <2>3
  <2>5. CASE at = Len(Order)
    <3>1. Len(parachains') = Len(Order) /\ \A j \in 1..Len(Order) : parachains'[j] = Order[j]
      BY <2>4, <2>5
    <3>2. parachains' = Order
      BY <2>4, <3>1, OrderFacts, SameSeq
    <3> QED
      BY <2>1, <2>5, <3>2 DEF Enrolled
  <2>6. CASE at # Len(Order)
    <3>1. pc' = "onboard" /\ at' - 1 = at
      BY <2>1, <2>3, <2>6
    <3> QED
      BY <2>4, <3>1 DEF Enrolled
  <2> QED
    BY <2>5, <2>6
<1>2. CASE parachains' = parachains /\ pc' = pc /\ at' = at
  BY <1>2 DEF Enrolled
<1>3. CASE parachains' = parachains /\ pc # "onboard" /\ pc # "dropped" /\ pc' # "onboard"
  BY <1>3 DEF Enrolled
<1>4. CASE UNCHANGED companionVars
  BY <1>2, <1>4 DEF companionVars, relayVars
<1>5. CASE NewBuild \/ NewImport
  BY <1>3, <1>5 DEF NewBuild, NewImport, Goto, RelayBuildBlock, RelayImportBlock
<1>6. CASE NewErr
  BY <1>6 DEF NewErr, Goto, Enrolled
<1>7. CASE EvolveStart \/ Panic
  BY <1>3, <1>7 DEF EvolveStart, Panic, Goto, vars, relayVars
<1>8. CASE \/ EvolveUpdate \/ EvolveRelayBuild1 \/ EvolveParaBuild
           \/ EvolveRelayImport1 \/ EvolveRelayBuild2 \/ EvolveRelayImport2
  BY <1>3, <1>8 DEF EvolveUpdate, EvolveRelayBuild1, EvolveParaBuild, EvolveRelayImport1,
                    EvolveRelayBuild2, EvolveRelayImport2, Goto, UpdateParaHead,
                    RelayBuildBlock, ParaBuildBlock, RelayImportBlock, relayVars
<1>9. CASE EvolveParaImport
  BY <1>3, <1>9 DEF EvolveParaImport, EvolveAdvance, ParaImportBlock, vars, relayVars
<1>10. CASE EvolveErr
  <2>1. parachains' = parachains
    BY <1>10 DEF EvolveErr, RelayImportFails, RelayImportCollectErr, RelayImportJudgeErr,
                 RelayImportEnactErr, RelayImportErr, RelayWithMutStateErr, vars, relayVars
  <2> QED
    BY <1>3, <1>10, <2>1 DEF EvolveErr
<1>11. CASE MutateErr
  BY <1>2, <1>11 DEF MutateErr, RelayWithMutStateErr, ParaWithMutStateErr, relayVars
<1>12. CASE (\E w \in Writes : MutateRelay(w)) \/ \E p \in Paras, w \in Writes : MutatePara(p, w)
  BY <1>2, <1>12 DEF MutateRelay, MutatePara, RelayWithMutState, ParaWithMutState, relayVars
<1> QED
  BY <1>1, <1>4, <1>5, <1>6, <1>7, <1>8, <1>9, <1>10, <1>11, <1>12
     DEF CompanionNext, Build, Evolve

\* A turn, and whether it is the first since the last Err.
LEMMA HealingFacts ==
  ASSUME AtOne, Healing, pc \in Turns
  PROVE  /\ Current \in Paras /\ at \in 1..Len(Order) /\ Order[at] = Current
         /\ clean \in 0..2 /\ Mend(Current)
         /\ \A j \in 1..Len(Order) : Healed(j) /\ j # at => Settled(Order[j])
         /\ Recovering => \A j \in 1..Len(Order) : ~Healed(j)
<1>1. Current \in Paras /\ at \in 1..Len(Order) /\ Order[at] = Current
  BY CurrentIsPara DEF AtOne, Current
<1>2. Recovering => \A j \in 1..Len(Order) : ~Healed(j)
  BY OrderFacts DEF Recovering, Healed
<1> QED
  BY <1>1, <1>2 DEF Healing

\* A call that is not the last one of a turn.
LEMMA HealingStays ==
  ASSUME AtOne, Healing, pc \in Turns, pc' \in Turns, at' = at, clean' = clean,
         NEW p \in Paras, p = Current, Mend(p)',
         relayNext' = None \/ pc' \in {"paraBuild", "relayImport1", "relayImport2"},
         \/ Recovering
         \/ \A q \in Paras : q # p => /\ Heads(relay')[q] = Heads(relay)[q]
                                      /\ para'[q] = para[q]
                                      /\ nextBlock'[q] = nextBlock[q]
                                      /\ nextImport'[q] = nextImport[q]
  PROVE  Healing'
<1>1. Current' = p /\ \A j : Healed(j)' <=> Healed(j)
  BY DEF Current, Healed
<1>2. ASSUME NEW j \in 1..Len(Order), Healed(j)', j # at'
      PROVE  Settled(Order[j])'
  <2>1. Settled(Order[j]) /\ ~Recovering
    BY <1>1, <1>2, HealingFacts
  <2>2. PICK q \in Paras : q = Order[j]
    BY OrderFacts
  <2>3. q # p
    <3>1. at \in 1..Len(Order) /\ Order[at] = p /\ j # at
      BY <1>2, HealingFacts
    <3>2. Order[j] # Order[at]
      BY <3>1, OtherPlace
    <3> QED
      BY <2>2, <3>1, <3>2
  <2>4. Settled(q)'
    BY <2>1, <2>2, <2>3, StaysSettled
  <2> QED
    BY <2>2, <2>4
<1>3. PendingOrFailed'
  BY DEF PendingOrFailed
<1>4. pc' \notin {"newBuild", "newImport", "idle"} \cup NewLabels /\ clean' \in 0..2
  BY DEF Turns, NewLabels, Healing
<1> QED
  BY <1>1, <1>2, <1>3, <1>4 DEF Healing

\* evolve is called.
LEMMA EvolveStartHeals ==
  ASSUME Inv, Healing, EvolveStart
  PROVE  Healing'
<1>1. /\ pc = "idle" /\ pc' = "update" /\ at' = 1 /\ clean' = clean /\ at = 1
      /\ relayNext' = relayNext
      /\ relay' = relay /\ para' = para /\ collations' = collations
      /\ nextBlock' = nextBlock /\ nextImport' = nextImport
  BY DEF EvolveStart, Healing, vars, relayVars, paraVars
<1>2. PICK p \in Paras : p = Current'
  BY <1>1, OrderFacts DEF Current
<1>3. ~Recovering => Tidy
  BY <1>1 DEF Healing, Recovering
<1>4. (Recovering' <=> Recovering) /\ (Tidy' <=> Tidy)
  BY <1>1 DEF Recovering, Tidy
<1>5. Mend(p)'
  BY <1>1, <1>3, <1>4 DEF Mend
<1>6. \A j \in 1..Len(Order) : Healed(j)' => Settled(Order[j])'
  BY <1>1 DEF Healing, Healed, Settled, Untouched, HeadAgrees
<1>7. PendingOrFailed'
  BY <1>1, <1>4 DEF Healing, PendingOrFailed
<1> QED
  BY <1>1, <1>2, <1>5, <1>6, <1>7 DEF Healing, NewLabels

\* update_para_head.
LEMMA EvolveUpdateHeals ==
  ASSUME Inv, AtOne, Healing, EvolveUpdate
  PROVE  Healing'
<1>1. /\ pc = "update" /\ pc' = "relayBuild1" /\ at' = at /\ clean' = clean
      /\ pc \in Turns /\ pc' \in Turns /\ relayNext' = None
  BY DEF EvolveUpdate, Goto, Turns, UpdateParaHead
<1>2. PICK p \in Paras : p = Current
  BY <1>1, HealingFacts
<1>3. /\ Heads(relay') = [Heads(relay) EXCEPT ![p] = Latest(para[p])]
      /\ collations' = collations
      /\ para' = para /\ nextBlock' = nextBlock /\ nextImport' = nextImport
  BY <1>2, UpdateEffect DEF EvolveUpdate, paraVars
<1>4. \A q \in Paras : q # p => Heads(relay')[q] = Heads(relay)[q]
  BY <1>3, RelayRootParts
<1>5. Mend(p)
  BY <1>1, <1>2, HealingFacts
<1>6. Mend(p)'
  BY <1>1, <1>3, <1>5 DEF Mend, Recovering, Tidy
<1> QED
  BY <1>1, <1>2, <1>3, <1>4, <1>6, HealingStays

\* build_block of the relay chain.
LEMMA EvolveRelayBuildHeals ==
  ASSUME Inv, AtOne, Healing, EvolveRelayBuild1 \/ EvolveRelayBuild2
  PROVE  Healing'
<1>1. /\ \/ pc = "relayBuild1" /\ pc' = "paraBuild"
         \/ pc = "relayBuild2" /\ pc' = "relayImport2"
      /\ at' = at /\ clean' = clean
      /\ pc \in Turns /\ pc' \in Turns
      /\ RelayBuildBlock
  BY DEF EvolveRelayBuild1, EvolveRelayBuild2, Goto, Turns
<1>2. PICK p \in Paras : p = Current
  BY <1>1, HealingFacts
<1>3. /\ Heads(relay') = Heads(relay) /\ collations' = collations
      /\ para' = para /\ nextBlock' = nextBlock /\ nextImport' = nextImport
  BY <1>1, RelayBuildEffect DEF paraVars
<1>4. Mend(p)
  BY <1>1, <1>2, HealingFacts
<1>5. Mend(p)'
  BY <1>1, <1>3, <1>4 DEF Mend, Recovering, Tidy, Covered, Awaits
<1> QED
  BY <1>1, <1>2, <1>3, <1>5, HealingStays

\* build_block of the parachain.
LEMMA EvolveParaBuildHeals ==
  ASSUME Inv, AtOne, Healing, EvolveParaBuild
  PROVE  Healing'
<1>1. /\ pc = "paraBuild" /\ pc' = "relayImport1" /\ at' = at /\ clean' = clean
      /\ pc \in Turns /\ pc' \in Turns
  BY DEF EvolveParaBuild, Goto, Turns
<1>2. PICK p \in Paras : p = Current
  BY <1>1, HealingFacts
<1>3. /\ nextBlock'[p] # None
      /\ nextBlock'[p].block.parent = Latest(para[p]).hash
      /\ para'[p].canon = para[p].canon
      /\ \A q \in Paras : q # p => para'[q] = para[q] /\ nextBlock'[q] = nextBlock[q]
      /\ relay' = relay /\ collations' = collations /\ nextImport' = nextImport
  BY <1>2, ParaBuildEffect DEF EvolveParaBuild, relayVars
<1>4. Mend(p)
  BY <1>1, <1>2, HealingFacts
<1>5. ~Recovering => Awaits(p)' /\ collations' = << >>
  BY <1>1, <1>3, <1>4 DEF Mend, Tidy, Awaits, Latest
<1>6. Mend(p)'
  BY <1>1, <1>5 DEF Mend, Recovering
<1> QED
  BY <1>1, <1>2, <1>3, <1>6, HealingStays

\* import_block of the first relay block.
LEMMA EvolveRelayImport1Heals ==
  ASSUME Inv, AtOne, Enrolled, Healing, EvolveRelayImport1
  PROVE  Healing'
<1>1. /\ pc = "relayImport1" /\ pc' = "relayBuild2" /\ at' = at /\ clean' = clean
      /\ pc \in Turns /\ pc' \in Turns
  BY DEF EvolveRelayImport1, Goto, Turns
<1>2. /\ RelayImported /\ ForceEnactAll /\ relayNext' = None
      /\ collations' = CollectFirst(Len(parachains), nextBlock')
      /\ parachains' = parachains /\ para' = para
  BY DEF EvolveRelayImport1, RelayImportBlock, RelayImported
<1>3. PICK p \in Paras : p = Current
  BY <1>1, HealingFacts
<1>4. Mend(p) /\ parachains = Order /\ parachains \in Seq(Paras)
  BY <1>1, <1>3, HealingFacts DEF Enrolled, Inv, TypeOK
<1>5. CASE Recovering
  <2>1. Inv'
    BY RelayImportBlockInv DEF EvolveRelayImport1
  <2>2. nextBlock' \in [Paras -> Builds \cup {None}]
    BY <2>1 DEF Inv, TypeOK
  <2>3. ASSUME NEW q \in Paras, nextBlock'[q] # None
        PROVE  \E i \in 1..Len(collations') : collations'[i].id = q
    <3>1. PICK m \in 1..Len(parachains) : parachains[m] = q
      BY <1>4, OrderFacts
    <3> QED
      BY <1>2, <1>4, <2>2, <2>3, <3>1, CollectCovers
  <2>4. Mend(p)'
    BY <1>1, <1>5, <2>3 DEF Mend, Recovering, Covered
  <2> QED
    BY <1>1, <1>2, <1>3, <1>5, <2>4, HealingStays
<1>6. CASE ~Recovering
  <2>1. Awaits(p) /\ collations = << >>
    BY <1>1, <1>4, <1>6 DEF Mend
  <2>2. Heads(relay') = Heads(relay) /\ nextBlock' = nextBlock /\ nextImport' = nextImport
    BY <1>2, <2>1, ImportEffectNone
  <2>3. collations' = << [id |-> p, head |-> nextBlock[p].block] >>
    <3>1. nextBlock \in [Paras -> Builds \cup {None}]
      BY DEF Inv, TypeOK
    <3>2. PICK m \in 1..Len(parachains) : parachains[m] = p
      BY <1>4, OrderFacts
    <3> QED
      BY <1>2, <1>4, <2>1, <2>2, <3>1, <3>2, CollectOne DEF Awaits
  <2>4. Mend(p)'
    BY <1>1, <1>2, <1>6, <2>1, <2>2, <2>3 DEF Mend, Recovering, Awaits
  <2> QED
    BY <1>1, <1>2, <1>3, <2>2, <2>4, HealingStays
<1> QED
  BY <1>5, <1>6

\* import_block of the second relay block: nothing is pending then.
LEMMA EvolveRelayImport2Heals ==
  ASSUME Inv, AtOne, Healing, EvolveRelayImport2
  PROVE  Healing'
<1>1. /\ pc = "relayImport2" /\ pc' = "paraImport" /\ at' = at /\ clean' = clean
      /\ pc \in Turns /\ pc' \in Turns
  BY DEF EvolveRelayImport2, Goto, Turns
<1>2. /\ RelayImported /\ ForceEnactAll /\ relayNext' = None
      /\ collations' = CollectFirst(Len(parachains), nextBlock')
      /\ parachains' = parachains /\ para' = para
  BY DEF EvolveRelayImport2, RelayImportBlock, RelayImported
<1>3. PICK p \in Paras : p = Current
  BY <1>1, HealingFacts
<1>4. Mend(p)
  BY <1>1, <1>3, HealingFacts
<1>5. Covered
  <2>1. CASE Recovering
    BY <1>1, <1>4, <2>1 DEF Mend
  <2>2. CASE ~Recovering
    <3>1. Awaits(p) /\ collations = << [id |-> p, head |-> nextBlock[p].block] >>
      BY <1>1, <1>4, <2>2 DEF Mend
    <3>2. 1 \in 1..Len(collations) /\ collations[1].id = p
      BY <3>1
    <3> QED
      BY <3>1, <3>2 DEF Covered, Awaits
  <2> QED
    BY <2>1, <2>2
<1>6. \A q \in Paras : nextBlock'[q] = None
  <2>1. nextBlock' = [q \in Paras |-> IF q \in { collations[i].id : i \in 1..Len(collations) }
                                      THEN None ELSE nextBlock[q]]
    BY <1>2 DEF ForceEnactAll, ApproveFirst
  <2> QED
    BY <1>5, <2>1 DEF Covered
<1>7. Tidy'
  <2>1. Inv'
    BY RelayImportBlockInv DEF EvolveRelayImport2
  <2>2. parachains \in Seq(Paras) /\ nextBlock' \in [Paras -> Builds \cup {None}]
        /\ Len(parachains) \in 0..Len(parachains)
    BY <2>1 DEF Inv, TypeOK
  <2>3. collations' = << >>
    BY <1>2, <1>6, <2>2, CollectNothing
  <2> QED
    BY <1>6, <2>3 DEF Tidy
<1>8. CASE Recovering
  <2>1. Mend(p)'
    BY <1>1, <1>7, <1>8 DEF Mend, Recovering
  <2> QED
    BY <1>1, <1>2, <1>3, <1>8, <2>1, HealingStays
<1>9. CASE ~Recovering
  <2>1. Awaits(p) /\ collations = << [id |-> p, head |-> nextBlock[p].block] >>
    BY <1>1, <1>4, <1>9 DEF Mend
  <2>2. nextBlock[p].block \in ParaBlocks
    <3>1. nextBlock[p] \in Builds
      BY <2>1 DEF Awaits, Inv, TypeOK
    <3> QED
      BY <3>1 DEF Builds
  <2>3. /\ Heads(relay') = [Heads(relay) EXCEPT ![p] = nextBlock[p].block]
        /\ nextBlock' = [nextBlock EXCEPT ![p] = None]
        /\ nextImport' = [nextImport EXCEPT ![p] = nextBlock[p]]
    BY <1>2, <2>1, <2>2, ImportEffectOne
  <2>4. /\ Heads(relay')[p] = nextBlock[p].block /\ nextImport'[p] = nextBlock[p]
        /\ \A q \in Paras : q # p => /\ Heads(relay')[q] = Heads(relay)[q]
                                     /\ nextBlock'[q] = nextBlock[q]
                                     /\ nextImport'[q] = nextImport[q]
    BY <2>3, RelayRootParts DEF Inv, TypeOK
  <2>5. Approved(p)'
    BY <1>2, <2>1, <2>4 DEF Awaits, Approved
  <2>6. Mend(p)'
    BY <1>1, <1>7, <1>9, <2>5 DEF Mend, Recovering
  <2> QED
    BY <1>1, <1>2, <1>3, <2>4, <2>6, HealingStays
<1> QED
  BY <1>8, <1>9

\* import_block of the parachain leaves it settled, except in the first turn.
LEMMA EvolveParaImportHeals ==
  ASSUME Inv, AtOne, Healing, EvolveParaImport
  PROVE  Healing'
<1>1. pc = "paraImport" /\ pc \in Turns
  BY DEF EvolveParaImport, Turns
<1>2. PICK p \in Paras : p = Current
  BY <1>1, HealingFacts
<1>3. Mend(p) /\ Tidy
  BY <1>1, <1>2, HealingFacts DEF Mend
<1>4. /\ relay' = relay /\ relayNext' = relayNext /\ collations' = collations
      /\ nextBlock' = nextBlock
      /\ \A q \in Paras : q # p => para'[q] = para[q] /\ nextImport'[q] = nextImport[q]
  <2>1. CASE UNCHANGED vars
    BY <2>1 DEF vars, relayVars, paraVars
  <2>2. CASE ParaImportBlock(p)
    BY <2>2 DEF ParaImportBlock, relayVars, Inv, TypeOK
  <2> QED
    BY <1>2, <2>1, <2>2 DEF EvolveParaImport
<1>5. Tidy' /\ relayNext' = None
  BY <1>1, <1>3, <1>4 DEF Tidy, Healing, PendingOrFailed
<1>6. ~Recovering => Settled(p)'
  <2> SUFFICES ASSUME ~Recovering PROVE Settled(p)'
    OBVIOUS
  <2>1. Approved(p)
    BY <1>1, <1>3 DEF Mend
  <2>2. ParaImportBlock(p)
    BY <1>2, <2>1 DEF EvolveParaImport, Approved
  <2>3. Latest(para'[p]) = nextImport[p].block /\ nextImport'[p] = None
    BY <2>1, <2>2, ParaImportEffect DEF Approved
  <2>4. nextImport[p].block # None
    <3>1. nextImport[p] \in Builds
      BY <2>1 DEF Approved, Inv, TypeOK
    <3> QED
      BY <3>1, NoneAssumption DEF Builds
  <2>5. Heads(relay')[p] = Latest(para'[p]) /\ Heads(relay')[p] # None /\ nextBlock'[p] = None
    BY <1>3, <1>4, <2>1, <2>3, <2>4 DEF Approved, Tidy
  <2> QED
    BY <2>3, <2>5 DEF Settled, Untouched, HeadAgrees
<1>7. ASSUME NEW j \in 1..Len(Order), Healed(j) \/ (j = at /\ ~Recovering)
      PROVE  Settled(Order[j])'
  <2>1. CASE j = at
    BY <1>1, <1>2, <1>6, <1>7, <2>1, HealingFacts
  <2>2. CASE j # at
    <3>1. PICK q \in Paras : q = Order[j]
      BY OrderFacts
    <3>2. q # p
      <4>1. at \in 1..Len(Order) /\ Order[at] = p
        BY <1>1, <1>2, HealingFacts
      <4> QED
        BY <2>2, <3>1, <4>1, OrderFacts
    <3>4. Settled(q)
      BY <1>1, <1>7, <2>2, <3>1, HealingFacts
    <3>3. Settled(q)'
      BY <1>4, <3>2, <3>4, StaysSettled
    <3> QED
      BY <3>1, <3>3
  <2> QED
    BY <2>1, <2>2
<1>8. clean \in 0..2 /\ at \in 1..Len(Order) /\ at \in Nat /\ Len(Order) \in Nat
  BY <1>1, HealingFacts, OrderFacts
<1>9. CASE at = Len(Order)
  <2>1. /\ pc' = "idle" /\ at' = 1
        /\ clean' = IF clean < 2 THEN clean + 1 ELSE clean
    BY <1>9 DEF EvolveParaImport, EvolveAdvance
  <2>2. clean' \in 1..2 /\ (clean' = 2 => clean # 0)
    BY <1>8, <2>1
  <2>3. ASSUME NEW j \in 1..Len(Order), Healed(j)'
        PROVE  Healed(j) \/ (j = at /\ ~Recovering)
    BY <1>8, <1>9, <2>1, <2>2, <2>3 DEF Healed, Recovering
  <2>4. PendingOrFailed'
    BY <1>5 DEF PendingOrFailed
  <2> QED
    BY <1>5, <1>7, <2>1, <2>2, <2>3, <2>4 DEF Healing, NewLabels, Turns
<1>10. CASE at # Len(Order)
  <2>1. pc' = "update" /\ at' = at + 1 /\ clean' = clean
    BY <1>10 DEF EvolveParaImport, EvolveAdvance
  <2>2. at' \in 1..Len(Order) /\ at' # 1
    BY <1>8, <1>10, <2>1
  <2>3. PICK q \in Paras : q = Current'
    BY <2>2, OrderFacts DEF Current
  <2>4. ASSUME NEW j \in 1..Len(Order), Healed(j)', j # at'
        PROVE  Healed(j) \/ (j = at /\ ~Recovering)
    BY <1>8, <2>1, <2>4 DEF Healed, Recovering
  <2>5. Mend(q)'
    BY <1>5, <2>1, <2>2 DEF Mend, Recovering
  <2>6. PendingOrFailed'
    BY <1>5 DEF PendingOrFailed
  <2> QED
    BY <1>7, <1>8, <2>1, <2>3, <2>4, <2>5, <2>6 DEF Healing, NewLabels
<1> QED
  BY <1>9, <1>10

\* with_mut_state between the calls keeps the heads in agreement.
LEMMA MutateHeals ==
  ASSUME Inv, Healing, pc = "idle", UNCHANGED <<pc, at, clean, relayNext>>,
         UNCHANGED <<collations, nextBlock, nextImport>>, Heads(relay') = Heads(relay),
         \A q \in Paras :
           /\ Latest(para'[q]).parent = Latest(para[q]).parent
           /\ Latest(para'[q]).root.of = Latest(para[q]).root.of
           /\ Latest(para[q]).root.writes \subseteq Latest(para'[q]).root.writes
  PROVE  Healing'
<1>1. ASSUME NEW q \in Paras, Settled(q) PROVE Settled(q)'
  <2>1. /\ Heads(relay)[q] # None
        /\ Heads(relay)[q].root.of = Latest(para[q]).root.of
        /\ Heads(relay)[q].parent = Latest(para[q]).parent
        /\ Heads(relay)[q].root.writes \subseteq Latest(para[q]).root.writes
    BY <1>1 DEF Settled, HeadAgrees
  <2>2. Heads(relay)[q].root.writes \subseteq Latest(para'[q]).root.writes
    BY <2>1
  <2>3. HeadAgrees(q)'
    BY <2>1, <2>2 DEF HeadAgrees
  <2> QED
    BY <1>1, <2>3 DEF Settled, Untouched
<1>2. \A j \in 1..Len(Order) : Healed(j)' => Settled(Order[j])'
  <2> SUFFICES ASSUME NEW j \in 1..Len(Order), Healed(j)' PROVE Settled(Order[j])'
    OBVIOUS
  <2>1. PICK q \in Paras : q = Order[j]
    BY OrderFacts
  <2>2. Settled(q)
    BY <2>1 DEF Healing, Healed
  <2>3. Settled(q)'
    BY <1>1, <2>2
  <2> QED
    BY <2>1, <2>3
<1>3. PendingOrFailed' /\ (Tidy' <=> Tidy)
  BY DEF Healing, PendingOrFailed, Recovering, Tidy
<1> QED
  BY <1>2, <1>3 DEF Healing, NewLabels, Turns

\* After an Err, nothing is claimed.
LEMMA ErrHeals ==
  ASSUME pc' = "idle", at' = 1, clean' = 0
  PROVE  Healing'
<1>1. Recovering' /\ PendingOrFailed'
  BY DEF Recovering, PendingOrFailed
<1>2. \A j \in 1..Len(Order) : ~Healed(j)'
  BY OrderFacts DEF Healed
<1> QED
  BY <1>1, <1>2 DEF Healing, NewLabels, Turns

\* Every step, faults included.
LEMMA NextHealing ==
  ASSUME Inv, AtOne, Enrolled, Healing, [CompanionNext]_companionVars
  PROVE  Healing'
<1>1. CASE UNCHANGED companionVars
  <2>1. /\ relay' = relay /\ relayNext' = relayNext /\ collations' = collations
        /\ para' = para /\ nextBlock' = nextBlock /\ nextImport' = nextImport
        /\ pc' = pc /\ at' = at /\ clean' = clean
    BY <1>1 DEF companionVars, relayVars, paraVars
  <2> QED
    BY <2>1 DEF Healing, PendingOrFailed, Recovering, Healed, Settled, Untouched, HeadAgrees, Tidy,
                Mend, Covered, Awaits, Approved, Current
<1>2. CASE NewOnboard
  <2>1. /\ pc = "onboard" /\ pc' \in {"onboard", "newBuild"} /\ relayNext' = None
        /\ clean' = clean /\ (pc' = "newBuild" => at' = 1)
    BY <1>2 DEF NewOnboard, OnboardPara
  <2> QED
    BY <2>1 DEF Healing, PendingOrFailed, NewLabels, Turns
<1>3. CASE NewBuild
  <2>1. pc = "newBuild" /\ pc' = "newImport" /\ clean' = clean /\ at' = at
    BY <1>3 DEF NewBuild, Goto
  <2> QED
    BY <2>1 DEF Healing, PendingOrFailed, NewLabels, Turns
<1>4. CASE NewImport
  <2>1. pc = "newImport" /\ pc' = "idle" /\ clean' = clean /\ at' = at
    BY <1>4 DEF NewImport, Goto
  <2>2. clean = 0 /\ at = 1
    BY <2>1 DEF Healing, NewLabels
  <2> QED
    BY <2>1, <2>2, ErrHeals
<1>5. CASE NewErr \/ Panic
  <2>1. pc' \in {"dropped", "panicked"} /\ clean' = clean
    BY <1>5 DEF NewErr, Panic, Goto
  <2> QED
    BY <2>1 DEF Healing, PendingOrFailed, NewLabels, Turns
<1>6. CASE EvolveErr
  BY <1>6, ErrHeals DEF EvolveErr, Failed
<1>7. CASE MutateErr
  <2>1. pc' = "idle" /\ at' = 1 /\ clean' = 0
    BY <1>7 DEF MutateErr, Failed, Healing
  <2> QED
    BY <2>1, ErrHeals
<1>8. ASSUME NEW w \in Writes, MutateRelay(w) PROVE Healing'
  <2>1. /\ Heads(relay') = Heads(relay)
        /\ UNCHANGED <<parachains, collations, paraVars>>
    BY <1>8, RelayWriteEffect DEF MutateRelay
  <2>2. relayNext' = relayNext
    BY <1>8 DEF MutateRelay, RelayWithMutState
  <2> QED
    BY <1>8, <2>1, <2>2, MutateHeals DEF MutateRelay, paraVars
<1>9. ASSUME NEW p \in Paras, NEW w \in Writes, MutatePara(p, w) PROVE Healing'
  <2>1. /\ Latest(para'[p]).parent = Latest(para[p]).parent
        /\ Latest(para'[p]).root.of = Latest(para[p]).root.of
        /\ Latest(para[p]).root.writes \subseteq Latest(para'[p]).root.writes
        /\ \A q \in Paras : q # p => para'[q] = para[q]
        /\ UNCHANGED <<relayVars, nextBlock, nextImport, paraImports>>
    BY <1>9, ParaWriteEffect DEF MutatePara
  <2>2. relayNext' = relayNext /\ collations' = collations /\ Heads(relay') = Heads(relay)
    BY <2>1 DEF relayVars, Heads
  <2> QED
    BY <1>9, <2>1, <2>2, MutateHeals DEF MutatePara
<1> QED
  BY <1>1, <1>2, <1>3, <1>4, <1>5, <1>6, <1>7, <1>8, <1>9, EvolveStartHeals, EvolveUpdateHeals,
     EvolveRelayBuildHeals, EvolveParaBuildHeals, EvolveRelayImport1Heals,
     EvolveRelayImport2Heals, EvolveParaImportHeals
     DEF CompanionNext, Build, Evolve

\* expand/mod.rs evolve with every kind of failure: imports, commits, reads and
\* rejections in any order.  Two calls of evolve that return Ok bring relay chain
\* and parachains back into agreement, with nothing left behind.
THEOREM TwoOkEvolvesHeal == CompanionSpec => []TwoEvolvesHeal
<1> DEFINE I == Inv /\ AtOne /\ Enrolled /\ Healing
<1>1. CompanionInit => I
  <2> SUFFICES ASSUME CompanionInit PROVE I
    OBVIOUS
  <2>1. Inv /\ AtOne
    BY InitInv, FirstPara DEF CompanionInit, AtOne
  <2>2. Enrolled
    BY DEF CompanionInit, Init, Enrolled
  <2>3. Healing
    BY DEF CompanionInit, Init, Healing, PendingOrFailed, NewLabels, Turns
  <2> QED
    BY <2>1, <2>2, <2>3
<1>2. I /\ [CompanionNext]_companionVars => I'
  BY NextAtOne, NextEnrolled, NextHealing, StepIsCall, NextInv
<1>3. I => TwoEvolvesHeal
  <2> SUFFICES ASSUME I, pc = "idle", clean = 2
               PROVE  Drained /\ \A p \in Paras : HeadAgrees(p)
    BY DEF TwoEvolvesHeal
  <2>1. relayNext = None /\ Tidy
    BY DEF Healing, PendingOrFailed, Recovering
  <2>2. \A j \in 1..Len(Order) : Settled(Order[j])
    BY DEF Healing, Healed
  <2>3. \A p \in Paras : Settled(p)
    BY <2>2, OrderFacts
  <2> QED
    BY <2>1, <2>3 DEF Drained, Tidy, Settled, Untouched
<1> QED
  BY <1>1, <1>2, <1>3, PTL DEF CompanionSpec
=============================================================================

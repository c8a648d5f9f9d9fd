-------------------------- MODULE StandAloneProofs --------------------------
(***************************************************************************)
(* Proofs about StandAlone, for any mutations, extrinsics and bounds.      *)
(***************************************************************************)
EXTENDS StandAlone, CoreProofs, SequenceTheorems

\* The inductive invariant.  NoReplay needs that only children of the best
\* block are imported (ChainIntact), that they hold the best block's storage
\* (PendingOnState), and, for the commit that fails and uncovers the block
\* below the best one, that this one holds no more than the best block did
\* (StateAccumulates).
Inv == TypeOK /\ ChainIntact /\ PendingOnState /\ NoReplay /\ StateAccumulates

\* The tokens of a block, and of the best block in particular.
LEMMA RootFacts ==
  ASSUME Inv
  PROVE  /\ chain \in ChainsOf(Roots)
         /\ Linked(chain)
         /\ BestIsFinal(chain)
         /\ Len(chain.canon) \in Nat \ {0}
         /\ chain.fresh \in Nat
         /\ Latest(chain) \in Blocks
         /\ Latest(chain).root \in Roots
         /\ Latest(chain).hash \in Nat
         /\ Latest(chain).hash < chain.fresh
         /\ \A h \in CanonHashes(chain) : h \in Nat /\ h < chain.fresh
<1>1. chain \in ChainsOf(Roots) /\ Linked(chain) /\ BestIsFinal(chain)
  BY DEF Inv, TypeOK, ChainIntact
<1>2. /\ Len(chain.canon) \in Nat \ {0}
      /\ Latest(chain) \in Blocks
      /\ Latest(chain).hash < chain.fresh
      /\ \A i \in 1..Len(chain.canon) : chain.canon[i] \in Blocks
  BY <1>1, LatestType DEF Blocks
<1>3. chain.fresh \in Nat
  BY <1>1 DEF ChainsOf
<1>4. Latest(chain).root \in Roots /\ Latest(chain).hash \in Nat
  BY <1>2 DEF Blocks, BlocksOf
<1>5. \A i \in 1..Len(chain.canon) :
        chain.canon[i].hash \in Nat /\ chain.canon[i].hash < chain.fresh
  BY <1>1, <1>2 DEF Blocks, BlocksOf, Linked
<1> QED
  BY <1>1, <1>2, <1>3, <1>4, <1>5 DEF CanonHashes

\* A new builder satisfies the inductive invariant.
LEMMA InitInv == Init => Inv
<1> SUFFICES ASSUME Init PROVE Inv
  OBVIOUS
<1> DEFINE g == [hash |-> 1, parent |-> 0, root |-> {}]
<1>1. chain = [canon |-> <<g>>, fin |-> 1, side |-> {}, fresh |-> 2]
  BY DEF Init, NewChain
<1>2. g \in Blocks
  BY DEF Blocks, BlocksOf, Roots
<1>3. <<g>> \in Seq(Blocks) /\ Len(<<g>>) = 1 /\ <<g>>[1] = g
  BY <1>2
<1> HIDE DEF g
<1>4. /\ chain.canon = <<g>> /\ chain.fin = 1 /\ chain.side = {} /\ chain.fresh = 2
      /\ chain \in ChainsOf(Roots)
  BY <1>1, <1>3 DEF ChainsOf, Blocks
<1>5. TypeOK
  BY <1>4 DEF Init, TypeOK
<1>6. Linked(chain)
  BY <1>3, <1>4 DEF Linked, g
<1>7. ChainIntact
  BY <1>3, <1>4, <1>6 DEF Init, ChainIntact, BestIsFinal
<1>8. StateAccumulates
  BY <1>3, <1>4 DEF StateAccumulates
<1> QED
  BY <1>5, <1>7, <1>8 DEF Init, Inv, PendingOnState, NoReplay

\* append_extrinsic preserves it.
LEMMA AppendExtrinsicInv ==
  ASSUME Inv, NEW x \in Extrinsics, AppendExtrinsic(x)
  PROVE  Inv'
<1> USE DEF AppendExtrinsic
<1>1. TypeOK'
  BY DEF Inv, TypeOK
<1>2. ChainIntact' /\ PendingOnState' /\ StateAccumulates'
  BY DEF Inv, ChainIntact, PendingOnState, StateAccumulates
<1>3. NoReplay'
  BY DEF Inv, NoReplay
<1> QED
  BY <1>1, <1>2, <1>3 DEF Inv

\* build_block preserves it: the proposal is a child of the best block.
LEMMA BuildBlockInv ==
  ASSUME Inv, NEW included \in SUBSET pool, NEW stale \in SUBSET (pool \ included),
         BuildBlock(included, stale)
  PROVE  Inv'
<1> DEFINE old == Latest(chain)
           new == Propose(chain, old.root \cup included)
<1>1. /\ next' = new
      /\ chain' = Proposed(chain)
      /\ pool' = pool \ stale
      /\ pool \subseteq Extrinsics
  BY DEF BuildBlock, Inv, TypeOK
<1>2. /\ chain'.canon = chain.canon /\ chain'.fin = chain.fin
      /\ chain'.side = chain.side /\ chain'.fresh = chain.fresh + 1
  BY <1>1 DEF Proposed
<1>3. chain' \in ChainsOf(Roots)
  BY <1>1, RootFacts DEF Proposed, ChainsOf
<1>4. Latest(chain') = old /\ CanonHashes(chain') = CanonHashes(chain)
  BY <1>2 DEF Latest, CanonHashes
<1>5. old.root \cup included \in Roots
  BY <1>1, RootFacts DEF Roots
<1>6. /\ new \in Blocks
      /\ new.parent = old.hash /\ new.hash = chain.fresh
      /\ new.root = old.root \cup included
  BY <1>5, RootFacts DEF Propose, Blocks, BlocksOf
<1> HIDE DEF new
<1>7. TypeOK'
  BY <1>1, <1>3, <1>6 DEF Inv, TypeOK, BuildBlock
<1>8. Linked(chain')
  <2>1. chain.fresh <= chain'.fresh
    BY <1>2, RootFacts
  <2> QED
    BY <2>1, <1>2, <1>3, RootFacts, LinkedShorter
<1>9. ChainIntact'
  <2>1. new.hash \notin CanonHashes(chain)
    BY <1>6, RootFacts
  <2>2. BestIsFinal(chain')
    BY <1>2, RootFacts DEF BestIsFinal
  <2> QED
    BY <2>1, <2>2, <1>1, <1>2, <1>4, <1>6, <1>8, RootFacts DEF ChainIntact
<1>10. PendingOnState' /\ NoReplay' /\ StateAccumulates'
  BY <1>1, <1>2, <1>4, <1>6 DEF Inv, PendingOnState, NoReplay, StateAccumulates
<1> QED
  BY <1>7, <1>9, <1>10 DEF Inv

\* next is a child of the best block, so an import is never a silent no-op.
LEMMA ImportIsGrowth ==
  ASSUME Inv, next # NoBlock
  PROVE  /\ next \in Blocks
         /\ ImportResult(chain, next) = "Imported"
         /\ LET d == ImportFinal(chain, next)
            IN  /\ d \in ChainsOf(Roots)
                /\ Len(d.canon) = Len(chain.canon) + 1
                /\ \A i \in 1..Len(chain.canon) : d.canon[i] = chain.canon[i]
                /\ Latest(d) = next
                /\ BestIsFinal(d)
                /\ d.fresh = chain.fresh
<1>1. next \in BlocksOf(Roots) /\ next.parent = Latest(chain).hash
  BY DEF Inv, TypeOK, ChainIntact, Blocks
<1> QED
  BY <1>1, RootFacts, ImportEffect DEF Blocks

\* import_block preserves it: the chain grows and the pool is pruned.
LEMMA ImportBlockInv ==
  ASSUME Inv, ImportBlock
  PROVE  Inv'
<1>1. /\ next # NoBlock /\ next' = NoBlock
      /\ chain' = ImportFinal(chain, next)
      /\ imports' = Append(imports, next)
  BY DEF ImportBlock
<1>2. /\ next \in Blocks
      /\ chain' \in ChainsOf(Roots)
      /\ Len(chain'.canon) = Len(chain.canon) + 1
      /\ \A i \in 1..Len(chain.canon) : chain'.canon[i] = chain.canon[i]
      /\ Latest(chain') = next
      /\ BestIsFinal(chain')
      /\ chain'.fresh = chain.fresh
  BY <1>1, ImportIsGrowth
<1>3. pool' = pool \ next.root
  BY <1>1, <1>2, ImportIsGrowth DEF ImportBlock, Maintain
<1>4. imports' \in Seq(Blocks)
  BY <1>1, <1>2 DEF Inv, TypeOK
<1>5. TypeOK'
  BY <1>1, <1>2, <1>3, <1>4 DEF Inv, TypeOK, ImportBlock
<1>6. Linked(chain')
  <2>1. /\ next.parent = Latest(chain).hash
        /\ next.hash \notin CanonHashes(chain)
        /\ next.hash < chain.fresh
    BY <1>1 DEF Inv, ChainIntact
  <2>2. chain.fresh <= chain'.fresh
    BY <1>2, RootFacts
  <2> QED
    BY <2>1, <2>2, <1>2, RootFacts, LinkedLonger
<1>7. ChainIntact' /\ PendingOnState'
  BY <1>1, <1>2, <1>6 DEF ChainIntact, PendingOnState
<1>8. NoReplay'
  BY <1>2, <1>3 DEF NoReplay
<1>9. StateAccumulates'
  <2> DEFINE n == Len(chain.canon)
  <2>1. /\ n \in Nat \ {0} /\ chain.canon[n] = Latest(chain)
        /\ chain'.canon[n + 1] = next
    BY <1>2, RootFacts DEF Latest
  <2>2. ASSUME NEW i \in 1..n
        PROVE  chain'.canon[i].root \subseteq chain'.canon[i + 1].root
    <3>1. CASE i = n
      BY <3>1, <2>1, <1>1, <1>2 DEF Inv, PendingOnState
    <3>2. CASE i # n
      <4>1. i \in 1..n - 1 /\ i \in 1..n /\ i + 1 \in 1..n
        BY <3>2, <2>1
      <4>2. chain.canon[i].root \subseteq chain.canon[i + 1].root
        BY <4>1 DEF Inv, StateAccumulates
      <4> QED
        BY <4>1, <4>2, <1>2
    <3> QED
      BY <3>1, <3>2
  <2>3. 1..Len(chain'.canon) - 1 = 1..n
    BY <1>2, <2>1
  <2> QED
    BY <2>2, <2>3 DEF StateAccumulates
<1> QED
  BY <1>5, <1>7, <1>8, <1>9 DEF Inv

\* with_mut_state preserves it: the latest block is exchanged for its
\* mutated form and nothing is pending that could refer to the old one.
LEMMA WithMutStateInv ==
  ASSUME Inv, NEW m \in Mutations, WithMutState(m)
  PROVE  Inv'
<1> DEFINE root == Latest(chain).root \cup {m}
<1>1. /\ next = NoBlock /\ next' = NoBlock
      /\ chain' = WithStateCommit(chain, root)
      /\ pool' = pool
  BY DEF WithMutState
<1>2. root \in Roots
  BY RootFacts DEF Roots
<1> HIDE DEF root
<1>3. /\ chain' \in ChainsOf(Roots)
      /\ Len(chain'.canon) = Len(chain.canon)
      /\ BestIsFinal(chain')
      /\ \A i \in 1..Len(chain.canon) - 1 : chain'.canon[i] = chain.canon[i]
      /\ Latest(chain').root = root
      /\ Latest(chain').parent = Latest(chain).parent
      /\ Latest(chain').hash \in {Latest(chain).hash, chain.fresh}
      /\ Latest(chain').hash < chain'.fresh
      /\ chain.fresh <= chain'.fresh
  BY <1>1, <1>2, RootFacts, CommitEffect
<1>4. Linked(chain')
  BY <1>3, RootFacts, LinkedAgain
<1>5. TypeOK'
  BY <1>1, <1>3 DEF Inv, TypeOK, WithMutState
<1>6. ChainIntact' /\ PendingOnState'
  BY <1>1, <1>3, <1>4 DEF ChainIntact, PendingOnState
<1>7. NoReplay'
  <2>1. pool \cap Latest(chain).root = {} /\ pool \subseteq Extrinsics
    BY DEF Inv, TypeOK, NoReplay
  <2>2. m \notin pool
    BY <2>1, TokensAssumption
  <2> QED
    BY <2>1, <2>2, <1>1, <1>3 DEF NoReplay, root
<1>8. StateAccumulates'
  <2> DEFINE n == Len(chain.canon)
  <2>1. /\ n \in Nat \ {0} /\ chain.canon[n] = Latest(chain)
        /\ chain'.canon[n] = Latest(chain')
    BY <1>3, RootFacts DEF Latest
  <2>2. ASSUME NEW i \in 1..n - 1
        PROVE  chain'.canon[i].root \subseteq chain'.canon[i + 1].root
    <3>1. chain.canon[i].root \subseteq chain.canon[i + 1].root
      BY DEF Inv, StateAccumulates
    <3>2. chain'.canon[i] = chain.canon[i]
      BY <1>3
    <3>3. CASE i + 1 = n
      BY <3>1, <3>2, <3>3, <2>1, <1>3 DEF root
    <3>4. CASE i + 1 # n
      <4>1. i + 1 \in 1..n - 1
        BY <3>4, <2>1
      <4> QED
        BY <4>1, <3>1, <3>2, <1>3
    <3> QED
      BY <3>3, <3>4
  <2> QED
    BY <2>2, <1>3 DEF StateAccumulates
<1> QED
  BY <1>5, <1>6, <1>7, <1>8 DEF Inv

\* A commit that fails after its revert preserves it on a shorter chain.
LEMMA WithMutStateErrInv ==
  ASSUME Inv, WithMutStateErr
  PROVE  Inv'
<1> DEFINE n == Len(chain.canon)
<1>1. /\ next = NoBlock /\ next' = NoBlock
      /\ chain' = WithStateCommitErr(chain)
      /\ pool' = pool
  BY DEF WithMutStateErr
<1>2. /\ chain' \in ChainsOf(Roots)
      /\ Len(chain'.canon) = IF n = 1 THEN 1 ELSE n - 1
      /\ \A i \in 1..Len(chain'.canon) : chain'.canon[i] = chain.canon[i]
      /\ BestIsFinal(chain')
      /\ chain'.fresh = chain.fresh
  BY <1>1, RootFacts, CommitErrEffect
<1>3. /\ n \in Nat \ {0}
      /\ Len(chain'.canon) \in Nat \ {0}
      /\ Len(chain'.canon) > 0
      /\ Len(chain'.canon) <= n
      /\ chain.fresh <= chain'.fresh
  <2>1. n \in Nat \ {0} /\ chain.fresh \in Nat
    BY RootFacts
  <2> HIDE DEF n
  <2>2. /\ Len(chain'.canon) \in Nat \ {0}
        /\ Len(chain'.canon) > 0 /\ Len(chain'.canon) <= n
    BY <2>1, <1>2
  <2>3. chain.fresh <= chain'.fresh
    BY <2>1, <1>2
  <2> QED
    BY <2>1, <2>2, <2>3
<1>4. Linked(chain')
  BY <1>2, <1>3, RootFacts, LinkedShorter
<1>5. TypeOK'
  BY <1>1, <1>2 DEF Inv, TypeOK, WithMutStateErr
<1>6. ChainIntact' /\ PendingOnState'
  BY <1>1, <1>2, <1>4 DEF ChainIntact, PendingOnState
<1>7. Latest(chain').root \subseteq Latest(chain).root
  <2>1. Len(chain'.canon) \in 1..Len(chain'.canon)
    BY <1>3
  <2>2. Latest(chain') = chain.canon[Len(chain'.canon)]
    BY <2>1, <1>2 DEF Latest
  <2>3. CASE n = 1
    BY <2>2, <2>3, <1>2 DEF Latest
  <2>4. CASE n # 1
    <3>1. n - 1 \in 1..n - 1
      BY <2>4, <1>3, LastTwo
    <3>2. (n - 1) + 1 = n
      BY <1>3
    <3>3. chain.canon[n - 1].root \subseteq chain.canon[(n - 1) + 1].root
      BY <3>1 DEF Inv, StateAccumulates
    <3> QED
      BY <3>1, <3>2, <3>3, <2>2, <2>4, <1>2 DEF Latest
  <2> QED
    BY <2>3, <2>4
<1>8. NoReplay'
  BY <1>1, <1>7 DEF Inv, NoReplay
<1>9. StateAccumulates'
  <2>1. ASSUME NEW i \in 1..Len(chain'.canon) - 1
        PROVE  chain'.canon[i].root \subseteq chain'.canon[i + 1].root
    <3>1. /\ i \in 1..Len(chain'.canon) /\ i + 1 \in 1..Len(chain'.canon)
          /\ i \in 1..n - 1
      BY <1>3
    <3>2. chain.canon[i].root \subseteq chain.canon[i + 1].root
      BY <3>1 DEF Inv, StateAccumulates
    <3> QED
      BY <3>1, <3>2, <1>2
  <2> QED
    BY <2>1 DEF StateAccumulates
<1> QED
  BY <1>5, <1>6, <1>8, <1>9 DEF Inv

\* Steps that leave the chain alone and empty or keep next.
LEMMA QuietInv ==
  ASSUME Inv, chain' = chain, next' \in {next, NoBlock}, pool' \subseteq pool,
         TypeOK'
  PROVE  Inv'
BY DEF Inv, ChainIntact, PendingOnState, NoReplay, StateAccumulates

\* Every step preserves the inductive invariant.
LEMMA NextInv == Inv /\ [Next]_vars => Inv'
<1> SUFFICES ASSUME Inv, [Next]_vars PROVE Inv'
  OBVIOUS
<1>0. TypeOK
  BY DEF Inv
<1>1. ASSUME NEW x \in Extrinsics, AppendExtrinsic(x) PROVE Inv'
  BY <1>1, AppendExtrinsicInv
<1>2. CASE AppendTransition
  <2>1. TypeOK'
    BY <1>2, <1>0 DEF AppendTransition, TypeOK
  <2> QED
    BY <1>2, <2>1, QuietInv DEF AppendTransition
<1>3. ASSUME NEW included \in SUBSET pool, NEW stale \in SUBSET (pool \ included),
             BuildBlock(included, stale)
      PROVE  Inv'
  BY <1>3, BuildBlockInv
<1>4. CASE ImportBlock
  BY <1>4, ImportBlockInv
<1>5. CASE ImportBlockErr
  <2>1. TypeOK'
    BY <1>5, <1>0 DEF ImportBlockErr, TypeOK
  <2> QED
    BY <1>5, <2>1, QuietInv DEF ImportBlockErr
<1>6. ASSUME NEW m \in Mutations, WithMutState(m) PROVE Inv'
  BY <1>6, WithMutStateInv
<1>7. CASE WithMutStateErr
  BY <1>7, WithMutStateErrInv
<1>8. CASE Reopen
  <2>1. TypeOK'
    BY <1>8, <1>0, RootFacts DEF Reopen, TypeOK
  <2> QED
    BY <1>8, <2>1, QuietInv DEF Reopen
<1>9. CASE UNCHANGED vars
  <2>1. TypeOK'
    BY <1>9, <1>0 DEF vars, TypeOK
  <2> QED
    BY <1>9, <2>1, QuietInv DEF vars
<1> QED
  BY <1>1, <1>2, <1>3, <1>4, <1>5, <1>6, <1>7, <1>8, <1>9 DEF Next

\* The inductive invariant holds in every reachable state.
LEMMA InvAlways == Spec => []Inv
BY InitInv, NextInv, PTL DEF Spec

-----------------------------------------------------------------------------
\* Every reachable state of a StandAloneBuilder is well typed.
THEOREM TypeCorrect == Spec => []TypeOK
<1>1. Inv => TypeOK
  BY DEF Inv
<1> QED
  BY <1>1, InvAlways, PTL

\* Whatever calls are made, in whatever order, failing commits, failing
\* imports and restarts included: the chain stays linked and final up to its
\* best block, and the pending block is a child of it.
THEOREM ChainStaysIntact == Spec => []ChainIntact
<1>1. Inv => ChainIntact
  BY DEF Inv
<1> QED
  BY <1>1, InvAlways, PTL

\* No extrinsic is pending and applied at once.
THEOREM ExtrinsicsNotReplayed == Spec => []NoReplay
<1>1. Inv => NoReplay
  BY DEF Inv
<1> QED
  BY <1>1, InvAlways, PTL

\* A block that is pending holds the latest storage and adds extrinsics only,
\* whatever failed or was restarted while it was pending.
THEOREM PendingBuiltOnState == Spec => []PendingOnState
<1>1. Inv => PendingOnState
  BY DEF Inv
<1> QED
  BY <1>1, InvAlways, PTL

\* Every block holds the storage of the block below it, mutations included.
THEOREM StorageAccumulates == Spec => []StateAccumulates
<1>1. Inv => StateAccumulates
  BY DEF Inv
<1> QED
  BY <1>1, InvAlways, PTL

\* What one call can do to the chain: it may change or drop the latest block
\* or add one; it never touches a block below the latest one.
THEOREM HistoryIsImmutable == Spec => OnlyTipChanges
<1> DEFINE n == Len(chain.canon)
           Step == /\ Len(chain'.canon) >= n - 1
                   /\ Len(chain'.canon) >= 1
                   /\ \A i \in 1..n - 1 : chain'.canon[i] = chain.canon[i]
<1>1. ASSUME Inv, [Next]_vars PROVE [Step]_vars
  <2>0. n \in Nat \ {0}
    BY <1>1, RootFacts
  <2>1. CASE chain' = chain
    BY <2>1, <2>0
  <2>2. ASSUME NEW included \in SUBSET pool, NEW stale \in SUBSET (pool \ included),
               BuildBlock(included, stale)
        PROVE  Step
    <3>1. chain'.canon = chain.canon
      BY <2>2 DEF BuildBlock, Proposed
    <3> QED
      BY <3>1, <2>0
  <2>3. CASE ImportBlock
    <3>1. /\ Len(chain'.canon) = n + 1
          /\ \A i \in 1..n : chain'.canon[i] = chain.canon[i]
      BY <1>1, <2>3, ImportIsGrowth DEF ImportBlock
    <3>2. \A i \in 1..n - 1 : i \in 1..n
      BY <2>0
    <3> QED
      BY <3>1, <3>2, <2>0
  <2>4. ASSUME NEW m \in Mutations, WithMutState(m) PROVE Step
    <3>1. Latest(chain).root \cup {m} \in Roots
      BY <1>1, RootFacts DEF Roots
    <3>2. /\ Len(chain'.canon) = n
          /\ \A i \in 1..n - 1 : chain'.canon[i] = chain.canon[i]
      <4> DEFINE root == Latest(chain).root \cup {m}
      <4>1. chain' = WithStateCommit(chain, root) /\ root \in Roots
        BY <2>4, <3>1 DEF WithMutState
      <4> HIDE DEF root
      <4> QED
        BY <1>1, <4>1, RootFacts, CommitEffect
    <3> QED
      BY <3>2, <2>0
  <2>5. CASE WithMutStateErr
    <3>1. /\ Len(chain'.canon) = IF n = 1 THEN 1 ELSE n - 1
          /\ \A i \in 1..Len(chain'.canon) : chain'.canon[i] = chain.canon[i]
      BY <1>1, <2>5, RootFacts, CommitErrEffect DEF WithMutStateErr
    <3>2. CASE n = 1
      BY <3>1, <3>2, <2>0
    <3>3. CASE n # 1
      <4>1. Len(chain'.canon) = n - 1 /\ n - 1 >= 1
        <5> HIDE DEF n
        <5> QED
          BY <3>1, <3>3, <2>0, LastTwo
      <4> QED
        BY <4>1, <3>1, <2>0
    <3> QED
      BY <3>2, <3>3
  <2>6. CASE ~(chain' = chain)
    <3>1. ~AppendTransition /\ ~ImportBlockErr /\ ~Reopen /\ ~UNCHANGED vars
      BY <2>6 DEF AppendTransition, ImportBlockErr, Reopen, vars
    <3>2. \A x \in Extrinsics : ~AppendExtrinsic(x)
      BY <2>6 DEF AppendExtrinsic
    <3> HIDE DEF Step
    <3> QED
      BY <1>1, <2>2, <2>3, <2>4, <2>5, <3>1, <3>2 DEF Next
  <2> QED
    BY <2>1, <2>6
<1> QED
  BY <1>1, InvAlways, PTL DEF Spec, OnlyTipChanges

-----------------------------------------------------------------------------
\* What holds besides Inv when no commit fails half way.
Reliable == ImportsMirrorChain /\ CommittedSurvive /\ NoExtrinsicLost

\* A new builder satisfies the invariant of reliable commits.
LEMMA InitReliable == Init => Reliable
<1> SUFFICES ASSUME Init PROVE Reliable
  OBVIOUS
<1> DEFINE g == [hash |-> 1, parent |-> 0, root |-> {}]
<1>1. chain.canon = <<g>> /\ base = 1 /\ imports = << >>
  BY DEF Init, NewChain
<1> HIDE DEF g
<1>2. Len(chain.canon) = base + Len(imports) /\ 1..Len(imports) = {}
  BY <1>1
<1> QED
  BY <1>2 DEF Init, Reliable, ImportsMirrorChain, CommittedSurvive, NoExtrinsicLost

\* import_block preserves it: the recorded block is the one that was added.
LEMMA ImportBlockReliable ==
  ASSUME Inv, Reliable, ImportBlock
  PROVE  Reliable'
<1> DEFINE n == Len(chain.canon)
           k == Len(imports)
<1>1. /\ next # NoBlock
      /\ chain' = ImportFinal(chain, next)
      /\ imports' = Append(imports, next)
      /\ UNCHANGED <<base, committed, accepted, invalid>>
  BY DEF ImportBlock
<1>2. /\ next \in Blocks
      /\ Len(chain'.canon) = n + 1
      /\ \A i \in 1..n : chain'.canon[i] = chain.canon[i]
      /\ Latest(chain') = next
      /\ chain'.canon[n + 1] = next
  BY <1>1, ImportIsGrowth DEF Latest
<1>3. pool' = pool \ next.root
  BY <1>1, <1>2, ImportIsGrowth DEF ImportBlock, Maintain
<1>4. /\ imports \in Seq(Blocks) /\ base \in Nat /\ k \in Nat
      /\ n \in Nat \ {0} /\ n = base + k
  BY RootFacts DEF Inv, TypeOK, Reliable, ImportsMirrorChain
<1>5. Latest(chain).root \subseteq next.root
  BY <1>1 DEF Inv, PendingOnState
<1>6. ImportsMirrorChain'
  <2>1. /\ Len(imports') = k + 1
        /\ imports'[k + 1] = next
        /\ \A i \in 1..k : imports'[i] = imports[i]
    BY <1>1, <1>2, <1>4
  <2> HIDE DEF n, k
  <2>2. Len(chain'.canon) = base' + Len(imports')
    BY <2>1, <1>1, <1>2, <1>4
  <2>3. ASSUME NEW i \in 1..k + 1
        PROVE  imports'[i].root \subseteq chain'.canon[base + i].root
    <3>1. CASE i = k + 1
      <4>1. base + i = n + 1
        BY <3>1, <1>4
      <4> QED
        BY <3>1, <4>1, <2>1, <1>2
    <3>2. CASE i # k + 1
      <4>1. i \in 1..k /\ base + i \in 1..n
        BY <3>2, <1>4
      <4>2. imports[i].root \subseteq chain.canon[base + i].root
        BY <4>1 DEF Reliable, ImportsMirrorChain, k
      <4> QED
        BY <4>1, <4>2, <2>1, <1>2
    <3> QED
      BY <3>1, <3>2
  <2> QED
    BY <2>1, <2>2, <2>3, <1>1 DEF ImportsMirrorChain
<1>7. CommittedSurvive' /\ NoExtrinsicLost'
  BY <1>1, <1>2, <1>3, <1>5 DEF Reliable, CommittedSurvive, NoExtrinsicLost
<1> QED
  BY <1>6, <1>7 DEF Reliable

\* with_mut_state preserves it: the latest storage only grows.
LEMMA WithMutStateReliable ==
  ASSUME Inv, Reliable, NEW m \in Mutations, WithMutState(m)
  PROVE  Reliable'
<1> DEFINE n == Len(chain.canon)
           k == Len(imports)
           root == Latest(chain).root \cup {m}
<1>1. /\ chain' = WithStateCommit(chain, root)
      /\ committed' = committed \cup {m}
      /\ UNCHANGED <<pool, imports, base, accepted, invalid>>
  BY DEF WithMutState
<1>2. root \in Roots
  BY RootFacts DEF Roots
<1> HIDE DEF root
<1>3. /\ Len(chain'.canon) = n
      /\ \A i \in 1..n - 1 : chain'.canon[i] = chain.canon[i]
      /\ Latest(chain').root = root
  BY <1>1, <1>2, RootFacts, CommitEffect
<1>4. /\ chain'.canon[n].root = root
      /\ chain.canon[n].root \subseteq root
  BY <1>3 DEF Latest, root
<1>5. /\ base \in Nat /\ k \in Nat
      /\ n \in Nat \ {0} /\ n = base + k
  BY RootFacts DEF Inv, TypeOK, Reliable, ImportsMirrorChain
<1>6. ImportsMirrorChain'
  <2>1. ASSUME NEW i \in 1..k
        PROVE  imports[i].root \subseteq chain'.canon[base + i].root
    <3>1. imports[i].root \subseteq chain.canon[base + i].root
      BY DEF Reliable, ImportsMirrorChain
    <3> HIDE DEF n, k
    <3>2. CASE base + i = n
      BY <3>1, <3>2, <1>4
    <3>3. CASE base + i # n
      <4>1. base + i \in 1..n - 1
        BY <3>3, <1>5
      <4> QED
        BY <4>1, <3>1, <1>3
    <3> QED
      BY <3>2, <3>3
  <2> QED
    BY <2>1, <1>1, <1>3, <1>5 DEF ImportsMirrorChain
<1>7. CommittedSurvive' /\ NoExtrinsicLost'
  BY <1>1, <1>3 DEF Reliable, CommittedSurvive, NoExtrinsicLost, root
<1> QED
  BY <1>6, <1>7 DEF Reliable

\* Every step preserves it when no commit fails.
LEMMA NextReliable ==
  ASSUME CommitFails = FALSE, Inv, Reliable, [Next]_vars
  PROVE  Reliable'
<1> USE DEF Reliable, ImportsMirrorChain, CommittedSurvive, NoExtrinsicLost
<1>1. ASSUME NEW x \in Extrinsics, AppendExtrinsic(x) PROVE Reliable'
  BY <1>1 DEF AppendExtrinsic
<1>2. CASE AppendTransition
  BY <1>2 DEF AppendTransition
<1>3. ASSUME NEW included \in SUBSET pool, NEW stale \in SUBSET (pool \ included),
             BuildBlock(included, stale)
      PROVE  Reliable'
  <2>1. /\ chain'.canon = chain.canon /\ Latest(chain') = Latest(chain)
        /\ pool' = pool \ stale /\ invalid' = invalid \cup stale
        /\ UNCHANGED <<imports, base, committed, accepted>>
    BY <1>3 DEF BuildBlock, Proposed, Latest
  <2> QED
    BY <2>1
<1>4. CASE ImportBlock
  BY <1>4, ImportBlockReliable
<1>5. CASE ImportBlockErr
  BY <1>5 DEF ImportBlockErr
<1>6. ASSUME NEW m \in Mutations, WithMutState(m) PROVE Reliable'
  BY <1>6, WithMutStateReliable
<1>7. ~WithMutStateErr
  BY DEF WithMutStateErr
<1>8. CASE Reopen
  <2>1. Len(chain'.canon) = base' + Len(imports') /\ 1..Len(imports') = {}
    BY <1>8, RootFacts DEF Reopen
  <2> QED
    BY <1>8, <2>1 DEF Reopen
<1>9. CASE UNCHANGED vars
  BY <1>9 DEF vars
<1> QED
  BY <1>1, <1>2, <1>3, <1>4, <1>5, <1>6, <1>7, <1>8, <1>9 DEF Next

\* Reliable holds in every state when no commit fails half way.
LEMMA ReliableAlways ==
  ASSUME CommitFails = FALSE
  PROVE  Spec => []Reliable
<1>1. Init => Reliable
  BY InitReliable
<1>2. Inv /\ Reliable /\ [Next]_vars => Reliable'
  BY NextReliable
<1> QED
  BY <1>1, <1>2, InvAlways, PTL DEF Spec

\* As long as no commit fails half way, every block in imports is in the chain,
\* at its number and with all it applied, although core import_block hides
\* refused imports.
THEOREM ImportsAreInChain ==
  ASSUME CommitFails = FALSE
  PROVE  Spec => []ImportsMirrorChain
<1>1. Reliable => ImportsMirrorChain
  BY DEF Reliable
<1> QED
  BY <1>1, ReliableAlways, PTL

\* As long as no commit fails half way, what with_mut_state committed is in the
\* latest state for ever.
THEOREM CommittedAreKept ==
  ASSUME CommitFails = FALSE
  PROVE  Spec => []CommittedSurvive
<1>1. Reliable => CommittedSurvive
  BY DEF Reliable
<1> QED
  BY <1>1, ReliableAlways, PTL

\* As long as no commit fails half way, no accepted extrinsic disappears, not
\* even through an import_block that fails.
THEOREM ExtrinsicsAreKept ==
  ASSUME CommitFails = FALSE
  PROVE  Spec => []NoExtrinsicLost
<1>1. Reliable => NoExtrinsicLost
  BY DEF Reliable
<1> QED
  BY <1>1, ReliableAlways, PTL

-----------------------------------------------------------------------------
\* The storage after each block: the states of Ledger.
St(c) == [i \in 1..Len(c.canon) |-> c.canon[i].root]

\* The refinement mapping's length and elements.
LEMMA StFacts ==
  ASSUME NEW c \in ChainsOf(Roots)
  PROVE  /\ St(c) \in Seq(Roots)
         /\ Len(St(c)) = Len(c.canon)
         /\ \A i \in 1..Len(c.canon) : St(c)[i] = c.canon[i].root
<1>1. c.canon \in Seq(BlocksOf(Roots))
  BY DEF ChainsOf
<1>2. Len(c.canon) \in Nat /\ \A i \in 1..Len(c.canon) : c.canon[i] \in BlocksOf(Roots)
  BY <1>1
<1>3. \A i \in 1..Len(c.canon) : c.canon[i].root \in Roots
  BY <1>2 DEF BlocksOf
<1>4. St(c) \in Seq(Roots)
  BY <1>2, <1>3 DEF St
<1> QED
  BY <1>2, <1>4 DEF St

\* Every step of StandAloneBuilder is a step of Ledger or leaves it alone.
LEMMA StepRefines ==
  ASSUME CommitFails = FALSE, Inv, [Next]_vars
  PROVE  L!Next \/ St(chain') = St(chain)
<1> DEFINE n == Len(chain.canon)
<1>0. /\ chain \in ChainsOf(Roots) /\ n \in Nat \ {0}
      /\ St(chain) \in Seq(Roots) /\ Len(St(chain)) = n
      /\ \A i \in 1..n : St(chain)[i] = chain.canon[i].root
      /\ St(chain)[n] = Latest(chain).root
      /\ Latest(chain).root \in Roots
  BY RootFacts, StFacts DEF Latest
<1>1. CASE chain'.canon = chain.canon
  BY <1>1 DEF St
<1>2. CASE ImportBlock
  <2> DEFINE applied == next.root \ Latest(chain).root
  <2>1. /\ next \in Blocks
        /\ chain' \in ChainsOf(Roots)
        /\ Len(chain'.canon) = n + 1
        /\ \A i \in 1..n : chain'.canon[i] = chain.canon[i]
        /\ chain'.canon[n + 1] = next
    BY <1>2, ImportIsGrowth DEF ImportBlock, Latest
  <2>2. Latest(chain).root \subseteq next.root /\ applied \in SUBSET Extrinsics
    BY <1>2 DEF Inv, PendingOnState, ImportBlock
  <2>3. next.root = Latest(chain).root \cup applied /\ next.root \in Roots
    BY <2>1, <2>2 DEF Blocks, BlocksOf
  <2>4. applied \cap Latest(chain).root = {}
    OBVIOUS
  <2> HIDE DEF applied, n
  <2>5. /\ St(chain') \in Seq(Roots) /\ Len(St(chain')) = n + 1
        /\ \A i \in 1..n + 1 : St(chain')[i] = chain'.canon[i].root
    BY <2>1, StFacts
  <2>6. /\ Append(St(chain), next.root) \in Seq(Roots)
        /\ Len(Append(St(chain), next.root)) = n + 1
        /\ \A i \in 1..n : Append(St(chain), next.root)[i] = St(chain)[i]
        /\ Append(St(chain), next.root)[n + 1] = next.root
    BY <1>0, <2>3
  <2>7. \A i \in 1..n + 1 : St(chain')[i] = Append(St(chain), next.root)[i]
    <3>1. \A i \in 1..n + 1 : i \in 1..n \/ i = n + 1
      BY <1>0
    <3>2. ASSUME NEW i \in 1..n PROVE St(chain')[i] = Append(St(chain), next.root)[i]
      <4>1. i \in 1..n + 1
        BY <1>0
      <4> QED
        BY <4>1, <1>0, <2>1, <2>5, <2>6
    <3>3. St(chain')[n + 1] = Append(St(chain), next.root)[n + 1]
      <4>1. n + 1 \in 1..n + 1
        BY <1>0
      <4> QED
        BY <4>1, <2>1, <2>5, <2>6
    <3> QED
      BY <3>1, <3>2, <3>3
  <2>8. St(chain') = Append(St(chain), next.root)
    BY <2>5, <2>6, <2>7, SeqEqual
  <2>9. L!Top = Latest(chain).root
    BY <1>0 DEF L!Top, St
  <2> QED
    BY <2>2, <2>3, <2>4, <2>8, <2>9 DEF L!Next, L!Seal, St
<1>3. ASSUME NEW m \in Mutations, WithMutState(m) PROVE L!Next
  <2> DEFINE root == Latest(chain).root \cup {m}
             amended == [St(chain) EXCEPT ![n] = root]
  <2>1. chain' = WithStateCommit(chain, root) /\ root \in Roots
    BY <1>3, <1>0 DEF WithMutState, Roots
  <2> HIDE DEF root
  <2>2. /\ chain' \in ChainsOf(Roots)
        /\ Len(chain'.canon) = n
        /\ \A i \in 1..n - 1 : chain'.canon[i] = chain.canon[i]
        /\ Latest(chain').root = root
    BY <2>1, RootFacts, CommitEffect
  <2>3. chain'.canon[n].root = root
    BY <2>2 DEF Latest
  <2> HIDE DEF n
  <2>4. /\ St(chain') \in Seq(Roots) /\ Len(St(chain')) = n
        /\ \A i \in 1..n : St(chain')[i] = chain'.canon[i].root
    BY <2>2, StFacts
  <2>5. /\ amended \in Seq(Roots) /\ Len(amended) = n
        /\ amended[n] = root
        /\ \A i \in 1..n - 1 : amended[i] = St(chain)[i]
    BY <1>0, <2>1
  <2> HIDE DEF amended
  <2>6. \A i \in 1..n : St(chain')[i] = amended[i]
    <3>1. \A i \in 1..n : i \in 1..n - 1 \/ i = n
      BY <1>0
    <3>2. \A i \in 1..n - 1 : i \in 1..n
      BY <1>0
    <3> QED
      BY <3>1, <3>2, <1>0, <2>2, <2>3, <2>4, <2>5
  <2>7. St(chain') = amended
    BY <2>4, <2>5, <2>6, SeqEqual
  <2>8. L!Amend(m)
    BY <2>7, <1>0 DEF L!Amend, St, amended, root
  <2> QED
    BY <2>8 DEF L!Next
<1>4. ASSUME NEW included \in SUBSET pool, NEW stale \in SUBSET (pool \ included),
             BuildBlock(included, stale)
      PROVE  chain'.canon = chain.canon
  BY <1>4 DEF BuildBlock, Proposed
<1>5. AppendTransition \/ ImportBlockErr \/ Reopen \/ UNCHANGED vars
        => chain'.canon = chain.canon
  BY DEF AppendTransition, ImportBlockErr, Reopen, vars
<1>6. \A x \in Extrinsics : AppendExtrinsic(x) => chain'.canon = chain.canon
  BY DEF AppendExtrinsic
<1>7. ~WithMutStateErr
  BY DEF WithMutStateErr
<1> QED
  BY <1>1, <1>2, <1>3, <1>4, <1>5, <1>6, <1>7 DEF Next

\* A StandAloneBuilder whose commits do not fail half way implements Ledger:
\* however its user interleaves the calls, the storage after each block only
\* changes as Ledger says.
THEOREM StandAloneImplementsLedger ==
  ASSUME CommitFails = FALSE
  PROVE  Spec => ImplementsLedger
<1>1. Init => L!Init
  <2> SUFFICES ASSUME Init PROVE L!Init
    OBVIOUS
  <2> DEFINE g == [hash |-> 1, parent |-> 0, root |-> {}]
  <2>1. chain.canon = <<g>> /\ g.root = {}
    BY DEF Init, NewChain
  <2> HIDE DEF g
  <2>2. [i \in 1..Len(chain.canon) |-> chain.canon[i].root] = << {} >>
    BY <2>1
  <2> QED
    BY <2>2 DEF L!Init
<1>2. Inv /\ [Next]_vars => [L!Next]_(St(chain))
  BY StepRefines
<1> QED
  BY <1>1, <1>2, InvAlways, PTL DEF Spec, ImplementsLedger, L!Spec, St
=============================================================================

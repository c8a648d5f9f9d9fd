----------------------------- MODULE PartsProofs -----------------------------
(***************************************************************************)
(* Proofs about the components that are modelled by themselves: a          *)
(* parachain with its transaction pool, the validation codes, the genesis  *)
(* storage, the overlay of a closure, a core::Builder that is used         *)
(* directly and the parser of the macro, each from its own specification   *)
(* and for any values of its constants; the last theorem is about all of   *)
(* them side by side.                                                      *)
(***************************************************************************)
EXTENDS MC_Parts, CoreProofs, Induction

-----------------------------------------------------------------------------
(***************************************************************************)
(* ParaPool.  AccountedOnce needs that a block that waits, pending or      *)
(* approved, holds what its parent holds if the parent is in the chain     *)
(* when it is imported.  The parent's hash is the reason: a mutation gives *)
(* the latest block an unused hash unless it wrote nothing, so that what   *)
(* waits is on top of the storage it was built on or has an unknown        *)
(* parent; and a block that waits was never in the chain.                  *)
(***************************************************************************)
\* A block that waits to be imported.
Awaits(c, b) ==
  /\ b.hash < c.fresh /\ b.parent < c.fresh
  /\ b.hash \notin CanonHashes(c)
  /\ \A i \in 1..Len(c.canon) : c.canon[i].hash = b.parent => c.canon[i].root \subseteq b.root

\* No block of chain c undoes what a block below it applied.
Grows(c) ==
  \A i \in 1..Len(c.canon) : \A j \in 1..Len(c.canon) :
    i < j => c.canon[i].root \subseteq c.canon[j].root

\* A chain with the block that is pending and the one that is approved.
PoolChain(c, pending, approved) ==
  /\ c \in Intact(Roots)
  /\ Grows(c)
  /\ pending # NoBlock => Awaits(c, pending)
  /\ approved # NoBlock => Awaits(c, approved)
  /\ pending # NoBlock /\ approved # NoBlock =>
       pending.hash # approved.hash /\ pending.parent # approved.hash

\* The half of AccountedOnce about the latest state; the chain's half is in
\* PoolChain.
Accounted ==
  LET applied == Latest(paraChain).root
  IN  /\ given \subseteq pool \cup applied \cup invalid \cup lost
      /\ pool \cap applied = {}

\* The inductive invariant of ParaPool.
PoolInv == PoolTypeOK /\ PoolChain(paraChain, nextBlock, nextImport) /\ Accounted

\* The invariant of the run follows.
LEMMA PoolInvImplies == PoolInv => AccountedOnce
BY DEF PoolInv, PoolChain, Grows, Accounted, AccountedOnce

\* The blocks below the latest one hold no more than it does.
LEMMA GrowsToLatest ==
  ASSUME NEW c \in Intact(Roots), Grows(c), NEW i \in 1..Len(c.canon)
  PROVE  c.canon[i].root \subseteq Latest(c).root
<1>1. Len(c.canon) \in Nat \ {0} /\ Latest(c) = c.canon[Len(c.canon)]
  BY IntactFacts
<1>2. CASE i = Len(c.canon)
  BY <1>1, <1>2
<1>3. CASE i # Len(c.canon)
  <2>1. i < Len(c.canon) /\ Len(c.canon) \in 1..Len(c.canon)
    BY <1>1, <1>3
  <2> QED
    BY <1>1, <2>1 DEF Grows
<1> QED
  BY <1>2, <1>3

\* The numbers of a waiting block.
LEMMA PoolBlockType ==
  ASSUME NEW b \in Blocks
  PROVE  b \in BlocksOf(Roots) /\ b.hash \in Nat /\ b.parent \in Nat /\ b # NoBlock
BY TokensAssumption DEF Blocks, BlocksOf

\* build_block puts the proposal aside.
LEMMA PoolBuild ==
  ASSUME NEW c, NEW pending, NEW approved \in Blocks \cup {NoBlock},
         PoolChain(c, pending, approved), NEW root \in Roots, Latest(c).root \subseteq root
  PROVE  LET b == Propose(c, root)
             d == ImportSide(Proposed(c), b)
         IN  PoolChain(d, b, approved) /\ b \in Blocks /\ Latest(d) = Latest(c)
<1> DEFINE b == Propose(c, root)
           d == ImportSide(Proposed(c), b)
<1>1. /\ c \in Intact(Roots) /\ c \in ChainsOf(Roots) /\ c.fresh \in Nat
      /\ Latest(c) \in BlocksOf(Roots)
      /\ Len(c.canon) \in Nat \ {0} /\ Latest(c) = c.canon[Len(c.canon)]
      /\ \A h \in CanonHashes(c) : h \in Nat /\ h < c.fresh
  BY IntactFacts DEF PoolChain
<1>2. b \in Blocks /\ b.hash = c.fresh /\ b.parent = Latest(c).hash /\ b.root = root
  BY <1>1 DEF Propose, Blocks, BlocksOf
<1> HIDE DEF b
<1>3. /\ d.canon = c.canon /\ d.fin = c.fin /\ d.fresh = c.fresh + 1
      /\ d \in ChainsOf(Roots)
  BY <1>1, <1>2 DEF ImportSide, Proposed, ChainsOf, Blocks
<1> HIDE DEF d
<1>4. d \in Intact(Roots) /\ Latest(d) = Latest(c) /\ CanonHashes(d) = CanonHashes(c)
  BY <1>1, <1>3, SameCanonIntact
<1>5. Latest(c).hash \in CanonHashes(c)
  BY <1>1 DEF CanonHashes
<1>6. \A i \in 1..Len(c.canon) : c.canon[i].root \subseteq root
  BY <1>1, GrowsToLatest DEF PoolChain
<1>7. Awaits(d, b)
  BY <1>1, <1>2, <1>3, <1>4, <1>5, <1>6 DEF Awaits
<1>8. ASSUME approved # NoBlock
      PROVE  Awaits(d, approved) /\ b.hash # approved.hash /\ b.parent # approved.hash
  <2>1. approved.hash \in Nat /\ approved.parent \in Nat /\ Awaits(c, approved)
    BY <1>8, PoolBlockType DEF PoolChain
  <2> QED
    BY <2>1, <1>1, <1>2, <1>3, <1>4, <1>5 DEF Awaits
<1>9. Grows(d)
  BY <1>3 DEF PoolChain, Grows
<1> QED
  BY <1>2, <1>4, <1>7, <1>8, <1>9 DEF PoolChain, b, d

\* with_mut_state adds to the latest storage.
LEMMA PoolCommit ==
  ASSUME NEW c, NEW pending \in Blocks \cup {NoBlock}, NEW approved \in Blocks \cup {NoBlock},
         PoolChain(c, pending, approved), NEW root \in Roots, Latest(c).root \subseteq root
  PROVE  LET d == WithStateCommit(c, root)
         IN  PoolChain(d, pending, approved) /\ Latest(d).root = root
<1> DEFINE d == WithStateCommit(c, root)
           n == Len(c.canon)
<1>1. /\ c \in Intact(Roots) /\ c.fresh \in Nat /\ n \in Nat \ {0}
      /\ Latest(c) = c.canon[n] /\ Grows(c)
      /\ \A h \in CanonHashes(c) : h \in Nat /\ h < c.fresh
  BY IntactFacts DEF PoolChain
<1>2. /\ d \in Intact(Roots) /\ Len(d.canon) = n
      /\ \A i \in 1..n - 1 : d.canon[i] = c.canon[i]
      /\ Latest(d).root = root /\ c.fresh <= d.fresh
      /\ CanonHashes(d) \subseteq CanonHashes(c) \cup {c.fresh}
      /\ Latest(d).hash \in {Latest(c).hash, c.fresh}
      /\ Latest(d).hash = Latest(c).hash => root = Latest(c).root
  BY <1>1, CommitIntact
<1> HIDE DEF d
<1>3. d.fresh \in Nat /\ Latest(d) = d.canon[n]
  BY <1>2, IntactFacts
<1>4. \A i \in 1..n : i \in 1..n - 1 \/ i = n
  BY <1>1
<1>5. Grows(d)
  <2> SUFFICES ASSUME NEW i \in 1..n, NEW j \in 1..n, i < j
               PROVE  d.canon[i].root \subseteq d.canon[j].root
    BY <1>2 DEF Grows
  <2>1. i \in 1..n - 1 /\ d.canon[i] = c.canon[i]
    BY <1>1, <1>2
  <2>2. CASE j = n
    <3>1. c.canon[i].root \subseteq Latest(c).root
      BY <1>1, GrowsToLatest
    <3> QED
      BY <1>2, <1>3, <2>1, <2>2, <3>1
  <2>3. CASE j \in 1..n - 1
    BY <1>1, <1>2, <2>1, <2>3 DEF Grows
  <2> QED
    BY <1>4, <2>2, <2>3
<1>6. ASSUME NEW b \in Blocks, Awaits(c, b) PROVE Awaits(d, b)
  <2>1. b.hash \in Nat /\ b.parent \in Nat
    BY PoolBlockType
  <2>2. /\ b.hash < c.fresh /\ b.parent < c.fresh
        /\ b.hash \notin CanonHashes(c)
        /\ \A i \in 1..n : c.canon[i].hash = b.parent => c.canon[i].root \subseteq b.root
    BY <1>6 DEF Awaits
  <2>3. b.hash < d.fresh /\ b.parent < d.fresh /\ b.hash \notin CanonHashes(d)
    BY <1>1, <1>2, <1>3, <2>1, <2>2
  <2>4. ASSUME NEW i \in 1..n, d.canon[i].hash = b.parent
        PROVE  d.canon[i].root \subseteq b.root
    <3>1. CASE i \in 1..n - 1
      BY <1>2, <2>2, <2>4, <3>1
    <3>2. CASE i = n
      <4>1. Latest(d).hash = b.parent /\ b.parent # c.fresh
        BY <1>1, <1>3, <2>1, <2>2, <2>4, <3>2
      <4>2. root = Latest(c).root /\ Latest(c).hash = b.parent
        BY <1>2, <4>1
      <4>3. n \in 1..n
        BY <1>1
      <4>4. Latest(c).root \subseteq b.root
        BY <1>1, <2>2, <4>2, <4>3
      <4> QED
        BY <1>2, <1>3, <3>2, <4>2, <4>4
    <3> QED
      BY <1>4, <3>1, <3>2
  <2> QED
    BY <1>2, <2>3, <2>4 DEF Awaits
<1>7. PoolChain(d, pending, approved)
  BY <1>2, <1>5, <1>6 DEF PoolChain
<1> QED
  BY <1>2, <1>7 DEF d

\* A commit that fails leaves a shorter chain.
LEMMA PoolCommitErr ==
  ASSUME NEW c, NEW pending, NEW approved, PoolChain(c, pending, approved)
  PROVE  PoolChain(WithStateCommitErr(c), pending, approved)
<1> DEFINE d == WithStateCommitErr(c)
<1>1. /\ d \in Intact(Roots)
      /\ \A i \in 1..Len(d.canon) : i \in 1..Len(c.canon) /\ d.canon[i] = c.canon[i]
      /\ d.fresh = c.fresh
      /\ CanonHashes(d) \subseteq CanonHashes(c)
  BY CommitErrIntact DEF PoolChain
<1> HIDE DEF d
<1>2. Grows(d)
  BY <1>1 DEF PoolChain, Grows
<1>3. \A b : Awaits(c, b) => Awaits(d, b)
  BY <1>1 DEF Awaits
<1> QED
  BY <1>1, <1>2, <1>3 DEF PoolChain, d

\* The approved block is imported on top of its parent.
LEMMA PoolImport ==
  ASSUME NEW c, NEW pending \in Blocks \cup {NoBlock}, NEW approved \in Blocks,
         PoolChain(c, pending, approved), approved.parent = Latest(c).hash
  PROVE  LET d == ImportFinal(c, approved)
         IN  /\ PoolChain(d, pending, NoBlock)
             /\ Latest(d) = approved /\ Latest(c).root \subseteq approved.root
<1> DEFINE d == ImportFinal(c, approved)
           n == Len(c.canon)
<1>1. /\ c \in Intact(Roots) /\ c.fresh \in Nat /\ n \in Nat \ {0}
      /\ Latest(c) = c.canon[n] /\ Grows(c) /\ Awaits(c, approved)
      /\ approved \in BlocksOf(Roots) /\ approved # NoBlock
  BY IntactFacts, PoolBlockType DEF PoolChain
<1>2. /\ d \in Intact(Roots) /\ Len(d.canon) = n + 1
      /\ \A i \in 1..n : d.canon[i] = c.canon[i]
      /\ Latest(d) = approved /\ d.canon[n + 1] = approved
      /\ d.fresh = c.fresh
      /\ CanonHashes(d) = CanonHashes(c) \cup {approved.hash}
  BY <1>1, ImportIntact DEF Awaits
<1> HIDE DEF d
<1>3. Latest(c).root \subseteq approved.root
  <2>1. n \in 1..n
    BY <1>1
  <2> QED
    BY <1>1, <2>1 DEF Awaits
<1>4. \A i \in 1..n + 1 : i \in 1..n \/ i = n + 1
  BY <1>1
<1>5. \A i \in 1..n : c.canon[i].root \subseteq approved.root
  BY <1>1, <1>3, GrowsToLatest
<1>6. Grows(d)
  <2> SUFFICES ASSUME NEW i \in 1..n + 1, NEW j \in 1..n + 1, i < j
               PROVE  d.canon[i].root \subseteq d.canon[j].root
    BY <1>2 DEF Grows
  <2>1. i \in 1..n
    BY <1>1
  <2>2. CASE j \in 1..n
    BY <1>1, <1>2, <2>1, <2>2 DEF Grows
  <2>3. CASE j = n + 1
    BY <1>2, <1>5, <2>1, <2>3
  <2> QED
    BY <1>4, <2>2, <2>3
<1>7. ASSUME pending # NoBlock PROVE Awaits(d, pending)
  <2>1. Awaits(c, pending) /\ pending.hash # approved.hash /\ pending.parent # approved.hash
    BY <1>1, <1>7 DEF PoolChain
  <2> QED
    BY <2>1, <1>2, <1>4 DEF Awaits
<1> QED
  BY <1>2, <1>3, <1>6, <1>7 DEF PoolChain, d

\* Initially there is a genesis block and nothing waits.
LEMMA PoolInitInv == PoolInit => PoolInv
<1> SUFFICES ASSUME PoolInit PROVE PoolInv
  OBVIOUS
<1>1. {} \in Roots
  BY DEF Roots
<1>2. /\ paraChain \in Intact(Roots) /\ Len(paraChain.canon) = 1
      /\ paraChain \in ChainsOf(Roots)
  BY <1>1, NewChainIntact, IntactFacts DEF PoolInit
<1>3. PoolTypeOK
  BY <1>1, <1>2 DEF PoolInit, PoolTypeOK
<1>4. Grows(paraChain)
  BY <1>2 DEF Grows
<1> QED
  BY <1>2, <1>3, <1>4 DEF PoolInit, PoolInv, PoolChain, Accounted

\* What the actions need of the types.
LEMMA PoolTypes ==
  ASSUME PoolInv
  PROVE  /\ paraChain \in Intact(Roots) /\ Latest(paraChain).root \in Roots
         /\ pool \subseteq Extrinsics
         /\ nextBlock \in Blocks \cup {NoBlock} /\ nextImport \in Blocks \cup {NoBlock}
         /\ given \in Roots /\ invalid \in Roots /\ lost \in Roots
         /\ imports \in Seq(Blocks) /\ cache \in Nat
BY IntactFacts DEF PoolInv, PoolTypeOK, PoolChain

\* What is left to show after a step.
LEMMA PoolStepInv ==
  ASSUME PoolChain(paraChain, nextBlock, nextImport)', Accounted',
         pool' \subseteq Extrinsics,
         nextBlock' \in Blocks \cup {NoBlock}, nextImport' \in Blocks \cup {NoBlock},
         imports' \in Seq(Blocks), cache' \in Nat,
         given' \in Roots, invalid' \in Roots, lost' \in Roots
  PROVE  PoolInv'
<1>1. paraChain' \in ChainsOf(Roots)
  BY IntactFacts DEF PoolChain
<1>2. PoolTypeOK'
  BY <1>1 DEF PoolTypeOK
<1> QED
  BY <1>2 DEF PoolInv

\* append_extrinsic.
LEMMA AppendExtrinsicInv ==
  ASSUME PoolInv, NEW x \in Extrinsics, AppendExtrinsic(x)
  PROVE  PoolInv'
<1> USE DEF AppendExtrinsic
<1>1. PoolChain(paraChain, nextBlock, nextImport)'
  BY DEF PoolInv, PoolChain, Awaits
<1>2. Accounted'
  BY DEF PoolInv, Accounted
<1>3. given' \in Roots /\ invalid' \in Roots /\ lost' \in Roots
  BY PoolTypes DEF Roots
<1> QED
  BY <1>1, <1>2, <1>3, PoolTypes, PoolStepInv

\* append_transition.
LEMMA AppendTransitionInv ==
  ASSUME PoolInv, AppendTransition
  PROVE  PoolInv'
<1> USE DEF AppendTransition
<1>1. PoolChain(paraChain, nextBlock, nextImport)' /\ Accounted'
  BY DEF PoolInv, PoolChain, Awaits, Accounted
<1>2. cache' \in Nat
  BY PoolTypes
<1> QED
  BY <1>1, <1>2, PoolTypes, PoolStepInv

\* build_block: nothing gets applied.
LEMMA PoolBuildInv ==
  ASSUME PoolInv, NEW included \in SUBSET pool, NEW stale \in SUBSET (pool \ included),
         ParaBuildBlock(included, stale)
  PROVE  PoolInv'
<1> DEFINE root == Latest(paraChain).root \cup included
           b == Propose(paraChain, root)
<1>1. /\ paraChain' = ImportSide(Proposed(paraChain), b)
      /\ pool' = Maintain(pool \ stale, paraChain')
      /\ nextBlock' = b
      /\ invalid' = invalid \cup stale
      /\ UNCHANGED <<nextImport, imports, cache, given, lost>>
  BY DEF ParaBuildBlock
<1>2. root \in Roots /\ Latest(paraChain).root \subseteq root
  BY PoolTypes DEF Roots
<1> HIDE DEF root
<1>3. /\ PoolChain(paraChain', b, nextImport) /\ b \in Blocks
      /\ Latest(paraChain') = Latest(paraChain)
  BY <1>1, <1>2, PoolTypes, PoolBuild DEF PoolInv
<1> HIDE DEF b
<1>4. PoolChain(paraChain, nextBlock, nextImport)'
  BY <1>1, <1>3 DEF PoolChain, Awaits
<1>5. pool' = (pool \ stale) \ Latest(paraChain).root
  BY <1>1, <1>3 DEF Maintain
<1>6. Accounted'
  BY <1>1, <1>3, <1>5 DEF PoolInv, Accounted
<1>7. pool' \subseteq Extrinsics /\ invalid' \in Roots
  BY <1>1, <1>5, PoolTypes DEF Roots
<1> QED
  BY <1>1, <1>3, <1>4, <1>6, <1>7, PoolTypes, PoolStepInv

\* approve and reject.
LEMMA PoolJudgeInv ==
  ASSUME PoolInv, Approve \/ Reject
  PROVE  PoolInv'
<1> USE DEF Approve, Reject
<1>1. PoolChain(paraChain, nextBlock, nextImport)'
  BY DEF PoolInv, PoolChain, Awaits
<1>2. Accounted'
  BY DEF PoolInv, Accounted
<1> QED
  BY <1>1, <1>2, PoolTypes, PoolStepInv

\* import_block: the block is on top of its parent, or nothing happens.
LEMMA PoolImportInv ==
  ASSUME PoolInv, ParaImportBlock
  PROVE  PoolInv'
<1> USE DEF ParaImportBlock
<1>1. /\ nextImport \in Blocks /\ PoolChain(paraChain, nextBlock, nextImport)
      /\ imports' \in Seq(Blocks)
  BY PoolTypes DEF PoolInv
<1>2. CASE nextImport.parent = Latest(paraChain).hash
  <2>1. /\ PoolChain(paraChain', nextBlock, NoBlock)
        /\ Latest(paraChain').root = nextImport.root
        /\ Latest(paraChain).root \subseteq nextImport.root
    BY <1>1, <1>2, PoolTypes, PoolImport
  <2>2. pool' = pool \ nextImport.root
    BY <1>2, <2>1 DEF ImportResult, Maintain
  <2>3. PoolChain(paraChain, nextBlock, nextImport)'
    BY <2>1 DEF PoolChain, Awaits
  <2>4. Accounted'
    BY <2>1, <2>2 DEF PoolInv, Accounted
  <2> QED
    BY <1>1, <2>2, <2>3, <2>4, PoolTypes, PoolStepInv
<1>3. CASE nextImport.parent # Latest(paraChain).hash
  <2>1. paraChain' = paraChain
    BY <1>3, NoImport
  <2>2. pool' = pool
    BY <1>3 DEF ImportResult
  <2>3. PoolChain(paraChain, nextBlock, nextImport)'
    BY <1>1, <2>1 DEF PoolChain, Awaits
  <2>4. Accounted'
    BY <2>1, <2>2 DEF PoolInv, Accounted
  <2> QED
    BY <1>1, <2>2, <2>3, <2>4, PoolTypes, PoolStepInv
<1> QED
  BY <1>2, <1>3

\* with_mut_state writes no extrinsic.
LEMMA PoolMutInv ==
  ASSUME PoolInv, NEW m \in Mutations, ParaWithMutState(m)
  PROVE  PoolInv'
<1> USE DEF ParaWithMutState
<1> DEFINE root == Latest(paraChain).root \cup {m}
<1>1. root \in Roots /\ Latest(paraChain).root \subseteq root
  BY PoolTypes DEF Roots
<1>2. PoolChain(paraChain', nextBlock, nextImport) /\ Latest(paraChain').root = root
  <2> HIDE DEF root
  <2>1. paraChain' = WithStateCommit(paraChain, root)
    BY DEF root
  <2>2. /\ nextBlock \in Blocks \cup {NoBlock} /\ nextImport \in Blocks \cup {NoBlock}
        /\ PoolChain(paraChain, nextBlock, nextImport)
    BY PoolTypes DEF PoolInv
  <2>3. /\ PoolChain(WithStateCommit(paraChain, root), nextBlock, nextImport)
        /\ Latest(WithStateCommit(paraChain, root)).root = root
    BY <1>1, <2>2, PoolCommit
  <2> QED
    BY <2>1, <2>3
<1>3. PoolChain(paraChain, nextBlock, nextImport)'
  BY <1>2 DEF PoolChain, Awaits
<1>4. m \notin pool
  BY PoolTypes, TokensAssumption
<1>5. Accounted'
  BY <1>2, <1>4 DEF PoolInv, Accounted
<1>6. given' \in Roots /\ lost' \in Roots
  BY PoolTypes DEF Roots
<1> QED
  BY <1>3, <1>5, <1>6, PoolTypes, PoolStepInv

\* with_mut_state when the commit fails: what the block held is lost.
LEMMA PoolMutErrInv ==
  ASSUME PoolInv, ParaWithMutStateErr
  PROVE  PoolInv'
<1> USE DEF ParaWithMutStateErr
<1>1. PoolChain(paraChain', nextBlock, nextImport)
  BY PoolCommitErr DEF PoolInv
<1>2. PoolChain(paraChain, nextBlock, nextImport)'
  BY <1>1 DEF PoolChain, Awaits
<1>3. Latest(paraChain').root \subseteq Latest(paraChain).root
  <2> DEFINE m == Len(paraChain'.canon)
  <2>1. /\ paraChain \in Intact(Roots) /\ Grows(paraChain)
        /\ m \in Nat \ {0} /\ Latest(paraChain') = paraChain'.canon[m]
    BY <1>1, IntactFacts DEF PoolInv, PoolChain
  <2>2. m \in 1..Len(paraChain.canon) /\ paraChain'.canon[m] = paraChain.canon[m]
    BY <2>1, CommitErrIntact
  <2> QED
    BY <2>1, <2>2, GrowsToLatest
<1>4. Accounted'
  BY <1>3 DEF PoolInv, Accounted
<1>5. lost' \in Roots
  BY PoolTypes DEF Roots
<1> QED
  BY <1>2, <1>4, <1>5, PoolTypes, PoolStepInv

\* Every step preserves the invariant.
LEMMA PoolNextInv == PoolInv /\ [PoolNext]_poolVars => PoolInv'
<1> SUFFICES ASSUME PoolInv, [PoolNext]_poolVars PROVE PoolInv'
  OBVIOUS
<1>1. CASE UNCHANGED poolVars
  BY <1>1 DEF poolVars, PoolInv, PoolTypeOK, PoolChain, Awaits, Accounted
<1>2. CASE PoolNext
  BY <1>2, AppendExtrinsicInv, AppendTransitionInv, PoolBuildInv, PoolJudgeInv,
     PoolImportInv, PoolMutInv, PoolMutErrInv DEF PoolNext
<1> QED
  BY <1>1, <1>2

\* parachain.rs: whatever is built, judged, imported, mutated and lost in between,
\* what a caller was given Ok for is applied or in the pool, never both, unless
\* it is known to be invalid or lost, and no block undoes one below it.
THEOREM ExtrinsicsAccountedOnce == PoolSpec => []AccountedOnce
<1>1. PoolInv => AccountedOnce
  BY PoolInvImplies
<1> QED
  BY <1>1, PoolInitInv, PoolNextInv, PTL DEF PoolSpec

\* A parachain with its pool is well typed.
THEOREM PoolTypeCorrect == PoolSpec => []PoolTypeOK
<1>1. PoolInv => PoolTypeOK
  BY DEF PoolInv
<1> QED
  BY <1>1, PoolInitInv, PoolNextInv, PTL DEF PoolSpec

-----------------------------------------------------------------------------
(***************************************************************************)
(* ParaCodes.  The invariant is about one storage and holds of every block *)
(* (Resolvable).  That Parachains has no id twice needs that it is sorted, *)
(* as that is what makes sort after a push well defined.                   *)
(***************************************************************************)
\* Each element is less than the next ones.
Increasing(seq) == \A i \in 1..Len(seq) : \A j \in 1..Len(seq) : i < j => seq[i] < seq[j]

\* What the state of one block satisfies.
Resolvable(s) ==
  /\ \A id \in ParaIds : Referenced(s, id) \subseteq s.code
  /\ s.code = { c \in Codes : s.refs[c] > 0 }
  /\ { id \in ParaIds : s.current[id] # NoCode } = ToSet(s.parachains)
  /\ Increasing(s.parachains)

\* The inductive invariant of ParaCodes.
CodesInv ==
  /\ blocks \in Seq(Storages) /\ Len(blocks) \in 1..MaxBlocks + 1
  /\ \A n \in 1..Len(blocks) : Resolvable(blocks[n])
  /\ onboarded \in Seq(ParaIds) /\ calls \in Nat

\* Increasing sequences have no element twice.
LEMMA IncreasingInjective ==
  ASSUME NEW seq \in Seq(ParaIds), Increasing(seq)
  PROVE  IsInjective(seq)
<1>1. \A i \in 1..Len(seq) : seq[i] \in Nat
  <2>1. \A i \in 1..Len(seq) : seq[i] \in ParaIds
    OBVIOUS
  <2> QED
    BY <2>1, ParaIdsAssumption
<1>2. ASSUME NEW i \in 1..Len(seq), NEW j \in 1..Len(seq), seq[i] = seq[j] PROVE i = j
  BY <1>1, <1>2 DEF Increasing
<1> QED
  BY <1>2 DEF IsInjective

\* The invariants of the run follow.
LEMMA CodesInvImplies == CodesInv => CodesTypeOK /\ CodesResolvable
<1> SUFFICES ASSUME CodesInv PROVE CodesTypeOK /\ CodesResolvable
  OBVIOUS
<1>1. DOMAIN blocks = 1..Len(blocks) /\ \A n \in 1..Len(blocks) : blocks[n] \in Storages
  BY DEF CodesInv
<1>2. CodesTypeOK
  BY <1>1 DEF CodesInv, CodesTypeOK, Storages
<1>3. ASSUME NEW n \in 1..Len(blocks) PROVE IsInjective(blocks[n].parachains)
  <2>1. blocks[n].parachains \in Seq(ParaIds) /\ Increasing(blocks[n].parachains)
    BY <1>1 DEF CodesInv, Resolvable, Storages
  <2> QED
    BY <2>1, IncreasingInjective
<1>4. CodesResolvable
  BY <1>1, <1>3 DEF CodesInv, CodesResolvable, Resolvable
<1> QED
  BY <1>2, <1>4

\* There is a place for a new element in an increasing sequence.
LEMMA PlaceFor ==
  ASSUME NEW seq \in Seq(Nat), Increasing(seq), NEW x \in Nat,
         \A i \in 1..Len(seq) : seq[i] # x
  PROVE  \E k \in 0..Len(seq) :
           /\ \A i \in 1..k : seq[i] < x
           /\ \A i \in k + 1..Len(seq) : x < seq[i]
<1> DEFINE n == Len(seq)
           Split(m, k) == /\ \A i \in 1..k : seq[i] < x
                          /\ \A i \in k + 1..m : x < seq[i]
           S == { m \in Nat : m <= n => \E k \in 0..m : Split(m, k) }
<1>1. n \in Nat /\ \A i \in 1..n : seq[i] \in Nat
  OBVIOUS
<1>2. 0 \in S
  <2>1. Split(0, 0) /\ 0 \in 0..0
    OBVIOUS
  <2> QED
    BY <2>1
<1>3. ASSUME NEW m \in Nat, m \in S PROVE m + 1 \in S
  <2> SUFFICES ASSUME m + 1 <= n PROVE \E k \in 0..m + 1 : Split(m + 1, k)
    OBVIOUS
  <2>1. PICK k \in 0..m : Split(m, k)
    BY <1>1, <1>3
  <2>2. m + 1 \in 1..n /\ m \in 0..n
    BY <1>1
  <2>3. seq[m + 1] < x \/ x < seq[m + 1]
    BY <1>1, <2>2
  <2>4. CASE x < seq[m + 1]
    <3>1. Split(m + 1, k) /\ k \in 0..m + 1
      <4>1. \A i \in k + 1..m + 1 : i \in k + 1..m \/ i = m + 1
        OBVIOUS
      <4> QED
        BY <2>1, <2>4, <4>1
    <3> QED
      BY <3>1
  <2>5. CASE seq[m + 1] < x
    <3>1. \A i \in 1..m : seq[i] < seq[m + 1] /\ seq[i] \in Nat /\ seq[m + 1] \in Nat
      BY <1>1, <2>2 DEF Increasing
    <3>2. \A i \in 1..m + 1 : seq[i] < x
      <4>1. \A i \in 1..m + 1 : i \in 1..m \/ i = m + 1
        OBVIOUS
      <4> QED
        BY <2>5, <3>1, <4>1
    <3>3. Split(m + 1, m + 1) /\ m + 1 \in 0..m + 1
      BY <3>2
    <3> QED
      BY <3>3
  <2> QED
    BY <2>3, <2>4, <2>5
<1>4. n \in S
  <2> HIDE DEF S
  <2>1. \A m \in Nat : m \in S
    BY <1>2, <1>3, SetInduction
  <2> QED
    BY <1>1, <2>1
<1> QED
  BY <1>1, <1>4

\* Sorting an increasing sequence with a new element behind it.
LEMMA SortedEffect ==
  ASSUME NEW seq \in Seq(ParaIds), Increasing(seq), NEW x \in ParaIds, ~Contains(seq, x)
  PROVE  LET u == Sorted(Append(seq, x))
         IN  /\ u \in Seq(ParaIds) /\ Increasing(u)
             /\ ToSet(u) = ToSet(seq) \cup {x}
<1> DEFINE n == Len(seq)
           t == Append(seq, x)
           N == 1..n + 1
           Sorts(p) == \A i, j \in DOMAIN t : i < j => t[p[i]] <= t[p[j]]
           from == CHOOSE p \in Bijection(DOMAIN t, DOMAIN t) : Sorts(p)
           u == [i \in DOMAIN t |-> t[from[i]]]
<1>1. /\ n \in Nat /\ x \in Nat /\ seq \in Seq(Nat)
      /\ \A i \in 1..n : seq[i] \in ParaIds /\ seq[i] \in Nat /\ seq[i] # x
  <2>1. n \in Nat /\ \A i \in 1..n : seq[i] \in ParaIds
    OBVIOUS
  <2>2. x \in Nat /\ \A i \in 1..n : seq[i] \in Nat
    BY <2>1, ParaIdsAssumption
  <2>3. seq \in Seq(Nat)
    BY <2>2
  <2> QED
    BY <2>1, <2>2, <2>3 DEF Contains
<1>2. /\ DOMAIN t = N /\ t[n + 1] = x
      /\ \A i \in 1..n : t[i] = seq[i]
  OBVIOUS
<1> HIDE DEF t
<1>3. PICK k \in 0..n :
        /\ \A i \in 1..k : seq[i] < x
        /\ \A i \in k + 1..n : x < seq[i]
  BY <1>1, PlaceFor
<1> DEFINE p == [i \in N |-> IF i <= k THEN i ELSE IF i = k + 1 THEN n + 1 ELSE i - 1]
<1>4. p \in Bijection(N, N)
  <2>1. p \in [N -> N]
    BY <1>1
  <2>2. ASSUME NEW i \in N, NEW j \in N, p[i] = p[j] PROVE i = j
    BY <1>1, <2>2
  <2>3. ASSUME NEW j \in N PROVE \E i \in N : p[i] = j
    <3>1. CASE j <= k
      <4>1. p[j] = j
        BY <3>1
      <4> QED
        BY <4>1
    <3>2. CASE j = n + 1
      <4>1. k + 1 \in N /\ p[k + 1] = j
        BY <1>1, <3>2
      <4> QED
        BY <4>1
    <3>3. CASE k < j /\ j < n + 1
      <4>1. j + 1 \in N /\ p[j + 1] = j
        BY <1>1, <3>3
      <4> QED
        BY <4>1
    <3> QED
      BY <1>1, <3>1, <3>2, <3>3
  <2> HIDE DEF p, N
  <2>4. IsInjective(p)
    BY <2>1, <2>2 DEF IsInjective
  <2> QED
    BY <2>1, <2>3, <2>4 DEF Bijection, Injection, Surjection
<1>5. Sorts(p)
  <2> SUFFICES ASSUME NEW i \in N, NEW j \in N, i < j PROVE t[p[i]] <= t[p[j]]
    BY <1>2
  <2>0. \A a \in 1..n : \A b \in 1..n : a < b => t[a] <= t[b]
    BY <1>1, <1>2 DEF Increasing
  <2>1. CASE j <= k
    <3>1. i \in 1..n /\ j \in 1..n /\ p[i] = i /\ p[j] = j
      BY <1>1, <2>1
    <3> QED
      BY <2>0, <3>1
  <2>2. CASE i <= k /\ j = k + 1
    <3>1. i \in 1..n /\ i \in 1..k /\ p[i] = i /\ p[j] = n + 1
      BY <1>1, <2>2
    <3>2. t[i] = seq[i] /\ t[n + 1] = x /\ seq[i] \in Nat /\ seq[i] < x
      BY <1>1, <1>2, <1>3, <3>1
    <3> HIDE DEF p
    <3> QED
      BY <1>1, <3>1, <3>2
  <2>3. CASE i <= k /\ j > k + 1
    <3>1. i \in 1..n /\ j - 1 \in 1..n /\ i < j - 1 /\ p[i] = i /\ p[j] = j - 1
      BY <1>1, <2>3
    <3> QED
      BY <2>0, <3>1
  <2>4. CASE i = k + 1
    <3>1. j - 1 \in k + 1..n /\ j - 1 \in 1..n /\ p[i] = n + 1 /\ p[j] = j - 1
      BY <1>1, <2>4
    <3>2. t[j - 1] = seq[j - 1] /\ t[n + 1] = x /\ seq[j - 1] \in Nat /\ x < seq[j - 1]
      BY <1>1, <1>2, <1>3, <3>1
    <3> HIDE DEF p
    <3> QED
      BY <1>1, <3>1, <3>2
  <2>5. CASE i > k + 1
    <3>1. i - 1 \in 1..n /\ j - 1 \in 1..n /\ i - 1 < j - 1 /\ p[i] = i - 1 /\ p[j] = j - 1
      BY <1>1, <2>5
    <3> QED
      BY <2>0, <3>1
  <2>6. j <= k \/ (i <= k /\ j = k + 1) \/ (i <= k /\ j > k + 1) \/ i = k + 1 \/ i > k + 1
    BY <1>1
  <2> QED
    BY <2>1, <2>2, <2>3, <2>4, <2>5, <2>6
<1>6. from \in Bijection(N, N) /\ Sorts(from)
  <2> HIDE DEF p, Sorts
  <2> QED
    BY <1>2, <1>4, <1>5, Zenon
<1>7. Sorted(t) = u
  BY DEF Sorted
<1> HIDE DEF from, p
<1>8. /\ from \in [N -> N]
      /\ \A i \in N : \A j \in N : from[i] = from[j] => i = j
      /\ \A j \in N : \E i \in N : from[i] = j
  <2>1. from \in [N -> N] /\ IsInjective(from) /\ \A j \in N : \E i \in N : from[i] = j
    BY <1>6 DEF Bijection, Injection, Surjection
  <2> QED
    BY <2>1 DEF IsInjective
<1>9. /\ \A i \in N : t[i] \in ParaIds /\ t[i] \in Nat
      /\ \A i \in N : \A j \in N : t[i] = t[j] => i = j
  <2>1. \A i \in N : i \in 1..n \/ i = n + 1
    BY <1>1
  <2>2. \A i \in 1..n : \A j \in 1..n : seq[i] = seq[j] => i = j
    BY <1>1 DEF Increasing
  <2> QED
    BY <1>1, <1>2, <2>1, <2>2
<1>10. u \in [N -> ParaIds] /\ \A i \in N : u[i] = t[from[i]]
  BY <1>2, <1>8, <1>9
<1>11. u \in Seq(ParaIds) /\ Len(u) = n + 1 /\ DOMAIN u = N
  BY <1>1, <1>10
<1>12. Increasing(u)
  <2> SUFFICES ASSUME NEW i \in N, NEW j \in N, i < j PROVE u[i] < u[j]
    BY <1>11 DEF Increasing
  <2>1. t[from[i]] <= t[from[j]]
    BY <1>2, <1>6
  <2>2. from[i] # from[j] /\ from[i] \in N /\ from[j] \in N
    <3>1. i # j
      BY <1>1
    <3> HIDE DEF N
    <3> QED
      BY <1>8, <3>1
  <2>3. t[from[i]] # t[from[j]] /\ t[from[i]] \in Nat /\ t[from[j]] \in Nat
    BY <1>9, <2>2
  <2> QED
    BY <1>10, <2>1, <2>3
<1>13. ToSet(u) = ToSet(seq) \cup {x}
  <2>1. ToSet(u) = { t[i] : i \in N }
    <3> HIDE DEF N
    <3>1. ToSet(u) = { t[from[i]] : i \in N }
      BY <1>10, <1>11 DEF ToSet
    <3> QED
      BY <1>8, <3>1
  <2>2. { t[i] : i \in N } = { seq[i] : i \in 1..n } \cup {x}
    <3>1. (\A i \in N : i \in 1..n \/ i = n + 1) /\ n + 1 \in N /\ \A i \in 1..n : i \in N
      BY <1>1
    <3> HIDE DEF N
    <3> QED
      BY <1>2, <3>1
  <2>3. DOMAIN seq = 1..n
    OBVIOUS
  <2> QED
    BY <2>1, <2>2, <2>3 DEF ToSet
<1> QED
  BY <1>7, <1>11, <1>12, <1>13 DEF t

\* The first elements of a sequence.
LEMMA LowerPart ==
  ASSUME NEW S, NEW seq \in Seq(S), NEW m \in Nat, m <= Len(seq)
  PROVE  /\ SubSeq(seq, 1, m) \in Seq(S) /\ Len(SubSeq(seq, 1, m)) = m
         /\ \A i \in 1..m : SubSeq(seq, 1, m)[i] = seq[i]
  OBVIOUS

\* Pushing the id and sorting.
LEMMA RegisteredEffect ==
  ASSUME NEW s \in Storages, Resolvable(s), NEW id \in ParaIds
  PROVE  LET r == Registered(s, id)
         IN  /\ r \in Storages /\ Increasing(r.parachains)
             /\ ToSet(r.parachains) = ToSet(s.parachains) \cup {id}
             /\ r.current = s.current /\ r.code = s.code
             /\ r.refs = s.refs /\ r.past = s.past
<1>1. s.parachains \in Seq(ParaIds) /\ Increasing(s.parachains)
  BY DEF Storages, Resolvable
<1>2. CASE Contains(s.parachains, id)
  <2>1. DOMAIN s.parachains = 1..Len(s.parachains)
    BY <1>1
  <2>2. id \in ToSet(s.parachains)
    BY <1>2, <2>1 DEF ToSet, Contains
  <2> QED
    BY <1>1, <1>2, <2>2 DEF Registered
<1>3. CASE ~Contains(s.parachains, id)
  <2> DEFINE u == Sorted(Append(s.parachains, id))
  <2>1. u \in Seq(ParaIds) /\ Increasing(u) /\ ToSet(u) = ToSet(s.parachains) \cup {id}
    BY <1>1, <1>3, SortedEffect
  <2>2. Registered(s, id) = [s EXCEPT !.parachains = u]
    BY <1>3 DEF Registered
  <2> HIDE DEF u
  <2>3. /\ [s EXCEPT !.parachains = u] \in Storages
        /\ [s EXCEPT !.parachains = u].parachains = u
        /\ [s EXCEPT !.parachains = u].current = s.current
        /\ [s EXCEPT !.parachains = u].code = s.code
        /\ [s EXCEPT !.parachains = u].refs = s.refs
        /\ [s EXCEPT !.parachains = u].past = s.past
    BY <2>1 DEF Storages
  <2> QED
    BY <2>1, <2>2, <2>3
<1> QED
  BY <1>2, <1>3

\* The current code becomes the past one.
LEMMA RetiredEffect ==
  ASSUME NEW s \in Storages, NEW id \in ParaIds, NEW code, Number \in Numbers
  PROVE  LET r == Retired(s, id, code)
         IN  /\ r \in Storages
             /\ r.parachains = s.parachains /\ r.current = s.current
             /\ r.code = s.code /\ r.refs = s.refs
             /\ \A q \in ParaIds, n \in Numbers :
                  r.past[<<q, n>>] =
                    IF q = id /\ n = Number /\ s.current[id] # NoCode
                    THEN s.current[id] ELSE s.past[<<q, n>>]
<1>1. CASE s.current[id] = NoCode
  BY <1>1 DEF Retired
<1>2. CASE s.current[id] # NoCode
  <2> DEFINE past == [s.past EXCEPT ![<<id, Number>>] = s.current[id]]
  <2>1. /\ s.past \in [ParaIds \X Numbers -> Codes \cup {NoCode}]
        /\ s.current[id] \in Codes \cup {NoCode} /\ <<id, Number>> \in ParaIds \X Numbers
    BY DEF Storages
  <2>2. past \in [ParaIds \X Numbers -> Codes \cup {NoCode}]
    BY <2>1
  <2>3. \A q \in ParaIds, n \in Numbers :
          past[<<q, n>>] = IF q = id /\ n = Number THEN s.current[id] ELSE s.past[<<q, n>>]
    <3>1. \A q \in ParaIds, n \in Numbers : <<q, n>> \in ParaIds \X Numbers
      OBVIOUS
    <3> QED
      BY <2>1, <3>1
  <2>4. Retired(s, id, code) = [s EXCEPT !.past = past]
    BY <1>2 DEF Retired
  <2> HIDE DEF past
  <2>5. /\ [s EXCEPT !.past = past] \in Storages
        /\ [s EXCEPT !.past = past].parachains = s.parachains
        /\ [s EXCEPT !.past = past].current = s.current
        /\ [s EXCEPT !.past = past].code = s.code
        /\ [s EXCEPT !.past = past].refs = s.refs
        /\ [s EXCEPT !.past = past].past = past
    BY <2>2 DEF Storages
  <2> QED
    BY <1>2, <2>3, <2>4, <2>5
<1> QED
  BY <1>1, <1>2

\* The new code is stored and counted.
LEMMA StoredEffect ==
  ASSUME NEW s \in Storages, NEW id \in ParaIds, NEW code \in Codes,
         s.code = { c \in Codes : s.refs[c] > 0 }, s.current[id] = code => code \in s.code
  PROVE  LET r == Stored(s, id, code)
         IN  /\ r \in Storages
             /\ r.parachains = s.parachains /\ r.past = s.past
             /\ r.code = s.code \cup {code}
             /\ r.code = { c \in Codes : r.refs[c] > 0 }
             /\ \A q \in ParaIds : r.current[q] = IF q = id THEN code ELSE s.current[q]
<1>1. CASE s.current[id] = code
  BY <1>1 DEF Stored
<1>2. CASE s.current[id] # code
  <2> DEFINE current == [s.current EXCEPT ![id] = code]
             all == s.code \cup {code}
             refs == [s.refs EXCEPT ![code] = IF s.refs[code] = 0 THEN 1 ELSE s.refs[code]]
             r == [parachains |-> s.parachains, current |-> current, code |-> all,
                   refs |-> refs, past |-> s.past]
  <2>1. /\ s.current \in [ParaIds -> Codes \cup {NoCode}]
        /\ s.code \in SUBSET Codes /\ s.refs \in [Codes -> Nat]
        /\ s.parachains \in Seq(ParaIds)
        /\ s.past \in [ParaIds \X Numbers -> Codes \cup {NoCode}]
    BY DEF Storages
  <2>2. Stored(s, id, code) = r
    <3>1. s = [parachains |-> s.parachains, current |-> s.current, code |-> s.code,
               refs |-> s.refs, past |-> s.past]
      BY DEF Storages
    <3> QED
      BY <1>2, <3>1 DEF Stored
  <2>3. current \in [ParaIds -> Codes \cup {NoCode}] /\ all \in SUBSET Codes
    BY <2>1
  <2>4. \A q \in ParaIds : current[q] = IF q = id THEN code ELSE s.current[q]
    BY <2>1
  <2>5. /\ refs \in [Codes -> Nat]
        /\ refs[code] > 0 /\ \A c \in Codes : c # code => refs[c] = s.refs[c]
    BY <2>1
  <2> HIDE DEF current, refs
  <2>6. all = { c \in Codes : refs[c] > 0 }
    BY <2>5
  <2> HIDE DEF all
  <2>7. r \in Storages
    BY <2>1, <2>3, <2>5 DEF Storages
  <2> QED
    BY <2>2, <2>4, <2>6, <2>7 DEF all
<1> QED
  BY <1>1, <1>2

\* The storage after onboard_para: everything leads to a code, and what the
\* parachain has or had is kept but for the past code of this block.
LEMMA OnboardedStorage ==
  ASSUME NEW s \in Storages, Resolvable(s), NEW id \in ParaIds, NEW code \in Codes,
         Number \in Numbers
  PROVE  LET t == Stored(Retired(Registered(s, id), id, code), id, code)
         IN  /\ t \in Storages /\ Resolvable(t)
             /\ \A q \in ParaIds :
                  Referenced(s, q) \ {s.past[<<q, Number>>]} \subseteq Referenced(t, q)
<1> DEFINE a == Registered(s, id)
           b == Retired(a, id, code)
           t == Stored(b, id, code)
<1>1. /\ a \in Storages /\ Increasing(a.parachains)
      /\ ToSet(a.parachains) = ToSet(s.parachains) \cup {id}
      /\ a.current = s.current /\ a.code = s.code
      /\ a.refs = s.refs /\ a.past = s.past
  BY RegisteredEffect
<1> HIDE DEF a
<1>2. /\ b \in Storages
      /\ b.parachains = a.parachains /\ b.current = s.current
      /\ b.code = s.code /\ b.refs = s.refs
      /\ \A q \in ParaIds, n \in Numbers :
           b.past[<<q, n>>] =
             IF q = id /\ n = Number /\ s.current[id] # NoCode
             THEN s.current[id] ELSE s.past[<<q, n>>]
  BY <1>1, RetiredEffect
<1> HIDE DEF b
<1>3. b.code = { c \in Codes : b.refs[c] > 0 } /\ (b.current[id] = code => code \in b.code)
  BY <1>2 DEF Resolvable, Referenced
<1>4. /\ t \in Storages
      /\ t.parachains = a.parachains /\ t.past = b.past
      /\ t.code = s.code \cup {code}
      /\ t.code = { c \in Codes : t.refs[c] > 0 }
      /\ \A q \in ParaIds : t.current[q] = IF q = id THEN code ELSE s.current[q]
  BY <1>2, <1>3, StoredEffect
<1> HIDE DEF t
<1>5. /\ \A q \in ParaIds, c \in Codes : c = s.current[q] => c \in s.code
      /\ \A q \in ParaIds, c \in Codes, n \in Numbers : c = s.past[<<q, n>>] => c \in s.code
  BY DEF Resolvable, Referenced
<1>6. ASSUME NEW q \in ParaIds PROVE Referenced(t, q) \subseteq t.code
  <2> SUFFICES ASSUME NEW c \in Codes,
                      c = t.current[q] \/ \E n \in Numbers : c = t.past[<<q, n>>]
               PROVE  c \in t.code
    BY DEF Referenced
  <2>1. CASE c = t.current[q]
    BY <1>4, <1>5, <2>1
  <2>2. ASSUME NEW n \in Numbers, c = t.past[<<q, n>>] PROVE c \in t.code
    BY <1>2, <1>4, <1>5, <2>2
  <2> QED
    BY <2>1, <2>2
<1>7. { q \in ParaIds : t.current[q] # NoCode } = ToSet(t.parachains)
  <2>1. code # NoCode
    BY ParaIdsAssumption
  <2>2. { q \in ParaIds : s.current[q] # NoCode } = ToSet(s.parachains)
    BY DEF Resolvable
  <2> QED
    BY <1>1, <1>4, <2>1, <2>2
<1>8. Resolvable(t)
  BY <1>1, <1>4, <1>6, <1>7 DEF Resolvable
<1>9. ASSUME NEW q \in ParaIds, NEW c \in Referenced(s, q), c # s.past[<<q, Number>>]
      PROVE  c \in Referenced(t, q)
  <2>1. c \in Codes /\ c # NoCode
    BY ParaIdsAssumption DEF Referenced
  <2>2. CASE c = s.current[q]
    <3>1. CASE q = id
      <4>1. t.past[<<q, Number>>] = c
        BY <1>2, <1>4, <2>1, <2>2, <3>1
      <4> QED
        BY <2>1, <4>1 DEF Referenced
    <3>2. CASE q # id
      BY <1>4, <2>1, <2>2, <3>2 DEF Referenced
    <3> QED
      BY <3>1, <3>2
  <2>3. ASSUME NEW n \in Numbers, c = s.past[<<q, n>>] PROVE c \in Referenced(t, q)
    <3>1. n # Number
      BY <1>9, <2>3
    <3>2. t.past[<<q, n>>] = c
      BY <1>2, <1>4, <2>3, <3>1
    <3> QED
      BY <2>1, <3>2 DEF Referenced
  <2> QED
    BY <2>2, <2>3 DEF Referenced
<1> QED
  BY <1>4, <1>8, <1>9 DEF t, b, a

\* The first block has no codes.
LEMMA CodesInitInv == CodesInit => CodesInv
<1> SUFFICES ASSUME CodesInit PROVE CodesInv
  OBVIOUS
<1> DEFINE g == [ parachains |-> << >>, current |-> [id \in ParaIds |-> NoCode], code |-> {},
                  refs |-> [c \in Codes |-> 0], past |-> [key \in ParaIds \X Numbers |-> NoCode] ]
<1>1. g \in Storages
  BY DEF Storages
<1>2. Resolvable(g)
  <2>1. \A id \in ParaIds : Referenced(g, id) = {}
    BY ParaIdsAssumption DEF Referenced
  <2>2. ToSet(g.parachains) = {} /\ Increasing(g.parachains)
    BY DEF ToSet, Increasing
  <2>3. g.code = {} /\ \A c \in Codes : g.refs[c] = 0
    OBVIOUS
  <2>4. \A id \in ParaIds : g.current[id] = NoCode
    OBVIOUS
  <2> HIDE DEF g
  <2>5. { c \in Codes : g.refs[c] > 0 } = {}
    BY <2>3
  <2>6. { id \in ParaIds : g.current[id] # NoCode } = {}
    BY <2>4
  <2> QED
    BY <2>1, <2>2, <2>3, <2>5, <2>6 DEF Resolvable
<1>3. blocks = <<g>> /\ onboarded = << >> /\ calls = 0
  BY DEF CodesInit
<1> HIDE DEF g
<1> QED
  BY <1>1, <1>2, <1>3, CodeBoundsAssumption DEF CodesInv

\* What the latest block is.
LEMMA LatestStorageType ==
  ASSUME CodesInv
  PROVE  /\ Len(blocks) \in Nat \ {0} /\ Len(blocks) \in 1..Len(blocks)
         /\ LatestStorage \in Storages /\ Resolvable(LatestStorage)
         /\ Number \in Numbers /\ MaxBlocks \in Nat
<1>1. MaxBlocks \in Nat
  BY CodeBoundsAssumption
<1>2. Len(blocks) \in 1..MaxBlocks + 1 /\ blocks \in Seq(Storages)
  BY DEF CodesInv
<1> QED
  BY <1>1, <1>2 DEF CodesInv, LatestStorage, Number, Numbers

\* onboard_para changes the storage of the latest block.
LEMMA OnboardEffect ==
  ASSUME CodesInv, NEW id \in ParaIds, NEW code \in Codes, OnboardPara(id, code)
  PROVE  /\ CodesInv' /\ Len(blocks') = Len(blocks)
         /\ \A q \in ParaIds :
              Referenced(LatestStorage, q) \ {LatestStorage.past[<<q, Number>>]}
                \subseteq Referenced(blocks'[Len(blocks')], q)
<1> DEFINE s == LatestStorage
           t == Stored(Retired(Registered(s, id), id, code), id, code)
           n == Len(blocks)
<1>1. /\ n \in Nat \ {0} /\ n \in 1..n /\ s \in Storages /\ Resolvable(s) /\ Number \in Numbers
  BY LatestStorageType
<1>2. /\ t \in Storages /\ Resolvable(t)
      /\ \A q \in ParaIds : Referenced(s, q) \ {s.past[<<q, Number>>]} \subseteq Referenced(t, q)
  <2> HIDE DEF s
  <2> QED
    BY <1>1, OnboardedStorage
<1>3. blocks' = [blocks EXCEPT ![n] = t]
  BY DEF OnboardPara, LatestStorage
<1> HIDE DEF t, s
<1>4. /\ blocks' \in Seq(Storages) /\ Len(blocks') = n /\ blocks'[n] = t
      /\ \A i \in 1..n : i # n => blocks'[i] = blocks[i]
  BY <1>1, <1>2, <1>3 DEF CodesInv
<1>5. onboarded' \in Seq(ParaIds) /\ calls' \in Nat
  BY DEF CodesInv, OnboardPara
<1>6. CodesInv'
  BY <1>2, <1>4, <1>5 DEF CodesInv
<1> QED
  BY <1>2, <1>4, <1>6 DEF s

\* A failed commit takes the latest block away, unless it is the only one.
LEMMA OnboardErrEffect ==
  ASSUME CodesInv, OnboardParaErr
  PROVE  CodesInv' /\ (Len(blocks') < Len(blocks) \/ blocks' = blocks)
<1> DEFINE n == Len(blocks)
<1>1. n \in Nat \ {0} /\ MaxBlocks \in Nat
  BY LatestStorageType
<1>2. onboarded' \in Seq(ParaIds) /\ calls' \in Nat
  BY DEF CodesInv, OnboardParaErr
<1>3. CASE n = 1
  <2>1. blocks' = blocks
    BY <1>3 DEF OnboardParaErr
  <2> QED
    BY <1>2, <2>1 DEF CodesInv
<1>4. CASE n # 1
  <2>1. blocks' = SubSeq(blocks, 1, n - 1)
    BY <1>4 DEF OnboardParaErr, Front
  <2>2. /\ blocks' \in Seq(Storages) /\ Len(blocks') = n - 1
        /\ \A i \in 1..n - 1 : blocks'[i] = blocks[i] /\ i \in 1..n
    <3>1. blocks \in Seq(Storages)
      BY DEF CodesInv
    <3>2. n - 1 \in Nat /\ n - 1 <= n /\ \A i \in 1..n - 1 : i \in 1..n
      BY <1>1, <1>4
    <3>3. /\ SubSeq(blocks, 1, n - 1) \in Seq(Storages)
          /\ Len(SubSeq(blocks, 1, n - 1)) = n - 1
          /\ \A i \in 1..n - 1 : SubSeq(blocks, 1, n - 1)[i] = blocks[i]
      BY <3>1, <3>2, LowerPart
    <3> QED
      BY <2>1, <3>2, <3>3
  <2>3. Len(blocks') \in 1..MaxBlocks + 1 /\ Len(blocks') < n
    BY <1>1, <1>4, <2>2 DEF CodesInv
  <2> QED
    BY <1>2, <2>2, <2>3 DEF CodesInv
<1> QED
  BY <1>3, <1>4

\* A new block has the storage of the latest one.
LEMMA NextBlockEffect ==
  ASSUME CodesInv, NextBlock
  PROVE  CodesInv' /\ blocks'[Len(blocks')] = LatestStorage
<1> DEFINE n == Len(blocks)
<1>1. /\ n \in Nat \ {0} /\ MaxBlocks \in Nat /\ n - 1 < MaxBlocks
      /\ LatestStorage \in Storages /\ Resolvable(LatestStorage)
      /\ blocks' = Append(blocks, LatestStorage)
      /\ UNCHANGED <<onboarded, calls>>
  BY LatestStorageType DEF NextBlock, Number
<1>2. /\ blocks' \in Seq(Storages) /\ Len(blocks') = n + 1
      /\ blocks'[n + 1] = LatestStorage
      /\ \A i \in 1..n : blocks'[i] = blocks[i]
  BY <1>1 DEF CodesInv
<1>3. \A i \in 1..n + 1 : i \in 1..n \/ i = n + 1
  BY <1>1
<1>4. n + 1 \in 1..MaxBlocks + 1
  BY <1>1
<1> QED
  BY <1>1, <1>2, <1>3, <1>4 DEF CodesInv

\* Every step preserves the invariant.
LEMMA CodesNextInv == CodesInv /\ [CodesNext]_codesVars => CodesInv'
<1> SUFFICES ASSUME CodesInv, [CodesNext]_codesVars PROVE CodesInv'
  OBVIOUS
<1>1. CASE UNCHANGED codesVars
  BY <1>1 DEF codesVars, CodesInv
<1> QED
  BY <1>1, OnboardEffect, OnboardErrEffect, NextBlockEffect DEF CodesNext

\* relay_chain.rs onboard_para: however many parachains are onboarded how often,
\* with whatever codes and failing commits, every code hash in the state of
\* every block leads to a code, and exactly the registered parachains have one.
THEOREM CodesAreResolvable == CodesSpec => []CodesResolvable
<1>1. CodesInv => CodesResolvable
  BY CodesInvImplies
<1> QED
  BY <1>1, CodesInitInv, CodesNextInv, PTL DEF CodesSpec

\* relay_chain.rs onboard_para: no call and no new block drops a code of the
\* history, but for what a parachain had before its last change in this block.
THEOREM CodeHistoryIsKept == CodesSpec => CodeHistoryKept
<1> DEFINE Kept == Len(blocks') >= Len(blocks) =>
                     \A id \in ParaIds :
                       Referenced(LatestStorage, id) \ {LatestStorage.past[<<id, Number>>]}
                         \subseteq Referenced(blocks'[Len(blocks')], id)
<1>1. CodesInv /\ [CodesNext]_codesVars => [Kept]_codesVars
  <2> SUFFICES ASSUME CodesInv, CodesNext PROVE Kept
    OBVIOUS
  <2>1. ASSUME NEW id \in ParaIds, NEW code \in Codes, OnboardPara(id, code) PROVE Kept
    BY <2>1, OnboardEffect
  <2>2. CASE OnboardParaErr
    <3>1. Len(blocks') < Len(blocks) \/ blocks' = blocks
      BY <2>2, OnboardErrEffect
    <3>2. Len(blocks) \in Nat /\ Len(blocks') \in Nat
      BY <2>2, OnboardErrEffect DEF CodesInv
    <3> QED
      BY <3>1, <3>2 DEF LatestStorage
  <2>3. CASE NextBlock
    BY <2>3, NextBlockEffect
  <2> QED
    BY <2>1, <2>2, <2>3 DEF CodesNext
<1> QED
  BY <1>1, CodesInitInv, CodesNextInv, PTL DEF CodesSpec, CodeHistoryKept

-----------------------------------------------------------------------------
(***************************************************************************)
(* Genesis.  InsertOutcome is about the end of insert_storage; its loop    *)
(* keeps that the tries it has visited are merged and the others are as    *)
(* they were (Merged), whatever the order.                                 *)
(***************************************************************************)
\* The functions from a subset of K to V.
Partial(K, V) == UNION { [D -> V] : D \in SUBSET K }

\* Trie c of storage s with that of storage t on top.
MergedTrie(s, t, c) ==
  IF c \in DOMAIN s.children
  THEN [s.children[c] EXCEPT !.data = Extend(@, t.children[c].data)]
  ELSE t.children[c]

\* Storage s with t on top but for the tries of t in left.
Merged(new, s, t, later) ==
  /\ new.top = Extend(s.top, t.top)
  /\ DOMAIN new.children = DOMAIN s.children \cup (DOMAIN t.children \ later)
  /\ \A c \in DOMAIN new.children :
       new.children[c] = IF c \in DOMAIN t.children \ later THEN MergedTrie(s, t, c)
                         ELSE s.children[c]

\* The inductive invariant of Genesis.
GenesisInv ==
  /\ GenesisTypeOK
  /\ incoming = NoStorage /\ ~failed => Merged(genesis, before, inserted, {})
  /\ failed => incoming = NoStorage /\ IsPartOfUnion(genesis, before, inserted)
  /\ incoming # NoStorage =>
       /\ incoming = inserted
       /\ todo \subseteq DOMAIN inserted.children
       /\ Merged(genesis, before, inserted, todo)

\* x has the keys of both maps and the values of the second where it has any.
IsExtension(x, m, o) ==
  /\ DOMAIN x = DOMAIN m \cup DOMAIN o
  /\ \A k \in DOMAIN o : x[k] = o[k]
  /\ \A k \in DOMAIN m \ DOMAIN o : x[k] = m[k]

\* Extending a map.
LEMMA ExtendEffect ==
  ASSUME NEW K, NEW V, NEW m \in Partial(K, V), NEW o \in Partial(K, V)
  PROVE  Extend(m, o) \in Partial(K, V) /\ IsExtension(Extend(m, o), m, o)
<1>1. PICK C \in SUBSET K : m \in [C -> V]
  BY DEF Partial
<1>2. PICK D \in SUBSET K : o \in [D -> V]
  BY DEF Partial
<1>3. Extend(m, o) \in [C \cup D -> V] /\ C \cup D \in SUBSET K
  BY <1>1, <1>2 DEF Extend
<1> QED
  BY <1>1, <1>2, <1>3 DEF Extend, IsExtension, Partial

\* What a map is.
LEMMA PartialEffect ==
  ASSUME NEW K, NEW V, NEW m \in Partial(K, V)
  PROVE  /\ DOMAIN m \subseteq K /\ \A k \in DOMAIN m : m[k] \in V
         /\ m = [k \in DOMAIN m |-> m[k]]
  BY DEF Partial

\* What makes a map.
LEMMA IsPartial ==
  ASSUME NEW K, NEW V, NEW D \in SUBSET K, NEW m \in [D -> V]
  PROVE  m \in Partial(K, V)
  BY DEF Partial

\* The parts of a storage.
LEMMA StorageParts ==
  ASSUME NEW s \in Storage
  PROVE  /\ s.top \in Partial(TrieKeys \cup {Code}, TrieVals)
         /\ s.children \in Partial(Tries, Child)
         /\ s = [top |-> s.top, children |-> s.children]
         /\ DOMAIN s.children \subseteq Tries
         /\ \A c \in DOMAIN s.children :
              /\ s.children[c] \in Child
              /\ s.children[c].data \in Partial(TrieKeys, TrieVals)
<1>1. /\ s.top \in Partial(TrieKeys \cup {Code}, TrieVals)
      /\ s.children \in Partial(Tries, Child)
      /\ s = [top |-> s.top, children |-> s.children]
  BY DEF Storage, Maps, Partial
<1>2. DOMAIN s.children \subseteq Tries /\ \A c \in DOMAIN s.children : s.children[c] \in Child
  BY <1>1, PartialEffect
<1>3. \A x \in Child : x.data \in Partial(TrieKeys, TrieVals)
  BY DEF Child, Maps, Partial
<1> QED
  BY <1>1, <1>2, <1>3

\* A storage from its parts.
LEMMA MakesStorage ==
  ASSUME NEW top \in Partial(TrieKeys \cup {Code}, TrieVals),
         NEW children \in Partial(Tries, Child)
  PROVE  [top |-> top, children |-> children] \in Storage
  BY DEF Storage, Maps, Partial

\* The empty storage.
LEMMA DefaultStorage == Nothing \in Partial(Tries, Child) /\ Default \in Storage
<1>1. \A K, V : Nothing \in Partial(K, V)
  <2> SUFFICES ASSUME NEW K, NEW V PROVE Nothing \in Partial(K, V)
    OBVIOUS
  <2>1. Nothing \in [{} -> V] /\ {} \in SUBSET K
    BY DEF Nothing
  <2> QED
    BY <2>1, IsPartial
<1> QED
  BY <1>1, MakesStorage DEF Default

\* A merged trie is a trie with the data of both.
LEMMA MergedTrieEffect ==
  ASSUME NEW s \in Storage, NEW t \in Storage, NEW c \in DOMAIN t.children
  PROVE  LET old   == IF c \in DOMAIN s.children THEN s.children[c].data ELSE Nothing
             later == t.children[c].data
             x     == MergedTrie(s, t, c)
         IN  /\ x \in Child
             /\ DOMAIN x.data = DOMAIN old \cup DOMAIN later
             /\ \A k \in DOMAIN later : x.data[k] = later[k]
             /\ \A k \in DOMAIN old \ DOMAIN later : x.data[k] = old[k]
             /\ x.info = (IF c \in DOMAIN s.children THEN s ELSE t).children[c].info
<1>1. t.children[c] \in Child /\ t.children[c].data \in Partial(TrieKeys, TrieVals)
  BY StorageParts
<1>2. CASE c \in DOMAIN s.children
  <2>1. s.children[c] \in Child /\ s.children[c].data \in Partial(TrieKeys, TrieVals)
    BY <1>2, StorageParts
  <2> DEFINE old == s.children[c]
             m == old.data
             o == t.children[c].data
             data == Extend(m, o)
  <2>2. MergedTrie(s, t, c) = [old EXCEPT !.data = data]
    BY <1>2 DEF MergedTrie
  <2>3. m \in Partial(TrieKeys, TrieVals) /\ o \in Partial(TrieKeys, TrieVals)
    BY <1>1, <2>1
  <2> HIDE DEF m, o
  <2>4. data \in Partial(TrieKeys, TrieVals) /\ IsExtension(data, m, o)
    BY <2>3, ExtendEffect
  <2> HIDE DEF data, old
  <2>5. /\ [old EXCEPT !.data = data] \in Child
        /\ [old EXCEPT !.data = data].data = data
        /\ [old EXCEPT !.data = data].info = old.info
    BY <2>1, <2>4 DEF Child, Maps, Partial, old
  <2> QED
    BY <1>2, <2>2, <2>4, <2>5 DEF old, m, o, IsExtension
<1>3. CASE c \notin DOMAIN s.children
  <2>1. DOMAIN Nothing = {}
    BY DEF Nothing
  <2> QED
    BY <1>1, <1>3, <2>1 DEF MergedTrie
<1> QED
  BY <1>2, <1>3

\* What is merged completely is the union.
LEMMA MergedIsUnion ==
  ASSUME NEW new, NEW s \in Storage, NEW t \in Storage, Merged(new, s, t, {})
  PROVE  IsUnion(new, s, t)
<1>1. /\ DOMAIN new.top = DOMAIN s.top \cup DOMAIN t.top
      /\ \A k \in DOMAIN t.top : new.top[k] = t.top[k]
      /\ \A k \in DOMAIN s.top \ DOMAIN t.top : new.top[k] = s.top[k]
  <2> DEFINE m == s.top
             o == t.top
  <2>1. /\ m \in Partial(TrieKeys \cup {Code}, TrieVals)
        /\ o \in Partial(TrieKeys \cup {Code}, TrieVals)
    BY StorageParts
  <2>2. new.top = Extend(m, o)
    BY DEF Merged
  <2> HIDE DEF m, o
  <2>3. IsExtension(Extend(m, o), m, o)
    BY <2>1, ExtendEffect
  <2> QED
    BY <2>2, <2>3 DEF m, o, IsExtension
<1>2. DOMAIN new.children = DOMAIN s.children \cup DOMAIN t.children
  BY DEF Merged
<1>3. ASSUME NEW c \in DOMAIN new.children
      PROVE  LET old   == IF c \in DOMAIN s.children THEN s.children[c].data ELSE Nothing
                 later == IF c \in DOMAIN t.children THEN t.children[c].data ELSE Nothing
                 data  == new.children[c].data
             IN  /\ DOMAIN data = DOMAIN old \cup DOMAIN later
                 /\ \A k \in DOMAIN later : data[k] = later[k]
                 /\ \A k \in DOMAIN old \ DOMAIN later : data[k] = old[k]
                 /\ new.children[c].info =
                      (IF c \in DOMAIN s.children THEN s ELSE t).children[c].info
  <2>1. CASE c \in DOMAIN t.children
    <3>1. new.children[c] = MergedTrie(s, t, c)
      BY <2>1 DEF Merged
    <3> QED
      BY <2>1, <3>1, MergedTrieEffect
  <2>2. CASE c \notin DOMAIN t.children
    <3>1. new.children[c] = s.children[c] /\ c \in DOMAIN s.children /\ DOMAIN Nothing = {}
      BY <2>2 DEF Merged, Nothing
    <3> QED
      BY <2>2, <3>1
  <2> QED
    BY <2>1, <2>2
<1> QED
  BY <1>1, <1>2, <1>3 DEF IsUnion

\* What is merged with a trie that does not fit is part of the union.
LEMMA MergedIsPart ==
  ASSUME NEW new, NEW s \in Storage, NEW t \in Storage, NEW later, Merged(new, s, t, later),
         NEW misfit \in DOMAIN s.children \cap DOMAIN t.children,
         s.children[misfit].info # t.children[misfit].info
  PROVE  IsPartOfUnion(new, s, t)
<1>1. DOMAIN s.children \subseteq DOMAIN new.children
  BY DEF Merged
<1>2. ASSUME NEW c \in DOMAIN new.children
      PROVE  LET only(x) == [Default EXCEPT !.children =
                               [k \in {c} \cap DOMAIN x.children |-> x.children[k]]]
             IN  only(new) = only(s) \/ IsUnion(only(new), only(s), only(t))
  <2> DEFINE trie(x) == [k \in {c} \cap DOMAIN x.children |-> x.children[k]]
             only(x) == [Default EXCEPT !.children = trie(x)]
  <2>1. \A x : only(x) = [top |-> Nothing, children |-> trie(x)]
    BY DEF Default
  <2>2. CASE c \notin DOMAIN t.children \ later
    <3>1. new.children[c] = s.children[c] /\ c \in DOMAIN s.children
      BY <2>2 DEF Merged
    <3>2. trie(new) = trie(s)
      BY <3>1
    <3> QED
      BY <2>1, <3>2
  <2>3. CASE c \in DOMAIN t.children \ later
    <3>1. new.children[c] = MergedTrie(s, t, c)
      BY <2>3 DEF Merged
    <3>2. only(s) \in Storage /\ only(t) \in Storage
      <4>1. ASSUME NEW x \in Storage PROVE only(x) \in Storage
        <5>1. DOMAIN x.children \subseteq Tries /\ \A k \in DOMAIN x.children : x.children[k] \in Child
          BY StorageParts
        <5>2. trie(x) \in [{c} \cap DOMAIN x.children -> Child]
          BY <5>1
        <5>3. trie(x) \in Partial(Tries, Child)
          BY <5>1, <5>2, IsPartial
        <5>4. Nothing \in Partial(TrieKeys \cup {Code}, TrieVals)
          BY DefaultStorage, StorageParts DEF Default
        <5> HIDE DEF trie
        <5> QED
          BY <2>1, <5>3, <5>4, MakesStorage DEF only
      <4> QED
        BY <4>1
    <3>3. /\ DOMAIN trie(new) = {c} /\ trie(new)[c] = new.children[c]
          /\ DOMAIN trie(t) = {c} /\ trie(t)[c] = t.children[c]
          /\ DOMAIN trie(s) = {c} \cap DOMAIN s.children
          /\ c \in DOMAIN s.children => trie(s)[c] = s.children[c]
      BY <2>3
    <3> HIDE DEF trie
    <3>4. Nothing = Extend(Nothing, Nothing)
      BY DEF Nothing, Extend
    <3>5. MergedTrie(only(s), only(t), c) = MergedTrie(s, t, c)
      BY <2>1, <3>3 DEF MergedTrie
    <3>6. Merged(only(new), only(s), only(t), {})
      BY <2>1, <3>1, <3>3, <3>4, <3>5 DEF Merged
    <3> HIDE DEF only
    <3>7. IsUnion(only(new), only(s), only(t))
      BY <3>2, <3>6, MergedIsUnion
    <3> QED
      BY <3>7 DEF only, trie
  <2> QED
    BY <2>2, <2>3
<1> QED
  BY <1>1, <1>2 DEF IsPartOfUnion

\* The first storage has at most the code.
LEMMA GenesisInitInv == GenesisInit => GenesisInv
<1> SUFFICES ASSUME GenesisInit PROVE GenesisInv
  OBVIOUS
<1>1. Default \in Storage /\ Default.top = Nothing /\ Default.children = Nothing /\ DOMAIN Nothing = {}
  BY DefaultStorage DEF Default, Nothing
<1>2. genesis \in Storage /\ genesis.children = Nothing
  <2>1. CASE genesis = Default
    BY <1>1, <2>1
  <2>2. ASSUME NEW v \in TrieVals, genesis = [Default EXCEPT !.top = [x \in {Code} |-> v]]
        PROVE  genesis \in Storage /\ genesis.children = Nothing
    <3> DEFINE top == [x \in {Code} |-> v]
    <3>1. genesis = [top |-> top, children |-> Nothing]
      BY <2>2 DEF Default
    <3>2. top \in [{Code} -> TrieVals] /\ {Code} \in SUBSET (TrieKeys \cup {Code})
      OBVIOUS
    <3>3. top \in Partial(TrieKeys \cup {Code}, TrieVals)
      BY <3>2, IsPartial
    <3> HIDE DEF top
    <3> QED
      BY <3>1, <3>3, DefaultStorage, MakesStorage
  <2> QED
    BY <2>1, <2>2 DEF GenesisInit
<1>3. genesis.top = Extend(genesis.top, Default.top)
  <2> DEFINE m == genesis.top
  <2>1. m \in Partial(TrieKeys \cup {Code}, TrieVals)
    BY <1>2, StorageParts
  <2>2. m = [k \in DOMAIN m |-> m[k]]
    BY <2>1, PartialEffect
  <2> HIDE DEF m
  <2>3. m = Extend(m, Nothing)
    BY <1>1, <2>2 DEF Extend
  <2> QED
    BY <1>1, <2>3 DEF m
<1>4. Merged(genesis, genesis, Default, {})
  BY <1>1, <1>2, <1>3 DEF Merged
<1> QED
  BY <1>1, <1>2, <1>4, CodeAssumption DEF GenesisInit, GenesisInv, GenesisTypeOK

\* insert_storage up to its loop extends the top level.
LEMMA InsertStorageInv ==
  ASSUME GenesisInv, NEW storage \in Storage, InsertStorage(storage)
  PROVE  GenesisInv'
<1>1. genesis \in Storage /\ NoStorage \notin Storage /\ inserts \in Nat
  BY CodeAssumption DEF GenesisInv, GenesisTypeOK
<1> DEFINE m == genesis.top
           o == storage.top
           top == Extend(m, o)
<1>2. /\ m \in Partial(TrieKeys \cup {Code}, TrieVals)
      /\ o \in Partial(TrieKeys \cup {Code}, TrieVals)
      /\ genesis.children \in Partial(Tries, Child)
      /\ genesis = [top |-> m, children |-> genesis.children]
      /\ DOMAIN storage.children \subseteq Tries
  BY <1>1, StorageParts
<1>3. genesis' = [top |-> top, children |-> genesis.children]
  BY <1>2 DEF InsertStorage
<1> HIDE DEF m, o
<1>4. top \in Partial(TrieKeys \cup {Code}, TrieVals)
  BY <1>2, ExtendEffect
<1>5. genesis' \in Storage
  BY <1>2, <1>3, <1>4, MakesStorage
<1>6. genesis'.top = Extend(genesis.top, storage.top) /\ genesis'.children = genesis.children
  BY <1>3 DEF m, o
<1> HIDE DEF top
<1>7. Merged(genesis', genesis, storage, DOMAIN storage.children)
  BY <1>6 DEF Merged
<1>8. /\ before' = genesis /\ inserted' = storage /\ incoming' = storage
      /\ todo' = DOMAIN storage.children /\ failed' = FALSE /\ inserts' \in Nat
  BY <1>1 DEF InsertStorage
<1>9. GenesisTypeOK'
  BY <1>1, <1>2, <1>5, <1>8 DEF GenesisTypeOK
<1> QED
  BY <1>1, <1>7, <1>8, <1>9 DEF GenesisInv

\* What the loop has in common at each trie.
LEMMA InLoop ==
  ASSUME GenesisInv, incoming # NoStorage
  PROVE  /\ genesis \in Storage /\ before \in Storage /\ inserted \in Storage
         /\ incoming = inserted /\ todo \subseteq DOMAIN inserted.children
         /\ Merged(genesis, before, inserted, todo) /\ failed = FALSE
         /\ inserts \in Nat /\ todo \subseteq Tries
  BY DEF GenesisInv, GenesisTypeOK

\* The loop merges one trie.
LEMMA TrieMerged ==
  ASSUME NEW s \in Storage, NEW t \in Storage, NEW g \in Storage, NEW later,
         later \subseteq DOMAIN t.children, Merged(g, s, t, later), NEW k \in later,
         NEW new, new = [top |-> g.top, children |-> Extend(g.children, [x \in {k} |-> MergedTrie(s, t, k)])]
  PROVE  new \in Storage /\ Merged(new, s, t, later \ {k})
<1>1. /\ g.top \in Partial(TrieKeys \cup {Code}, TrieVals) /\ g.children \in Partial(Tries, Child)
      /\ k \in DOMAIN t.children /\ DOMAIN t.children \subseteq Tries
  BY StorageParts
<1> DEFINE x == MergedTrie(s, t, k)
           m == g.children
           o == [y \in {k} |-> x]
<1>2. x \in Child
  BY <1>1, MergedTrieEffect
<1> HIDE DEF x
<1>3. o \in [{k} -> Child] /\ {k} \in SUBSET Tries /\ DOMAIN o = {k} /\ o[k] = x
  BY <1>1, <1>2
<1> HIDE DEF o
<1>4. o \in Partial(Tries, Child) /\ m \in Partial(Tries, Child)
  BY <1>1, <1>3, IsPartial
<1> HIDE DEF m
<1>5. Extend(m, o) \in Partial(Tries, Child) /\ IsExtension(Extend(m, o), m, o)
  BY <1>4, ExtendEffect
<1>6. new = [top |-> g.top, children |-> Extend(m, o)]
  BY DEF m, o, x
<1>7. new \in Storage
  BY <1>1, <1>5, <1>6, MakesStorage
<1>8. /\ DOMAIN new.children = DOMAIN g.children \cup {k} /\ new.children[k] = x
      /\ \A c \in DOMAIN g.children : c # k => new.children[c] = g.children[c]
      /\ new.top = g.top
  BY <1>3, <1>5, <1>6 DEF IsExtension, m
<1>9. Merged(new, s, t, later \ {k})
  <2>1. DOMAIN new.children = DOMAIN s.children \cup (DOMAIN t.children \ (later \ {k}))
    BY <1>1, <1>8 DEF Merged
  <2>2. ASSUME NEW c \in DOMAIN new.children
        PROVE  new.children[c] = IF c \in DOMAIN t.children \ (later \ {k}) THEN MergedTrie(s, t, c)
                                 ELSE s.children[c]
    <3>1. CASE c = k
      BY <1>1, <1>8, <3>1 DEF x
    <3>2. CASE c # k
      BY <1>8, <3>2 DEF Merged
    <3> QED
      BY <3>1, <3>2
  <2> QED
    BY <1>8, <2>1, <2>2 DEF Merged
<1> QED
  BY <1>7, <1>9

\* The loop at a trie that genesis does not have.
LEMMA NewTrieInv ==
  ASSUME GenesisInv, NEW k \in Tries, NewTrie(k)
  PROVE  GenesisInv'
<1>1. /\ incoming # NoStorage /\ k \in todo /\ k \notin DOMAIN genesis.children
      /\ todo' = todo \ {k} /\ UNCHANGED <<incoming, failed, before, inserted, inserts>>
  BY DEF NewTrie
<1>2. /\ genesis \in Storage /\ before \in Storage /\ inserted \in Storage
      /\ incoming = inserted /\ todo \subseteq DOMAIN inserted.children
      /\ Merged(genesis, before, inserted, todo) /\ failed = FALSE
      /\ inserts \in Nat /\ todo \subseteq Tries
  BY <1>1, InLoop
<1>3. MergedTrie(before, inserted, k) = incoming.children[k]
  BY <1>1, <1>2 DEF Merged, MergedTrie
<1>4. genesis' = [top |-> genesis.top,
                  children |-> Extend(genesis.children, [x \in {k} |-> MergedTrie(before, inserted, k)])]
  <2>1. genesis = [top |-> genesis.top, children |-> genesis.children]
    BY <1>2, StorageParts
  <2> QED
    BY <1>3, <2>1 DEF NewTrie
<1>5. genesis' \in Storage /\ Merged(genesis', before, inserted, todo \ {k})
  BY <1>1, <1>2, <1>4, TrieMerged
<1>6. GenesisTypeOK'
  BY <1>1, <1>2, <1>5 DEF GenesisTypeOK
<1> QED
  BY <1>1, <1>2, <1>5, <1>6 DEF GenesisInv

\* The loop at a trie that genesis has.
LEMMA MergeTrieInv ==
  ASSUME GenesisInv, NEW k \in Tries, MergeTrie(k)
  PROVE  GenesisInv'
<1>1. /\ incoming # NoStorage /\ k \in todo /\ k \in DOMAIN genesis.children
      /\ UNCHANGED <<before, inserted, inserts>>
  BY DEF MergeTrie
<1>2. /\ genesis \in Storage /\ before \in Storage /\ inserted \in Storage
      /\ incoming = inserted /\ todo \subseteq DOMAIN inserted.children
      /\ Merged(genesis, before, inserted, todo) /\ failed = FALSE
      /\ inserts \in Nat /\ todo \subseteq Tries
  BY <1>1, InLoop
<1>3. genesis.children[k] = before.children[k] /\ k \in DOMAIN before.children
  BY <1>1, <1>2 DEF Merged
<1> DEFINE x == MergedTrie(before, inserted, k)
           m == genesis.children
<1>4. x = [m[k] EXCEPT !.data = Extend(m[k].data, incoming.children[k].data)]
  BY <1>2, <1>3 DEF MergedTrie
<1>5. genesis' = [top |-> genesis.top, children |-> [m EXCEPT ![k] = x]]
  <2>1. genesis = [top |-> genesis.top, children |-> m]
    BY <1>2, StorageParts
  <2>2. genesis' = [genesis EXCEPT !.children = [m EXCEPT ![k] = [m[k] EXCEPT !.data =
                      Extend(m[k].data, incoming.children[k].data)]]]
    BY DEF MergeTrie
  <2> HIDE DEF m, x
  <2> QED
    BY <1>4, <2>1, <2>2
<1>6. m \in Partial(Tries, Child)
  BY <1>2, StorageParts
<1>7. m = [c \in DOMAIN m |-> m[c]]
  BY <1>6, PartialEffect
<1> HIDE DEF x
<1>8. [m EXCEPT ![k] = x] = Extend(m, [y \in {k} |-> x])
  <2>1. k \in DOMAIN m
    BY <1>1
  <2> HIDE DEF m
  <2> QED
    BY <1>7, <2>1 DEF Extend
<1>9. genesis' \in Storage /\ Merged(genesis', before, inserted, todo \ {k})
  <2>1. genesis' = [top |-> genesis.top,
                    children |-> Extend(m, [y \in {k} |-> MergedTrie(before, inserted, k)])]
    BY <1>5, <1>8 DEF x
  <2> QED
    BY <1>1, <1>2, <2>1, TrieMerged
<1>10. CASE TryUpdate(genesis.children[k].info, incoming.children[k].info)
  <2>1. todo' = todo \ {k} /\ UNCHANGED <<incoming, failed>>
    BY <1>10 DEF MergeTrie
  <2>2. GenesisTypeOK'
    BY <1>1, <1>2, <1>9, <2>1 DEF GenesisTypeOK
  <2> QED
    BY <1>1, <1>2, <1>9, <2>1, <2>2 DEF GenesisInv
<1>11. CASE ~TryUpdate(genesis.children[k].info, incoming.children[k].info)
  <2>1. todo' = {} /\ incoming' = NoStorage /\ failed' = TRUE
    BY <1>11 DEF MergeTrie
  <2>2. before.children[k].info # inserted.children[k].info /\ k \in DOMAIN inserted.children
    BY <1>1, <1>2, <1>3, <1>11 DEF TryUpdate
  <2>3. IsPartOfUnion(genesis', before, inserted)
    BY <1>2, <1>3, <1>9, <2>2, MergedIsPart
  <2>4. GenesisTypeOK'
    BY <1>1, <1>2, <1>9, <2>1 DEF GenesisTypeOK
  <2> QED
    BY <1>1, <2>1, <2>3, <2>4 DEF GenesisInv
<1> QED
  BY <1>10, <1>11

\* Every step of the genesis storage preserves the invariant.
LEMMA GenesisNextInv == GenesisInv /\ [GenesisNext]_genesisVars => GenesisInv'
<1> SUFFICES ASSUME GenesisInv, [GenesisNext]_genesisVars PROVE GenesisInv'
  OBVIOUS
<1>1. CASE UNCHANGED genesisVars
  BY <1>1 DEF genesisVars, GenesisInv, GenesisTypeOK
<1>2. CASE InsertDone
  <2>1. /\ incoming # NoStorage /\ todo = {} /\ incoming' = NoStorage
        /\ UNCHANGED <<genesis, todo, failed, before, inserted, inserts>>
    BY <1>2 DEF InsertDone
  <2> QED
    BY <2>1 DEF GenesisInv, GenesisTypeOK
<1> QED
  BY <1>1, <1>2, InsertStorageInv, NewTrieInv, MergeTrieInv DEF GenesisNext

\* state.rs StateProvider: the storages keep their types.
THEOREM GenesisTypeCorrect == GenesisSpec => []GenesisTypeOK
<1>1. GenesisInv => GenesisTypeOK
  BY DEF GenesisInv
<1> QED
  BY <1>1, GenesisInitInv, GenesisNextInv, PTL DEF GenesisSpec

\* state.rs insert_storage, for any storages, tries and ChildInfos and in
\* whatever order the HashMap has the tries: Ok means the union of what was and
\* what is new, Err a part of it with a trie that did not fit.
THEOREM InsertsAreUnions == GenesisSpec => []InsertOutcome
<1>1. GenesisInv => InsertOutcome
  <2> SUFFICES ASSUME GenesisInv PROVE InsertOutcome
    OBVIOUS
  <2>1. genesis \in Storage /\ before \in Storage /\ inserted \in Storage
    BY DEF GenesisInv, GenesisTypeOK
  <2>2. incoming = NoStorage /\ ~failed => IsUnion(genesis, before, inserted)
    BY <2>1, MergedIsUnion DEF GenesisInv
  <2> QED
    BY <2>2 DEF GenesisInv, InsertOutcome
<1> QED
  BY <1>1, GenesisInitInv, GenesisNextInv, PTL DEF GenesisSpec

-----------------------------------------------------------------------------
(***************************************************************************)
(* Externalities.  ClosureOutcome needs how many layers there are: those   *)
(* that were left open, those the closure opened less those it closed, and *)
(* one of execute_with_mut, on top of the bottom layer.                    *)
(***************************************************************************)
\* While a closure runs, where each layer comes from.
LayersCounted ==
  mode # "idle" => Len(overlay) = 1 + left + net + (IF mode = "execute_with_mut" THEN 1 ELSE 0)

\* The inductive invariant of Externalities.
ExtInv == ExtTypeOK /\ LayersCounted

\* A layer without changes.
LEMMA EmptyLayer == Empty \in Layers
<1>1. Empty \in [{} -> Vals] /\ {} \in SUBSET Keys
  BY DEF Empty
<1> QED
  BY <1>1 DEF Layers

\* One layer on top of another.
LEMMA OverLayers ==
  ASSUME NEW u \in Layers, NEW l \in Layers
  PROVE  Over(u, l) \in Layers
<1>1. PICK C \in SUBSET Keys : u \in [C -> Vals]
  BY DEF Layers
<1>2. PICK D \in SUBSET Keys : l \in [D -> Vals]
  BY DEF Layers
<1>3. Over(u, l) \in [C \cup D -> Vals] /\ C \cup D \in SUBSET Keys
  BY <1>1, <1>2 DEF Over
<1> QED
  BY <1>3 DEF Layers

\* A layer on top of a state.
LEMMA OverState ==
  ASSUME NEW u \in Layers, NEW s \in [Keys -> Vals]
  PROVE  Over(u, s) \in [Keys -> Vals]
<1>1. PICK C \in SUBSET Keys : u \in [C -> Vals]
  BY DEF Layers
<1> QED
  BY <1>1 DEF Over

\* Merging two layers before or after they are put on a state is the same.
LEMMA OverAssociative ==
  ASSUME NEW u \in Layers, NEW l \in Layers, NEW s \in [Keys -> Vals]
  PROVE  Over(Over(u, l), s) = Over(u, Over(l, s))
<1>1. PICK C \in SUBSET Keys : u \in [C -> Vals]
  BY DEF Layers
<1>2. PICK D \in SUBSET Keys : l \in [D -> Vals]
  BY DEF Layers
<1>3. Over(u, l) = [k \in C \cup D |-> IF k \in C THEN u[k] ELSE l[k]]
  BY <1>1, <1>2 DEF Over
<1>4. Over(l, s) = [k \in Keys |-> IF k \in D THEN l[k] ELSE s[k]]
  BY <1>2 DEF Over
<1> QED
  BY <1>1, <1>2, <1>3, <1>4 DEF Over

\* What a closure reads through two layers.
LEMMA ViewOfTwo ==
  ASSUME NEW layers, Len(layers) = 2
  PROVE  View(layers) = Over(layers[2], Over(layers[1], backend))
<1> DEFINE one == Over(layers[1], backend)
           two == Over(layers[2], one)
           g == [i \in 0..2 |-> IF i = 0 THEN backend ELSE IF i = 1 THEN one ELSE two]
           Rec(f) == f = [i \in 0..Len(layers) |-> IF i = 0 THEN backend ELSE Over(layers[i], f[i - 1])]
           upTo == CHOOSE f : Rec(f)
<1>1. Rec(g)
  <2>1. ASSUME NEW i \in 0..2
        PROVE  g[i] = IF i = 0 THEN backend ELSE Over(layers[i], g[i - 1])
    <3>1. i = 0 \/ i = 1 \/ i = 2
      OBVIOUS
    <3>2. g[0] = backend /\ g[1] = one /\ g[2] = two
      OBVIOUS
    <3>3. 1 - 1 = 0 /\ 2 - 1 = 1 /\ 1 # 0 /\ 2 # 0
      OBVIOUS
    <3> HIDE DEF g
    <3> QED
      BY <3>1, <3>2, <3>3
  <2> QED
    BY <2>1
<1>2. Rec(upTo)
  BY <1>1
<1>3. View(layers) = upTo[2]
  BY DEF View
<1> HIDE DEF upTo
<1>4. upTo = [i \in 0..2 |-> IF i = 0 THEN backend ELSE Over(layers[i], upTo[i - 1])]
  BY <1>2
<1>5. upTo[0] = backend
  BY <1>4
<1>6. upTo[1] = one
  BY <1>4, <1>5
<1>7. upTo[2] = two
  BY <1>4, <1>6
<1> QED
  BY <1>3, <1>7

\* Writing, opening and closing keep layers.
LEMMA LayerEffects ==
  ASSUME NEW layers \in Seq(Layers), layers # << >>
  PROVE  /\ \A k \in Keys, v \in Vals :
              Put(layers, k, v) \in Seq(Layers) /\ Len(Put(layers, k, v)) = Len(layers)
         /\ Start(layers) \in Seq(Layers) /\ Len(Start(layers)) = Len(layers) + 1
         /\ Len(layers) > 1 =>
              /\ Rollback(layers) \in Seq(Layers) /\ Len(Rollback(layers)) = Len(layers) - 1
              /\ Commit(layers) \in Seq(Layers) /\ Len(Commit(layers)) = Len(layers) - 1
              /\ Commit(layers)[Len(layers) - 1] = Over(layers[Len(layers)], layers[Len(layers) - 1])
<1> DEFINE n == Len(layers)
<1>1. n \in Nat \ {0} /\ layers[n] \in Layers
  OBVIOUS
<1>2. Empty \in Layers
  BY EmptyLayer
<1>3. ASSUME NEW k \in Keys, NEW v \in Vals
      PROVE  Put(layers, k, v) \in Seq(Layers) /\ Len(Put(layers, k, v)) = Len(layers)
  <2> DEFINE w == [x \in {k} |-> v]
  <2>1. w \in [{k} -> Vals] /\ {k} \in SUBSET Keys
    OBVIOUS
  <2>2. w \in Layers
    BY <2>1 DEF Layers
  <2> HIDE DEF w
  <2>3. Over(w, layers[n]) \in Layers
    BY <1>1, <2>2, OverLayers
  <2>4. Put(layers, k, v) = [layers EXCEPT ![n] = Over(w, layers[n])]
    BY DEF Put, w
  <2> QED
    BY <1>1, <2>3, <2>4
<1>4. Start(layers) \in Seq(Layers) /\ Len(Start(layers)) = n + 1
  BY <1>2 DEF Start
<1>5. ASSUME n > 1
      PROVE  /\ Rollback(layers) \in Seq(Layers) /\ Len(Rollback(layers)) = n - 1
             /\ Commit(layers) \in Seq(Layers) /\ Len(Commit(layers)) = n - 1
             /\ Commit(layers)[n - 1] = Over(layers[n], layers[n - 1])
  <2> DEFINE low == SubSeq(layers, 1, n - 1)
             top == Over(layers[n], low[n - 1])
  <2>1. n - 1 \in Nat /\ n - 1 <= n /\ n - 1 \in 1..n - 1
    BY <1>1, <1>5
  <2>2. low \in Seq(Layers) /\ Len(low) = n - 1 /\ low[n - 1] = layers[n - 1]
    BY <2>1, LowerPart
  <2>3. Rollback(layers) = low /\ Commit(layers) = [low EXCEPT ![n - 1] = top]
    BY DEF Rollback, Commit
  <2> HIDE DEF low
  <2>4. top \in Layers
    <3>1. low[n - 1] \in Layers
      BY <2>1, <2>2
    <3> QED
      BY <1>1, <3>1, OverLayers
  <2>5. top = Over(layers[n], layers[n - 1])
    BY <2>2
  <2> HIDE DEF top
  <2> QED
    BY <2>1, <2>2, <2>3, <2>4, <2>5
<1> QED
  BY <1>3, <1>4, <1>5

\* A provider starts with one empty layer.
LEMMA ExtInitInv == ExtInit => ExtInv
<1> SUFFICES ASSUME ExtInit PROVE ExtInv
  OBVIOUS
<1>1. <<Empty>> \in Seq(Layers) /\ <<Empty>> # << >>
  BY EmptyLayer
<1> QED
  BY <1>1 DEF ExtInit, ExtInv, ExtTypeOK, LayersCounted, Modes, Results

\* The steps that make a provider or call one of its methods.
LEMMA CallInv ==
  ASSUME ExtInv,
         \/ New
         \/ \E method \in {"execute_with", "execute_with_safe"} : ExecuteWith(method)
         \/ ExecuteWithMut
  PROVE  ExtInv' /\ mode = "idle"
<1>1. /\ overlay \in Seq(Layers) /\ overlay # << >> /\ Len(overlay) \in Nat /\ Len(overlay) > 0
      /\ backend \in [Keys -> Vals] /\ stored \in [Keys -> Vals]
      /\ mode \in Modes /\ outcome \in Results
      /\ left \in Nat /\ ops \in Nat /\ runs \in Nat /\ net \in Int
  BY DEF ExtInv, ExtTypeOK
<1>2. CASE New
  <2>1. <<Empty>> \in Seq(Layers) /\ <<Empty>> # << >>
    BY EmptyLayer
  <2> QED
    BY <1>1, <1>2, <2>1 DEF New, ExtInv, ExtTypeOK, LayersCounted, Results
<1>3. ASSUME NEW method \in {"execute_with", "execute_with_safe"}, ExecuteWith(method)
      PROVE  ExtInv' /\ mode = "idle"
  <2>1. /\ mode = "idle" /\ mode' = method /\ left' = Len(overlay) - 1 /\ net' = 0 /\ ops' = 0
        /\ runs' = runs + 1 /\ UNCHANGED <<backend, overlay, outcome, stored>>
    BY <1>3 DEF ExecuteWith, Depth
  <2>2. left' \in Nat /\ Len(overlay') = 1 + left' + net' /\ method # "execute_with_mut"
    BY <1>1, <2>1
  <2> QED
    BY <1>1, <2>1, <2>2 DEF ExtInv, ExtTypeOK, LayersCounted, Modes
<1>4. CASE ExecuteWithMut
  <2>1. /\ mode = "idle" /\ mode' = "execute_with_mut" /\ left' = Len(overlay) - 1 /\ net' = 0
        /\ ops' = 0 /\ overlay' = Start(overlay)
        /\ runs' = runs + 1 /\ UNCHANGED <<backend, outcome, stored>>
    BY <1>4 DEF ExecuteWithMut, Depth
  <2>2. overlay' \in Seq(Layers) /\ Len(overlay') = Len(overlay) + 1
    BY <1>1, <2>1, LayerEffects
  <2>3. overlay' # << >> /\ left' \in Nat /\ Len(overlay') = 1 + left' + net' + 1
    BY <1>1, <2>1, <2>2
  <2> QED
    BY <1>1, <2>1, <2>2, <2>3 DEF ExtInv, ExtTypeOK, LayersCounted, Modes
<1> QED
  BY <1>2, <1>3, <1>4

\* The steps of a closure.
LEMMA ClosureInv ==
  ASSUME ExtInv,
         \/ \E k \in Keys, v \in Vals : ClosureWrite(k, v)
         \/ ClosureStart
         \/ ClosureClose
  PROVE  ExtInv' /\ mode' = mode
<1>1. /\ overlay \in Seq(Layers) /\ overlay # << >> /\ Len(overlay) \in Nat
      /\ backend \in [Keys -> Vals] /\ stored \in [Keys -> Vals]
      /\ mode \in Modes /\ outcome \in Results
      /\ left \in Nat /\ ops \in Nat /\ runs \in Nat /\ net \in Int
  BY DEF ExtInv, ExtTypeOK
<1>2. SUFFICES ASSUME NEW d \in Int,
                      overlay' \in Seq(Layers), Len(overlay') = Len(overlay) + d, overlay' # << >>,
                      net' = net + d, ops' = ops + 1,
                      UNCHANGED <<backend, mode, outcome, stored, left, runs>>
               PROVE  ExtInv' /\ mode' = mode
  <2>1. ASSUME NEW k \in Keys, NEW v \in Vals, ClosureWrite(k, v)
        PROVE  /\ overlay' \in Seq(Layers) /\ Len(overlay') = Len(overlay) + 0 /\ overlay' # << >>
               /\ net' = net + 0 /\ ops' = ops + 1
               /\ UNCHANGED <<backend, mode, outcome, stored, left, runs>>
    <3>1. overlay' \in Seq(Layers) /\ Len(overlay') = Len(overlay)
      BY <1>1, <2>1, LayerEffects DEF ClosureWrite
    <3>2. overlay' # << >>
      BY <1>1, <3>1
    <3> QED
      BY <1>1, <2>1, <3>1, <3>2 DEF ClosureWrite
  <2>2. CASE ClosureStart
    <3>1. overlay' \in Seq(Layers) /\ Len(overlay') = Len(overlay) + 1
      BY <1>1, <2>2, LayerEffects DEF ClosureStart
    <3>2. overlay' # << >>
      BY <1>1, <3>1
    <3> QED
      BY <1>1, <1>2, <2>2, <3>1, <3>2 DEF ClosureStart
  <2>3. CASE ClosureClose
    <3>1. Len(overlay) > 1 /\ overlay' \in {Commit(overlay), Rollback(overlay)}
      BY <2>3 DEF ClosureClose, CanClose
    <3>2. overlay' \in Seq(Layers) /\ Len(overlay') = Len(overlay) - 1
      BY <1>1, <3>1, LayerEffects
    <3>3. overlay' # << >> /\ Len(overlay') = Len(overlay) + (-1) /\ -1 \in Int
      BY <1>1, <3>1, <3>2
    <3>4. net' = net + (-1)
      BY <1>1, <2>3 DEF ClosureClose
    <3> QED
      BY <1>2, <2>3, <3>2, <3>3, <3>4 DEF ClosureClose
  <2>4. 0 \in Int
    OBVIOUS
  <2> QED
    BY <1>2, <2>1, <2>2, <2>3, <2>4
<1>3. ExtTypeOK'
  BY <1>1, <1>2 DEF ExtTypeOK
<1>4. LayersCounted'
  BY <1>1, <1>2 DEF ExtInv, LayersCounted
<1> QED
  BY <1>2, <1>3, <1>4 DEF ExtInv

\* What the end of a method leaves.
Ended ==
  /\ mode' = "idle"
  /\ IF mode = "execute_with_mut" /\ outcome' = "Ok"
     THEN left + net = 0 /\ stored' = View(overlay)
     ELSE /\ stored' = stored
          /\ outcome' = "StorageTransactionCommit" => left + net < 0

\* The steps that end a method.
LEMMA EndInv ==
  ASSUME ExtInv,
         \/ ClosureReturns
         \/ ClosureReturnsMut
         \/ ClosureReturnsMutErr
         \/ ClosureReturnsMutOpen
         \/ ClosurePanics
  PROVE  ExtInv' /\ Ended
<1>1. /\ overlay \in Seq(Layers) /\ overlay # << >> /\ Len(overlay) \in Nat /\ Len(overlay) > 0
      /\ backend \in [Keys -> Vals] /\ stored \in [Keys -> Vals]
      /\ mode \in Modes /\ outcome \in Results
      /\ left \in Nat /\ ops \in Nat /\ runs \in Nat /\ net \in Int
  BY DEF ExtInv, ExtTypeOK
<1>2. CASE ClosureReturns
  BY <1>1, <1>2 DEF ClosureReturns, ExtInv, ExtTypeOK, LayersCounted, Modes, Results, Ended
<1>3. CASE ClosurePanics
  BY <1>1, <1>3 DEF ClosurePanics, ExtInv, ExtTypeOK, LayersCounted, Modes, Results, Ended
<1>4. CASE ClosureReturnsMutErr
  <2>1. Len(overlay) = 1 /\ Len(overlay) = 1 + left + net + 1
    BY <1>1, <1>4 DEF ClosureReturnsMutErr, CanClose, ExtInv, LayersCounted
  <2>2. left + net < 0
    BY <1>1, <2>1
  <2> QED
    BY <1>1, <1>4, <2>2
       DEF ClosureReturnsMutErr, ExtInv, ExtTypeOK, LayersCounted, Modes, Results, Ended
<1>5. CASE ClosureReturnsMutOpen
  <2>1. overlay' \in Seq(Layers) /\ Len(overlay') = Len(overlay) - 1 /\ Len(overlay) > 2
    BY <1>1, <1>5, LayerEffects DEF ClosureReturnsMutOpen
  <2>2. overlay' # << >>
    BY <1>1, <2>1
  <2> QED
    BY <1>1, <1>5, <2>1, <2>2
       DEF ClosureReturnsMutOpen, ExtInv, ExtTypeOK, LayersCounted, Modes, Results, Ended
<1>6. CASE ClosureReturnsMut
  <2>1. /\ mode = "execute_with_mut" /\ Len(overlay) = 2 /\ stored' = Over(Commit(overlay)[1], backend)
        /\ overlay' = <<Empty>> /\ outcome' = "Ok" /\ mode' = "idle"
        /\ UNCHANGED <<backend, left, net, ops, runs>>
    BY <1>6 DEF ClosureReturnsMut
  <2>2. left + net = 0
    BY <1>1, <2>1 DEF ExtInv, LayersCounted
  <2>3. Commit(overlay)[1] = Over(overlay[2], overlay[1])
    <3>1. Len(overlay) - 1 = 1 /\ Len(overlay) > 1
      BY <2>1
    <3>2. Commit(overlay)[Len(overlay) - 1] = Over(overlay[Len(overlay)], overlay[Len(overlay) - 1])
      BY <1>1, <3>1, LayerEffects
    <3> QED
      BY <2>1, <3>1, <3>2
  <2>4. overlay[1] \in Layers /\ overlay[2] \in Layers
    <3>1. \A i \in 1..Len(overlay) : overlay[i] \in Layers
      BY <1>1
    <3>2. 1 \in 1..2 /\ 2 \in 1..2
      OBVIOUS
    <3> QED
      BY <2>1, <3>1, <3>2
  <2>5. stored' = View(overlay)
    <3>1. Over(Over(overlay[2], overlay[1]), backend) = Over(overlay[2], Over(overlay[1], backend))
      BY <1>1, <2>4, OverAssociative
    <3> QED
      BY <2>1, <2>3, <3>1, ViewOfTwo
  <2>6. stored' \in [Keys -> Vals]
    <3>1. Over(overlay[2], overlay[1]) \in Layers
      BY <2>4, OverLayers
    <3> QED
      BY <1>1, <2>1, <2>3, <3>1, OverState
  <2>7. overlay' \in Seq(Layers) /\ overlay' # << >>
    BY <2>1, EmptyLayer
  <2> QED
    BY <1>1, <2>1, <2>2, <2>5, <2>6, <2>7 DEF ExtInv, ExtTypeOK, LayersCounted, Modes, Results, Ended
<1> QED
  BY <1>2, <1>3, <1>4, <1>5, <1>6

\* Every step of a provider preserves the invariant.
LEMMA ExtNextInv == ExtInv /\ [ExtNext]_extVars => ExtInv'
<1> SUFFICES ASSUME ExtInv, [ExtNext]_extVars PROVE ExtInv'
  OBVIOUS
<1>1. CASE UNCHANGED extVars
  BY <1>1 DEF extVars, ExtInv, ExtTypeOK, LayersCounted
<1> QED
  BY <1>1, CallInv, ClosureInv, EndInv DEF ExtNext

\* externalities.rs: there is always a bottom layer, and what is stored is a
\* state of all keys.
THEOREM OverlayTypeCorrect == ExtSpec => []ExtTypeOK
<1>1. ExtInv => ExtTypeOK
  BY DEF ExtInv
<1> QED
  BY <1>1, ExtInitInv, ExtNextInv, PTL DEF ExtSpec

\* externalities.rs execute_with_mut: whatever transactions the closure opened,
\* committed and rolled back, Ok means that what it read at its end is what is
\* stored, and any other outcome that nothing is.
THEOREM ClosuresEndRight == ExtSpec => ClosureOutcome
<1> DEFINE Outcome == mode # "idle" /\ mode' = "idle" =>
                        IF mode = "execute_with_mut" /\ outcome' = "Ok"
                        THEN left + net = 0 /\ stored' = View(overlay)
                        ELSE /\ stored' = stored
                             /\ outcome' = "StorageTransactionCommit" => left + net < 0
<1>1. ExtInv /\ [ExtNext]_extVars => [Outcome]_extVars
  <2> SUFFICES ASSUME ExtInv, ExtNext PROVE Outcome
    OBVIOUS
  <2>1. mode = "idle" \/ mode' = mode \/ Ended
    BY CallInv, ClosureInv, EndInv DEF ExtNext
  <2> QED
    BY <2>1 DEF Ended
<1> QED
  BY <1>1, ExtInitInv, ExtNextInv, PTL DEF ExtSpec, ClosureOutcome

-----------------------------------------------------------------------------
(***************************************************************************)
(* CoreApi.  Every call builds the new chain on a line of blocks that the  *)
(* finalized block is in, once the revert is done; so what a call costs is *)
(* what its revert costs.  That the finalized block is in the chain, which *)
(* is a part of the type invariant, makes that inductive.                  *)
(***************************************************************************)
ApiRoots == SUBSET Writes

\* The chains of CoreApi: the finalized block is one of theirs.
Chains == { c \in ChainsOf(ApiRoots) : c.fin \in 1..Len(c.canon) }

\* The blocks below the finalized one of c are in d, and final.
StillFinal(c, d) ==
  \A i \in 1..c.fin - 1 : i <= d.fin /\ d.canon[i] = c.canon[i]

\* The parts of a chain.
LEMMA ChainParts ==
  ASSUME NEW c \in Chains
  PROVE  /\ c \in ChainsOf(ApiRoots)
         /\ c.canon \in Seq(BlocksOf(ApiRoots)) /\ Len(c.canon) \in Nat \ {0}
         /\ \A i \in 1..Len(c.canon) : c.canon[i] \in BlocksOf(ApiRoots)
         /\ c.fin \in Nat \ {0} /\ c.fin <= Len(c.canon)
         /\ c.side \in SUBSET BlocksOf(ApiRoots) /\ c.fresh \in Nat
<1>1. c \in ChainsOf(ApiRoots) /\ c.fin \in 1..Len(c.canon)
  BY DEF Chains
<1>2. /\ c.canon \in Seq(BlocksOf(ApiRoots))
      /\ c.fin \in Nat /\ c.side \in SUBSET BlocksOf(ApiRoots) /\ c.fresh \in Nat
  BY <1>1 DEF ChainsOf
<1>3. Len(c.canon) \in Nat /\ \A i \in 1..Len(c.canon) : c.canon[i] \in BlocksOf(ApiRoots)
  BY <1>2
<1> QED
  BY <1>1, <1>2, <1>3

\* A chain from its parts.
LEMMA MakesChain ==
  ASSUME NEW canon \in Seq(BlocksOf(ApiRoots)), NEW fin \in 1..Len(canon),
         NEW side \in SUBSET BlocksOf(ApiRoots), NEW fresh \in Nat
  PROVE  LET d == [canon |-> canon, fin |-> fin, side |-> side, fresh |-> fresh]
         IN  d \in Chains /\ d.canon = canon /\ d.fin = fin
<1> DEFINE d == [canon |-> canon, fin |-> fin, side |-> side, fresh |-> fresh]
<1>1. fin \in Nat
  OBVIOUS
<1>2. d \in ChainsOf(ApiRoots)
  BY <1>1 DEF ChainsOf
<1>3. d.canon = canon /\ d.fin = fin
  OBVIOUS
<1> HIDE DEF d
<1>4. d \in Chains
  BY <1>2, <1>3 DEF Chains
<1> QED
  BY <1>3, <1>4 DEF d

\* check_best_hash_and_revert(n): it costs no finality below the finalized block
\* unless it takes several blocks from a chain whose best block is final.
LEMMA RevertMany ==
  ASSUME NEW c \in Chains, NEW n \in Nat
  PROVE  LET d == CheckBestHashAndRevert(c, n)
         IN  /\ d \in Chains
             /\ n <= 1 \/ ~BestIsFinal(c) => StillFinal(c, d)
             /\ n = 0 \/ ~BestIsFinal(c) => d.fin = c.fin
<1>1. CASE ~BestIsFinal(c)
  <2>1. CheckBestHashAndRevert(c, n) = c
    BY <1>1 DEF CheckBestHashAndRevert, BestIsFinal
  <2>2. StillFinal(c, c)
    BY ChainParts DEF StillFinal
  <2> QED
    BY <2>1, <2>2
<1>2. CASE BestIsFinal(c)
  <2> DEFINE len == Len(c.canon)
             keep == IF n < len THEN len - n ELSE 1
             low == SubSeq(c.canon, 1, keep)
             fin == IF c.fin < keep THEN c.fin ELSE keep
             side == { b \in c.side : \A i \in keep + 1..len : c.canon[i].hash # b.parent }
             d == CheckBestHashAndRevert(c, n)
  <2>1. d = [canon |-> low, fin |-> fin, side |-> side, fresh |-> c.fresh]
    BY <1>2 DEF CheckBestHashAndRevert, BackendRevert, BestIsFinal
  <2>2. /\ c.canon \in Seq(BlocksOf(ApiRoots)) /\ len \in Nat \ {0} /\ c.fin = len
        /\ c.side \in SUBSET BlocksOf(ApiRoots) /\ c.fresh \in Nat
    BY <1>2, ChainParts DEF BestIsFinal
  <2>3. /\ keep \in Nat /\ keep > 0 /\ keep <= len
        /\ n = 0 => keep = len
        /\ n <= 1 => \A i \in 1..len - 1 : i \in 1..keep
    BY <2>2
  <2> HIDE DEF keep
  <2>4. low \in Seq(BlocksOf(ApiRoots)) /\ Len(low) = keep /\ \A i \in 1..keep : low[i] = c.canon[i]
    BY <2>2, <2>3, LowerPart
  <2>5. fin = keep /\ side \in SUBSET BlocksOf(ApiRoots)
    BY <2>2, <2>3
  <2>6. keep \in 1..Len(low)
    BY <2>3, <2>4
  <2> HIDE DEF low, fin, side, d
  <2>7. d \in Chains /\ d.canon = low /\ d.fin = keep
    BY <2>1, <2>2, <2>4, <2>5, <2>6, MakesChain
  <2>8. n <= 1 => StillFinal(c, d)
    BY <2>2, <2>3, <2>4, <2>7 DEF StillFinal
  <2> QED
    BY <1>2, <2>2, <2>3, <2>7, <2>8 DEF d
<1> QED
  BY <1>1, <1>2

\* The blocks of a chain are blocks.
LEMMA KnownType ==
  ASSUME NEW c \in Chains
  PROVE  Known(c) \in SUBSET BlocksOf(ApiRoots)
BY ChainParts DEF Known

\* A line of blocks, its tip and what is below that.
LEMMA LineType ==
  ASSUME NEW c \in Chains, NEW p \in Lines(c)
  PROVE  /\ p \in Seq(BlocksOf(ApiRoots)) /\ Len(p) \in Nat \ {0}
         /\ Tip(p) \in BlocksOf(ApiRoots)
         /\ Below(p) \in Seq(BlocksOf(ApiRoots)) /\ Len(Below(p)) = Len(p) - 1
<1> DEFINE B == BlocksOf(ApiRoots)
<1>0. PICK j \in 0..Len(c.canon) : p \in Branches(c, j) /\ p # << >>
  BY DEF Lines
<1>1. PICK s \in UNION { [1..k -> c.side] : k \in 0..Cardinality(c.side) } :
        p = SubSeq(c.canon, 1, j) \o s
  BY <1>0 DEF Branches
<1>2. PICK k \in 0..Cardinality(c.side) : s \in [1..k -> c.side]
  OBVIOUS
<1> HIDE DEF B
<1>3. s \in Seq(B)
  <2>1. c.side \subseteq B
    BY ChainParts DEF B
  <2>2. k \in Nat /\ s \in [1..k -> B]
    BY <1>2, <2>1
  <2> QED
    BY <2>2
<1>4. SubSeq(c.canon, 1, j) \in Seq(B)
  <2>1. c.canon \in Seq(B) /\ Len(c.canon) \in Nat
    BY ChainParts DEF B
  <2>2. j \in Nat /\ j <= Len(c.canon)
    BY <2>1
  <2> QED
    BY <2>1, <2>2, LowerPart
<1>5. p \in Seq(B) /\ p # << >>
  <2> DEFINE low == SubSeq(c.canon, 1, j)
  <2> HIDE DEF low
  <2>1. p = low \o s /\ low \in Seq(B)
    BY <1>1, <1>4 DEF low
  <2> QED
    BY <1>0, <1>3, <2>1
<1>6. Len(p) \in Nat \ {0}
  BY <1>5
<1>7. p[Len(p)] \in B
  BY <1>5, <1>6
<1>8. Below(p) \in Seq(B) /\ Len(Below(p)) = Len(p) - 1
  <2>1. Len(p) - 1 \in Nat /\ Len(p) - 1 <= Len(p)
    BY <1>6
  <2> QED
    BY <1>5, <2>1, LowerPart DEF Below
<1> QED
  BY <1>5, <1>6, <1>7, <1>8 DEF B, Tip

\* Other canonical blocks.
LEMMA ReorganisedEffect ==
  ASSUME NEW c \in Chains, NEW canon \in Seq(BlocksOf(ApiRoots)),
         NEW fin \in 1..Len(canon), NEW fresh \in Nat
  PROVE  /\ Reorganised(c, canon, fin, fresh) \in Chains
         /\ Reorganised(c, canon, fin, fresh).fin = fin
         /\ Reorganised(c, canon, fin, fresh).canon = canon
<1> DEFINE d == Reorganised(c, canon, fin, fresh)
           side == Known(c) \ { canon[i] : i \in 1..Len(canon) }
<1>1. side \in SUBSET BlocksOf(ApiRoots)
  BY KnownType
<1>2. d = [canon |-> canon, fin |-> fin, side |-> side, fresh |-> fresh]
  BY DEF Reorganised
<1> HIDE DEF side, d
<1>3. d \in Chains /\ d.fin = fin /\ d.canon = canon
  BY <1>1, <1>2, MakesChain
<1> QED
  BY <1>3 DEF d

\* A line and a block on top.
LEMMA OnTop ==
  ASSUME NEW q \in Seq(BlocksOf(ApiRoots)), NEW b \in BlocksOf(ApiRoots)
  PROVE  /\ Append(q, b) \in Seq(BlocksOf(ApiRoots)) /\ Len(Append(q, b)) = Len(q) + 1
         /\ \A i \in 1..Len(q) : Append(q, b)[i] = q[i]
OBVIOUS

\* Block b is set as final on line q with another state root.
LEMMA SetFinalEffect ==
  ASSUME NEW c \in Chains, NEW q \in Seq(BlocksOf(ApiRoots)), NEW b \in BlocksOf(ApiRoots),
         NEW w \in Writes, NEW d, d = SetFinal(c, q, b, b.root \cup {w})
  PROVE  d \in Chains /\ d.fin = Len(q) + 1 /\ \A i \in 1..Len(q) : d.canon[i] = q[i]
<1> DEFINE root == b.root \cup {w}
<1>1. b.hash \in Nat /\ b.parent \in Nat /\ root \in ApiRoots
  BY DEF BlocksOf, ApiRoots
<1>2. c.fresh \in Nat
  BY ChainParts
<1> HIDE DEF root
<1>3. Rehash(c, b, root) \in BlocksOf(ApiRoots) /\ FreshAfter(c, b, root) \in Nat
  BY <1>1, <1>2 DEF Rehash, FreshAfter, BlocksOf
<1> DEFINE canon == Append(q, Rehash(c, b, root))
<1>4. d = Reorganised(c, canon, Len(q) + 1, FreshAfter(c, b, root))
  BY DEF SetFinal, root
<1>5. /\ canon \in Seq(BlocksOf(ApiRoots)) /\ Len(canon) = Len(q) + 1
      /\ \A i \in 1..Len(q) : canon[i] = q[i]
  BY <1>3, OnTop
<1> HIDE DEF canon
<1>6. Len(q) + 1 \in 1..Len(canon)
  BY <1>5
<1> DEFINE fresh == FreshAfter(c, b, root)
           fin == Len(q) + 1
<1>7. fresh \in Nat /\ canon \in Seq(BlocksOf(ApiRoots)) /\ fin \in 1..Len(canon)
  BY <1>3, <1>5, <1>6
<1> HIDE DEF fresh, fin
<1>8. /\ Reorganised(c, canon, fin, fresh) \in Chains
      /\ Reorganised(c, canon, fin, fresh).fin = fin
      /\ Reorganised(c, canon, fin, fresh).canon = canon
  BY <1>7, ReorganisedEffect
<1> QED
  BY <1>4, <1>5, <1>8 DEF fresh, fin

\* A line with the finalized block of d in it has what was final before.
LEMMA StillFinalOn ==
  ASSUME NEW c \in Chains, NEW d \in Chains, NEW e \in Chains,
         NEW q \in Seq(BlocksOf(ApiRoots)),
         StillFinal(c, d), OnFinal(d, q), d.fin <= e.fin,
         \A i \in 1..Len(q) : e.canon[i] = q[i]
  PROVE  StillFinal(c, e)
<1>1. /\ c.fin \in Nat /\ d.fin \in Nat /\ e.fin \in Nat /\ Len(q) \in Nat
      /\ d.fin <= Len(q) /\ \A i \in 1..d.fin : q[i] = d.canon[i]
  BY ChainParts DEF OnFinal
<1> SUFFICES ASSUME NEW i \in 1..c.fin - 1 PROVE i <= e.fin /\ e.canon[i] = c.canon[i]
  BY DEF StillFinal
<1>2. i <= d.fin /\ d.canon[i] = c.canon[i]
  BY DEF StillFinal
<1>3. i \in 1..d.fin /\ i \in 1..Len(q) /\ i <= e.fin
  BY <1>1, <1>2
<1> QED
  BY <1>1, <1>2, <1>3

\* What the type invariant says of the chain.
LEMMA ApiFacts ==
  ASSUME CoreApiTypeOK
  PROVE  /\ chain \in Chains /\ chain.canon # << >> /\ Len(chain.canon) - 1 \in Nat
         /\ built \in SUBSET BlocksOf(ApiRoots) /\ gap \in BOOLEAN
<1>1. chain \in Chains
  BY DEF CoreApiTypeOK, Chains, ApiRoots
<1>2. chain.canon # << >> /\ Len(chain.canon) - 1 \in Nat
  BY <1>1, ChainParts
<1>3. built \in SUBSET BlocksOf(ApiRoots) /\ gap \in BOOLEAN
  BY DEF CoreApiTypeOK, ApiRoots
<1> QED
  BY <1>1, <1>2, <1>3

\* What is left to show of a step.
LEMMA ApiTypes ==
  ASSUME CoreApiTypeOK, chain' \in Chains, built' \in SUBSET BlocksOf(ApiRoots),
         gap' \in BOOLEAN, NEW n \in Nat, NEW name, NEW latest,
         call' = [name |-> name, number |-> n, latest |-> latest]
  PROVE  CoreApiTypeOK' /\ call'.name = name /\ call'.number = n
BY DEF CoreApiTypeOK, Chains, ApiRoots

\* build_block.
LEMMA BuildBlockKeeps ==
  ASSUME CoreApiTypeOK, NEW w \in Writes, BuildBlock(w)
  PROVE  CoreApiTypeOK' /\ FinalizedKept
<1> DEFINE b == Propose(chain, Latest(chain).root \cup {w})
<1>1. /\ chain' = [canon |-> chain.canon, fin |-> chain.fin, side |-> chain.side,
                   fresh |-> chain.fresh + 1]
      /\ built' = built \cup {b} /\ gap' = gap
      /\ call' = [name |-> "build_block", number |-> Len(chain.canon) - 1,
                  latest |-> chain.canon = chain.canon]
  BY DEF BuildBlock, Proposed, Called
<1>2. /\ chain.canon \in Seq(BlocksOf(ApiRoots)) /\ chain.fin \in 1..Len(chain.canon)
      /\ chain.side \in SUBSET BlocksOf(ApiRoots) /\ chain.fresh \in Nat
      /\ Latest(chain) \in BlocksOf(ApiRoots)
  BY ApiFacts, ChainParts DEF Latest
<1>3. b \in BlocksOf(ApiRoots)
  BY <1>2 DEF Propose, BlocksOf, ApiRoots
<1> HIDE DEF b
<1>4. chain.fresh + 1 \in Nat
  BY <1>2
<1>5. chain' \in Chains /\ chain'.canon = chain.canon /\ chain'.fin = chain.fin
  BY <1>1, <1>2, <1>4, MakesChain
<1>6. FinalizedKept
  BY <1>2, <1>5 DEF FinalizedKept
<1>7. built' \in SUBSET BlocksOf(ApiRoots) /\ gap' \in BOOLEAN
  BY <1>1, <1>3, ApiFacts
<1> QED
  BY <1>1, <1>5, <1>6, <1>7, ApiFacts, ApiTypes

\* import_block, as best, final or aside.
LEMMA ImportBlockKeeps ==
  ASSUME CoreApiTypeOK, NEW b \in built, NEW q \in Lines(chain), NEW how,
         ImportBlock(b, q, how)
  PROVE  CoreApiTypeOK' /\ FinalizedKept
<1>1. /\ chain \in Chains /\ b \in BlocksOf(ApiRoots) /\ built \in SUBSET BlocksOf(ApiRoots)
      /\ gap \in BOOLEAN
  BY ApiFacts
<1>2. q \in Seq(BlocksOf(ApiRoots)) /\ Len(q) \in Nat \ {0}
  BY <1>1, LineType
<1>3. /\ chain.canon \in Seq(BlocksOf(ApiRoots)) /\ chain.fin \in Nat \ {0}
      /\ chain.fin \in 1..Len(chain.canon)
      /\ chain.side \in SUBSET BlocksOf(ApiRoots) /\ chain.fresh \in Nat
  BY <1>1, ChainParts
<1>4. StillFinal(chain, chain)
  BY <1>3 DEF StillFinal
<1>5. /\ built' = built \ {b} /\ gap' = gap /\ chain.fin <= Len(q)
      /\ call' = [name |-> "import_block", number |-> Len(q) - 1, latest |-> q = chain.canon]
  BY DEF ImportBlock, Called
<1> DEFINE canon == Append(q, b)
<1>6. /\ canon \in Seq(BlocksOf(ApiRoots)) /\ Len(canon) = Len(q) + 1
      /\ \A i \in 1..Len(q) : canon[i] = q[i]
  BY <1>1, <1>2, OnTop
<1> HIDE DEF canon
<1>7. chain' \in Chains /\ StillFinal(chain, chain')
  <2>1. CASE chain' = ImportSide(chain, b)
    <3>1. chain' = [canon |-> chain.canon, fin |-> chain.fin,
                    side |-> chain.side \cup {b}, fresh |-> chain.fresh]
      BY <2>1 DEF ImportSide
    <3>2. chain.side \cup {b} \in SUBSET BlocksOf(ApiRoots)
      BY <1>1, <1>3
    <3>3. chain' \in Chains /\ chain'.canon = chain.canon /\ chain'.fin = chain.fin
      BY <1>3, <3>1, <3>2, MakesChain
    <3> QED
      BY <1>3, <3>3 DEF StillFinal
  <2>2. ASSUME NEW fin \in {chain.fin, Len(q) + 1}, OnFinal(chain, q),
               chain' = Reorganised(chain, canon, fin, chain.fresh)
        PROVE  chain' \in Chains /\ StillFinal(chain, chain')
    <3>1. fin \in 1..Len(canon) /\ chain.fin <= fin
      BY <1>2, <1>3, <1>5, <1>6, <2>2
    <3>2. chain' \in Chains /\ chain'.fin = fin /\ chain'.canon = canon
      BY <1>1, <1>3, <1>6, <2>2, <3>1, ReorganisedEffect
    <3>3. chain.fin <= chain'.fin /\ \A i \in 1..Len(q) : chain'.canon[i] = q[i]
      BY <1>6, <3>1, <3>2
    <3> QED
      BY <1>1, <1>2, <1>4, <2>2, <3>2, <3>3, StillFinalOn
  <2> QED
    BY <2>1, <2>2 DEF ImportBlock, canon
<1>8. FinalizedKept
  BY <1>7 DEF StillFinal, FinalizedKept
<1>9. built' \in SUBSET BlocksOf(ApiRoots) /\ gap' \in BOOLEAN /\ Len(q) - 1 \in Nat
  BY <1>1, <1>2, <1>5
<1> QED
  BY <1>5, <1>7, <1>8, <1>9, ApiTypes

\* import_block that imports nothing.
LEMMA ImportRefusedKeeps ==
  ASSUME CoreApiTypeOK, NEW b \in built, ImportRefused(b)
  PROVE  CoreApiTypeOK' /\ FinalizedKept
<1>1. /\ built' = built \ {b} /\ gap' = gap /\ chain' = chain
      /\ call' = [name |-> "import_block", number |-> Len(chain.canon) - 1,
                  latest |-> chain.canon = chain.canon]
  BY DEF ImportRefused, Called
<1>2. built' \in SUBSET BlocksOf(ApiRoots) /\ gap' \in BOOLEAN /\ chain' \in Chains
  BY <1>1, ApiFacts
<1>3. FinalizedKept
  BY <1>1, ApiFacts, ChainParts DEF FinalizedKept
<1> QED
  BY <1>1, <1>2, <1>3, ApiFacts, ApiTypes

\* A block is set as final after a revert to d, on line q or as genesis block.
LEMMA SetFinalStep ==
  ASSUME NEW c \in Chains, NEW d \in Chains, NEW q \in Seq(BlocksOf(ApiRoots)),
         NEW b \in BlocksOf(ApiRoots), NEW w \in Writes,
         NEW e, e = SetFinal(d, q, b, b.root \cup {w}),
         q = << >> => c.fin = 1, q # << >> => OnFinal(d, q)
  PROVE  e \in Chains /\ (StillFinal(c, d) => StillFinal(c, e))
<1>1. e \in Chains /\ e.fin = Len(q) + 1 /\ \A i \in 1..Len(q) : e.canon[i] = q[i]
  BY SetFinalEffect
<1>2. CASE q = << >>
  BY <1>1, <1>2 DEF StillFinal
<1>3. CASE q # << >>
  <2>1. d.fin <= e.fin
    BY <1>1, <1>3, ChainParts DEF OnFinal
  <2> QED
    BY <1>1, <1>3, <2>1, StillFinalOn
<1> QED
  BY <1>2, <1>3

\* with_state(Commit, at) that is done.
LEMMA WithStateKeeps ==
  ASSUME CoreApiTypeOK, NEW p \in Lines(chain), NEW w \in Writes, WithState(p, w)
  PROVE  CoreApiTypeOK' /\ FinalizedKept
<1> DEFINE c == Unfinalized(p)
           q == Below(p)
<1>1. chain \in Chains /\ built \in SUBSET BlocksOf(ApiRoots) /\ gap \in BOOLEAN
  BY ApiFacts
<1>2. /\ Len(p) \in Nat \ {0} /\ Tip(p) \in BlocksOf(ApiRoots)
      /\ q \in Seq(BlocksOf(ApiRoots)) /\ Len(q) = Len(p) - 1
  BY <1>1, LineType
<1>3. /\ Finalizable(c, q) /\ chain' = SetFinal(c, q, Tip(p), Tip(p).root \cup {w})
      /\ built' = built /\ gap' = gap
      /\ call' = [name |-> "with_state", number |-> Len(p) - 1, latest |-> p = chain.canon]
  BY DEF WithState, Called
<1>4. c \in Chains /\ StillFinal(chain, c) /\ (Len(p) = 1 => c = chain)
  <2>1. CASE Len(p) = 1
    <3>1. c = chain
      BY <2>1 DEF Unfinalized
    <3> QED
      BY <1>1, <3>1, ChainParts DEF StillFinal
  <2>2. CASE Len(p) # 1
    <3>1. c = CheckBestHashAndRevert(chain, 1)
      BY <2>2 DEF Unfinalized
    <3> HIDE DEF c
    <3> QED
      BY <1>1, <2>2, <3>1, RevertMany
  <2> QED
    BY <2>1, <2>2
<1> HIDE DEF c, q
<1>5. (q = << >> => chain.fin = 1) /\ (q # << >> => OnFinal(c, q))
  <2>1. q = << >> => Len(p) = 1
    BY <1>2
  <2> QED
    BY <1>3, <1>4, <2>1 DEF Finalizable
<1>6. chain' \in Chains /\ StillFinal(chain, chain')
  BY <1>1, <1>2, <1>3, <1>4, <1>5, SetFinalStep
<1>7. FinalizedKept
  BY <1>6 DEF StillFinal, FinalizedKept
<1>8. Len(p) - 1 \in Nat
  BY <1>2
<1> QED
  BY <1>1, <1>3, <1>6, <1>7, <1>8, ApiTypes

\* with_state(Commit, at) that fails after its revert.
LEMMA WithStateErrKeeps ==
  ASSUME CoreApiTypeOK, NEW p \in Lines(chain), WithStateErr(p)
  PROVE  CoreApiTypeOK' /\ FinalizedKept
<1>1. chain \in Chains /\ built \in SUBSET BlocksOf(ApiRoots) /\ gap \in BOOLEAN
  BY ApiFacts
<1>2. Len(p) \in Nat \ {0} /\ Len(p) - 1 \in Nat
  BY <1>1, LineType
<1>3. /\ chain' \in {chain, CheckBestHashAndRevert(chain, 1)} /\ built' = built /\ gap' = gap
      /\ call' = [name |-> "with_state", number |-> Len(p) - 1, latest |-> p = chain.canon]
  BY DEF WithStateErr, Unfinalized, Called
<1>4. chain' \in Chains /\ StillFinal(chain, chain')
  <2>1. CASE chain' = chain
    BY <1>1, <2>1, ChainParts DEF StillFinal
  <2>2. CASE chain' = CheckBestHashAndRevert(chain, 1)
    BY <1>1, <2>2, RevertMany
  <2> QED
    BY <1>3, <2>1, <2>2
<1>5. FinalizedKept
  BY <1>4 DEF StillFinal, FinalizedKept
<1> QED
  BY <1>1, <1>2, <1>3, <1>4, <1>5, ApiTypes

\* A step that may cost finality: one that reverts several blocks.
DeepCommit ==
  call'.name = "commit_storage_changes" /\ call'.number > 1 /\ BestIsFinal(chain)

\* commit_storage_changes that is done.
LEMMA CommitChangesKeeps ==
  ASSUME CoreApiTypeOK, NEW p \in Lines(chain), NEW w \in Writes, CommitChanges(p, w)
  PROVE  CoreApiTypeOK' /\ (FinalizedKept \/ DeepCommit)
<1> DEFINE c == RevertedFor(p)
           q == Below(p)
           orphan == Len(p) > 1 /\ Tip(Below(p)) \notin Known(c)
           on == IF orphan THEN c.canon ELSE q
<1>1. chain \in Chains /\ built \in SUBSET BlocksOf(ApiRoots)
  BY ApiFacts
<1>2. /\ Len(p) \in Nat \ {0} /\ Tip(p) \in BlocksOf(ApiRoots)
      /\ q \in Seq(BlocksOf(ApiRoots)) /\ Len(q) = Len(p) - 1
  BY <1>1, LineType
<1>3. /\ chain' = SetFinal(c, on, Tip(p), Tip(p).root \cup {w})
      /\ ~orphan => Finalizable(c, q)
      /\ built' = built /\ gap' \in BOOLEAN
      /\ call' = [name |-> "commit_storage_changes", number |-> Len(p) - 1,
                  latest |-> p = chain.canon]
  BY DEF CommitChanges, Called
<1>4. /\ c \in Chains
      /\ Len(p) - 1 <= 1 \/ ~BestIsFinal(chain) => StillFinal(chain, c)
      /\ Len(p) = 1 => c.fin = chain.fin
  <2>1. c = CheckBestHashAndRevert(chain, Len(p) - 1) /\ Len(p) - 1 \in Nat
    BY <1>2 DEF RevertedFor
  <2>2. Len(p) = 1 => Len(p) - 1 = 0
    BY <1>2
  <2> HIDE DEF c
  <2> QED
    BY <1>1, <2>1, <2>2, RevertMany
<1> HIDE DEF c, q
<1>5. /\ on \in Seq(BlocksOf(ApiRoots))
      /\ on = << >> => chain.fin = 1
      /\ on # << >> => OnFinal(c, on)
  <2>1. CASE orphan
    <3>1. on = c.canon
      BY <2>1
    <3> QED
      BY <1>4, <3>1, ChainParts DEF OnFinal
  <2>2. CASE ~orphan
    <3>1. on = q /\ Finalizable(c, q)
      BY <1>3, <2>2
    <3>2. q = << >> => Len(p) = 1
      BY <1>2
    <3> QED
      BY <1>2, <1>4, <3>1, <3>2 DEF Finalizable
  <2> QED
    BY <2>1, <2>2
<1> HIDE DEF on, orphan
<1>6. chain' \in Chains /\ (StillFinal(chain, c) => StillFinal(chain, chain'))
  BY <1>1, <1>2, <1>3, <1>4, <1>5, SetFinalStep
<1>7. Len(p) - 1 \in Nat
  BY <1>2
<1>8. CoreApiTypeOK' /\ call'.name = "commit_storage_changes" /\ call'.number = Len(p) - 1
  BY <1>1, <1>3, <1>6, <1>7, ApiTypes
<1>9. StillFinal(chain, chain') => FinalizedKept
  BY DEF StillFinal, FinalizedKept
<1>10. Len(p) - 1 <= 1 \/ Len(p) - 1 > 1
  BY <1>7
<1> QED
  BY <1>4, <1>6, <1>8, <1>9, <1>10 DEF DeepCommit

\* commit_storage_changes that fails after its revert.
LEMMA CommitChangesErrKeeps ==
  ASSUME CoreApiTypeOK, NEW p \in Lines(chain), CommitChangesErr(p)
  PROVE  CoreApiTypeOK' /\ (FinalizedKept \/ DeepCommit)
<1>1. chain \in Chains /\ built \in SUBSET BlocksOf(ApiRoots) /\ gap \in BOOLEAN
  BY ApiFacts
<1>2. Len(p) - 1 \in Nat /\ (Len(p) - 1 <= 1 \/ Len(p) - 1 > 1)
  BY <1>1, LineType
<1>3. /\ chain' = CheckBestHashAndRevert(chain, Len(p) - 1) /\ built' = built /\ gap' = gap
      /\ call' = [name |-> "commit_storage_changes", number |-> Len(p) - 1,
                  latest |-> p = chain.canon]
  BY DEF CommitChangesErr, RevertedFor, Called
<1>4. /\ chain' \in Chains
      /\ Len(p) - 1 <= 1 \/ ~BestIsFinal(chain) => StillFinal(chain, chain')
  BY <1>1, <1>2, <1>3, RevertMany
<1>5. CoreApiTypeOK' /\ call'.name = "commit_storage_changes" /\ call'.number = Len(p) - 1
  BY <1>1, <1>2, <1>3, <1>4, ApiTypes
<1>6. StillFinal(chain, chain') => FinalizedKept
  BY DEF StillFinal, FinalizedKept
<1> QED
  BY <1>2, <1>4, <1>5, <1>6 DEF DeepCommit

\* Every step keeps the type invariant and, unless it commits to a block above
\* the first of a chain whose best block is final, the finalized blocks.
LEMMA ApiNextKeeps ==
  ASSUME CoreApiTypeOK, ApiNext
  PROVE  CoreApiTypeOK' /\ (FinalizedKept \/ DeepCommit)
BY BuildBlockKeeps, ImportBlockKeeps, ImportRefusedKeeps, WithStateKeeps, WithStateErrKeeps,
   CommitChangesKeeps, CommitChangesErrKeeps DEF ApiNext, Mutation

\* A new chain has its genesis block.
LEMMA ApiInitTypes == ApiInit => CoreApiTypeOK
<1> SUFFICES ASSUME ApiInit PROVE CoreApiTypeOK
  OBVIOUS
<1>1. {} \in ApiRoots
  BY DEF ApiRoots
<1>2. chain \in Intact(ApiRoots)
  BY <1>1, NewChainIntact DEF ApiInit
<1>3. chain \in ChainsOf(ApiRoots) /\ chain.fin \in 1..Len(chain.canon)
  <2>1. chain.fin = Len(chain.canon) /\ Len(chain.canon) \in Nat \ {0}
    BY <1>2, IntactFacts DEF Intact, BestIsFinal
  <2> QED
    BY <1>2, <2>1 DEF Intact
<1> QED
  BY <1>3 DEF ApiInit, CoreApiTypeOK, ApiRoots

\* The type invariant is inductive.
LEMMA ApiStepTypes == CoreApiTypeOK /\ [ApiNext]_apiVars => CoreApiTypeOK'
<1>1. CoreApiTypeOK /\ UNCHANGED apiVars => CoreApiTypeOK'
  BY DEF apiVars, CoreApiTypeOK
<1> QED
  BY <1>1, ApiNextKeeps

\* core.rs: the chain and the blocks that a user of core::Builder has keep their
\* types, and the finalized block is in the chain.
THEOREM CoreApiTypeCorrect == ApiSpec => []CoreApiTypeOK
BY ApiInitTypes, ApiStepTypes, PTL DEF ApiSpec

\* core.rs check_best_hash_and_revert: whatever blocks are built and held,
\* imported as best, final or aside, and mutated, in whatever order, the blocks
\* below the finalized one stay, except in commit_storage_changes for a block
\* above the first when the best block is final.
THEOREM FinalizedIsKept == ApiSpec => OnlyDeepCommitsLoseFinal
<1>1. CoreApiTypeOK /\ [ApiNext]_apiVars => [FinalizedKept \/ DeepCommit]_apiVars
  BY ApiNextKeeps
<1>2. [FinalizedKept \/ DeepCommit]_apiVars =>
        [ \/ FinalizedKept
          \/ /\ call'.name = "commit_storage_changes" /\ call'.number > 1
             /\ BestIsFinal(chain) ]_apiVars
  BY DEF DeepCommit
<1> QED
  BY <1>1, <1>2, ApiInitTypes, ApiStepTypes, PTL DEF ApiSpec, OnlyDeepCommitsLoseFinal

-----------------------------------------------------------------------------
(***************************************************************************)
(* CompanionParser.  The loop keeps that the fields it has read are well   *)
(* formed, that the relay chain is the only one among them and that the    *)
(* others are where they belong (ReadSoFar).  It is stated with what       *)
(* parse_field returns; FieldMeaning says what that means.                 *)
(***************************************************************************)
Kind(i) == ParseField(fields[i])

\* The parachain id that the macro reads from a field.
IdOf(i) == FirstFudgeAttr(fields[i]).id

\* What the loop has made of the first m fields.
ReadSoFar(m) ==
  /\ \A i \in 1..m : Kind(i) \notin Errors
  /\ relaychain = NoId => \A i \in 1..m : Kind(i) # "Relaychain"
  /\ relaychain # NoId => relaychain \in 1..m /\ \A i \in 1..m : Kind(i) = "Relaychain" <=> i = relaychain
  /\ others \in Seq(1..m)
  /\ \A n \in 1..Len(others) : Kind(others[n]) = "Other"
  /\ \A i \in 1..m : Kind(i) = "Other" => \E n \in 1..Len(others) : others[n] = i
  /\ \A k \in 1..Len(others) : \A n \in 1..Len(others) : k < n => others[k] < others[n]
  /\ parachains \in Seq([field : 1..m, id : Ids])
  /\ \A n \in 1..Len(parachains) :
       Kind(parachains[n].field) = "Parachain" /\ parachains[n].id = IdOf(parachains[n].field)
  /\ \A i \in 1..m : Kind(i) = "Parachain" => \E n \in 1..Len(parachains) : parachains[n].field = i
  /\ \A k \in 1..Len(parachains) : \A n \in 1..Len(parachains) :
       k < n => parachains[k].field < parachains[n].field

\* The inductive invariant of CompanionParser.
ParserInv ==
  /\ shape \in Shapes /\ fields \in Structs /\ pos \in 0..Len(fields)
  /\ verdict \in Errors \cup {"Parsing", "Ok"}
  /\ verdict \in {"Parsing", "NotNamed"} => ReadSoFar(pos)
  /\ verdict = "NotNamed" => shape # "Named"
  /\ verdict \in {"Ok", "NoRelaychain"} =>
       /\ shape = "Named" /\ pos = Len(fields) /\ ReadSoFar(pos)
       /\ verdict = "Ok" <=> relaychain # NoId
  /\ verdict \in {"TwoRelaychains", "PathSegments", "ParaId", "Unsupported"} =>
       pos > 0 /\ ReadSoFar(pos - 1)
  /\ verdict = "TwoRelaychains" => relaychain # NoId /\ Kind(pos) = "Relaychain"
  /\ verdict \in {"PathSegments", "ParaId", "Unsupported"} => Kind(pos) \in Errors

\* A set of numbers has a least one.
LEMMA MinExists ==
  ASSUME NEW S \in SUBSET Nat, S # {}
  PROVE  Min(S) \in S /\ \A j \in S : Min(S) <= j
<1>1. \E i \in S : \A j \in S : i <= j
  <2> SUFFICES ASSUME \A i \in S : \E j \in S : j < i PROVE FALSE
    OBVIOUS
  <2> DEFINE T == { k \in Nat : \A j \in S : k < j }
  <2>1. 0 \in T
    BY 0 \notin S
  <2>2. ASSUME NEW k \in Nat, k \in T PROVE k + 1 \in T
    <3>1. k + 1 \notin S
      <4>1. \A j \in S : ~(j < k + 1)
        BY <2>2
      <4> QED
        BY <4>1
    <3> QED
      BY <2>2, <3>1
  <2> HIDE DEF T
  <2>3. \A k \in Nat : k \in T
    BY <2>1, <2>2, SetInduction
  <2>4. PICK i \in S : TRUE
    OBVIOUS
  <2>5. i \in T /\ i \in Nat
    BY <2>3
  <2> QED
    BY <2>5 DEF T
<1> QED
  BY <1>1 DEF Min

\* The first attribute in the namespace is the one that decides.
LEMMA FirstDecides ==
  ASSUME NEW n \in Nat, NEW field \in [1..n -> Attrs], FudgeAttrs(field) # {}
  PROVE  LET a == FirstFudgeAttr(field)
         IN  a \in Attrs /\ a.fudge = TRUE /\ \A attr : Decides(attr, field) <=> attr = a
<1> DEFINE S == FudgeAttrs(field)
           m == Min(S)
           a == FirstFudgeAttr(field)
<1>1. /\ DOMAIN field = 1..n /\ S \in SUBSET Nat
      /\ \A i \in 1..n : field[i] \in Attrs /\ field[i].fudge \in BOOLEAN
  <2>1. \A x \in Attrs : x.fudge \in BOOLEAN
    BY DEF Attrs
  <2> QED
    BY <2>1 DEF FudgeAttrs
<1>2. m \in S /\ \A j \in S : m <= j
  BY <1>1, MinExists
<1>3. m \in 1..n /\ field[m].fudge = TRUE /\ a = field[m]
  BY <1>1, <1>2 DEF FudgeAttrs, FirstFudgeAttr
<1>4. \A j \in 1..n : field[j].fudge => m <= j
  BY <1>1, <1>2 DEF FudgeAttrs
<1> HIDE DEF m, S, a
<1>5. Decides(a, field)
  <2>1. \A j \in 1..m - 1 : ~field[j].fudge
    BY <1>3, <1>4
  <2> QED
    BY <1>1, <1>3, <2>1 DEF Decides
<1>6. ASSUME NEW attr, Decides(attr, field) PROVE attr = a
  <2>1. PICK i \in 1..n : /\ field[i] = attr /\ attr.fudge
                          /\ \A j \in 1..i - 1 : ~field[j].fudge
    BY <1>1, <1>6 DEF Decides
  <2>2. m <= i /\ ~(m < i)
    BY <1>3, <1>4, <2>1
  <2> QED
    BY <1>3, <2>1, <2>2
<1> QED
  BY <1>1, <1>3, <1>5, <1>6 DEF a

\* The fields of a struct.
LEMMA StructParts ==
  ASSUME NEW s \in Structs
  PROVE  /\ Len(s) \in Nat /\ DOMAIN s = 1..Len(s)
         /\ \A i \in 1..Len(s) : \E n \in Nat : s[i] \in [1..n -> Attrs]
<1>1. PICK n \in 0..MaxFields : s \in [1..n -> AttrLists]
  BY DEF Structs
<1>2. n \in Nat
  BY ParserBoundsAssumption, <1>1
<1>3. s \in Seq(AttrLists) /\ Len(s) = n
  BY <1>1, <1>2
<1>4. \A x \in AttrLists : \E k \in Nat : x \in [1..k -> Attrs]
  BY ParserBoundsAssumption DEF AttrLists
<1> QED
  BY <1>1, <1>2, <1>3, <1>4

\* What parse_field says of a field.
LEMMA FieldMeaning ==
  ASSUME fields \in Structs, NEW i \in 1..Len(fields)
  PROVE  /\ IsOther(i) <=> Kind(i) = "Other"
         /\ IsRelay(i) <=> Kind(i) = "Relaychain"
         /\ \A id \in Ids : IsPara(i, id) <=> Kind(i) = "Parachain" /\ id = IdOf(i)
         /\ Kind(i) = "Parachain" => IdOf(i) \in Ids
         /\ WellFormed(i) <=> Kind(i) \notin Errors
         /\ Kind(i) \in {"Other", "Relaychain", "Parachain", "PathSegments", "ParaId", "Unsupported"}
<1> DEFINE field == fields[i]
           a == FirstFudgeAttr(field)
<1>1. PICK n \in Nat : field \in [1..n -> Attrs]
  BY StructParts
<1>2. \A x \in Attrs : x.fudge \in BOOLEAN
  BY DEF Attrs
<1>3. CASE FudgeAttrs(field) = {}
  <2>1. \A j \in DOMAIN field : ~field[j].fudge
    BY <1>3 DEF FudgeAttrs
  <2>2. IsOther(i) /\ Kind(i) = "Other"
    BY <1>3, <2>1 DEF IsOther, Kind, ParseField
  <2>3. \A attr : ~Decides(attr, field)
    BY <2>1 DEF Decides
  <2> QED
    BY <2>2, <2>3 DEF IsRelay, IsPara, WellFormed, Errors
<1>4. CASE FudgeAttrs(field) # {}
  <2>1. a \in Attrs /\ a.fudge = TRUE /\ \A attr : Decides(attr, field) <=> attr = a
    BY <1>1, <1>4, FirstDecides
  <2>2. Kind(i) = ParseAttr(a) /\ IdOf(i) = a.id
    BY <1>4 DEF Kind, ParseField, IdOf
  <2>3. ~IsOther(i)
    BY <1>4 DEF IsOther, FudgeAttrs
  <2>4. IsRelay(i) <=> a.segments = 2 /\ a.second = "relaychain"
    BY <2>1 DEF IsRelay
  <2>5. \A id : IsPara(i, id) <=> a.segments = 2 /\ a.second = "parachain" /\ a.id = id
    BY <2>1 DEF IsPara
  <2> HIDE DEF a
  <2>6. /\ a.segments \in {1, 2} /\ a.second \in {"parachain", "relaychain", "other"}
        /\ a.segments = 2 \/ a.second = "relaychain"
        /\ a.id \in Ids \cup {NoId} /\ NoId \notin Ids
    <3>1. \A x \in Attrs : x.segments \in {1, 2} /\ x.second \in {"parachain", "relaychain", "other"}
      BY DEF Attrs
    <3>2. ASSUME NEW x \in Attrs PROVE x.segments = 2 \/ x.second = "relaychain"
      <4>1. CASE x \in [fudge : {TRUE}, segments : {1, 2}, second : {"relaychain"}, id : {NoId}]
        BY <4>1
      <4>2. CASE x \notin [fudge : {TRUE}, segments : {1, 2}, second : {"relaychain"}, id : {NoId}]
        BY <4>2 DEF Attrs
      <4> QED
        BY <4>1, <4>2
    <3>3. \A x \in Attrs : x.id \in Ids \cup {NoId}
      BY DEF Attrs
    <3> QED
      BY <2>1, <3>1, <3>2, <3>3, IdsAssumption
  <2> QED
    BY <2>2, <2>3, <2>4, <2>5, <2>6 DEF ParseAttr, WellFormed, Errors
<1> QED
  BY <1>3, <1>4

\* parse starts with nothing read.
LEMMA ParserInitInv == ParserInit => ParserInv
<1> SUFFICES ASSUME ParserInit PROVE ParserInv
  OBVIOUS
<1>1. << >> \in Structs
  <2>1. 0 \in 0..MaxFields /\ << >> \in [1..0 -> AttrLists]
    BY ParserBoundsAssumption
  <2> QED
    BY <2>1 DEF Structs
<1>2. fields \in Structs /\ shape \in Shapes
  BY <1>1 DEF ParserInit
<1>3. Len(fields) \in Nat /\ pos = 0 /\ pos \in 0..Len(fields) /\ 1..pos = {}
  BY <1>2, StructParts DEF ParserInit
<1>4. ReadSoFar(pos)
  <2>1. \A S : << >> \in Seq(S) /\ Len(<< >>) = 0
    OBVIOUS
  <2>2. others = << >> /\ parachains = << >> /\ relaychain = NoId /\ 1..0 = {}
    BY DEF ParserInit
  <2> QED
    BY <1>3, <2>1, <2>2 DEF ReadSoFar
<1> QED
  BY <1>2, <1>3, <1>4 DEF ParserInit, ParserInv, Errors

\* What holds when the loop reads a field of kind type.
LEMMA AtField ==
  ASSUME ParserInv, NEW type, Reading(type), UNCHANGED <<shape, fields>>
  PROVE  /\ pos \in Nat /\ pos' = pos + 1 /\ pos + 1 \in 1..Len(fields) /\ Len(fields) \in Nat
         /\ Kind(pos + 1) = type /\ shape \in Shapes /\ shape' \in Shapes /\ fields' \in Structs
         /\ pos' \in 0..Len(fields') /\ verdict = "Parsing" /\ shape = "Named" /\ ReadSoFar(pos)
         /\ \A i : Kind(i)' = Kind(i) /\ IdOf(i)' = IdOf(i)
<1>1. Len(fields) \in Nat
  BY StructParts DEF ParserInv
<1>2. pos \in Nat /\ pos' = pos + 1 /\ pos + 1 \in 1..Len(fields) /\ pos' \in 0..Len(fields')
  BY <1>1 DEF ParserInv, Reading
<1> QED
  BY <1>1, <1>2 DEF ParserInv, Reading, Kind, IdOf

\* A longer prefix is an initial segment and one more field.
LEMMA OneMore ==
  ASSUME NEW m \in Nat
  PROVE  /\ 1..m \subseteq 1..m + 1 /\ m + 1 \in 1..m + 1
         /\ \A i \in 1..m + 1 : i \in 1..m \/ i = m + 1
         /\ \A i \in 1..m : i < m + 1 /\ i # m + 1
  OBVIOUS

\* Elements of a sequence with one more behind.
LEMMA Appended ==
  ASSUME NEW S, NEW seq \in Seq(S), NEW T, S \subseteq T, NEW x \in T
  PROVE  /\ Append(seq, x) \in Seq(T) /\ Len(seq) \in Nat
         /\ Len(Append(seq, x)) = Len(seq) + 1 /\ Append(seq, x)[Len(seq) + 1] = x
         /\ \A i \in 1..Len(seq) : Append(seq, x)[i] = seq[i] /\ seq[i] \in S
<1>1. seq \in Seq(T)
  BY \A i \in 1..Len(seq) : seq[i] \in T
<1> QED
  BY <1>1

\* Sequences over a set are sequences over a larger one.
LEMMA WiderSeq ==
  ASSUME NEW S, NEW T, S \subseteq T
  PROVE  Seq(S) \subseteq Seq(T)
<1> SUFFICES ASSUME NEW s \in Seq(S) PROVE s \in Seq(T)
  OBVIOUS
<1>1. \A i \in 1..Len(s) : s[i] \in T
  OBVIOUS
<1> QED
  BY <1>1

\* What is about fewer fields is about more of them.
LEMMA Widened ==
  ASSUME NEW m \in Nat
  PROVE  /\ Seq(1..m) \subseteq Seq(1..m + 1)
         /\ [field : 1..m, id : Ids] \subseteq [field : 1..m + 1, id : Ids]
         /\ Seq([field : 1..m, id : Ids]) \subseteq Seq([field : 1..m + 1, id : Ids])
<1> DEFINE S == [field : 1..m, id : Ids]
           T == [field : 1..m + 1, id : Ids]
<1>1. 1..m \subseteq 1..m + 1 /\ S \subseteq T
  BY OneMore
<1>2. Seq(1..m) \subseteq Seq(1..m + 1)
  BY <1>1, WiderSeq
<1>3. Seq(S) \subseteq Seq(T)
  <2> HIDE DEF S, T
  <2> QED
    BY <1>1, WiderSeq
<1> QED
  BY <1>1, <1>2, <1>3

\* A field without attributes in the namespace.
LEMMA PushOtherInv ==
  ASSUME ParserInv, PushOther
  PROVE  ParserInv'
<1>0. PICK m : m = pos
  OBVIOUS
<1> DEFINE n == Len(others)
<1>1. /\ m \in Nat /\ pos' = m + 1 /\ m + 1 \in 1..Len(fields) /\ Len(fields) \in Nat
      /\ Kind(m + 1) = "Other" /\ shape' \in Shapes /\ fields' \in Structs
      /\ pos' \in 0..Len(fields') /\ verdict = "Parsing" /\ ReadSoFar(m)
      /\ \A i : Kind(i)' = Kind(i) /\ IdOf(i)' = IdOf(i)
      /\ others' = Append(others, m + 1) /\ UNCHANGED <<parachains, relaychain, verdict>>
  BY <1>0, AtField DEF PushOther
<1>2. /\ 1..m \subseteq 1..m + 1 /\ m + 1 \in 1..m + 1
      /\ \A i \in 1..m + 1 : i \in 1..m \/ i = m + 1
      /\ \A i \in 1..m : i < m + 1 /\ i # m + 1
  BY <1>1, OneMore
<1>3. others \in Seq(1..m) /\ parachains \in Seq([field : 1..m, id : Ids])
  BY <1>1 DEF ReadSoFar
<1>4. /\ others' \in Seq(1..m + 1) /\ n \in Nat /\ Len(others') = n + 1 /\ others'[n + 1] = m + 1
      /\ \A i \in 1..n : others'[i] = others[i] /\ others[i] \in 1..m
  BY <1>1, <1>2, <1>3, Appended
<1>5. parachains \in Seq([field : 1..m + 1, id : Ids])
  BY <1>1, <1>3, Widened
<1>6. /\ \A i \in 1..n : i \in 1..n + 1
      /\ \A i \in 1..n + 1 : i \in 1..n \/ i = n + 1
      /\ n + 1 \in 1..n + 1 /\ \A i \in 1..n : ~(n + 1 < i)
  BY <1>4
<1> HIDE DEF n
<1>7. ReadSoFar(m + 1)'
  <2>1. \A i \in 1..m + 1 : Kind(i) \notin Errors
    BY <1>1, <1>2 DEF ReadSoFar, Errors
  <2>2. /\ relaychain = NoId => \A i \in 1..m + 1 : Kind(i) # "Relaychain"
        /\ relaychain # NoId => relaychain \in 1..m + 1
                                /\ \A i \in 1..m + 1 : Kind(i) = "Relaychain" <=> i = relaychain
    BY <1>1, <1>2 DEF ReadSoFar
  <2>3. \A i \in 1..n + 1 : Kind(others'[i]) = "Other"
    BY <1>1, <1>4, <1>6 DEF ReadSoFar, n
  <2>4. \A i \in 1..m + 1 : Kind(i) = "Other" => \E k \in 1..n + 1 : others'[k] = i
    <3>1. \A i \in 1..m : Kind(i) = "Other" => \E k \in 1..n : others[k] = i
      BY <1>1 DEF ReadSoFar, n
    <3>2. \A i \in 1..m : Kind(i) = "Other" => \E k \in 1..n + 1 : others'[k] = i
      BY <1>4, <1>6, <3>1
    <3>3. \E k \in 1..n + 1 : others'[k] = m + 1
      BY <1>4, <1>6
    <3> QED
      BY <1>2, <3>2, <3>3
  <2>5. \A k \in 1..n + 1 : \A i \in 1..n + 1 : k < i => others'[k] < others'[i]
    <3>1. \A k \in 1..n : \A i \in 1..n : k < i => others[k] < others[i]
      BY <1>1 DEF ReadSoFar, n
    <3>2. \A k \in 1..n : others[k] < m + 1
      BY <1>2, <1>4
    <3>3. ~(n + 1 < n + 1)
      BY <1>4
    <3> QED
      BY <1>4, <1>6, <3>1, <3>2, <3>3
  <2>6. /\ \A i \in 1..Len(parachains) :
             Kind(parachains[i].field) = "Parachain" /\ parachains[i].id = IdOf(parachains[i].field)
        /\ \A i \in 1..m + 1 : Kind(i) = "Parachain" =>
             \E k \in 1..Len(parachains) : parachains[k].field = i
        /\ \A k \in 1..Len(parachains) : \A i \in 1..Len(parachains) :
             k < i => parachains[k].field < parachains[i].field
    BY <1>1, <1>2 DEF ReadSoFar
  <2> QED
    BY <1>1, <1>4, <1>5, <2>1, <2>2, <2>3, <2>4, <2>5, <2>6 DEF ReadSoFar
<1>8. verdict' = "Parsing" /\ ReadSoFar(pos)'
  BY <1>1, <1>7
<1> QED
  BY <1>1, <1>8 DEF ParserInv, Errors

\* A parachain.
LEMMA PushParachainInv ==
  ASSUME ParserInv, PushParachain
  PROVE  ParserInv'
<1>0. PICK m : m = pos
  OBVIOUS
<1> DEFINE n == Len(parachains)
           S == [field : 1..m, id : Ids]
           T == [field : 1..m + 1, id : Ids]
           new == [field |-> m + 1, id |-> IdOf(m + 1)]
<1>1. /\ m \in Nat /\ pos' = m + 1 /\ m + 1 \in 1..Len(fields) /\ Len(fields) \in Nat
      /\ Kind(m + 1) = "Parachain" /\ shape' \in Shapes /\ fields' \in Structs
      /\ pos' \in 0..Len(fields') /\ verdict = "Parsing" /\ ReadSoFar(m)
      /\ \A i : Kind(i)' = Kind(i) /\ IdOf(i)' = IdOf(i)
      /\ parachains' = Append(parachains, new) /\ UNCHANGED <<others, relaychain, verdict>>
  BY <1>0, AtField DEF PushParachain, IdOf
<1>2. /\ 1..m \subseteq 1..m + 1 /\ m + 1 \in 1..m + 1
      /\ \A i \in 1..m + 1 : i \in 1..m \/ i = m + 1
      /\ \A i \in 1..m : i < m + 1 /\ i # m + 1
  BY <1>1, OneMore
<1>3. others \in Seq(1..m) /\ parachains \in Seq(S)
  BY <1>1 DEF ReadSoFar
<1>4. IdOf(m + 1) \in Ids
  BY <1>1, FieldMeaning DEF ParserInv
<1>5. new \in T /\ S \subseteq T /\ new.field = m + 1 /\ new.id = IdOf(m + 1)
  BY <1>1, <1>2, <1>4, Widened
<1>6. \A x \in S : x.field \in 1..m
  OBVIOUS
<1> HIDE DEF S, T, new
<1>7. /\ parachains' \in Seq(T) /\ n \in Nat /\ Len(parachains') = n + 1 /\ parachains'[n + 1] = new
      /\ \A i \in 1..n : parachains'[i] = parachains[i] /\ parachains[i] \in S
  BY <1>1, <1>3, <1>5, Appended
<1>8. others \in Seq(1..m + 1)
  BY <1>1, <1>3, Widened
<1>9. /\ \A i \in 1..n : i \in 1..n + 1
      /\ \A i \in 1..n + 1 : i \in 1..n \/ i = n + 1
      /\ n + 1 \in 1..n + 1 /\ \A i \in 1..n : ~(n + 1 < i)
  BY <1>7
<1> HIDE DEF n
<1>10. ReadSoFar(m + 1)'
  <2>1. \A i \in 1..m + 1 : Kind(i) \notin Errors
    BY <1>1, <1>2 DEF ReadSoFar, Errors
  <2>2. /\ relaychain = NoId => \A i \in 1..m + 1 : Kind(i) # "Relaychain"
        /\ relaychain # NoId => relaychain \in 1..m + 1
                                /\ \A i \in 1..m + 1 : Kind(i) = "Relaychain" <=> i = relaychain
    BY <1>1, <1>2 DEF ReadSoFar
  <2>3. \A i \in 1..n + 1 : /\ Kind(parachains'[i].field) = "Parachain"
                            /\ parachains'[i].id = IdOf(parachains'[i].field)
    BY <1>1, <1>5, <1>7, <1>9 DEF ReadSoFar, n
  <2>4. \A i \in 1..m + 1 : Kind(i) = "Parachain" => \E k \in 1..n + 1 : parachains'[k].field = i
    <3>1. \A i \in 1..m : Kind(i) = "Parachain" => \E k \in 1..n : parachains[k].field = i
      BY <1>1 DEF ReadSoFar, n
    <3> QED
      BY <1>2, <1>5, <1>7, <1>9, <3>1
  <2>5. \A k \in 1..n + 1 : \A i \in 1..n + 1 : k < i => parachains'[k].field < parachains'[i].field
    <3>1. \A k \in 1..n : \A i \in 1..n : k < i => parachains[k].field < parachains[i].field
      BY <1>1 DEF ReadSoFar, n
    <3>2. \A k \in 1..n : parachains[k].field < m + 1
      BY <1>2, <1>6, <1>7
    <3>3. ~(n + 1 < n + 1)
      BY <1>7
    <3> QED
      BY <1>5, <1>7, <1>9, <3>1, <3>2, <3>3
  <2>6. /\ \A i \in 1..Len(others) : Kind(others[i]) = "Other"
        /\ \A i \in 1..m + 1 : Kind(i) = "Other" => \E k \in 1..Len(others) : others[k] = i
        /\ \A k \in 1..Len(others) : \A i \in 1..Len(others) : k < i => others[k] < others[i]
    BY <1>1, <1>2 DEF ReadSoFar
  <2> QED
    BY <1>1, <1>7, <1>8, <2>1, <2>2, <2>3, <2>4, <2>5, <2>6 DEF ReadSoFar, T
<1>11. verdict' = "Parsing" /\ ReadSoFar(pos)'
  BY <1>1, <1>10
<1> QED
  BY <1>1, <1>11 DEF ParserInv, Errors

\* A relay chain, the first or a second one.
LEMMA SetRelaychainInv ==
  ASSUME ParserInv, SetRelaychain
  PROVE  ParserInv'
<1>0. PICK m : m = pos
  OBVIOUS
<1>1. /\ m \in Nat /\ pos' = m + 1 /\ m + 1 \in 1..Len(fields) /\ Len(fields) \in Nat
      /\ Kind(m + 1) = "Relaychain" /\ shape' \in Shapes /\ fields' \in Structs
      /\ pos' \in 0..Len(fields') /\ verdict = "Parsing" /\ ReadSoFar(m)
      /\ \A i : Kind(i)' = Kind(i) /\ IdOf(i)' = IdOf(i)
      /\ UNCHANGED <<others, parachains>>
  BY <1>0, AtField DEF SetRelaychain
<1>2. /\ 1..m \subseteq 1..m + 1 /\ m + 1 \in 1..m + 1
      /\ \A i \in 1..m + 1 : i \in 1..m \/ i = m + 1
      /\ \A i \in 1..m : i < m + 1 /\ i # m + 1
  BY <1>1, OneMore
<1>3. CASE relaychain = NoId
  <2>1. relaychain' = m + 1 /\ verdict' = "Parsing" /\ m + 1 # NoId
    <3>1. m + 1 \in Nat
      BY <1>1
    <3> QED
      BY <1>1, <1>3, <3>1, IdsAssumption DEF SetRelaychain
  <2>2. /\ others \in Seq(1..m + 1) /\ parachains \in Seq([field : 1..m + 1, id : Ids])
    BY <1>1, Widened DEF ReadSoFar
  <2>3. ReadSoFar(m + 1)'
    <3>1. \A i \in 1..m + 1 : Kind(i) \notin Errors
      BY <1>1, <1>2 DEF ReadSoFar, Errors
    <3>2. \A i \in 1..m + 1 : Kind(i) = "Relaychain" <=> i = m + 1
      BY <1>1, <1>2, <1>3 DEF ReadSoFar
    <3>3. /\ \A i \in 1..Len(others) : Kind(others[i]) = "Other"
          /\ \A i \in 1..m + 1 : Kind(i) = "Other" => \E k \in 1..Len(others) : others[k] = i
          /\ \A k \in 1..Len(others) : \A i \in 1..Len(others) : k < i => others[k] < others[i]
      BY <1>1, <1>2 DEF ReadSoFar
    <3>4. /\ \A i \in 1..Len(parachains) :
               Kind(parachains[i].field) = "Parachain" /\ parachains[i].id = IdOf(parachains[i].field)
          /\ \A i \in 1..m + 1 : Kind(i) = "Parachain" =>
               \E k \in 1..Len(parachains) : parachains[k].field = i
          /\ \A k \in 1..Len(parachains) : \A i \in 1..Len(parachains) :
               k < i => parachains[k].field < parachains[i].field
      BY <1>1, <1>2 DEF ReadSoFar
    <3> QED
      BY <1>1, <1>2, <2>1, <2>2, <3>1, <3>2, <3>3, <3>4 DEF ReadSoFar
  <2>4. ReadSoFar(pos)'
    BY <1>1, <2>3
  <2> QED
    BY <1>1, <2>1, <2>4 DEF ParserInv, Errors
<1>4. CASE relaychain # NoId
  <2>1. verdict' = "TwoRelaychains" /\ relaychain' = relaychain
    BY <1>4 DEF SetRelaychain
  <2>2. ReadSoFar(m)'
    BY <1>1, <2>1 DEF ReadSoFar
  <2>3. m + 1 - 1 = m /\ m + 1 > 0
    BY <1>1
  <2>4. pos' > 0 /\ ReadSoFar(pos - 1)' /\ Kind(pos)' = "Relaychain"
    BY <1>1, <2>2, <2>3
  <2> QED
    BY <1>1, <1>4, <2>1, <2>4 DEF ParserInv, Errors
<1> QED
  BY <1>3, <1>4

\* A field that is not well formed.
LEMMA FieldErrInv ==
  ASSUME ParserInv, FieldErr
  PROVE  ParserInv'
<1>0. PICK m : m = pos
  OBVIOUS
<1>1. PICK error \in Errors : Reading(error) /\ verdict' = error
  BY DEF FieldErr
<1>2. UNCHANGED <<shape, fields, parachains, relaychain, others>>
  BY DEF FieldErr
<1>3. /\ m \in Nat /\ pos' = m + 1 /\ m + 1 \in 1..Len(fields) /\ Len(fields) \in Nat
      /\ Kind(m + 1) = error /\ shape' \in Shapes /\ fields' \in Structs
      /\ pos' \in 0..Len(fields') /\ verdict = "Parsing" /\ ReadSoFar(m)
      /\ \A i : Kind(i)' = Kind(i) /\ IdOf(i)' = IdOf(i)
  BY <1>0, <1>1, <1>2, AtField
<1>4. error \in {"PathSegments", "ParaId", "Unsupported"}
  <2>1. Kind(m + 1) \in {"Other", "Relaychain", "Parachain", "PathSegments", "ParaId", "Unsupported"}
    BY <1>3, FieldMeaning DEF ParserInv
  <2> QED
    BY <1>1, <1>3, <2>1 DEF Errors
<1>5. ReadSoFar(m)'
  BY <1>2, <1>3 DEF ReadSoFar
<1>6. m + 1 - 1 = m /\ m + 1 > 0
  BY <1>3
<1>7. pos' > 0 /\ ReadSoFar(pos - 1)' /\ Kind(pos)' = error
  BY <1>3, <1>5, <1>6
<1> QED
  BY <1>1, <1>3, <1>4, <1>7 DEF ParserInv, Errors

\* Every step of parse preserves the invariant.
LEMMA ParserNextInv == ParserInv /\ [ParserNext]_parserVars => ParserInv'
<1> SUFFICES ASSUME ParserInv, [ParserNext]_parserVars PROVE ParserInv'
  OBVIOUS
<1>1. ASSUME UNCHANGED <<shape, fields, pos, parachains, relaychain, others>>
      PROVE  /\ \A m : ReadSoFar(m)' <=> ReadSoFar(m)
             /\ ReadSoFar(pos)' <=> ReadSoFar(pos)
             /\ ReadSoFar(pos - 1)' <=> ReadSoFar(pos - 1)
             /\ Kind(pos)' = Kind(pos)
  BY <1>1 DEF ReadSoFar, Kind, IdOf
<1>2. CASE UNCHANGED parserVars
  <2>1. UNCHANGED <<shape, fields, pos, parachains, relaychain, others>> /\ verdict' = verdict
    BY <1>2 DEF parserVars
  <2> QED
    BY <1>1, <2>1 DEF ParserInv
<1>3. CASE ParseShape
  <2>1. /\ UNCHANGED <<shape, fields, pos, parachains, relaychain, others>>
        /\ verdict = "Parsing" /\ verdict' = "NotNamed" /\ shape # "Named"
    BY <1>3 DEF ParseShape
  <2> QED
    BY <1>1, <2>1 DEF ParserInv, Errors
<1>4. CASE Finish
  <2>1. /\ UNCHANGED <<shape, fields, pos, parachains, relaychain, others>>
        /\ verdict = "Parsing" /\ shape = "Named" /\ pos = Len(fields)
        /\ verdict' = IF relaychain = NoId THEN "NoRelaychain" ELSE "Ok"
    BY <1>4 DEF Finish
  <2> QED
    BY <1>1, <2>1 DEF ParserInv, Errors
<1> QED
  BY <1>2, <1>3, <1>4, PushOtherInv, PushParachainInv, SetRelaychainInv, FieldErrInv DEF ParserNext

\* What was read of a struct is typed as fields of the struct.
LEMMA ReadTypes ==
  ASSUME fields \in Structs, NEW m \in Nat, m <= Len(fields), ReadSoFar(m)
  PROVE  /\ parachains \in Seq([field : 1..Len(fields), id : Ids])
         /\ relaychain \in (1..Len(fields)) \cup {NoId}
         /\ others \in Seq(1..Len(fields))
<1> DEFINE len == Len(fields)
           S == [field : 1..m, id : Ids]
           T == [field : 1..len, id : Ids]
<1>1. len \in Nat
  BY StructParts
<1>2. 1..m \subseteq 1..len
  BY <1>1
<1>3. S \subseteq T
  BY <1>2
<1>4. others \in Seq(1..m) /\ parachains \in Seq(S) /\ relaychain \in (1..m) \cup {NoId}
  BY DEF ReadSoFar
<1>5. others \in Seq(1..len)
  BY <1>2, <1>4, WiderSeq
<1>6. parachains \in Seq(T)
  <2> HIDE DEF S, T
  <2> QED
    BY <1>3, <1>4, WiderSeq
<1> QED
  BY <1>2, <1>4, <1>5, <1>6

\* The type invariant follows.
LEMMA ParserInvTypes == ParserInv => ParserTypeOK
<1> SUFFICES ASSUME ParserInv PROVE ParserTypeOK
  OBVIOUS
<1>1. fields \in Structs /\ Len(fields) \in Nat /\ pos \in Nat /\ pos <= Len(fields)
  BY StructParts DEF ParserInv
<1>2. \E m \in Nat : m <= Len(fields) /\ ReadSoFar(m)
  <2>1. verdict \in {"Parsing", "NotNamed", "Ok", "NoRelaychain"} => ReadSoFar(pos)
    BY DEF ParserInv
  <2>2. verdict \in {"TwoRelaychains", "PathSegments", "ParaId", "Unsupported"} =>
          pos > 0 /\ ReadSoFar(pos - 1)
    BY DEF ParserInv
  <2>3. \/ verdict \in {"Parsing", "NotNamed", "Ok", "NoRelaychain"}
        \/ verdict \in {"TwoRelaychains", "PathSegments", "ParaId", "Unsupported"}
    BY DEF ParserInv, Errors
  <2>4. pos > 0 => pos - 1 \in Nat /\ pos - 1 <= Len(fields)
    BY <1>1
  <2> QED
    BY <1>1, <2>1, <2>2, <2>3, <2>4
<1> QED
  BY <1>1, <1>2, ReadTypes DEF ParserInv, ParserTypeOK

\* A struct that is read to its end and has a relay chain.
LEMMA ReadIsRight ==
  ASSUME fields \in Structs, ReadSoFar(Len(fields)), relaychain # NoId
  PROVE  /\ \A i \in DOMAIN fields : WellFormed(i)
         /\ relaychain \in DOMAIN fields
         /\ \A j \in DOMAIN fields : IsRelay(j) <=> j = relaychain
         /\ { others[n] : n \in DOMAIN others } = { i \in DOMAIN fields : IsOther(i) }
         /\ { parachains[n] : n \in DOMAIN parachains } =
              { d \in [field : DOMAIN fields, id : Ids] : IsPara(d.field, d.id) }
         /\ \A m, n \in DOMAIN others : m < n => others[m] < others[n]
         /\ \A m, n \in DOMAIN parachains : m < n => parachains[m].field < parachains[n].field
<1> DEFINE len == Len(fields)
           D == [field : 1..len, id : Ids]
<1>1. /\ len \in Nat /\ DOMAIN fields = 1..len /\ others \in Seq(1..len) /\ parachains \in Seq(D)
      /\ DOMAIN others = 1..Len(others) /\ DOMAIN parachains = 1..Len(parachains)
      /\ \A n \in 1..Len(others) : others[n] \in 1..len
  BY StructParts DEF ReadSoFar
<1>2. \A n \in 1..Len(parachains) : parachains[n] \in D
  <2> HIDE DEF D
  <2> QED
    BY <1>1
<1>3. /\ \A i \in 1..len : WellFormed(i)
      /\ relaychain \in 1..len /\ \A j \in 1..len : IsRelay(j) <=> j = relaychain
  BY FieldMeaning DEF ReadSoFar
<1>4. { others[n] : n \in 1..Len(others) } = { i \in 1..len : IsOther(i) }
  <2>1. \A n \in 1..Len(others) : IsOther(others[n])
    BY <1>1, FieldMeaning DEF ReadSoFar
  <2>2. \A i \in 1..len : IsOther(i) => \E n \in 1..Len(others) : others[n] = i
    BY FieldMeaning DEF ReadSoFar
  <2> QED
    BY <1>1, <2>1, <2>2
<1>5. { parachains[n] : n \in 1..Len(parachains) } = { d \in D : IsPara(d.field, d.id) }
  <2>1. ASSUME NEW n \in 1..Len(parachains) PROVE IsPara(parachains[n].field, parachains[n].id)
    <3>1. parachains[n].field \in 1..len /\ parachains[n].id \in Ids
      BY <1>2
    <3>2. Kind(parachains[n].field) = "Parachain" /\ parachains[n].id = IdOf(parachains[n].field)
      BY DEF ReadSoFar
    <3> QED
      BY <3>1, <3>2, FieldMeaning
  <2>2. ASSUME NEW d \in D, IsPara(d.field, d.id)
        PROVE  \E n \in 1..Len(parachains) : parachains[n] = d
    <3>1. d.field \in 1..len /\ d.id \in Ids /\ d = [field |-> d.field, id |-> d.id]
      OBVIOUS
    <3>2. Kind(d.field) = "Parachain" /\ d.id = IdOf(d.field)
      BY <2>2, <3>1, FieldMeaning
    <3>3. PICK n \in 1..Len(parachains) : parachains[n].field = d.field
      BY <3>1, <3>2 DEF ReadSoFar
    <3>4. parachains[n].id = IdOf(parachains[n].field)
      BY DEF ReadSoFar
    <3>5. parachains[n] = [field |-> parachains[n].field, id |-> parachains[n].id]
      BY <1>2
    <3>6. parachains[n] = d
      BY <3>1, <3>2, <3>3, <3>4, <3>5
    <3> QED
      BY <3>6
  <2> HIDE DEF D
  <2> QED
    BY <1>2, <2>1, <2>2
<1>6. /\ \A m, n \in 1..Len(others) : m < n => others[m] < others[n]
      /\ \A m, n \in 1..Len(parachains) : m < n => parachains[m].field < parachains[n].field
  BY DEF ReadSoFar
<1> QED
  BY <1>1, <1>3, <1>4, <1>5, <1>6

\* parse refuses what it should refuse.
LEMMA RefusedIsWrong ==
  ASSUME ParserInv, verdict \in Errors
  PROVE  ~ /\ shape = "Named"
           /\ \A i \in DOMAIN fields : WellFormed(i)
           /\ \E i \in DOMAIN fields : \A j \in DOMAIN fields : IsRelay(j) <=> j = i
<1>1. /\ fields \in Structs /\ Len(fields) \in Nat /\ DOMAIN fields = 1..Len(fields)
      /\ pos \in Nat /\ pos <= Len(fields)
  BY StructParts DEF ParserInv
<1>2. CASE verdict = "NotNamed"
  BY <1>2 DEF ParserInv
<1>3. CASE verdict = "NoRelaychain"
  <2>1. ReadSoFar(Len(fields)) /\ relaychain = NoId
    BY <1>3 DEF ParserInv
  <2>2. \A i \in 1..Len(fields) : ~IsRelay(i)
    BY <1>1, <2>1, FieldMeaning DEF ReadSoFar
  <2> QED
    BY <1>1, <2>2
<1>4. CASE verdict = "TwoRelaychains"
  <2>1. pos > 0 /\ ReadSoFar(pos - 1) /\ relaychain # NoId /\ Kind(pos) = "Relaychain"
    BY <1>4 DEF ParserInv
  <2>2. relaychain \in 1..pos - 1 /\ Kind(relaychain) = "Relaychain"
    BY <2>1 DEF ReadSoFar
  <2>3. pos \in 1..Len(fields) /\ relaychain \in 1..Len(fields) /\ relaychain # pos
    BY <1>1, <2>1, <2>2
  <2>4. IsRelay(pos) /\ IsRelay(relaychain)
    BY <1>1, <2>1, <2>2, <2>3, FieldMeaning
  <2> QED
    BY <1>1, <2>3, <2>4
<1>5. CASE verdict \in {"PathSegments", "ParaId", "Unsupported"}
  <2>1. pos > 0 /\ Kind(pos) \in Errors
    BY <1>5 DEF ParserInv
  <2>2. pos \in 1..Len(fields)
    BY <1>1, <2>1
  <2> QED
    BY <1>1, <2>1, <2>2, FieldMeaning
<1> QED
  BY <1>2, <1>3, <1>4, <1>5 DEF Errors

\* parse/mod.rs: what parse finds are fields of the struct.
THEOREM ParserTypeCorrect == ParserSpec => []ParserTypeOK
BY ParserInvTypes, ParserInitInv, ParserNextInv, PTL DEF ParserSpec

\* parse/mod.rs: for structs of any length, with any attributes in any order,
\* parse accepts exactly those with well formed fields and one relay chain, and
\* loses, doubles or misplaces none of their fields.
THEOREM ParserAcceptsTheRight == ParserSpec => []AcceptsTheRight
<1>1. ParserInv => AcceptsTheRight
  <2> SUFFICES ASSUME ParserInv PROVE AcceptsTheRight
    OBVIOUS
  <2>1. /\ fields \in Structs /\ Len(fields) \in Nat /\ DOMAIN fields = 1..Len(fields)
        /\ pos \in Nat /\ pos <= Len(fields)
    BY StructParts DEF ParserInv
  <2>2. CASE verdict = "Ok"
    <3>1. ReadSoFar(Len(fields)) /\ relaychain # NoId /\ shape = "Named"
      BY <2>2 DEF ParserInv
    <3> QED
      BY <2>1, <2>2, <3>1, ReadIsRight DEF AcceptsTheRight
  <2>3. CASE verdict \in Errors
    <3>1. verdict = "TwoRelaychains" =>
            IsRelay(pos) /\ \E i \in 1..pos - 1 : IsRelay(i) /\ \A j \in 1..pos - 1 : WellFormed(j)
      <4> SUFFICES ASSUME verdict = "TwoRelaychains"
                   PROVE  IsRelay(pos) /\ \E i \in 1..pos - 1 :
                                            IsRelay(i) /\ \A j \in 1..pos - 1 : WellFormed(j)
        OBVIOUS
      <4>1. pos > 0 /\ ReadSoFar(pos - 1) /\ relaychain # NoId /\ Kind(pos) = "Relaychain"
        BY DEF ParserInv
      <4>2. pos \in 1..Len(fields) /\ \A i \in 1..pos - 1 : i \in 1..Len(fields)
        BY <2>1, <4>1
      <4>3. /\ relaychain \in 1..pos - 1 /\ Kind(relaychain) = "Relaychain"
            /\ \A j \in 1..pos - 1 : Kind(j) \notin Errors
        BY <4>1 DEF ReadSoFar
      <4>4. IsRelay(pos) /\ IsRelay(relaychain) /\ \A j \in 1..pos - 1 : WellFormed(j)
        BY <2>1, <4>1, <4>2, <4>3, FieldMeaning
      <4> QED
        BY <4>3, <4>4
    <3>2. verdict # "Ok"
      BY <2>3 DEF Errors
    <3> QED
      BY <2>3, <3>1, <3>2, RefusedIsWrong DEF AcceptsTheRight
  <2>4. CASE verdict = "Parsing"
    BY <2>4 DEF AcceptsTheRight
  <2> QED
    BY <2>2, <2>3, <2>4 DEF ParserInv
<1> QED
  BY <1>1, ParserInitInv, ParserNextInv, PTL DEF ParserSpec

-----------------------------------------------------------------------------
(***************************************************************************)
(* All of them side by side, as MC_Parts has them: a step of one leaves    *)
(* the others as they are, so that the invariants hold together.           *)
(***************************************************************************)
PartsInv == GenesisInv /\ ExtInv /\ ParserInv /\ CodesInv /\ PoolInv /\ CoreApiTypeOK

\* The variables of all the parts.
allVars == <<part, genesisVars, extVars, parserVars, codesVars, poolVars, apiVars>>

\* state.rs, externalities.rs, parse/mod.rs, relay_chain.rs onboard_para,
\* parachain.rs and core.rs: the components that are modelled by themselves keep
\* their types, whatever is done with them.
THEOREM PartsTypeCorrect == PartsSpec => []PartsTypeOK
<1>1. PartsInit => PartsInv
  <2>1. PartsInit => /\ GenesisInit /\ ExtInit /\ ParserInit
                     /\ CodesInit /\ PoolInit /\ ApiInit
    BY DEF PartsInit
  <2> QED
    BY <2>1, GenesisInitInv, ExtInitInv, ParserInitInv, CodesInitInv, PoolInitInv, ApiInitTypes
       DEF PartsInv
<1>2. PartsInv /\ [PartsNext]_allVars => PartsInv'
  <2> SUFFICES ASSUME PartsInv, [PartsNext]_allVars PROVE PartsInv'
    OBVIOUS
  <2>1. /\ [GenesisNext]_genesisVars /\ [ExtNext]_extVars /\ [ParserNext]_parserVars
        /\ [CodesNext]_codesVars /\ [PoolNext]_poolVars /\ [ApiNext]_apiVars
    <3>1. CASE UNCHANGED allVars
      BY <3>1 DEF allVars
    <3>2. CASE PartsNext
      BY <3>2 DEF PartsNext
    <3> QED
      BY <3>1, <3>2
  <2>2. CoreApiTypeOK'
    BY <2>1, ApiStepTypes DEF PartsInv
  <2> QED
    BY <2>1, <2>2, GenesisNextInv, ExtNextInv, ParserNextInv, CodesNextInv, PoolNextInv DEF PartsInv
<1>3. PartsInv => PartsTypeOK
  BY ParserInvTypes, CodesInvImplies
     DEF PartsInv, PartsTypeOK, GenesisInv, ExtInv, PoolInv
<1> QED
  BY <1>1, <1>2, <1>3, PTL DEF PartsSpec, allVars
=============================================================================

-------------------------- MODULE RelayParaProofs --------------------------
(***************************************************************************)
(* Proofs about RelayPara, for any parachains, writes, faults and bounds.  *)
(* Inv is inductive under every fault.  Theorems about what a failed       *)
(* commit, read or check spoils name the faults that they exclude.         *)
(***************************************************************************)
EXTENDS RelayPara, CoreProofs, Induction

-----------------------------------------------------------------------------
\* force_enact_collations.

\* One collation is enacted by a commit of its own.
EnactStep(d, i) == WithStateCommit(d, Enacted(Latest(d).root, collations[i]))

\* Enacting a collation changes the head and the candidate of its parachain.
LEMMA EnactedEffect ==
  ASSUME NEW root \in RelayRoots, NEW collation \in Collations
  PROVE  LET e == Enacted(root, collation)
         IN  /\ e \in RelayRoots
             /\ e.heads[collation.id] = collation.head
             /\ \A p \in Paras : p # collation.id => e.heads[p] = root.heads[p]
             /\ e.pending = root.pending \ {collation.id}
             /\ e.registered = root.registered
<1> DEFINE id == collation.id
           head == collation.head
           heads == [root.heads EXCEPT ![id] = head]
<1>1. /\ id \in Paras /\ head \in ParaBlocks
      /\ root.heads \in [Paras -> ParaBlocks \cup {None}]
      /\ root.registered \in SUBSET Paras /\ root.pending \in SUBSET Paras
      /\ root.writes \in SUBSET Writes
  BY DEF Collations, RelayRoots
<1>2. root = [heads |-> root.heads, registered |-> root.registered,
              pending |-> root.pending, writes |-> root.writes]
  BY DEF RelayRoots
<1>3. SetHead(root, id, head) =
        [heads |-> heads, registered |-> root.registered,
         pending |-> root.pending, writes |-> root.writes]
  BY <1>2 DEF SetHead
<1>4. Enacted(root, collation) =
        [heads |-> heads, registered |-> root.registered,
         pending |-> root.pending \ {id}, writes |-> root.writes]
  BY <1>3 DEF Enacted
<1>5. /\ heads \in [Paras -> ParaBlocks \cup {None}]
      /\ heads[id] = head
      /\ \A p \in Paras : p # id => heads[p] = root.heads[p]
  BY <1>1
<1> HIDE DEF heads
<1> QED
  BY <1>1, <1>4, <1>5 DEF RelayRoots

\* What one commit of force_enact_collations does to the relay chain.
LEMMA EnactStepEffect ==
  ASSUME collations \in Seq(Collations), NEW d \in Intact(RelayRoots),
         NEW i \in 1..Len(collations)
  PROVE  LET e == EnactStep(d, i)
         IN  /\ e \in Intact(RelayRoots)
             /\ Len(e.canon) = Len(d.canon)
             /\ \A j \in 1..Len(d.canon) - 1 : e.canon[j] = d.canon[j]
             /\ Latest(e).parent = Latest(d).parent
             /\ d.fresh <= e.fresh
             /\ Heads(e)[collations[i].id] = collations[i].head
             /\ \A p \in Paras : p # collations[i].id => Heads(e)[p] = Heads(d)[p]
             /\ Latest(e).root.pending = Latest(d).root.pending \ {collations[i].id}
<1> DEFINE root == Enacted(Latest(d).root, collations[i])
<1>1. collations[i] \in Collations /\ Latest(d).root \in RelayRoots
  BY IntactFacts
<1>2. /\ root \in RelayRoots
      /\ root.heads[collations[i].id] = collations[i].head
      /\ \A p \in Paras : p # collations[i].id => root.heads[p] = Latest(d).root.heads[p]
      /\ root.pending = Latest(d).root.pending \ {collations[i].id}
  BY <1>1, EnactedEffect
<1> HIDE DEF root
<1>3. LET e == WithStateCommit(d, root)
      IN  /\ e \in Intact(RelayRoots)
          /\ Len(e.canon) = Len(d.canon)
          /\ \A j \in 1..Len(d.canon) - 1 : e.canon[j] = d.canon[j]
          /\ Latest(e).root = root
          /\ Latest(e).parent = Latest(d).parent
          /\ d.fresh <= e.fresh
  BY <1>2, CommitIntact
<1>4. EnactStep(d, i) = WithStateCommit(d, root)
  BY DEF EnactStep, root
<1> QED
  BY <1>2, <1>3, <1>4 DEF Heads

\* force_enact_collations is the iteration of that commit.
LEMMA ForceEnactSteps ==
  ASSUME collations \in Seq(Collations), NEW c \in Intact(RelayRoots),
         NEW n \in 0..Len(collations)
  PROVE  \E f \in [0..n -> Intact(RelayRoots)] :
           /\ f[0] = c
           /\ \A i \in 1..n : f[i] = EnactStep(f[i - 1], i)
           /\ ForceEnact(c, n) = f[n]
<1> DEFINE D == Intact(RelayRoots)
           G == [x \in D \X (1..n) |-> EnactStep(x[1], x[2])]
           Solves(f) == f = [i \in 0..n |-> IF i = 0 THEN c ELSE EnactStep(f[i - 1], i)]
           h == CHOOSE f : Solves(f)
<1>1. n \in Nat /\ \A i \in 1..n : i \in 1..Len(collations)
  OBVIOUS
<1>2. \A d \in D, i \in 1..n : EnactStep(d, i) \in D
  BY <1>1, EnactStepEffect
<1> HIDE DEF D
<1>3. G \in [D \X (1..n) -> D]
  BY <1>2
<1>4. PICK f \in [0..n -> D] : IteratesTo(f, c, n, G)
  <2>1. c \in D
    BY DEF D
  <2> HIDE DEF G
  <2> QED
    BY <1>1, <1>3, <2>1, Iterates
<1>5. Solves(f)
  <2>1. ASSUME NEW i \in 1..n PROVE f[i] = EnactStep(f[i - 1], i)
    <3>1. <<f[i - 1], i>> \in D \X (1..n)
      BY <1>1
    <3>2. G[<<f[i - 1], i>>] = EnactStep(f[i - 1], i)
      BY <3>1
    <3> QED
      BY <3>2, <1>4 DEF IteratesTo
  <2> QED
    BY <2>1, <1>4 DEF IteratesTo
<1>6. Solves(h)
  BY <1>5, Zenon
<1>7. ForceEnact(c, n) = h[n]
  BY DEF ForceEnact, EnactStep
<1> HIDE DEF h
<1>8. h[0] = c /\ \A i \in 1..n : h[i] = EnactStep(h[i - 1], i)
  BY <1>1, <1>6
<1>9. h \in [0..n -> D]
  <2> DEFINE S == { k \in Nat : k <= n => h[k] \in D }
  <2>1. 0 \in S
    BY <1>8 DEF D
  <2>2. ASSUME NEW k \in Nat, k \in S PROVE k + 1 \in S
    <3> SUFFICES ASSUME k + 1 <= n PROVE h[k + 1] \in D
      OBVIOUS
    <3>1. h[k] \in D /\ k + 1 \in 1..n
      BY <1>1, <2>2
    <3>2. h[k + 1] = EnactStep(h[k], k + 1)
      BY <1>8, <3>1
    <3> QED
      BY <3>1, <3>2, <1>2
  <2>3. \A k \in Nat : k \in S
    <3> HIDE DEF S
    <3> QED
      BY <2>1, <2>2, SetInduction
  <2> QED
    BY <2>3, <1>6
<1> QED
  BY <1>7, <1>8, <1>9 DEF D

\* What the relay chain d is after k collations were enacted on c.
EnactedFirst(c, d, k) ==
  /\ Len(d.canon) = Len(c.canon)
  /\ \A j \in 1..Len(c.canon) - 1 : d.canon[j] = c.canon[j]
  /\ Latest(d).parent = Latest(c).parent
  /\ c.fresh <= d.fresh
  /\ \A i \in 1..k : Heads(d)[collations[i].id] = collations[i].head
  /\ Latest(d).root.pending \subseteq Latest(c).root.pending
  /\ \A i \in 1..k : collations[i].id \notin Latest(d).root.pending

\* force_enact_collations mutates the latest block and nothing else, and puts
\* the head of every collation into it.
LEMMA ForceEnactEffect ==
  ASSUME collations \in Seq(Collations), CollationsSound,
         NEW c \in Intact(RelayRoots), NEW n \in 0..Len(collations)
  PROVE  ForceEnact(c, n) \in Intact(RelayRoots) /\ EnactedFirst(c, ForceEnact(c, n), n)
<1>1. PICK f \in [0..n -> Intact(RelayRoots)] :
           /\ f[0] = c
           /\ \A i \in 1..n : f[i] = EnactStep(f[i - 1], i)
           /\ ForceEnact(c, n) = f[n]
  BY ForceEnactSteps
<1> DEFINE S == { k \in Nat : k <= n => EnactedFirst(c, f[k], k) }
<1>2. 0 \in S
  <2>1. c.fresh \in Nat
    BY IntactFacts
  <2> QED
    BY <1>1, <2>1 DEF EnactedFirst
<1>3. ASSUME NEW k \in Nat, k \in S PROVE k + 1 \in S
  <2> SUFFICES ASSUME k + 1 <= n PROVE EnactedFirst(c, f[k + 1], k + 1)
    OBVIOUS
  <2> DEFINE d == f[k]
             e == f[k + 1]
             new == collations[k + 1]
  <2>1. k + 1 \in 1..n /\ k \in 0..n /\ k + 1 \in 1..Len(collations) /\ (k + 1) - 1 = k
    OBVIOUS
  <2>2. d \in Intact(RelayRoots) /\ e = EnactStep(d, k + 1) /\ EnactedFirst(c, d, k)
    BY <1>1, <1>3, <2>1
  <2> HIDE DEF d, e
  <2>3. /\ e \in Intact(RelayRoots)
        /\ Len(e.canon) = Len(d.canon)
        /\ \A j \in 1..Len(d.canon) - 1 : e.canon[j] = d.canon[j]
        /\ Latest(e).parent = Latest(d).parent
        /\ d.fresh <= e.fresh
        /\ Heads(e)[new.id] = new.head
        /\ \A p \in Paras : p # new.id => Heads(e)[p] = Heads(d)[p]
        /\ Latest(e).root.pending = Latest(d).root.pending \ {new.id}
    <3>1. LET x == EnactStep(d, k + 1)
          IN  /\ x \in Intact(RelayRoots)
              /\ Len(x.canon) = Len(d.canon)
              /\ \A j \in 1..Len(d.canon) - 1 : x.canon[j] = d.canon[j]
              /\ Latest(x).parent = Latest(d).parent
              /\ d.fresh <= x.fresh
              /\ Heads(x)[collations[k + 1].id] = collations[k + 1].head
              /\ \A p \in Paras : p # collations[k + 1].id => Heads(x)[p] = Heads(d)[p]
              /\ Latest(x).root.pending = Latest(d).root.pending \ {collations[k + 1].id}
      BY <2>1, <2>2, EnactStepEffect
    <3> QED
      BY <2>2, <3>1
  <2>4. \A i \in 1..k : collations[i].id \in Paras /\ collations[i].id # new.id
    <3>1. \A i \in 1..k : i \in 1..Len(collations) /\ i # k + 1
      BY <2>1
    <3>2. \A i \in 1..Len(collations) : collations[i].id \in Paras
      BY DEF Collations
    <3> QED
      BY <2>1, <3>1, <3>2 DEF CollationsSound
  <2>5. c.fresh \in Nat /\ d.fresh \in Nat /\ e.fresh \in Nat
    BY <2>2, <2>3, IntactFacts
  <2>6. \A i \in 1..k + 1 : i \in 1..k \/ i = k + 1
    OBVIOUS
  <2>7. /\ Len(e.canon) = Len(c.canon)
        /\ \A j \in 1..Len(c.canon) - 1 : e.canon[j] = c.canon[j]
        /\ Latest(e).parent = Latest(c).parent
        /\ c.fresh <= e.fresh
    BY <2>2, <2>3, <2>5 DEF EnactedFirst
  <2>8. \A i \in 1..k + 1 : Heads(e)[collations[i].id] = collations[i].head
    BY <2>2, <2>3, <2>4, <2>6 DEF EnactedFirst
  <2>9. /\ Latest(e).root.pending \subseteq Latest(c).root.pending
        /\ \A i \in 1..k + 1 : collations[i].id \notin Latest(e).root.pending
    BY <2>2, <2>3, <2>6 DEF EnactedFirst
  <2> QED
    BY <2>7, <2>8, <2>9 DEF EnactedFirst, e
<1>4. n \in S
  <2> HIDE DEF S
  <2>1. \A k \in Nat : k \in S
    BY <1>2, <1>3, SetInduction
  <2>2. n \in Nat
    OBVIOUS
  <2> QED
    BY <2>1, <2>2
<1> QED
  BY <1>1, <1>4

-----------------------------------------------------------------------------
\* collect_collations.

\* One onboarded parachain is asked for its collation.
CollectStep(s, i, pending) ==
  LET p == parachains[i]
      known == { s[j].id : j \in 1..Len(s) }
  IN  IF pending[p] = None \/ p \in known THEN s
      ELSE Append(s, [id |-> p, head |-> pending[p].block])

\* Asking one parachain yields collations.
LEMMA CollectStepType ==
  ASSUME parachains \in Seq(Paras), NEW pending \in [Paras -> Builds \cup {None}],
         NEW s \in Seq(Collations), NEW i \in 1..Len(parachains)
  PROVE  CollectStep(s, i, pending) \in Seq(Collations)
<1> DEFINE p == parachains[i]
<1>1. p \in Paras
  OBVIOUS
<1>2. CASE pending[p] # None
  <2>1. pending[p].block \in ParaBlocks
    BY <1>1, <1>2 DEF Builds
  <2>2. [id |-> p, head |-> pending[p].block] \in Collations
    BY <1>1, <2>1 DEF Collations
  <2> QED
    BY <2>2 DEF CollectStep
<1> QED
  BY <1>2 DEF CollectStep

\* collect_collations is the iteration of that.
LEMMA CollectSteps ==
  ASSUME parachains \in Seq(Paras), NEW pending \in [Paras -> Builds \cup {None}],
         NEW n \in 0..Len(parachains)
  PROVE  \E f \in [0..n -> Seq(Collations)] :
           /\ f[0] = << >>
           /\ \A i \in 1..n : f[i] = CollectStep(f[i - 1], i, pending)
           /\ CollectFirst(n, pending) = f[n]
<1> DEFINE D == Seq(Collations)
           G == [x \in D \X (1..n) |-> CollectStep(x[1], x[2], pending)]
           Solves(f) == f = [i \in 0..n |-> IF i = 0 THEN << >>
                                            ELSE CollectStep(f[i - 1], i, pending)]
           h == CHOOSE f : Solves(f)
<1>1. n \in Nat /\ \A i \in 1..n : i \in 1..Len(parachains)
  OBVIOUS
<1>2. << >> \in D /\ \A s \in D, i \in 1..n : CollectStep(s, i, pending) \in D
  BY <1>1, CollectStepType
<1> HIDE DEF D
<1>3. G \in [D \X (1..n) -> D]
  BY <1>2
<1>4. PICK f \in [0..n -> D] : IteratesTo(f, << >>, n, G)
  <2> HIDE DEF G
  <2> QED
    BY <1>1, <1>2, <1>3, Iterates
<1>5. Solves(f)
  <2>1. ASSUME NEW i \in 1..n PROVE f[i] = CollectStep(f[i - 1], i, pending)
    <3>1. <<f[i - 1], i>> \in D \X (1..n)
      BY <1>1
    <3>2. G[<<f[i - 1], i>>] = CollectStep(f[i - 1], i, pending)
      BY <3>1
    <3> QED
      BY <3>2, <1>4 DEF IteratesTo
  <2> QED
    BY <2>1, <1>4 DEF IteratesTo
<1>6. Solves(h)
  BY <1>5, Zenon
<1>7. CollectFirst(n, pending) = h[n]
  BY DEF CollectFirst, CollectStep
<1> HIDE DEF h
<1>8. h[0] = << >> /\ \A i \in 1..n : h[i] = CollectStep(h[i - 1], i, pending)
  BY <1>1, <1>6
<1>9. h \in [0..n -> D]
  <2> DEFINE S == { k \in Nat : k <= n => h[k] \in D }
  <2>1. 0 \in S
    BY <1>2, <1>8
  <2>2. ASSUME NEW k \in Nat, k \in S PROVE k + 1 \in S
    <3> SUFFICES ASSUME k + 1 <= n PROVE h[k + 1] \in D
      OBVIOUS
    <3>1. h[k] \in D /\ k + 1 \in 1..n
      BY <1>1, <2>2
    <3>2. h[k + 1] = CollectStep(h[k], k + 1, pending)
      BY <1>8, <3>1
    <3> QED
      BY <3>1, <3>2, <1>2
  <2>3. \A k \in Nat : k \in S
    <3> HIDE DEF S
    <3> QED
      BY <2>1, <2>2, SetInduction
  <2> QED
    BY <2>3, <1>6
<1> QED
  BY <1>7, <1>8, <1>9 DEF D

\* Collations of the first k onboarded parachains: each is of a block that is
\* pending there, and no parachain has two.
CollectedFrom(s, k, pending) ==
  /\ \A i \in 1..Len(s) : \E j \in 1..k : parachains[j] = s[i].id
  /\ \A i \in 1..Len(s) : pending[s[i].id] # None
  /\ \A i \in 1..Len(s) : \A j \in 1..Len(s) : s[i].id = s[j].id => i = j

\* collect_collations skips a parachain that it has a collation of.
LEMMA CollectEffect ==
  ASSUME parachains \in Seq(Paras), NEW pending \in [Paras -> Builds \cup {None}],
         NEW n \in 0..Len(parachains)
  PROVE  /\ CollectFirst(n, pending) \in Seq(Collations)
         /\ CollectedFrom(CollectFirst(n, pending), n, pending)
<1>1. PICK f \in [0..n -> Seq(Collations)] :
           /\ f[0] = << >>
           /\ \A i \in 1..n : f[i] = CollectStep(f[i - 1], i, pending)
           /\ CollectFirst(n, pending) = f[n]
  BY CollectSteps
<1> DEFINE S == { k \in Nat : k <= n => CollectedFrom(f[k], k, pending) }
<1>2. 0 \in S
  <2>1. Len(f[0]) = 0
    BY <1>1
  <2> QED
    BY <2>1 DEF CollectedFrom
<1>3. ASSUME NEW k \in Nat, k \in S PROVE k + 1 \in S
  <2> SUFFICES ASSUME k + 1 <= n PROVE CollectedFrom(f[k + 1], k + 1, pending)
    OBVIOUS
  <2> DEFINE s == f[k]
             p == parachains[k + 1]
             new == [id |-> p, head |-> pending[p].block]
             m == Len(s)
  <2>1. k + 1 \in 1..n /\ k \in 0..n /\ (k + 1) - 1 = k
    OBVIOUS
  <2>2. s \in Seq(Collations) /\ CollectedFrom(s, k, pending) /\ m \in Nat
    BY <1>3, <2>1
  <2>3. f[k + 1] = CollectStep(s, k + 1, pending)
    BY <1>1, <2>1
  <2>4. \A j \in 1..k : j \in 1..k + 1
    OBVIOUS
  <2> HIDE DEF s
  <2>5. CASE f[k + 1] = s
    BY <2>2, <2>4, <2>5 DEF CollectedFrom
  <2>6. CASE f[k + 1] # s
    <3>1. /\ f[k + 1] = Append(s, new)
          /\ pending[p] # None
          /\ \A j \in 1..m : s[j].id # p
      BY <2>3, <2>6 DEF CollectStep
    <3>2. /\ Len(Append(s, new)) = m + 1
          /\ Append(s, new)[m + 1] = new
          /\ \A i \in 1..m : Append(s, new)[i] = s[i]
      BY <2>2
    <3>3. new.id = p /\ k + 1 \in 1..k + 1
      OBVIOUS
    <3>4. \A i \in 1..m + 1 : i \in 1..m \/ i = m + 1
      BY <2>2
    <3> DEFINE t == Append(s, new)
    <3> HIDE DEF t, m, new, p
    <3>5. /\ Len(t) = m + 1 /\ t[m + 1].id = p
          /\ \A i \in 1..m : t[i].id = s[i].id
      BY <3>2, <3>3 DEF t
    <3>6. \A i \in 1..m + 1 : \E j \in 1..k + 1 : parachains[j] = t[i].id
      BY <2>2, <2>4, <3>3, <3>4, <3>5 DEF CollectedFrom, m, p
    <3>7. ASSUME NEW i \in 1..m + 1 PROVE pending[t[i].id] # None
      <4>1. CASE i \in 1..m
        BY <2>2, <3>5, <4>1 DEF CollectedFrom, m
      <4>2. CASE i = m + 1
        BY <3>1, <3>5, <4>2
      <4> QED
        BY <3>4, <4>1, <4>2
    <3>8. ASSUME NEW i \in 1..m + 1, NEW j \in 1..m + 1, t[i].id = t[j].id
          PROVE  i = j
      <4>1. CASE i \in 1..m /\ j \in 1..m
        BY <2>2, <3>5, <3>8, <4>1 DEF CollectedFrom, m
      <4>2. CASE i = m + 1 \/ j = m + 1
        BY <3>1, <3>4, <3>5, <3>8, <4>2
      <4> QED
        BY <3>4, <4>1, <4>2
    <3> QED
      BY <3>1, <3>5, <3>6, <3>7, <3>8 DEF CollectedFrom, t
  <2> QED
    BY <2>5, <2>6
<1>4. n \in S
  <2> HIDE DEF S
  <2>1. \A k \in Nat : k \in S
    BY <1>2, <1>3, SetInduction
  <2>2. n \in Nat
    OBVIOUS
  <2> QED
    BY <2>1, <2>2
<1> QED
  BY <1>1, <1>4

-----------------------------------------------------------------------------
(***************************************************************************)
(* The inductive invariant.  ChainsIntact needs that what waits at a       *)
(* parachain, pending or approved, was never canonical: a caller may       *)
(* mutate the parachain, or lose its latest block, while blocks wait, and  *)
(* import_block only looks at the parent.  PendingNotCanonical needs the   *)
(* same of executions.  Both need that hashes and executions are below the *)
(* next unused hash, and that the pending and the approved block differ.   *)
(***************************************************************************)
\* A pending relay block was built on the latest storage, and nothing changes
\* the relay chain while it is pending.
RelaySound(c, b) ==
  /\ c \in Intact(RelayRoots)
  /\ b \in BlocksOf(RelayRoots) \cup {None}
  /\ b # None => /\ b.parent = Latest(c).hash
                 /\ b.hash < c.fresh
                 /\ b.hash \notin CanonHashes(c)
                 /\ b.root = Latest(c).root

\* A block that waits at a parachain was never canonical there.
Waiting(c, build) ==
  /\ build.block.hash < c.fresh
  /\ build.block.root.of < c.fresh
  /\ build.block.hash \notin CanonHashes(c)

\* A parachain's chain, its pending block and its block of an approval that
\* has not been imported yet: the blocks aside are whole and not in the chain.
ParaSound(c, pending, approved) ==
  /\ c \in Intact(ParaRoots)
  /\ pending \in Builds \cup {None}
  /\ approved \in Builds \cup {None}
  /\ \A i \in 1..Len(c.canon) : c.canon[i].root.of < c.fresh
  /\ pending # None =>
       /\ Waiting(c, pending)
       /\ \A i \in 1..Len(c.canon) : c.canon[i].root.of # pending.block.root.of
  /\ approved # None => Waiting(c, approved)
  /\ pending # None /\ approved # None =>
       /\ pending.block.hash # approved.block.hash
       /\ pending.block.root.of # approved.block.root.of

\* The inductive invariant that holds under every fault.
Inv ==
  /\ TypeOK
  /\ RelaySound(relay, relayNext)
  /\ CollationsSound
  /\ \A p \in Paras : ParaSound(para[p], nextBlock[p], nextImport[p])

\* The invariants that the runs check follow.
LEMMA InvImplies == Inv => ChainsIntact /\ CollationsSound /\ PendingNotCanonical
<1> SUFFICES ASSUME Inv PROVE ChainsIntact /\ CollationsSound /\ PendingNotCanonical
  OBVIOUS
<1>1. relay \in Intact(RelayRoots) /\ \A p \in Paras : para[p] \in Intact(ParaRoots)
  BY DEF Inv, RelaySound, ParaSound
<1>2. /\ Linked(relay) /\ BestIsFinal(relay)
      /\ \A p \in Paras : Linked(para[p]) /\ BestIsFinal(para[p])
  BY <1>1 DEF Intact
<1>3. ChainsIntact
  BY <1>2 DEF Inv, RelaySound, ChainsIntact
<1>4. PendingNotCanonical
  BY DEF Inv, ParaSound, PendingNotCanonical
<1> QED
  BY <1>3, <1>4 DEF Inv

-----------------------------------------------------------------------------
\* What the calls do to a parachain.

\* Executions on a parachain are natural numbers.
LEMMA ExecType ==
  ASSUME NEW c \in Intact(ParaRoots), NEW i \in 1..Len(c.canon)
  PROVE  c.canon[i].root.of \in Nat
<1>1. c.canon[i] \in BlocksOf(ParaRoots)
  BY IntactFacts
<1> QED
  BY <1>1 DEF BlocksOf, ParaRoots

\* A block that waits is a block, with its numbers.
LEMMA BuildType ==
  ASSUME NEW build \in Builds
  PROVE  /\ build.block \in BlocksOf(ParaRoots)
         /\ build.block.hash \in Nat
         /\ build.block.root.of \in Nat
         /\ build # None
BY NoneAssumption DEF Builds, ParaBlocks, BlocksOf, ParaRoots

\* The new block of build_block is new, and nothing canonical changes.
LEMMA BuildSound ==
  ASSUME NEW c, NEW pending, NEW approved, ParaSound(c, pending, approved), NEW at \in Nat
  PROVE  LET b == Propose(c, [of |-> c.fresh, at |-> at, writes |-> Latest(c).root.writes])
             d == ImportSide(Proposed(c), b)
             build == [block |-> b, proof |-> Latest(c).root]
         IN  /\ ParaSound(d, build, approved)
             /\ d \in ChainsOf(ParaRoots)
             /\ build \in Builds
<1> DEFINE root == [of |-> c.fresh, at |-> at, writes |-> Latest(c).root.writes]
           b == Propose(c, root)
           d == ImportSide(Proposed(c), b)
           build == [block |-> b, proof |-> Latest(c).root]
<1>1. /\ c \in Intact(ParaRoots) /\ c \in ChainsOf(ParaRoots)
      /\ c.fresh \in Nat /\ Latest(c) \in BlocksOf(ParaRoots)
      /\ Latest(c).root \in ParaRoots
      /\ \A h \in CanonHashes(c) : h \in Nat /\ h < c.fresh
  BY IntactFacts DEF ParaSound
<1>2. root \in ParaRoots
  BY <1>1 DEF ParaRoots
<1>3. b \in BlocksOf(ParaRoots) /\ b.hash = c.fresh /\ b.root = root /\ root.of = c.fresh
  BY <1>1, <1>2 DEF Propose, BlocksOf
<1> HIDE DEF root, b
<1>4. /\ d.canon = c.canon /\ d.fin = c.fin /\ d.fresh = c.fresh + 1
      /\ d.side = c.side \cup {b}
      /\ d \in ChainsOf(ParaRoots)
  BY <1>1, <1>3 DEF ImportSide, Proposed, ChainsOf
<1>5. build \in Builds /\ build.block = b
  BY <1>1, <1>3 DEF Builds, ParaBlocks
<1> HIDE DEF d, build
<1>6. d \in Intact(ParaRoots) /\ CanonHashes(d) = CanonHashes(c)
  BY <1>1, <1>4, SameCanonIntact
<1>7. ASSUME NEW i \in 1..Len(c.canon)
      PROVE  c.canon[i].root.of < d.fresh /\ c.canon[i].root.of # b.root.of
  <2>1. c.canon[i].root.of \in Nat /\ c.canon[i].root.of < c.fresh
    BY <1>1, ExecType DEF ParaSound
  <2> QED
    BY <2>1, <1>1, <1>3, <1>4
<1>8. Waiting(d, build)
  BY <1>1, <1>3, <1>4, <1>5, <1>6 DEF Waiting
<1>9. ASSUME approved # None
      PROVE  /\ Waiting(d, approved)
             /\ build.block.hash # approved.block.hash
             /\ build.block.root.of # approved.block.root.of
  <2>1. /\ approved \in Builds /\ Waiting(c, approved)
    BY <1>9 DEF ParaSound
  <2>2. approved.block.hash \in Nat /\ approved.block.root.of \in Nat
    BY <2>1, BuildType
  <2> QED
    BY <2>1, <2>2, <1>1, <1>3, <1>4, <1>5, <1>6 DEF Waiting
<1>10. ParaSound(d, build, approved)
  <2>1. approved \in Builds \cup {None}
    BY DEF ParaSound
  <2> QED
    BY <2>1, <1>4, <1>5, <1>6, <1>7, <1>8, <1>9 DEF ParaSound
<1> QED
  BY <1>4, <1>5, <1>10 DEF d, build, b, root

\* A commit that keeps the execution of the latest block.
LEMMA CommitSound ==
  ASSUME NEW c, NEW pending, NEW approved, ParaSound(c, pending, approved),
         NEW root \in ParaRoots, root.of = Latest(c).root.of
  PROVE  /\ ParaSound(WithStateCommit(c, root), pending, approved)
         /\ WithStateCommit(c, root) \in ChainsOf(ParaRoots)
<1> DEFINE d == WithStateCommit(c, root)
           n == Len(c.canon)
<1>1. /\ c \in Intact(ParaRoots) /\ c.fresh \in Nat /\ n \in Nat \ {0}
      /\ Latest(c) = c.canon[n]
  BY IntactFacts DEF ParaSound
<1>2. /\ d \in Intact(ParaRoots)
      /\ Len(d.canon) = n
      /\ \A i \in 1..n - 1 : d.canon[i] = c.canon[i]
      /\ Latest(d).root = root
      /\ c.fresh <= d.fresh
      /\ CanonHashes(d) \subseteq CanonHashes(c) \cup {c.fresh}
  BY <1>1, CommitIntact
<1> HIDE DEF d
<1>3. d.fresh \in Nat /\ d \in ChainsOf(ParaRoots) /\ Latest(d) = d.canon[n]
  BY <1>2, IntactFacts
<1>4. ASSUME NEW i \in 1..n PROVE d.canon[i].root.of = c.canon[i].root.of
  <2>1. CASE i = n
    BY <2>1, <1>1, <1>2, <1>3
  <2>2. CASE i # n
    <3>1. i \in 1..n - 1
      BY <2>2, <1>1
    <3> QED
      BY <3>1, <1>2
  <2> QED
    BY <2>1, <2>2
<1>5. \A i \in 1..n : d.canon[i].root.of < d.fresh
  <2>1. \A i \in 1..n : c.canon[i].root.of \in Nat /\ c.canon[i].root.of < c.fresh
    BY <1>1, ExecType DEF ParaSound
  <2> QED
    BY <2>1, <1>1, <1>2, <1>3, <1>4
<1>6. ASSUME NEW build \in Builds, Waiting(c, build) PROVE Waiting(d, build)
  <2>1. build.block.hash \in Nat /\ build.block.root.of \in Nat
    BY BuildType
  <2> QED
    BY <2>1, <1>1, <1>2, <1>3, <1>6 DEF Waiting
<1>7. ParaSound(d, pending, approved)
  BY <1>2, <1>4, <1>5, <1>6 DEF ParaSound
<1> QED
  BY <1>3, <1>7 DEF d

\* A commit that fails takes at most the latest block away.
LEMMA CommitErrSound ==
  ASSUME NEW c, NEW pending, NEW approved, ParaSound(c, pending, approved)
  PROVE  /\ ParaSound(WithStateCommitErr(c), pending, approved)
         /\ WithStateCommitErr(c) \in ChainsOf(ParaRoots)
<1> DEFINE d == WithStateCommitErr(c)
<1>1. c \in Intact(ParaRoots)
  BY DEF ParaSound
<1>2. /\ d \in Intact(ParaRoots)
      /\ \A i \in 1..Len(d.canon) : i \in 1..Len(c.canon) /\ d.canon[i] = c.canon[i]
      /\ d.fresh = c.fresh
      /\ CanonHashes(d) \subseteq CanonHashes(c)
  BY <1>1, CommitErrIntact
<1> HIDE DEF d
<1>3. \A i \in 1..Len(d.canon) : d.canon[i].root.of < d.fresh
  BY <1>2 DEF ParaSound
<1>4. \A build : Waiting(c, build) => Waiting(d, build)
  BY <1>2 DEF Waiting
<1>5. pending # None => \A i \in 1..Len(d.canon) : d.canon[i].root.of # pending.block.root.of
  BY <1>2 DEF ParaSound
<1>6. ParaSound(d, pending, approved)
  BY <1>2, <1>3, <1>4, <1>5 DEF ParaSound
<1> QED
  BY <1>2, <1>6, IntactFacts DEF d

\* The approved block is imported, or found to have an unknown parent.
LEMMA ImportSound ==
  ASSUME NEW c, NEW pending, NEW approved, ParaSound(c, pending, approved), approved # None
  PROVE  /\ ParaSound(ImportFinal(c, approved.block), pending, None)
         /\ ImportFinal(c, approved.block) \in ChainsOf(ParaRoots)
<1> DEFINE b == approved.block
           d == ImportFinal(c, b)
           n == Len(c.canon)
<1>1. /\ c \in Intact(ParaRoots) /\ approved \in Builds /\ Waiting(c, approved)
      /\ c.fresh \in Nat /\ n \in Nat \ {0}
  BY IntactFacts DEF ParaSound
<1>2. b \in BlocksOf(ParaRoots)
  BY <1>1, BuildType
<1>3. CASE b.parent # Latest(c).hash
  <2>1. d = c
    BY <1>3, NoImport
  <2>2. c \in ChainsOf(ParaRoots)
    BY <1>1, IntactFacts
  <2> QED
    BY <2>1, <2>2 DEF ParaSound
<1>4. CASE b.parent = Latest(c).hash
  <2>1. /\ d \in Intact(ParaRoots)
        /\ Len(d.canon) = n + 1
        /\ \A i \in 1..n : d.canon[i] = c.canon[i]
        /\ d.canon[n + 1] = b
        /\ d.fresh = c.fresh
        /\ CanonHashes(d) = CanonHashes(c) \cup {b.hash}
    BY <1>1, <1>2, <1>4, ImportIntact DEF Waiting
  <2> HIDE DEF d
  <2>2. \A i \in 1..n + 1 : i \in 1..n \/ i = n + 1
    BY <1>1
  <2>3. \A i \in 1..Len(d.canon) : d.canon[i].root.of < d.fresh
    BY <1>1, <2>1, <2>2 DEF ParaSound, Waiting
  <2>4. ASSUME pending # None
        PROVE  /\ Waiting(d, pending)
               /\ \A i \in 1..Len(d.canon) : d.canon[i].root.of # pending.block.root.of
    <3>1. /\ Waiting(c, pending)
          /\ \A i \in 1..n : c.canon[i].root.of # pending.block.root.of
          /\ pending.block.hash # b.hash
          /\ pending.block.root.of # b.root.of
      BY <2>4 DEF ParaSound
    <3>2. \A i \in 1..Len(d.canon) : d.canon[i].root.of # pending.block.root.of
      BY <3>1, <2>1, <2>2
    <3>3. Waiting(d, pending)
      BY <3>1, <2>1 DEF Waiting
    <3> QED
      BY <3>2, <3>3
  <2>5. ParaSound(d, pending, None)
    BY <2>1, <2>3, <2>4 DEF ParaSound
  <2> QED
    BY <2>1, <2>5, IntactFacts DEF d
<1> QED
  BY <1>3, <1>4

\* approve moves the pending block on, reject forgets it.
LEMMA JudgeSound ==
  ASSUME NEW c, NEW pending, NEW approved, ParaSound(c, pending, approved)
  PROVE  ParaSound(c, None, pending) /\ ParaSound(c, None, approved)
BY DEF ParaSound

-----------------------------------------------------------------------------
\* Initially nothing waits anywhere.
LEMMA InitInv == Init => Inv
<1> SUFFICES ASSUME Init PROVE Inv
  OBVIOUS
<1> DEFINE r == [ heads |-> [p \in Paras |-> None],
                  registered |-> {}, pending |-> {}, writes |-> {} ]
           g == [of |-> 1, at |-> 0, writes |-> {}]
<1>1. r \in RelayRoots
  BY DEF RelayRoots
<1>2. g \in ParaRoots /\ g.of = 1
  BY DEF ParaRoots
<1>3. relay = NewChain(r) /\ \A p \in Paras : para[p] = NewChain(g)
  BY DEF Init
<1> HIDE DEF r, g
<1>4. relay \in Intact(RelayRoots)
  BY <1>1, <1>3, NewChainIntact
<1>5. ASSUME NEW p \in Paras
      PROVE  /\ para[p] \in Intact(ParaRoots)
             /\ \A i \in 1..Len(para[p].canon) : para[p].canon[i].root.of < para[p].fresh
  <2>1. /\ para[p] \in Intact(ParaRoots) /\ Len(para[p].canon) = 1
        /\ para[p].canon[1].root = g /\ para[p].fresh = 2
    BY <1>2, <1>3, NewChainIntact
  <2> QED
    BY <2>1, <1>2
<1>6. TypeOK
  <2>1. relay \in ChainsOf(RelayRoots) /\ \A p \in Paras : para[p] \in ChainsOf(ParaRoots)
    BY <1>4, <1>5, IntactFacts
  <2>2. para \in [Paras -> ChainsOf(ParaRoots)]
    BY <2>1 DEF Init
  <2> QED
    BY <2>1, <2>2 DEF Init, TypeOK
<1>7. RelaySound(relay, relayNext)
  BY <1>4 DEF Init, RelaySound
<1>8. \A p \in Paras : ParaSound(para[p], nextBlock[p], nextImport[p])
  BY <1>5 DEF Init, ParaSound
<1>9. CollationsSound
  BY DEF Init, CollationsSound
<1> QED
  BY <1>6, <1>7, <1>8, <1>9 DEF Inv

\* The relay state after a step that only mutates the latest relay block.
LEMMA RelayCommitInv ==
  ASSUME Inv, relayNext = None, NEW root \in RelayRoots,
         relay' = WithStateCommit(relay, root),
         parachains' \in Seq(Paras),
         \A j \in 1..Len(parachains) : j \in 1..Len(parachains') /\ parachains'[j] = parachains[j],
         UNCHANGED <<relayNext, relayImports, collations, paraVars>>
  PROVE  Inv'
<1>1. relay \in Intact(RelayRoots)
  BY DEF Inv, RelaySound
<1>2. relay' \in Intact(RelayRoots)
  BY <1>1, CommitIntact
<1>3. relay' \in ChainsOf(RelayRoots)
  BY <1>2, IntactFacts
<1>4. TypeOK'
  BY <1>3 DEF Inv, TypeOK, paraVars
<1>5. RelaySound(relay', relayNext')
  BY <1>2 DEF RelaySound
<1>6. CollationsSound'
  BY DEF Inv, CollationsSound
<1>7. \A p \in Paras : ParaSound(para'[p], nextBlock'[p], nextImport'[p])
  BY DEF Inv, paraVars
<1> QED
  BY <1>4, <1>5, <1>6, <1>7 DEF Inv, RelaySound, ParaSound, Waiting

\* The storage that the closures of relay_chain.rs write is relay storage.
LEMMA RelayWrites ==
  ASSUME Inv
  PROVE  /\ Latest(relay).root \in RelayRoots
         /\ \A p \in Paras : SetHead(Latest(relay).root, p, Latest(para[p])) \in RelayRoots
         /\ \A w \in Writes : [Latest(relay).root EXCEPT !.writes = @ \cup {w}] \in RelayRoots
         /\ \A p \in Paras :
              [SetHead(Latest(relay).root, p, Latest(para[p])) EXCEPT
                 !.registered = @ \cup {p}] \in RelayRoots
         /\ \A collation \in Collations : Injected(Latest(relay).root, collation) \in RelayRoots
<1>1. Latest(relay).root \in RelayRoots
  BY IntactFacts DEF Inv, RelaySound
<1>2. \A p \in Paras : Latest(para[p]) \in ParaBlocks
  BY IntactFacts DEF Inv, ParaSound, ParaBlocks
<1>3. ASSUME NEW p \in Paras
      PROVE  SetHead(Latest(relay).root, p, Latest(para[p])) \in RelayRoots
  BY <1>1, <1>2 DEF SetHead, RelayRoots
<1> DEFINE set(p) == SetHead(Latest(relay).root, p, Latest(para[p]))
<1>4. ASSUME NEW p \in Paras
      PROVE  [set(p) EXCEPT !.registered = @ \cup {p}] \in RelayRoots
  <2>1. set(p) \in RelayRoots
    BY <1>3
  <2> HIDE DEF set
  <2> QED
    BY <2>1 DEF RelayRoots
<1>5. ASSUME NEW w \in Writes
      PROVE  [Latest(relay).root EXCEPT !.writes = @ \cup {w}] \in RelayRoots
  BY <1>1 DEF RelayRoots
<1>6. ASSUME NEW collation \in Collations
      PROVE  Injected(Latest(relay).root, collation) \in RelayRoots
  BY <1>1 DEF Injected, RelayRoots, Collations
<1> QED
  BY <1>1, <1>3, <1>4, <1>5, <1>6

\* onboard_para, update_para_head and with_mut_state preserve the invariant.
LEMMA OnboardParaInv ==
  ASSUME Inv, NEW p \in Paras, OnboardPara(p)
  PROVE  Inv'
<1> DEFINE root == [SetHead(Latest(relay).root, p, Latest(para[p])) EXCEPT
                      !.registered = @ \cup {p}]
<1>1. root \in RelayRoots
  BY RelayWrites
<1>2. /\ relayNext = None /\ relay' = WithStateCommit(relay, root)
      /\ parachains' = Append(parachains, p)
      /\ UNCHANGED <<relayNext, relayImports, collations, paraVars>>
  BY DEF OnboardPara
<1>3. /\ parachains' \in Seq(Paras)
      /\ \A j \in 1..Len(parachains) : j \in 1..Len(parachains') /\ parachains'[j] = parachains[j]
  BY <1>2 DEF Inv, TypeOK
<1> HIDE DEF root
<1> QED
  BY <1>1, <1>2, <1>3, RelayCommitInv

\* update_para_head.
LEMMA UpdateParaHeadInv ==
  ASSUME Inv, NEW p \in Paras, UpdateParaHead(p)
  PROVE  Inv'
<1> DEFINE root == SetHead(Latest(relay).root, p, Latest(para[p]))
<1>1. root \in RelayRoots /\ parachains \in Seq(Paras)
  BY RelayWrites DEF Inv, TypeOK
<1>2. /\ relayNext = None /\ relay' = WithStateCommit(relay, root)
      /\ parachains' = parachains
      /\ UNCHANGED <<relayNext, relayImports, collations, paraVars>>
  BY DEF UpdateParaHead
<1> HIDE DEF root
<1> QED
  BY <1>1, <1>2, RelayCommitInv

\* with_mut_state on the relay chain.
LEMMA RelayWithMutStateInv ==
  ASSUME Inv, NEW w \in Writes, RelayWithMutState(w)
  PROVE  Inv'
<1> DEFINE root == [Latest(relay).root EXCEPT !.writes = @ \cup {w}]
<1>1. root \in RelayRoots /\ parachains \in Seq(Paras)
  BY RelayWrites DEF Inv, TypeOK
<1>2. /\ relayNext = None /\ relay' = WithStateCommit(relay, root)
      /\ parachains' = parachains
      /\ UNCHANGED <<relayNext, relayImports, collations, paraVars>>
  BY DEF RelayWithMutState
<1> HIDE DEF root
<1> QED
  BY <1>1, <1>2, RelayCommitInv

\* A relay commit that fails.
LEMMA RelayWithMutStateErrInv ==
  ASSUME Inv, RelayWithMutStateErr
  PROVE  Inv'
<1> USE DEF RelayWithMutStateErr
<1>1. relay' \in Intact(RelayRoots)
  BY CommitErrIntact DEF Inv, RelaySound
<1>2. relay' \in ChainsOf(RelayRoots)
  BY <1>1, IntactFacts
<1>3. TypeOK' /\ CollationsSound'
  BY <1>2 DEF Inv, TypeOK, CollationsSound, paraVars
<1>4. RelaySound(relay', relayNext')
  BY <1>1 DEF RelaySound
<1>5. \A p \in Paras : ParaSound(para'[p], nextBlock'[p], nextImport'[p])
  BY DEF Inv, paraVars
<1> QED
  BY <1>3, <1>4, <1>5 DEF Inv, RelaySound, ParaSound, Waiting

\* build_block on the relay chain: the proposal is a child of the best block.
LEMMA RelayBuildBlockInv ==
  ASSUME Inv, RelayBuildBlock
  PROVE  Inv'
<1> DEFINE b == Propose(relay, Latest(relay).root)
<1>1. relayNext' = b /\ relay' = Proposed(relay)
      /\ UNCHANGED <<relayImports, parachains, collations, paraVars>>
  BY DEF RelayBuildBlock
<1>2. /\ relay \in Intact(RelayRoots) /\ relay \in ChainsOf(RelayRoots)
      /\ relay.fresh \in Nat /\ Latest(relay) \in BlocksOf(RelayRoots)
      /\ Latest(relay).root \in RelayRoots
      /\ \A h \in CanonHashes(relay) : h \in Nat /\ h < relay.fresh
  BY IntactFacts DEF Inv, RelaySound
<1>3. /\ b \in BlocksOf(RelayRoots) /\ b.hash = relay.fresh
      /\ b.parent = Latest(relay).hash /\ b.root = Latest(relay).root
  BY <1>2 DEF Propose, BlocksOf
<1>4. /\ relay'.canon = relay.canon /\ relay'.fin = relay.fin
      /\ relay'.fresh = relay.fresh + 1 /\ relay' \in ChainsOf(RelayRoots)
  BY <1>1, <1>2 DEF Proposed, ChainsOf
<1>5. /\ relay' \in Intact(RelayRoots) /\ Latest(relay') = Latest(relay)
      /\ CanonHashes(relay') = CanonHashes(relay)
  BY <1>2, <1>4, SameCanonIntact
<1> HIDE DEF b
<1>6. RelaySound(relay', relayNext')
  BY <1>1, <1>2, <1>3, <1>4, <1>5 DEF RelaySound
<1>7. TypeOK' /\ CollationsSound'
  BY <1>1, <1>3, <1>4 DEF Inv, TypeOK, CollationsSound, paraVars
<1>8. \A p \in Paras : ParaSound(para'[p], nextBlock'[p], nextImport'[p])
  BY <1>1 DEF Inv, paraVars
<1> QED
  BY <1>6, <1>7, <1>8 DEF Inv, RelaySound, ParaSound, Waiting

-----------------------------------------------------------------------------
\* import_block on the relay chain.

\* The pending block is the new best block.
LEMMA RelayImportedEffect ==
  ASSUME Inv, RelayImported
  PROVE  LET c == ImportFinal(relay, relayNext)
         IN  /\ c \in Intact(RelayRoots)
             /\ Len(c.canon) = Len(relay.canon) + 1
             /\ \A i \in 1..Len(relay.canon) : c.canon[i] = relay.canon[i]
             /\ Latest(c) = relayNext
             /\ relayNext.root = Latest(relay).root
             /\ relayNext.parent = Latest(relay).hash
             /\ relayNext \in BlocksOf(RelayRoots)
             /\ relayNext' = None
             /\ relayImports' = Append(relayImports, relayNext)
             /\ relayImports' \in Seq(BlocksOf(RelayRoots))
<1>1. /\ relayNext # None /\ relayNext' = None
      /\ relayImports' = Append(relayImports, relayNext)
  BY DEF RelayImported
<1>2. /\ relay \in Intact(RelayRoots)
      /\ relayNext \in BlocksOf(RelayRoots)
      /\ relayNext.parent = Latest(relay).hash
      /\ relayNext.hash < relay.fresh
      /\ relayNext.hash \notin CanonHashes(relay)
      /\ relayNext.root = Latest(relay).root
  BY <1>1 DEF Inv, RelaySound
<1>3. LET c == ImportFinal(relay, relayNext)
      IN  /\ c \in Intact(RelayRoots)
          /\ Len(c.canon) = Len(relay.canon) + 1
          /\ \A i \in 1..Len(relay.canon) : c.canon[i] = relay.canon[i]
          /\ Latest(c) = relayNext
  BY <1>2, ImportIntact
<1>4. relayImports' \in Seq(BlocksOf(RelayRoots))
  BY <1>1, <1>2 DEF Inv, TypeOK
<1> QED
  BY <1>1, <1>2, <1>3, <1>4

\* Approving moves what is pending on, at some parachains.
LEMMA ApproveSound ==
  ASSUME Inv, NEW n, ApproveFirst(n), UNCHANGED <<para, paraImports>>
  PROVE  /\ nextBlock' \in [Paras -> Builds \cup {None}]
         /\ nextImport' \in [Paras -> Builds \cup {None}]
         /\ \A p \in Paras : ParaSound(para'[p], nextBlock'[p], nextImport'[p])
<1> DEFINE ids == { collations[i].id : i \in 1..n }
<1>1. /\ nextBlock' = [p \in Paras |-> IF p \in ids THEN None ELSE nextBlock[p]]
      /\ nextImport' = [p \in Paras |-> IF p \in ids THEN nextBlock[p] ELSE nextImport[p]]
  BY DEF ApproveFirst
<1> HIDE DEF ids
<1>2. /\ nextBlock' \in [Paras -> Builds \cup {None}]
      /\ nextImport' \in [Paras -> Builds \cup {None}]
  BY <1>1 DEF Inv, TypeOK
<1>3. ASSUME NEW p \in Paras
      PROVE  ParaSound(para[p], nextBlock'[p], nextImport'[p])
  <2>1. ParaSound(para[p], nextBlock[p], nextImport[p])
    BY DEF Inv
  <2>2. CASE p \in ids
    <3>1. nextBlock'[p] = None /\ nextImport'[p] = nextBlock[p]
      BY <1>1, <2>2
    <3> QED
      BY <2>1, <3>1, JudgeSound
  <2>3. CASE p \notin ids
    <3>1. nextBlock'[p] = nextBlock[p] /\ nextImport'[p] = nextImport[p]
      BY <1>1, <2>3
    <3> QED
      BY <2>1, <3>1
  <2> QED
    BY <2>2, <2>3
<1> QED
  BY <1>2, <1>3

\* What is left to show for any outcome of import_block after the import.
LEMMA RelayImportInv ==
  ASSUME Inv, RelayImported, relay' \in Intact(RelayRoots),
         collations' \in Seq(Collations), CollationsSound',
         NEW n, ApproveFirst(n), UNCHANGED <<parachains, para, paraImports>>
  PROVE  Inv'
<1>1. /\ relayNext' = None /\ relayImports' \in Seq(BlocksOf(RelayRoots))
      /\ relay' \in ChainsOf(RelayRoots)
  BY RelayImportedEffect, IntactFacts
<1>2. /\ nextBlock' \in [Paras -> Builds \cup {None}]
      /\ nextImport' \in [Paras -> Builds \cup {None}]
      /\ \A p \in Paras : ParaSound(para'[p], nextBlock'[p], nextImport'[p])
  BY ApproveSound
<1>3. TypeOK'
  BY <1>1, <1>2 DEF Inv, TypeOK
<1>4. RelaySound(relay', relayNext')
  BY <1>1 DEF RelaySound
<1> QED
  BY <1>2, <1>3, <1>4 DEF Inv, RelaySound, ParaSound, Waiting

\* The collations collected for the next block are sound.
LEMMA CollectSound ==
  ASSUME Inv, NEW n \in 0..Len(parachains), NEW pending \in [Paras -> Builds \cup {None}],
         parachains' = parachains, collations' = CollectFirst(n, pending)
  PROVE  /\ collations' \in Seq(Collations)
         /\ CollationsSound'
         /\ \A i \in 1..Len(collations') : pending[collations'[i].id] # None
<1>1. parachains \in Seq(Paras)
  BY DEF Inv, TypeOK
<1>2. collations' \in Seq(Collations) /\ CollectedFrom(collations', n, pending)
  BY <1>1, CollectEffect
<1>3. \A j \in 1..n : j \in 1..Len(parachains)
  BY <1>1
<1>4. CollationsSound'
  BY <1>2, <1>3 DEF CollectedFrom, CollationsSound
<1> QED
  BY <1>2, <1>4 DEF CollectedFrom

\* The relay chain after the import and the first n collations.
LEMMA RelayEnacted ==
  ASSUME Inv, RelayImported, NEW n \in 0..Len(collations)
  PROVE  LET c == ImportFinal(relay, relayNext)
             d == ForceEnact(c, n)
         IN  c \in Intact(RelayRoots) /\ d \in Intact(RelayRoots) /\ EnactedFirst(c, d, n)
<1>1. ImportFinal(relay, relayNext) \in Intact(RelayRoots)
  BY RelayImportedEffect
<1>2. collations \in Seq(Collations) /\ CollationsSound
  BY DEF Inv, TypeOK
<1> QED
  BY <1>1, <1>2, ForceEnactEffect

\* import_block returning Ok.
LEMMA RelayImportBlockInv ==
  ASSUME Inv, RelayImportBlock
  PROVE  Inv'
<1> DEFINE n == Len(collations)
<1>1. /\ RelayImported /\ ApproveFirst(n)
      /\ relay' = ForceEnact(ImportFinal(relay, relayNext), n)
      /\ collations' = CollectFirst(Len(parachains), nextBlock')
      /\ UNCHANGED <<parachains, para, paraImports>>
  BY DEF RelayImportBlock, ForceEnactAll
<1>2. n \in 0..Len(collations) /\ Len(parachains) \in 0..Len(parachains)
  BY DEF Inv, TypeOK
<1>3. relay' \in Intact(RelayRoots)
  BY <1>1, <1>2, RelayEnacted
<1>4. nextBlock' \in [Paras -> Builds \cup {None}]
  BY <1>1, ApproveSound
<1>5. collations' \in Seq(Collations) /\ CollationsSound'
  BY <1>1, <1>2, <1>4, CollectSound
<1> QED
  BY <1>1, <1>3, <1>5, RelayImportInv

\* import_block when a collation cannot be collected.
LEMMA RelayImportCollectErrInv ==
  ASSUME Inv, NEW k \in 1..Len(parachains), RelayImportCollectErr(k)
  PROVE  Inv'
<1> DEFINE n == Len(collations)
<1>1. /\ RelayImported /\ ApproveFirst(n)
      /\ relay' = ForceEnact(ImportFinal(relay, relayNext), n)
      /\ collations' = CollectFirst(k - 1, nextBlock')
      /\ UNCHANGED <<parachains, para, paraImports>>
  BY DEF RelayImportCollectErr, ForceEnactAll
<1>2. n \in 0..Len(collations) /\ k - 1 \in 0..Len(parachains)
  BY DEF Inv, TypeOK
<1>3. relay' \in Intact(RelayRoots)
  BY <1>1, <1>2, RelayEnacted
<1>4. nextBlock' \in [Paras -> Builds \cup {None}]
  BY <1>1, ApproveSound
<1>5. collations' \in Seq(Collations) /\ CollationsSound'
  BY <1>1, <1>2, <1>4, CollectSound
<1> QED
  BY <1>1, <1>3, <1>5, RelayImportInv

\* import_block when a collation cannot be approved.
LEMMA RelayImportJudgeErrInv ==
  ASSUME Inv, NEW n \in 1..Len(collations), RelayImportJudgeErr(n)
  PROVE  Inv'
<1>1. /\ RelayImported /\ ApproveFirst(n - 1)
      /\ relay' = ForceEnact(ImportFinal(relay, relayNext), n)
      /\ UNCHANGED <<parachains, collations, para, paraImports>>
  BY DEF RelayImportJudgeErr
<1>2. n \in 0..Len(collations)
  BY DEF Inv, TypeOK
<1>3. relay' \in Intact(RelayRoots)
  BY <1>1, <1>2, RelayEnacted
<1>4. collations' \in Seq(Collations) /\ CollationsSound'
  BY <1>1 DEF Inv, TypeOK, CollationsSound
<1> QED
  BY <1>1, <1>3, <1>4, RelayImportInv

\* The relay chain when collation n is not enacted.
LEMMA EnactErrRelay ==
  ASSUME Inv, NEW n \in 1..Len(collations), NEW what, RelayImportEnactErr(n, what)
  PROVE  LET c == ForceEnact(ImportFinal(relay, relayNext), n - 1)
         IN  /\ n - 1 \in 0..Len(collations)
             /\ RelayImported
             /\ ApproveFirst(n - 1)
             /\ UNCHANGED <<parachains, collations, para, paraImports>>
             /\ c \in Intact(RelayRoots)
             /\ Injected(Latest(c).root, collations[n]) \in RelayRoots
             /\ Injected(Latest(c).root, collations[n]).heads = Heads(c)
             /\ Injected(Latest(c).root, collations[n]).pending =
                  Latest(c).root.pending \cup {collations[n].id}
             /\ \/ relay' = c
                \/ relay' = WithStateCommit(c, Injected(Latest(c).root, collations[n]))
                \/ what = "commit" /\ "commit" \in Faults /\ relay' = WithStateCommitErr(c)
<1> DEFINE c == ForceEnact(ImportFinal(relay, relayNext), n - 1)
           root == Latest(c).root
<1>1. /\ RelayImported /\ ApproveFirst(n - 1) /\ what \in Faults
      /\ relay' \in IF what = "commit" THEN {WithStateCommitErr(c)}
                    ELSE {c, WithStateCommit(c, Injected(Latest(c).root, collations[n]))}
      /\ UNCHANGED <<parachains, collations, para, paraImports>>
  BY DEF RelayImportEnactErr
<1>2. n - 1 \in 0..Len(collations) /\ collations[n] \in Collations
  BY DEF Inv, TypeOK
<1>3. c \in Intact(RelayRoots)
  BY <1>1, <1>2, RelayEnacted
<1>4. root \in RelayRoots
  BY <1>3, IntactFacts
<1>5. /\ Injected(root, collations[n]) \in RelayRoots
      /\ Injected(root, collations[n]).heads = root.heads
      /\ Injected(root, collations[n]).pending = root.pending \cup {collations[n].id}
  <2> HIDE DEF root
  <2> QED
    BY <1>2, <1>4 DEF Injected, RelayRoots, Collations
<1> HIDE DEF c
<1> QED
  BY <1>1, <1>2, <1>3, <1>5 DEF Heads, c

\* import_block when a collation is not enacted.
LEMMA RelayImportEnactErrInv ==
  ASSUME Inv, NEW n \in 1..Len(collations), NEW what, RelayImportEnactErr(n, what)
  PROVE  Inv'
<1> DEFINE c == ForceEnact(ImportFinal(relay, relayNext), n - 1)
           root == Injected(Latest(c).root, collations[n])
<1>1. /\ RelayImported /\ ApproveFirst(n - 1)
      /\ UNCHANGED <<parachains, collations, para, paraImports>>
      /\ c \in Intact(RelayRoots) /\ root \in RelayRoots
      /\ relay' = c \/ relay' = WithStateCommit(c, root) \/ relay' = WithStateCommitErr(c)
  BY EnactErrRelay
<1> HIDE DEF c, root
<1>2. relay' \in Intact(RelayRoots)
  BY <1>1, CommitIntact, CommitErrIntact
<1>3. collations' \in Seq(Collations) /\ CollationsSound'
  BY <1>1 DEF Inv, TypeOK, CollationsSound
<1> QED
  BY <1>1, <1>2, <1>3, RelayImportInv

\* import_block when the client fails.
LEMMA RelayImportErrInv ==
  ASSUME Inv, RelayImportErr
  PROVE  Inv'
<1> USE DEF RelayImportErr
<1>1. TypeOK' /\ CollationsSound'
  BY DEF Inv, TypeOK, CollationsSound, paraVars
<1>2. RelaySound(relay', relayNext')
  BY DEF Inv, RelaySound
<1>3. \A p \in Paras : ParaSound(para'[p], nextBlock'[p], nextImport'[p])
  BY DEF Inv, paraVars
<1> QED
  BY <1>1, <1>2, <1>3 DEF Inv, RelaySound, ParaSound, Waiting

-----------------------------------------------------------------------------
\* The calls on a parachain.

\* A call on parachain p leaves the others alone.
LEMMA ParaStepInv ==
  ASSUME Inv, NEW p \in Paras, NEW c \in ChainsOf(ParaRoots),
         NEW pending \in Builds \cup {None}, NEW approved \in Builds \cup {None},
         ParaSound(c, pending, approved),
         para' = [para EXCEPT ![p] = c],
         nextBlock' = [nextBlock EXCEPT ![p] = pending],
         nextImport' = [nextImport EXCEPT ![p] = approved],
         paraImports' \in [Paras -> Seq(ParaBlocks)],
         UNCHANGED relayVars
  PROVE  Inv'
<1>1. TypeOK'
  BY DEF Inv, TypeOK, relayVars
<1>2. RelaySound(relay', relayNext') /\ CollationsSound'
  BY DEF Inv, relayVars, CollationsSound
<1>3. ASSUME NEW q \in Paras PROVE ParaSound(para'[q], nextBlock'[q], nextImport'[q])
  <2>1. CASE q = p
    BY <2>1 DEF Inv, TypeOK
  <2>2. CASE q # p
    <3>1. para'[q] = para[q] /\ nextBlock'[q] = nextBlock[q] /\ nextImport'[q] = nextImport[q]
      BY <2>2 DEF Inv, TypeOK
    <3> QED
      BY <3>1 DEF Inv
  <2> QED
    BY <2>1, <2>2
<1> QED
  BY <1>1, <1>2, <1>3 DEF Inv, RelaySound, ParaSound, Waiting

\* A function that is not updated.
LEMMA Unupdated ==
  ASSUME NEW S, NEW T, NEW f \in [S -> T], NEW x \in S
  PROVE  f = [f EXCEPT ![x] = f[x]]
OBVIOUS

\* build_block on a parachain.
LEMMA ParaBuildBlockInv ==
  ASSUME Inv, NEW p \in Paras, ParaBuildBlock(p)
  PROVE  Inv'
<1> DEFINE c == para[p]
           b == Propose(c, [of |-> c.fresh, at |-> RelayParentNumber,
                            writes |-> Latest(c).root.writes])
           d == ImportSide(Proposed(c), b)
           build == [block |-> b, proof |-> Latest(c).root]
<1>1. /\ para' = [para EXCEPT ![p] = d]
      /\ nextBlock' = [nextBlock EXCEPT ![p] = build]
      /\ UNCHANGED <<relayVars, nextImport, paraImports>>
  BY DEF ParaBuildBlock
<1>2. RelayParentNumber \in Nat
  BY IntactFacts DEF Inv, RelaySound, RelayParentNumber
<1>3. ParaSound(c, nextBlock[p], nextImport[p])
  BY DEF Inv
<1>4. ParaSound(d, build, nextImport[p]) /\ d \in ChainsOf(ParaRoots) /\ build \in Builds
  BY <1>2, <1>3, BuildSound
<1> HIDE DEF d, build
<1>5. /\ nextImport \in [Paras -> Builds \cup {None}]
      /\ nextImport[p] \in Builds \cup {None}
      /\ paraImports' \in [Paras -> Seq(ParaBlocks)]
  BY <1>1 DEF Inv, TypeOK
<1>6. nextImport' = [nextImport EXCEPT ![p] = nextImport[p]]
  BY <1>1, <1>5, Unupdated
<1> QED
  BY <1>1, <1>4, <1>5, <1>6, ParaStepInv

\* with_mut_state on a parachain keeps the execution of the latest block.
LEMMA ParaWithMutStateInv ==
  ASSUME Inv, NEW p \in Paras, NEW w \in Writes, ParaWithMutState(p, w)
  PROVE  Inv'
<1> DEFINE c == para[p]
           root == [Latest(c).root EXCEPT !.writes = @ \cup {w}]
           d == WithStateCommit(c, root)
<1>1. para' = [para EXCEPT ![p] = d] /\ UNCHANGED <<relayVars, nextBlock, nextImport, paraImports>>
  BY DEF ParaWithMutState
<1>2. ParaSound(c, nextBlock[p], nextImport[p]) /\ c \in Intact(ParaRoots)
  BY DEF Inv, ParaSound
<1>3. root \in ParaRoots /\ root.of = Latest(c).root.of
  <2>1. Latest(c).root \in ParaRoots
    BY <1>2, IntactFacts
  <2> QED
    BY <2>1 DEF ParaRoots
<1> HIDE DEF root
<1>4. ParaSound(d, nextBlock[p], nextImport[p]) /\ d \in ChainsOf(ParaRoots)
  BY <1>2, <1>3, CommitSound
<1> HIDE DEF d
<1>5. /\ nextBlock \in [Paras -> Builds \cup {None}] /\ nextImport \in [Paras -> Builds \cup {None}]
      /\ nextBlock[p] \in Builds \cup {None} /\ nextImport[p] \in Builds \cup {None}
      /\ paraImports' \in [Paras -> Seq(ParaBlocks)]
  BY <1>1 DEF Inv, TypeOK
<1>6. /\ nextBlock' = [nextBlock EXCEPT ![p] = nextBlock[p]]
      /\ nextImport' = [nextImport EXCEPT ![p] = nextImport[p]]
  BY <1>1, <1>5, Unupdated
<1>7. para' = [para EXCEPT ![p] = d] /\ UNCHANGED relayVars
  BY <1>1
<1> QED
  BY <1>4, <1>5, <1>6, <1>7, ParaStepInv

\* A commit on a parachain that fails.
LEMMA ParaWithMutStateErrInv ==
  ASSUME Inv, NEW p \in Paras, ParaWithMutStateErr(p)
  PROVE  Inv'
<1> DEFINE d == WithStateCommitErr(para[p])
<1>1. para' = [para EXCEPT ![p] = d] /\ UNCHANGED <<relayVars, nextBlock, nextImport, paraImports>>
  BY DEF ParaWithMutStateErr
<1>2. ParaSound(d, nextBlock[p], nextImport[p]) /\ d \in ChainsOf(ParaRoots)
  BY CommitErrSound DEF Inv
<1> HIDE DEF d
<1>3. /\ nextBlock \in [Paras -> Builds \cup {None}] /\ nextImport \in [Paras -> Builds \cup {None}]
      /\ nextBlock[p] \in Builds \cup {None} /\ nextImport[p] \in Builds \cup {None}
      /\ paraImports' \in [Paras -> Seq(ParaBlocks)]
  BY <1>1 DEF Inv, TypeOK
<1>4. /\ nextBlock' = [nextBlock EXCEPT ![p] = nextBlock[p]]
      /\ nextImport' = [nextImport EXCEPT ![p] = nextImport[p]]
  BY <1>1, <1>3, Unupdated
<1>5. para' = [para EXCEPT ![p] = d] /\ UNCHANGED relayVars
  BY <1>1
<1> QED
  BY <1>2, <1>3, <1>4, <1>5, ParaStepInv

\* import_block on a parachain.
LEMMA ParaImportBlockInv ==
  ASSUME Inv, NEW p \in Paras, ParaImportBlock(p)
  PROVE  Inv'
<1> DEFINE b == nextImport[p].block
           d == ImportFinal(para[p], b)
<1>1. /\ nextImport[p] # None
      /\ para' = [para EXCEPT ![p] = d]
      /\ paraImports' = [paraImports EXCEPT ![p] = Append(@, b)]
      /\ nextImport' = [nextImport EXCEPT ![p] = None]
      /\ UNCHANGED <<relayVars, nextBlock>>
  BY DEF ParaImportBlock
<1>2. nextImport[p] \in Builds /\ ParaSound(para[p], nextBlock[p], nextImport[p])
  BY <1>1 DEF Inv, TypeOK
<1>3. b \in ParaBlocks
  BY <1>2, BuildType DEF ParaBlocks
<1>4. ParaSound(d, nextBlock[p], None) /\ d \in ChainsOf(ParaRoots)
  BY <1>1, <1>2, ImportSound
<1> HIDE DEF b, d
<1>5. /\ nextBlock \in [Paras -> Builds \cup {None}]
      /\ nextBlock[p] \in Builds \cup {None}
      /\ paraImports \in [Paras -> Seq(ParaBlocks)]
  BY DEF Inv, TypeOK
<1>6. nextBlock' = [nextBlock EXCEPT ![p] = nextBlock[p]]
  BY <1>1, <1>5, Unupdated
<1>7. paraImports' \in [Paras -> Seq(ParaBlocks)]
  <2>1. Append(paraImports[p], b) \in Seq(ParaBlocks)
    BY <1>3, <1>5
  <2> QED
    BY <2>1, <1>1, <1>5
<1> QED
  BY <1>1, <1>4, <1>5, <1>6, <1>7, ParaStepInv

\* A pending block is rejected.
LEMMA RejectInv ==
  ASSUME Inv, NEW p \in Paras, Reject(p)
  PROVE  Inv'
<1>1. /\ nextBlock' = [nextBlock EXCEPT ![p] = None]
      /\ UNCHANGED <<relayVars, para, nextImport, paraImports>>
  BY DEF Reject
<1>2. ParaSound(para[p], None, nextImport[p])
  BY JudgeSound DEF Inv
<1>3. /\ para \in [Paras -> ChainsOf(ParaRoots)] /\ para[p] \in ChainsOf(ParaRoots)
      /\ nextImport \in [Paras -> Builds \cup {None}] /\ nextImport[p] \in Builds \cup {None}
      /\ paraImports' \in [Paras -> Seq(ParaBlocks)]
  BY <1>1 DEF Inv, TypeOK
<1>4. /\ para' = [para EXCEPT ![p] = para[p]]
      /\ nextImport' = [nextImport EXCEPT ![p] = nextImport[p]]
  BY <1>1, <1>3, Unupdated
<1> QED
  BY <1>1, <1>2, <1>3, <1>4, ParaStepInv

-----------------------------------------------------------------------------
\* Every step preserves the invariant.
LEMMA NextInv == Inv /\ [Next]_vars => Inv'
<1> SUFFICES ASSUME Inv, [Next]_vars PROVE Inv'
  OBVIOUS
<1>1. CASE UNCHANGED vars
  BY <1>1 DEF vars, relayVars, paraVars, Inv, TypeOK, CollationsSound, RelaySound,
              ParaSound, Waiting
<1>2. ASSUME RelayStep PROVE Inv'
  <2>1. CASE RelayImportFails
    BY <2>1, RelayImportCollectErrInv, RelayImportJudgeErrInv, RelayImportEnactErrInv,
       RelayImportErrInv DEF RelayImportFails
  <2> QED
    BY <1>2, <2>1, OnboardParaInv, UpdateParaHeadInv, RelayWithMutStateInv,
       RelayWithMutStateErrInv, RelayBuildBlockInv, RelayImportBlockInv DEF RelayStep
<1>3. ASSUME NEW p \in Paras, ParaStep(p) PROVE Inv'
  BY <1>3, ParaBuildBlockInv, ParaWithMutStateInv, ParaWithMutStateErrInv,
     ParaImportBlockInv, RejectInv DEF ParaStep
<1> QED
  BY <1>1, <1>2, <1>3 DEF Next

\* The inductive invariant holds in every reachable state.
LEMMA InvAlways == Spec => []Inv
BY InitInv, NextInv, PTL DEF Spec

\* Every reachable state of a relay chain with its parachains is well typed.
THEOREM RelayParaTypeCorrect == Spec => []TypeOK
<1>1. Inv => TypeOK
  BY DEF Inv
<1> QED
  BY <1>1, InvAlways, PTL

\* relay_chain.rs and parachain.rs: however many parachains there are and in
\* whatever order the builders are used, failing reads, commits and imports
\* included, every chain stays linked, uniquely named and final.
THEOREM ChainsStayIntact == Spec => []ChainsIntact
<1>1. Inv => ChainsIntact
  BY InvImplies
<1> QED
  BY <1>1, InvAlways, PTL

\* relay_chain.rs: no parachain ever has two collations, onboarded twice or
\* not, whatever fails while collations are collected and enacted.
THEOREM CollationsStaySound == Spec => []CollationsSound
<1>1. Inv => CollationsSound
  BY InvImplies
<1> QED
  BY <1>1, InvAlways, PTL

\* parachain.rs: a block that is pending is not canonical, whatever callers do
\* to the parachain while it is pending.
THEOREM PendingStaysAside == Spec => []PendingNotCanonical
<1>1. Inv => PendingNotCanonical
  BY InvImplies
<1> QED
  BY <1>1, InvAlways, PTL

-----------------------------------------------------------------------------
\* The recorded imports, as long as commits do not fail.

\* Chain d is c with, at most, the storage and name of its latest block changed.
SameParents(c, d) ==
  /\ Len(d.canon) = Len(c.canon)
  /\ \A i \in 1..Len(c.canon) : d.canon[i].parent = c.canon[i].parent

\* Commits keep the parents.
LEMMA KeepsParents ==
  ASSUME NEW R, NEW c \in Intact(R), NEW d, Len(d.canon) = Len(c.canon),
         \A i \in 1..Len(c.canon) - 1 : d.canon[i] = c.canon[i],
         Latest(d).parent = Latest(c).parent
  PROVE  SameParents(c, d)
<1> DEFINE n == Len(c.canon)
<1>1. n \in Nat \ {0} /\ Latest(c) = c.canon[n] /\ Latest(d) = d.canon[n]
  BY IntactFacts DEF Latest
<1>2. ASSUME NEW i \in 1..n PROVE d.canon[i].parent = c.canon[i].parent
  <2>1. CASE i = n
    BY <1>1, <2>1
  <2>2. CASE i # n
    <3>1. i \in 1..n - 1
      BY <1>1, <2>2
    <3> QED
      BY <3>1
  <2> QED
    BY <2>1, <2>2
<1> QED
  BY <1>2 DEF SameParents

\* The relay chain has the parents it had and the parent of the imported block.
RelayGrown ==
  /\ relayImports' = Append(relayImports, relayNext)
  /\ Len(relay'.canon) = Len(relay.canon) + 1
  /\ \A i \in 1..Len(relay.canon) : relay'.canon[i].parent = relay.canon[i].parent
  /\ relay'.canon[Len(relay.canon) + 1].parent = relayNext.parent

\* Whatever force_enact_collations does after the import, without a commit that
\* fails, the chain has grown by the block that was imported.
LEMMA EnactedIsGrown ==
  ASSUME Inv, RelayImported, NEW k \in 0..Len(collations),
         SameParents(ForceEnact(ImportFinal(relay, relayNext), k), relay')
  PROVE  RelayGrown
<1> DEFINE c == ImportFinal(relay, relayNext)
           d == ForceEnact(c, k)
           n == Len(relay.canon)
<1>1. /\ c \in Intact(RelayRoots) /\ Len(c.canon) = n + 1
      /\ \A i \in 1..n : c.canon[i] = relay.canon[i]
      /\ Latest(c) = relayNext
      /\ relayImports' = Append(relayImports, relayNext)
  BY RelayImportedEffect
<1>2. d \in Intact(RelayRoots) /\ EnactedFirst(c, d, k)
  BY RelayEnacted
<1>3. n \in Nat \ {0}
  BY IntactFacts DEF Inv, RelaySound
<1> HIDE DEF c, d, n
<1>4. SameParents(c, d)
  BY <1>1, <1>2, KeepsParents DEF EnactedFirst
<1>5. SameParents(d, relay')
  BY DEF c, d
<1>6. \A i \in 1..n + 1 : relay'.canon[i].parent = c.canon[i].parent
  BY <1>1, <1>4, <1>5 DEF SameParents
<1>7. (\A i \in 1..n : i \in 1..n + 1) /\ n + 1 \in 1..n + 1
  BY <1>3
<1>8. c.canon[n + 1] = relayNext
  BY <1>1 DEF Latest
<1>9. Len(relay'.canon) = n + 1
  BY <1>1, <1>4, <1>5 DEF SameParents
<1> QED
  BY <1>1, <1>6, <1>7, <1>8, <1>9 DEF RelayGrown, n

\* Every step records the block it imports, if any, and keeps the parents.
LEMMA RecordedOrKept ==
  ASSUME "commit" \notin Faults, Inv, [Next]_vars
  PROVE  RelayGrown \/ (relayImports' = relayImports /\ SameParents(relay, relay'))
<1> DEFINE Goal == RelayGrown \/ (relayImports' = relayImports /\ SameParents(relay, relay'))
<1>0. relay \in Intact(RelayRoots)
  BY DEF Inv, RelaySound
<1>1. ASSUME relay'.canon = relay.canon /\ relayImports' = relayImports PROVE Goal
  BY <1>1 DEF SameParents
<1>2. ASSUME NEW root \in RelayRoots, relay' = WithStateCommit(relay, root),
             relayImports' = relayImports
      PROVE  Goal
  <2>1. /\ Len(relay'.canon) = Len(relay.canon)
        /\ \A i \in 1..Len(relay.canon) - 1 : relay'.canon[i] = relay.canon[i]
        /\ Latest(relay').parent = Latest(relay).parent
    BY <1>0, <1>2, CommitIntact
  <2> QED
    BY <2>1, <1>0, <1>2, KeepsParents
<1>3. ASSUME NEW p \in Paras, OnboardPara(p) \/ UpdateParaHead(p) PROVE Goal
  <2> DEFINE set == SetHead(Latest(relay).root, p, Latest(para[p]))
             reg == [set EXCEPT !.registered = @ \cup {p}]
  <2>1. set \in RelayRoots /\ reg \in RelayRoots
    BY RelayWrites
  <2>2. /\ relay' = WithStateCommit(relay, set) \/ relay' = WithStateCommit(relay, reg)
        /\ relayImports' = relayImports
    BY <1>3 DEF OnboardPara, UpdateParaHead
  <2> HIDE DEF set, reg, Goal
  <2> QED
    BY <2>1, <2>2, <1>2
<1>4. ASSUME NEW w \in Writes, RelayWithMutState(w) PROVE Goal
  <2> DEFINE root == [Latest(relay).root EXCEPT !.writes = @ \cup {w}]
  <2>1. root \in RelayRoots
    BY RelayWrites
  <2>2. relay' = WithStateCommit(relay, root) /\ relayImports' = relayImports
    BY <1>4 DEF RelayWithMutState
  <2> HIDE DEF root, Goal
  <2> QED
    BY <2>1, <2>2, <1>2
<1>5. ~RelayWithMutStateErr
  BY DEF RelayWithMutStateErr
<1>6. ASSUME RelayBuildBlock PROVE Goal
  BY <1>1, <1>6 DEF RelayBuildBlock, Proposed
<1>7. ASSUME NEW k \in 0..Len(collations), RelayImported,
             relay' = ForceEnact(ImportFinal(relay, relayNext), k)
      PROVE  Goal
  BY <1>7, EnactedIsGrown DEF SameParents
<1>8. ASSUME RelayImportBlock \/ \E k \in 1..Len(parachains) : RelayImportCollectErr(k)
      PROVE  Goal
  <2>1. /\ RelayImported
        /\ relay' = ForceEnact(ImportFinal(relay, relayNext), Len(collations))
    BY <1>8 DEF RelayImportBlock, RelayImportCollectErr, ForceEnactAll
  <2>2. Len(collations) \in 0..Len(collations)
    BY DEF Inv, TypeOK
  <2> HIDE DEF Goal
  <2> QED
    BY <2>1, <2>2, <1>7
<1>9. ASSUME NEW k \in 1..Len(collations), RelayImportJudgeErr(k) PROVE Goal
  <2>1. RelayImported /\ relay' = ForceEnact(ImportFinal(relay, relayNext), k)
    BY <1>9 DEF RelayImportJudgeErr
  <2>2. k \in 0..Len(collations)
    BY DEF Inv, TypeOK
  <2> HIDE DEF Goal
  <2> QED
    BY <2>1, <2>2, <1>7
<1>10. ASSUME NEW k \in 1..Len(collations), NEW what, RelayImportEnactErr(k, what)
       PROVE  Goal
  <2> DEFINE c == ForceEnact(ImportFinal(relay, relayNext), k - 1)
             root == Injected(Latest(c).root, collations[k])
  <2>1. /\ k - 1 \in 0..Len(collations) /\ RelayImported
        /\ c \in Intact(RelayRoots) /\ root \in RelayRoots
        /\ relay' = c \/ relay' = WithStateCommit(c, root)
    BY <1>10, EnactErrRelay
  <2> HIDE DEF root, Goal
  <2>2. CASE relay' = c
    BY <2>1, <2>2, <1>7
  <2>3. CASE relay' = WithStateCommit(c, root)
    <3>1. SameParents(c, relay')
      <4> HIDE DEF c
      <4>1. /\ Len(relay'.canon) = Len(c.canon)
            /\ \A i \in 1..Len(c.canon) - 1 : relay'.canon[i] = c.canon[i]
            /\ Latest(relay').parent = Latest(c).parent
        BY <2>1, <2>3, CommitIntact
      <4> QED
        BY <2>1, <4>1, KeepsParents
    <3> QED
      BY <2>1, <3>1, EnactedIsGrown DEF Goal
  <2> QED
    BY <2>1, <2>2, <2>3
<1>11. ASSUME RelayImportErr PROVE Goal
  BY <1>1, <1>11 DEF RelayImportErr
<1>12. ASSUME UNCHANGED vars \/ \E p \in Paras : ParaStep(p) PROVE Goal
  <2>1. UNCHANGED relayVars
    BY <1>12 DEF vars, ParaStep, ParaBuildBlock, ParaWithMutState, ParaWithMutStateErr,
                 ParaImportBlock, Reject
  <2> QED
    BY <2>1, <1>1 DEF relayVars
<1> HIDE DEF Goal
<1>13. ASSUME RelayImportFails PROVE Goal
  BY <1>8, <1>9, <1>10, <1>11, <1>13 DEF RelayImportFails
<1>14. ASSUME RelayStep PROVE Goal
  BY <1>3, <1>4, <1>5, <1>6, <1>8, <1>13, <1>14 DEF RelayStep
<1> QED
  BY <1>12, <1>14 DEF Next, Goal

\* A new relay chain has no imports.
LEMMA InitMirror == Init => RelayImportsMirror
<1> SUFFICES ASSUME Init PROVE RelayImportsMirror
  OBVIOUS
<1> DEFINE r == [ heads |-> [p \in Paras |-> None],
                  registered |-> {}, pending |-> {}, writes |-> {} ]
<1>1. relay = NewChain(r) /\ relayImports = << >>
  BY DEF Init
<1> HIDE DEF r
<1>2. Len(relay.canon) = 1
  BY <1>1 DEF NewChain
<1> QED
  BY <1>1, <1>2 DEF RelayImportsMirror

\* RelayImportsMirror is inductive on top of the invariant.
LEMMA NextMirror ==
  ASSUME "commit" \notin Faults, Inv, RelayImportsMirror, [Next]_vars
  PROVE  RelayImportsMirror'
<1> DEFINE n == Len(relay.canon)
           k == Len(relayImports)
<1>1. /\ relayImports \in Seq(BlocksOf(RelayRoots)) /\ k \in Nat /\ n = 1 + k
      /\ \A i \in 1..k : relayImports[i].parent = relay.canon[i + 1].parent
  BY DEF Inv, TypeOK, RelayImportsMirror
<1>2. \A i \in 1..k : i + 1 \in 1..n
  BY <1>1
<1>3. CASE relayImports' = relayImports /\ SameParents(relay, relay')
  BY <1>1, <1>2, <1>3 DEF SameParents, RelayImportsMirror
<1>4. CASE RelayGrown
  <2>1. /\ Len(relayImports') = k + 1
        /\ relayImports'[k + 1] = relayNext
        /\ \A i \in 1..k : relayImports'[i] = relayImports[i]
    BY <1>1, <1>4 DEF RelayGrown
  <2> HIDE DEF n, k
  <2>2. /\ Len(relay'.canon) = n + 1
        /\ \A i \in 1..n : relay'.canon[i].parent = relay.canon[i].parent
        /\ relay'.canon[n + 1].parent = relayNext.parent
    BY <1>4 DEF RelayGrown, n
  <2>3. ASSUME NEW i \in 1..k + 1
        PROVE  relayImports'[i].parent = relay'.canon[i + 1].parent
    <3>1. CASE i = k + 1
      <4>1. i + 1 = n + 1
        BY <3>1, <1>1
      <4> QED
        BY <3>1, <4>1, <2>1, <2>2
    <3>2. CASE i # k + 1
      <4>1. i \in 1..k
        BY <3>2, <1>1
      <4> QED
        BY <4>1, <1>1, <1>2, <2>1, <2>2
    <3> QED
      BY <3>1, <3>2
  <2>4. Len(relay'.canon) = 1 + Len(relayImports')
    BY <1>1, <2>1, <2>2
  <2> QED
    BY <2>1, <2>3, <2>4 DEF RelayImportsMirror
<1> QED
  BY <1>3, <1>4, RecordedOrKept

\* relay_chain.rs import_block: as long as commits do not fail, imports are the
\* relay chain, parent by parent, however often blocks are mutated afterwards.
THEOREM RelayImportsAreChain ==
  ASSUME "commit" \notin Faults
  PROVE  Spec => []RelayImportsMirror
<1>1. Inv /\ RelayImportsMirror /\ [Next]_vars => RelayImportsMirror'
  BY NextMirror
<1> QED
  BY <1>1, InitMirror, InvAlways, PTL DEF Spec

-----------------------------------------------------------------------------
\* approve.

\* With nothing that interrupts an import, something is pending at every
\* parachain that a collation waits for.
LEMMA NextApprovable ==
  ASSUME Faults \cap {"read", "commit", "reject"} = {},
         Inv, ApprovalCannotFail, [Next]_vars
  PROVE  ApprovalCannotFail'
<1> DEFINE Goal == ApprovalCannotFail'
<1>1. ASSUME collations' = collations, nextBlock' = nextBlock PROVE Goal
  BY <1>1 DEF ApprovalCannotFail, Unapprovable
<1>2. ASSUME RelayImportBlock \/ \E k \in 1..Len(parachains) : RelayImportCollectErr(k)
      PROVE  Goal
  <2>1. PICK n \in 0..Len(parachains) :
           /\ collations' = CollectFirst(n, nextBlock')
           /\ ApproveFirst(Len(collations)) /\ UNCHANGED <<parachains, para, paraImports>>
    <3>1. Len(parachains) \in Nat
      BY DEF Inv, TypeOK
    <3>2. CASE RelayImportBlock
      BY <3>1, <3>2 DEF RelayImportBlock, ForceEnactAll
    <3>3. ASSUME NEW k \in 1..Len(parachains), RelayImportCollectErr(k)
          PROVE  /\ k - 1 \in 0..Len(parachains)
                 /\ collations' = CollectFirst(k - 1, nextBlock')
                 /\ ApproveFirst(Len(collations)) /\ UNCHANGED <<parachains, para, paraImports>>
      BY <3>1, <3>3 DEF RelayImportCollectErr, ForceEnactAll
    <3> QED
      BY <1>2, <3>2, <3>3
  <2>2. nextBlock' \in [Paras -> Builds \cup {None}]
    BY <2>1, ApproveSound
  <2>3. \A i \in 1..Len(collations') : nextBlock'[collations'[i].id] # None
    BY <2>1, <2>2, CollectSound
  <2> QED
    BY <2>3 DEF ApprovalCannotFail, Unapprovable
<1>3. ASSUME RelayStep PROVE Goal
  <2>1. CASE RelayImportFails
    <3>1. \A k \in 1..Len(collations) : ~RelayImportJudgeErr(k)
      BY DEF RelayImportJudgeErr, ApprovalCannotFail
    <3>2. \A k \in 1..Len(collations), what \in {"read", "commit"} : ~RelayImportEnactErr(k, what)
      BY DEF RelayImportEnactErr
    <3>3. RelayImportErr => Goal
      BY <1>1 DEF RelayImportErr, paraVars
    <3> HIDE DEF Goal
    <3> QED
      BY <2>1, <1>2, <3>1, <3>2, <3>3 DEF RelayImportFails
  <2>2. ASSUME NEW p \in Paras, OnboardPara(p) \/ UpdateParaHead(p) PROVE Goal
    BY <1>1, <2>2 DEF OnboardPara, UpdateParaHead, paraVars
  <2>3. ASSUME NEW w \in Writes, RelayWithMutState(w) PROVE Goal
    BY <1>1, <2>3 DEF RelayWithMutState, paraVars
  <2>4. RelayWithMutStateErr \/ RelayBuildBlock => Goal
    BY <1>1 DEF RelayWithMutStateErr, RelayBuildBlock, paraVars
  <2> QED
    BY <1>2, <1>3, <2>1, <2>2, <2>3, <2>4 DEF RelayStep
<1>4. ASSUME NEW p \in Paras, ParaStep(p) PROVE Goal
  <2>1. ASSUME ParaBuildBlock(p) PROVE Goal
    <3> DEFINE c == para[p]
               b == Propose(c, [of |-> c.fresh, at |-> RelayParentNumber,
                                writes |-> Latest(c).root.writes])
               build == [block |-> b, proof |-> Latest(c).root]
    <3>1. nextBlock' = [nextBlock EXCEPT ![p] = build] /\ collations' = collations
      BY <2>1 DEF ParaBuildBlock, relayVars
    <3>2. RelayParentNumber \in Nat /\ ParaSound(c, nextBlock[p], nextImport[p])
      BY IntactFacts DEF Inv, RelaySound, RelayParentNumber
    <3>3. build \in Builds
      BY <3>2, BuildSound
    <3>4. build # None
      BY <3>3, BuildType
    <3> HIDE DEF build
    <3>5. /\ nextBlock \in [Paras -> Builds \cup {None}]
          /\ \A i \in 1..Len(collations) : collations[i].id \in Paras
      <4>1. collations \in Seq(Collations) /\ nextBlock \in [Paras -> Builds \cup {None}]
        BY DEF Inv, TypeOK
      <4>2. \A i \in 1..Len(collations) : collations[i] \in Collations
        BY <4>1
      <4> QED
        BY <4>1, <4>2 DEF Collations
    <3> QED
      BY <3>1, <3>4, <3>5 DEF ApprovalCannotFail, Unapprovable
  <2>2. ~Reject(p)
    BY DEF Reject
  <2>3. ASSUME NEW w \in Writes, ParaWithMutState(p, w) PROVE Goal
    BY <1>1, <2>3 DEF ParaWithMutState, relayVars
  <2>4. ParaWithMutStateErr(p) \/ ParaImportBlock(p) => Goal
    BY <1>1 DEF ParaWithMutStateErr, ParaImportBlock, relayVars
  <2> QED
    BY <1>4, <2>1, <2>2, <2>3, <2>4 DEF ParaStep
<1>5. UNCHANGED vars => Goal
  BY <1>1 DEF vars, relayVars, paraVars
<1> HIDE DEF Goal
<1>6. Goal
  BY <1>3, <1>4, <1>5 DEF Next
<1> QED
  BY <1>6 DEF Goal

\* relay_chain.rs force_enact_collations: unless a read or a commit fails or a
\* caller rejects, approve never answers NextBlockNotFound, whatever imports
\* fail and however often a parachain builds over what it had pending.
THEOREM ApprovalNeverFails ==
  ASSUME Faults \cap {"read", "commit", "reject"} = {}
  PROVE  Spec => []ApprovalCannotFail
<1>1. Init => ApprovalCannotFail
  BY DEF Init, ApprovalCannotFail
<1>2. Inv /\ ApprovalCannotFail /\ [Next]_vars => ApprovalCannotFail'
  BY NextApprovable
<1> QED
  BY <1>1, <1>2, InvAlways, PTL DEF Spec

-----------------------------------------------------------------------------
\* Candidates that were injected and not enacted.

\* The candidates of the latest relay state.
Candidates(c) == Latest(c).root.pending

\* What HalfEnactedIsRetried says of a step.
HalfEnactedStep ==
  \A p \in Candidates(relay') :
    \/ Retried(p)'
    \/ p \in Candidates(relay) /\ ~Retried(p)
    \/ Len(relay'.canon) < Len(relay.canon)

\* A commit of the relay chain that does not touch the candidates.
LEMMA CommitKeepsCandidates ==
  ASSUME Inv, NEW root \in RelayRoots, root.pending = Candidates(relay),
         relay' = WithStateCommit(relay, root), collations' = collations
  PROVE  HalfEnactedStep
<1>1. relay \in Intact(RelayRoots)
  BY DEF Inv, RelaySound
<1>2. Candidates(relay') = Candidates(relay)
  BY <1>1, CommitIntact DEF Candidates
<1> QED
  BY <1>2 DEF HalfEnactedStep, Retried

\* The closures of relay_chain.rs other than the enacting one keep the candidates.
LEMMA WritesKeepCandidates ==
  ASSUME Inv, NEW p \in Paras
  PROVE  LET set == SetHead(Latest(relay).root, p, Latest(para[p]))
         IN  /\ set.pending = Candidates(relay)
             /\ [set EXCEPT !.registered = @ \cup {p}].pending = Candidates(relay)
<1> DEFINE root == Latest(relay).root
           set == SetHead(root, p, Latest(para[p]))
<1>1. root \in RelayRoots /\ set \in RelayRoots
  BY RelayWrites
<1>2. set.pending = root.pending
  <2> HIDE DEF root
  <2> QED
    BY <1>1 DEF SetHead, RelayRoots
<1>3. [set EXCEPT !.registered = @ \cup {p}].pending = set.pending
  <2> HIDE DEF set
  <2> QED
    BY <1>1 DEF RelayRoots
<1> QED
  BY <1>2, <1>3 DEF Candidates

\* import_block, up to collation n: what is a candidate was one, and is of none
\* of the collations that were enacted.
LEMMA EnactedCandidates ==
  ASSUME Inv, RelayImported, NEW n \in 0..Len(collations)
  PROVE  LET d == ForceEnact(ImportFinal(relay, relayNext), n)
         IN  /\ Candidates(d) \subseteq Candidates(relay)
             /\ \A i \in 1..n : collations[i].id \notin Candidates(d)
             /\ Len(d.canon) = Len(relay.canon) + 1
             /\ \A i \in 1..Len(relay.canon) : d.canon[i] = relay.canon[i]
<1> DEFINE c == ImportFinal(relay, relayNext)
           d == ForceEnact(c, n)
           m == Len(relay.canon)
<1>1. /\ Latest(c) = relayNext /\ relayNext.root = Latest(relay).root
      /\ Len(c.canon) = m + 1
      /\ \A i \in 1..m : c.canon[i] = relay.canon[i]
  BY RelayImportedEffect
<1>2. EnactedFirst(c, d, n)
  BY RelayEnacted
<1>3. m \in Nat \ {0}
  BY IntactFacts DEF Inv, RelaySound
<1> HIDE DEF c, d, m
<1>4. \A i \in 1..m : i \in 1..Len(c.canon) - 1
  BY <1>1, <1>3
<1> QED
  BY <1>1, <1>2, <1>4 DEF EnactedFirst, Candidates, c, d, m

\* import_block when it enacts every collation: no candidate has a collation.
LEMMA AllEnactedRetried ==
  ASSUME Inv, RelayImported, ForceEnactAll
  PROVE  HalfEnactedStep
<1> DEFINE n == Len(collations)
<1>1. relay' = ForceEnact(ImportFinal(relay, relayNext), n)
  BY DEF ForceEnactAll
<1>2. n \in 0..Len(collations)
  BY DEF Inv, TypeOK
<1>3. /\ Candidates(relay') \subseteq Candidates(relay)
      /\ \A i \in 1..n : collations[i].id \notin Candidates(relay')
  BY <1>1, <1>2, EnactedCandidates
<1> QED
  BY <1>3 DEF HalfEnactedStep, Retried

\* import_block when a collation is not enacted: it may be a candidate now, and
\* it is kept.  A commit that fails brings the state before the import back.
LEMMA EnactErrRetried ==
  ASSUME Inv, NEW n \in 1..Len(collations), NEW what, RelayImportEnactErr(n, what)
  PROVE  HalfEnactedStep
<1> DEFINE c == ForceEnact(ImportFinal(relay, relayNext), n - 1)
           root == Injected(Latest(c).root, collations[n])
           m == Len(relay.canon)
<1>1. /\ n - 1 \in 0..Len(collations) /\ RelayImported /\ collations' = collations
      /\ c \in Intact(RelayRoots) /\ root \in RelayRoots
      /\ root.pending = Candidates(c) \cup {collations[n].id}
      /\ relay' = c \/ relay' = WithStateCommit(c, root) \/ relay' = WithStateCommitErr(c)
  BY EnactErrRelay DEF Candidates
<1>2. /\ Candidates(c) \subseteq Candidates(relay)
      /\ Len(c.canon) = m + 1
      /\ \A i \in 1..m : c.canon[i] = relay.canon[i]
  BY <1>1, EnactedCandidates
<1>3. m \in Nat \ {0}
  BY IntactFacts DEF Inv, RelaySound
<1> HIDE DEF c, root, m
<1>4. Candidates(relay') \subseteq Candidates(relay) \cup {collations[n].id}
  <2>1. CASE relay' = c
    BY <1>2, <2>1
  <2>2. CASE relay' = WithStateCommit(c, root)
    <3>1. Latest(relay').root = root
      BY <1>1, <2>2, CommitIntact
    <3> QED
      BY <3>1, <1>1, <1>2 DEF Candidates
  <2>3. CASE relay' = WithStateCommitErr(c)
    <3>1. /\ Len(relay'.canon) = IF Len(c.canon) = 1 THEN 1 ELSE Len(c.canon) - 1
          /\ \A i \in 1..Len(relay'.canon) : relay'.canon[i] = c.canon[i]
      BY <1>1, <2>3, CommitErrIntact
    <3>2. Len(relay'.canon) = m
      BY <3>1, <1>2, <1>3
    <3>3. m \in 1..m
      BY <1>3
    <3>4. Latest(relay') = Latest(relay)
      BY <3>1, <3>2, <3>3, <1>2 DEF Latest, m
    <3> QED
      BY <3>4 DEF Candidates
  <2> QED
    BY <1>1, <2>1, <2>2, <2>3
<1>5. Retried(collations[n].id)'
  BY <1>1 DEF Retried
<1> QED
  BY <1>1, <1>4, <1>5 DEF HalfEnactedStep, Retried

\* Every step leaves a half-enacted candidate with its collation.
LEMMA NextRetried ==
  ASSUME Inv, [Next]_vars
  PROVE  HalfEnactedStep
<1>1. ASSUME relay'.canon = relay.canon, collations' = collations PROVE HalfEnactedStep
  BY <1>1 DEF HalfEnactedStep, Candidates, Latest, Retried
<1>2. ASSUME NEW p \in Paras, OnboardPara(p) \/ UpdateParaHead(p) PROVE HalfEnactedStep
  <2> DEFINE set == SetHead(Latest(relay).root, p, Latest(para[p]))
             reg == [set EXCEPT !.registered = @ \cup {p}]
  <2>1. /\ set \in RelayRoots /\ reg \in RelayRoots
        /\ set.pending = Candidates(relay) /\ reg.pending = Candidates(relay)
    BY RelayWrites, WritesKeepCandidates
  <2>2. /\ relay' = WithStateCommit(relay, set) \/ relay' = WithStateCommit(relay, reg)
        /\ collations' = collations
    BY <1>2 DEF OnboardPara, UpdateParaHead
  <2> HIDE DEF set, reg
  <2> QED
    BY <2>1, <2>2, CommitKeepsCandidates
<1>3. ASSUME NEW w \in Writes, RelayWithMutState(w) PROVE HalfEnactedStep
  <2> DEFINE root == [Latest(relay).root EXCEPT !.writes = @ \cup {w}]
  <2>1. root \in RelayRoots /\ Latest(relay).root \in RelayRoots
    BY RelayWrites
  <2>2. root.pending = Candidates(relay)
    BY <2>1 DEF Candidates, RelayRoots
  <2>3. relay' = WithStateCommit(relay, root) /\ collations' = collations
    BY <1>3 DEF RelayWithMutState
  <2> HIDE DEF root
  <2> QED
    BY <2>1, <2>2, <2>3, CommitKeepsCandidates
<1>4. ASSUME RelayWithMutStateErr PROVE HalfEnactedStep
  <2>1. relay' = WithStateCommitErr(relay) /\ collations' = collations
    BY <1>4 DEF RelayWithMutStateErr
  <2>2. relay \in Intact(RelayRoots) /\ Len(relay.canon) \in Nat \ {0}
    BY IntactFacts DEF Inv, RelaySound
  <2>3. CASE Len(relay.canon) = 1
    BY <1>1, <2>1, <2>3 DEF WithStateCommitErr
  <2>4. CASE Len(relay.canon) # 1
    <3>1. Len(relay'.canon) = Len(relay.canon) - 1
      BY <2>1, <2>2, <2>4, CommitErrIntact
    <3> QED
      BY <2>2, <3>1 DEF HalfEnactedStep
  <2> QED
    BY <2>3, <2>4
<1>5. ASSUME RelayBuildBlock \/ RelayImportErr PROVE HalfEnactedStep
  BY <1>1, <1>5 DEF RelayBuildBlock, RelayImportErr, Proposed
<1>6. ASSUME RelayImportBlock \/ \E k \in 1..Len(parachains) : RelayImportCollectErr(k)
      PROVE  HalfEnactedStep
  <2>1. RelayImported /\ ForceEnactAll
    BY <1>6 DEF RelayImportBlock, RelayImportCollectErr
  <2> QED
    BY <2>1, AllEnactedRetried
<1>7. ASSUME NEW n \in 1..Len(collations), RelayImportJudgeErr(n) PROVE HalfEnactedStep
  <2>1. /\ RelayImported /\ relay' = ForceEnact(ImportFinal(relay, relayNext), n)
        /\ collations' = collations
    BY <1>7 DEF RelayImportJudgeErr
  <2>2. n \in 0..Len(collations)
    BY DEF Inv, TypeOK
  <2>3. Candidates(relay') \subseteq Candidates(relay)
    BY <2>1, <2>2, EnactedCandidates
  <2> QED
    BY <2>1, <2>3 DEF HalfEnactedStep, Retried
<1>8. ASSUME UNCHANGED vars \/ \E p \in Paras : ParaStep(p) PROVE HalfEnactedStep
  <2>1. UNCHANGED relayVars
    BY <1>8 DEF vars, ParaStep, ParaBuildBlock, ParaWithMutState, ParaWithMutStateErr,
                ParaImportBlock, Reject
  <2> QED
    BY <2>1, <1>1 DEF relayVars
<1>9. ASSUME RelayImportFails PROVE HalfEnactedStep
  BY <1>5, <1>6, <1>7, <1>9, EnactErrRetried DEF RelayImportFails
<1> QED
  BY <1>2, <1>3, <1>4, <1>5, <1>6, <1>8, <1>9 DEF Next, RelayStep

\* externalities.rs execute_with_mut and relay_chain.rs force_enact_collations:
\* whatever fails, a candidate that was injected and not enacted keeps its
\* collation and is tried again; a failed commit may bring an older state back.
THEOREM CandidatesAreRetried == Spec => HalfEnactedIsRetried
<1>1. Inv /\ [Next]_vars =>
        [ \A p \in Latest(relay').root.pending :
            \/ Retried(p)'
            \/ p \in Latest(relay).root.pending /\ ~Retried(p)
            \/ Len(relay'.canon) < Len(relay.canon) ]_vars
  BY NextRetried DEF HalfEnactedStep, Candidates
<1> QED
  BY <1>1, InvAlways, PTL DEF Spec, HalfEnactedIsRetried

-----------------------------------------------------------------------------
\* What becomes importable, as long as commits do not fail.

\* What EnactedBeforeApproved says of a step.
EnactedStep ==
  \A p \in Paras :
    nextImport'[p] \notin {nextImport[p], None} =>
      \E i \in 1..Len(collations) :
        collations[i].id = p /\ Heads(relay')[p] = collations[i].head

\* The first n collations get approved in a step that keeps their heads.
LEMMA ApprovedAreEnacted ==
  ASSUME Inv, RelayImported, NEW n \in 0..Len(collations), NEW k \in 0..Len(collations),
         k <= n, ApproveFirst(k),
         Heads(relay') = Heads(ForceEnact(ImportFinal(relay, relayNext), n))
  PROVE  EnactedStep
<1>1. \A i \in 1..n : Heads(relay')[collations[i].id] = collations[i].head
  BY RelayEnacted DEF EnactedFirst
<1> DEFINE ids == { collations[i].id : i \in 1..k }
<1>2. nextImport' = [p \in Paras |-> IF p \in ids THEN nextBlock[p] ELSE nextImport[p]]
  BY DEF ApproveFirst
<1>3. ASSUME NEW p \in Paras, nextImport'[p] \notin {nextImport[p], None}
      PROVE  \E i \in 1..Len(collations) :
               collations[i].id = p /\ Heads(relay')[p] = collations[i].head
  <2>1. p \in ids
    BY <1>2, <1>3
  <2>2. PICK i \in 1..k : collations[i].id = p
    BY <2>1
  <2>3. i \in 1..n /\ i \in 1..Len(collations)
    OBVIOUS
  <2> QED
    BY <1>1, <2>2, <2>3
<1> QED
  BY <1>3 DEF EnactedStep

\* Every step that makes a block importable has its head in the relay state.
LEMMA NextEnacted ==
  ASSUME "commit" \notin Faults, Inv, [Next]_vars
  PROVE  EnactedStep
<1>0. Len(collations) \in Nat /\ nextImport \in [Paras -> Builds \cup {None}]
  BY DEF Inv, TypeOK
<1>1. ASSUME \A p \in Paras : nextImport'[p] \in {nextImport[p], None} PROVE EnactedStep
  BY <1>1 DEF EnactedStep
<1>2. ASSUME RelayImportBlock \/ \E k \in 1..Len(parachains) : RelayImportCollectErr(k)
      PROVE  EnactedStep
  <2>1. /\ RelayImported /\ ApproveFirst(Len(collations))
        /\ relay' = ForceEnact(ImportFinal(relay, relayNext), Len(collations))
    BY <1>2 DEF RelayImportBlock, RelayImportCollectErr, ForceEnactAll
  <2>2. Len(collations) \in 0..Len(collations) /\ Len(collations) <= Len(collations)
    BY <1>0
  <2> QED
    BY <2>1, <2>2, ApprovedAreEnacted
<1>3. ASSUME NEW n \in 1..Len(collations), RelayImportJudgeErr(n) PROVE EnactedStep
  <2>1. /\ RelayImported /\ ApproveFirst(n - 1)
        /\ relay' = ForceEnact(ImportFinal(relay, relayNext), n)
    BY <1>3 DEF RelayImportJudgeErr
  <2>2. n \in 0..Len(collations) /\ n - 1 \in 0..Len(collations) /\ n - 1 <= n
    BY <1>0
  <2> QED
    BY <2>1, <2>2, ApprovedAreEnacted
<1>4. ASSUME NEW n \in 1..Len(collations), NEW what, RelayImportEnactErr(n, what)
      PROVE  EnactedStep
  <2> DEFINE c == ForceEnact(ImportFinal(relay, relayNext), n - 1)
             root == Injected(Latest(c).root, collations[n])
  <2>1. /\ n - 1 \in 0..Len(collations) /\ RelayImported /\ ApproveFirst(n - 1)
        /\ c \in Intact(RelayRoots) /\ root \in RelayRoots /\ root.heads = Heads(c)
        /\ relay' = c \/ relay' = WithStateCommit(c, root)
    BY <1>4, EnactErrRelay
  <2>2. Heads(relay') = Heads(c)
    <3> HIDE DEF c, root
    <3>1. CASE relay' = WithStateCommit(c, root)
      <4>1. Latest(relay').root = root
        BY <2>1, <3>1, CommitIntact
      <4> QED
        BY <2>1, <4>1 DEF Heads
    <3> QED
      BY <2>1, <3>1
  <2>3. n - 1 <= n - 1
    BY <1>0
  <2> QED
    BY <2>1, <2>2, <2>3, ApprovedAreEnacted
<1>5. ASSUME RelayImportFails PROVE EnactedStep
  <2>1. RelayImportErr => EnactedStep
    BY <1>1 DEF RelayImportErr, paraVars
  <2> QED
    BY <1>2, <1>3, <1>4, <1>5, <2>1 DEF RelayImportFails
<1>6. ASSUME RelayStep PROVE EnactedStep
  <2>1. ASSUME nextImport' = nextImport PROVE EnactedStep
    BY <1>1, <2>1
  <2>2. ASSUME NEW p \in Paras, OnboardPara(p) \/ UpdateParaHead(p) PROVE EnactedStep
    BY <2>1, <2>2 DEF OnboardPara, UpdateParaHead, paraVars
  <2>3. ASSUME NEW w \in Writes, RelayWithMutState(w) PROVE EnactedStep
    BY <2>1, <2>3 DEF RelayWithMutState, paraVars
  <2>4. RelayWithMutStateErr \/ RelayBuildBlock => EnactedStep
    BY <2>1 DEF RelayWithMutStateErr, RelayBuildBlock, paraVars
  <2> QED
    BY <1>2, <1>5, <1>6, <2>2, <2>3, <2>4 DEF RelayStep
<1>7. ASSUME NEW p \in Paras, ParaStep(p) PROVE EnactedStep
  <2>1. nextImport' = nextImport \/ nextImport' = [nextImport EXCEPT ![p] = None]
    BY <1>7 DEF ParaStep, ParaBuildBlock, ParaWithMutState, ParaWithMutStateErr,
                ParaImportBlock, Reject
  <2> QED
    BY <2>1, <1>0, <1>1
<1>8. UNCHANGED vars => EnactedStep
  BY <1>1 DEF vars, paraVars
<1> QED
  BY <1>6, <1>7, <1>8 DEF Next

\* relay_chain.rs force_enact_collations: as long as commits do not fail, a
\* parachain block becomes importable only in a step whose relay state has the
\* collated head of that parachain, also when a later collation fails.
THEOREM ApprovedAreInRelayState ==
  ASSUME "commit" \notin Faults
  PROVE  Spec => EnactedBeforeApproved
<1>1. Inv /\ [Next]_vars =>
        [ \A p \in Paras :
            nextImport'[p] \notin {nextImport[p], None} =>
              \E i \in 1..Len(collations) :
                collations[i].id = p /\ Heads(relay')[p] = collations[i].head ]_vars
  BY NextEnacted DEF EnactedStep
<1> QED
  BY <1>1, InvAlways, PTL DEF Spec, EnactedBeforeApproved
=============================================================================

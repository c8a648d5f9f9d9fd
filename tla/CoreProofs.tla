----------------------------- MODULE CoreProofs -----------------------------
(***************************************************************************)
(* What the steps of core::Builder do to a chain, for every chain that is  *)
(* linked and final up to its best block.  The proofs of the builders cite *)
(* these facts instead of opening the operators of Core.                   *)
(***************************************************************************)
EXTENDS Core, TLAPS

\* Arithmetic on the last two positions of a sequence.
LEMMA LastTwo ==
  \A n \in Nat \ {0} :
    n # 1 => n > 1 /\ n - 1 \in 1..n - 1 /\ n - 1 \in 1..n /\ n \in 1..n /\ n - 1 # n
OBVIOUS

\* A chain that is linked has a best block, and it is a block.
LEMMA LatestType ==
  ASSUME NEW R, NEW c \in ChainsOf(R), Linked(c)
  PROVE  /\ Len(c.canon) \in Nat \ {0}
         /\ Latest(c) \in BlocksOf(R)
         /\ Latest(c).hash < c.fresh
         /\ \A i \in 1..Len(c.canon) : c.canon[i] \in BlocksOf(R)
<1>1. c.canon \in Seq(BlocksOf(R))
  BY DEF ChainsOf
<1>2. Len(c.canon) \in Nat \ {0}
  BY <1>1 DEF Linked
<1>3. \A i \in 1..Len(c.canon) : c.canon[i] \in BlocksOf(R)
  BY <1>1
<1>4. Len(c.canon) \in 1..Len(c.canon)
  BY <1>2
<1>5. Latest(c).hash < c.fresh
  BY <1>4 DEF Linked, Latest
<1> QED
  BY <1>2, <1>3, <1>4, <1>5 DEF Latest

\* The header that goes back differs from the old one in its state root only,
\* and its hash is the old one or an unused one.
LEMMA RehashEffect ==
  ASSUME NEW R, NEW fresh \in Nat, NEW c, c.fresh = fresh,
         NEW b \in BlocksOf(R), b.hash < fresh, NEW root \in R
  PROVE  /\ Rehash(c, b, root) \in BlocksOf(R)
         /\ Rehash(c, b, root).root = root
         /\ Rehash(c, b, root).parent = b.parent
         /\ Rehash(c, b, root).hash \in {b.hash, fresh}
         /\ Rehash(c, b, root).hash < FreshAfter(c, b, root)
         /\ FreshAfter(c, b, root) \in Nat
         /\ fresh <= FreshAfter(c, b, root)
         /\ Rehash(c, b, root).hash = b.hash => root = b.root
BY DEF Rehash, FreshAfter, BlocksOf

\* check_best_hash_and_revert(1) on a chain of at least two blocks.
LEMMA RevertOne ==
  ASSUME NEW R, NEW c \in ChainsOf(R), Linked(c), BestIsFinal(c), Len(c.canon) # 1
  PROVE  LET d == CheckBestHashAndRevert(c, 1)
         IN  /\ d \in ChainsOf(R)
             /\ Len(d.canon) = Len(c.canon) - 1
             /\ \A i \in 1..Len(c.canon) - 1 : d.canon[i] = c.canon[i]
             /\ BestIsFinal(d)
             /\ d.fresh = c.fresh
             /\ d.side \subseteq c.side
<1> DEFINE n == Len(c.canon)
           low == SubSeq(c.canon, 1, n - 1)
           keep == { x \in c.side : \A i \in n - 1 + 1..n : c.canon[i].hash # x.parent }
<1>1. /\ n \in Nat /\ n > 1 /\ c.fin = n
      /\ c.canon \in Seq(BlocksOf(R))
      /\ c.side \in SUBSET BlocksOf(R) /\ c.fresh \in Nat
  <2>1. n \in Nat \ {0} /\ n # 1
    BY LatestType
  <2>2. c.fin = n
    BY DEF BestIsFinal
  <2>3. /\ c.canon \in Seq(BlocksOf(R))
        /\ c.side \in SUBSET BlocksOf(R) /\ c.fresh \in Nat
    BY DEF ChainsOf
  <2>4. n > 1
    BY <2>1, LastTwo
  <2> QED
    BY <2>1, <2>2, <2>3, <2>4
<1>2. /\ low \in Seq(BlocksOf(R))
      /\ Len(low) = n - 1
      /\ \A i \in 1..n - 1 : low[i] = c.canon[i]
  BY <1>1
<1>3. CheckBestHashAndRevert(c, 1) =
        [canon |-> low, fin |-> n - 1, side |-> keep, fresh |-> c.fresh]
  <2>1. CheckBestHashAndRevert(c, 1) = BackendRevert(c, 1)
    BY <1>1 DEF CheckBestHashAndRevert
  <2>2. 1 < Len(c.canon) /\ ~(c.fin < n - 1)
    BY <1>1
  <2> QED
    BY <2>1, <2>2 DEF BackendRevert
<1>4. keep \in SUBSET BlocksOf(R) /\ keep \subseteq c.side
  BY <1>1
<1> HIDE DEF low, keep
<1> QED
  BY <1>1, <1>2, <1>3, <1>4 DEF ChainsOf, BestIsFinal

\* with_state(Commit, None, exec): the chain keeps its length, every block but
\* the latest, and the latest block's parent; the latest block gets the new
\* storage, and a hash that is its old one or an unused one.
LEMMA CommitEffect ==
  ASSUME NEW R, NEW c \in ChainsOf(R), Linked(c), BestIsFinal(c), NEW root \in R
  PROVE  LET d == WithStateCommit(c, root)
         IN  /\ d \in ChainsOf(R)
             /\ Len(d.canon) = Len(c.canon)
             /\ BestIsFinal(d)
             /\ \A i \in 1..Len(c.canon) - 1 : d.canon[i] = c.canon[i]
             /\ Latest(d).root = root
             /\ Latest(d).parent = Latest(c).parent
             /\ Latest(d).hash \in {Latest(c).hash, c.fresh}
             /\ Latest(d).hash < d.fresh
             /\ c.fresh <= d.fresh
             /\ Latest(d).hash = Latest(c).hash => root = Latest(c).root
<1> DEFINE n == Len(c.canon)
           b == Latest(c)
           new == Rehash(c, b, root)
           fresh == FreshAfter(c, b, root)
           d == WithStateCommit(c, root)
<1>0. /\ n \in Nat \ {0}
      /\ b \in BlocksOf(R)
      /\ b.hash < c.fresh
      /\ c.fresh \in Nat
      /\ c.side \in SUBSET BlocksOf(R)
      /\ c.canon \in Seq(BlocksOf(R))
      /\ b = c.canon[n]
  BY LatestType DEF ChainsOf, Latest
<1>1. /\ new \in BlocksOf(R)
      /\ new.root = root
      /\ new.parent = b.parent
      /\ new.hash \in {b.hash, c.fresh}
      /\ new.hash < fresh
      /\ fresh \in Nat
      /\ c.fresh <= fresh
      /\ new.hash = b.hash => root = b.root
  BY <1>0, RehashEffect
<1>2. \E low \in Seq(BlocksOf(R)), side \in SUBSET BlocksOf(R) :
        /\ Len(low) = n - 1
        /\ \A i \in 1..n - 1 : low[i] = c.canon[i]
        /\ d = [canon |-> Append(low, new), fin |-> n,
                side |-> side, fresh |-> fresh]
  <2>1. CASE n = 1
    <3> DEFINE side == IF root = b.root THEN c.side ELSE c.side \cup {b}
    <3>1. d = [canon |-> <<new>>, fin |-> 1, side |-> side, fresh |-> fresh]
      BY <2>1 DEF WithStateCommit, MutateGenesis
    <3>5. side \in SUBSET BlocksOf(R)
      BY <1>0
    <3>2. <<new>> = Append(<< >>, new)
      BY <1>1
    <3>3. << >> \in Seq(BlocksOf(R)) /\ Len(<< >>) = n - 1
      BY <2>1
    <3>4. 1..n - 1 = {}
      BY <2>1
    <3> HIDE DEF new, fresh, d, n, side
    <3> QED
      BY <3>1, <3>2, <3>3, <3>4, <3>5, <2>1
  <2>2. CASE n # 1
    <3> DEFINE r == CheckBestHashAndRevert(c, 1)
    <3>1. /\ r \in ChainsOf(R)
          /\ Len(r.canon) = n - 1
          /\ \A i \in 1..n - 1 : r.canon[i] = c.canon[i]
          /\ r.fresh = c.fresh
      BY <2>2, RevertOne
    <3>2. r.canon \in Seq(BlocksOf(R)) /\ r.side \in SUBSET BlocksOf(R)
      BY <3>1 DEF ChainsOf
    <3>3. Latest(r) # b
      <4>1. Latest(r) = c.canon[n - 1]
        <5>1. n - 1 \in 1..n - 1
          BY <1>0, <2>2, LastTwo
        <5> QED
          BY <3>1, <5>1 DEF Latest
      <4>2. c.canon[n - 1].hash # c.canon[n].hash
        <5>1. n - 1 \in 1..n /\ n \in 1..n /\ n - 1 # n
          BY <1>0, <2>2, LastTwo
        <5> QED
          BY <5>1 DEF Linked
      <4> QED
        BY <4>1, <4>2, <1>0
    <3>4. Rehash(r, b, root) = new /\ FreshAfter(r, b, root) = fresh
      BY <3>1 DEF Rehash, FreshAfter
    <3>5. d = MutateNormal(r, b, root)
      BY <2>2 DEF WithStateCommit
    <3> HIDE DEF r, b, new, fresh, d
    <3>6. MutateNormal(r, b, root) =
            [canon |-> Append(r.canon, new), fin |-> Len(r.canon) + 1,
             side |-> r.side, fresh |-> fresh]
      BY <3>3, <3>4 DEF MutateNormal
    <3>7. Len(r.canon) + 1 = n
      BY <3>1, <1>0
    <3> HIDE DEF n
    <3> QED
      BY <3>1, <3>2, <3>5, <3>6, <3>7
  <2> QED
    BY <2>1, <2>2
<1>3. PICK low \in Seq(BlocksOf(R)), side \in SUBSET BlocksOf(R) :
        /\ Len(low) = n - 1
        /\ \A i \in 1..n - 1 : low[i] = c.canon[i]
        /\ d = [canon |-> Append(low, new), fin |-> n,
                side |-> side, fresh |-> fresh]
  BY <1>2
<1> HIDE DEF b, new, fresh, d, n
<1>4. /\ Append(low, new) \in Seq(BlocksOf(R))
      /\ Len(Append(low, new)) = n
      /\ Append(low, new)[n] = new
      /\ \A i \in 1..n - 1 : Append(low, new)[i] = c.canon[i]
  <2>1. /\ new \in BlocksOf(R) /\ n \in Nat \ {0} /\ Len(low) = n - 1
        /\ \A i \in 1..n - 1 : low[i] = c.canon[i]
    BY <1>0, <1>1, <1>3
  <2> QED
    BY <2>1
<1>5. /\ d \in ChainsOf(R)
      /\ Len(d.canon) = n
      /\ BestIsFinal(d)
      /\ Latest(d) = new
      /\ d.fresh = fresh
      /\ \A i \in 1..n - 1 : d.canon[i] = c.canon[i]
  BY <1>0, <1>1, <1>3, <1>4 DEF ChainsOf, BestIsFinal, Latest
<1> QED
  BY <1>1, <1>5 DEF b, d, n

\* A commit that fails costs the latest block, unless it is the genesis block.
LEMMA CommitErrEffect ==
  ASSUME NEW R, NEW c \in ChainsOf(R), Linked(c), BestIsFinal(c)
  PROVE  LET d == WithStateCommitErr(c)
         IN  /\ d \in ChainsOf(R)
             /\ Len(d.canon) = IF Len(c.canon) = 1 THEN 1 ELSE Len(c.canon) - 1
             /\ \A i \in 1..Len(d.canon) : d.canon[i] = c.canon[i]
             /\ BestIsFinal(d)
             /\ d.fresh = c.fresh
<1>1. CASE Len(c.canon) = 1
  BY <1>1 DEF WithStateCommitErr
<1>2. CASE Len(c.canon) # 1
  BY <1>2, RevertOne DEF WithStateCommitErr
<1> QED
  BY <1>1, <1>2

\* A child of the best block is imported: the chain grows by exactly it.
LEMMA ImportEffect ==
  ASSUME NEW R, NEW c \in ChainsOf(R), Linked(c), NEW b \in BlocksOf(R),
         b.parent = Latest(c).hash
  PROVE  /\ ImportResult(c, b) = "Imported"
         /\ LET d == ImportFinal(c, b)
            IN  /\ d \in ChainsOf(R)
                /\ Len(d.canon) = Len(c.canon) + 1
                /\ \A i \in 1..Len(c.canon) : d.canon[i] = c.canon[i]
                /\ Latest(d) = b
                /\ BestIsFinal(d)
                /\ d.fresh = c.fresh
<1> DEFINE longer == Append(c.canon, b)
<1>1. ImportResult(c, b) = "Imported"
  BY DEF ImportResult
<1>2. /\ Len(c.canon) \in Nat \ {0} /\ c.canon \in Seq(BlocksOf(R))
      /\ c.side \in SUBSET BlocksOf(R) /\ c.fresh \in Nat
  BY LatestType DEF ChainsOf
<1>3. ImportFinal(c, b) = [canon |-> longer, fin |-> Len(c.canon) + 1,
                           side |-> c.side \ {b}, fresh |-> c.fresh]
  BY <1>1 DEF ImportFinal
<1>4. /\ longer \in Seq(BlocksOf(R))
      /\ Len(longer) = Len(c.canon) + 1
      /\ longer[Len(c.canon) + 1] = b
      /\ \A i \in 1..Len(c.canon) : longer[i] = c.canon[i]
  BY <1>2
<1> HIDE DEF longer
<1> QED
  BY <1>1, <1>2, <1>3, <1>4 DEF ChainsOf, BestIsFinal, Latest

\* A chain that agrees with a linked one below its own tip, and whose tip has
\* the right parent and the old hash or an unused one, is linked.
LEMMA LinkedAgain ==
  ASSUME NEW R, NEW c \in ChainsOf(R), NEW d \in ChainsOf(R), Linked(c),
         Len(d.canon) = Len(c.canon),
         \A i \in 1..Len(c.canon) - 1 : d.canon[i] = c.canon[i],
         Latest(d).parent = Latest(c).parent,
         Latest(d).hash \in {Latest(c).hash, c.fresh},
         Latest(d).hash < d.fresh,
         c.fresh <= d.fresh
  PROVE  Linked(d)
<1> DEFINE n == Len(c.canon)
<1>1. /\ n \in Nat \ {0} /\ c.fresh \in Nat /\ d.fresh \in Nat
      /\ \A i \in 1..n : c.canon[i].hash \in Nat /\ d.canon[i].hash \in Nat
      /\ c.canon[n] = Latest(c) /\ d.canon[n] = Latest(d)
  <2>1. n \in Nat \ {0} /\ \A i \in 1..n : c.canon[i] \in BlocksOf(R)
    BY LatestType
  <2>2. c.fresh \in Nat /\ d.fresh \in Nat /\ d.canon \in Seq(BlocksOf(R))
    BY DEF ChainsOf
  <2>3. \A i \in 1..n : d.canon[i] \in BlocksOf(R)
    BY <2>2
  <2> QED
    BY <2>1, <2>2, <2>3 DEF BlocksOf, Latest
<1>2. \A i \in 1..n : d.canon[i].hash < d.fresh
  <2>1. \A i \in 1..n - 1 : d.canon[i].hash < c.fresh
    BY <1>1 DEF Linked
  <2>2. d.canon[n].hash < d.fresh
    BY <1>1
  <2>3. ASSUME NEW i \in 1..n - 1 PROVE d.canon[i].hash < d.fresh
    <3>1. i \in 1..n
      BY <1>1
    <3> QED
      BY <3>1, <2>1, <1>1
  <2>4. \A i \in 1..n : i = n \/ i \in 1..n - 1
    BY <1>1
  <2> QED
    BY <2>2, <2>3, <2>4
<1>3. ASSUME NEW i \in 1..n, NEW j \in 1..n, d.canon[i].hash = d.canon[j].hash
      PROVE  i = j
  <2>1. ASSUME NEW k \in 1..n - 1 PROVE d.canon[k].hash # d.canon[n].hash
    <3>1. k \in 1..n /\ n \in 1..n /\ k # n
      BY <1>1
    <3>2. c.canon[k].hash # c.canon[n].hash /\ c.canon[k].hash < c.fresh
      BY <3>1 DEF Linked
    <3>3. d.canon[k] = c.canon[k]
      OBVIOUS
    <3>4. d.canon[n].hash \in {c.canon[n].hash, c.fresh}
      BY <1>1
    <3>5. c.canon[k].hash \in Nat /\ c.fresh \in Nat
      BY <3>1, <1>1
    <3> QED
      BY <3>2, <3>3, <3>4, <3>5
  <2>2. CASE i < n /\ j < n
    <3>1. i \in 1..n - 1 /\ j \in 1..n - 1
      BY <2>2, <1>1
    <3>2. c.canon[i].hash = c.canon[j].hash
      BY <3>1, <1>3
    <3> QED
      BY <3>2 DEF Linked
  <2>3. CASE i = n \/ j = n
    BY <2>1, <2>3, <1>1, <1>3
  <2> QED
    BY <2>2, <2>3, <1>1
<1>4. ASSUME NEW i \in 2..n PROVE d.canon[i].parent = d.canon[i - 1].hash
  <2>1. c.canon[i].parent = c.canon[i - 1].hash
    BY DEF Linked
  <2>2. d.canon[i - 1] = c.canon[i - 1]
    BY <1>1
  <2>3. d.canon[i].parent = c.canon[i].parent
    <3>1. CASE i = n
      BY <3>1, <1>1
    <3>2. CASE i # n
      <4>1. i \in 1..n - 1
        BY <3>2, <1>1
      <4> QED
        BY <4>1
    <3> QED
      BY <3>1, <3>2
  <2> QED
    BY <2>1, <2>2, <2>3
<1> QED
  BY <1>1, <1>2, <1>3, <1>4 DEF Linked

\* A chain that is linked stays linked when it grows by a child of its best
\* block that has an unused hash.
LEMMA LinkedLonger ==
  ASSUME NEW R, NEW c \in ChainsOf(R), NEW d \in ChainsOf(R), Linked(c),
         Len(d.canon) = Len(c.canon) + 1,
         \A i \in 1..Len(c.canon) : d.canon[i] = c.canon[i],
         Latest(d).parent = Latest(c).hash,
         Latest(d).hash \notin CanonHashes(c),
         Latest(d).hash < d.fresh,
         c.fresh <= d.fresh
  PROVE  Linked(d)
<1> DEFINE n == Len(c.canon)
<1>1. /\ n \in Nat \ {0} /\ c.fresh \in Nat /\ d.fresh \in Nat
      /\ \A i \in 1..n : c.canon[i].hash \in Nat
      /\ c.canon[n] = Latest(c) /\ d.canon[n + 1] = Latest(d)
  BY LatestType DEF ChainsOf, BlocksOf, Latest
<1>2. \A i \in 1..n + 1 : d.canon[i].hash < d.fresh
  <2>1. \A i \in 1..n : d.canon[i].hash < c.fresh
    BY <1>1 DEF Linked
  <2>2. d.canon[n + 1].hash < d.fresh
    BY <1>1
  <2>3. ASSUME NEW i \in 1..n PROVE d.canon[i].hash < d.fresh
    <3>1. d.canon[i].hash \in Nat
      BY <1>1
    <3> QED
      BY <2>1, <3>1, <1>1
  <2>4. \A i \in 1..n + 1 : i \in 1..n \/ i = n + 1
    BY <1>1
  <2> QED
    BY <2>2, <2>3, <2>4
<1>3. ASSUME NEW i \in 1..n + 1, NEW j \in 1..n + 1, d.canon[i].hash = d.canon[j].hash
      PROVE  i = j
  <2>1. \A k \in 1..n : d.canon[k].hash # d.canon[n + 1].hash
    BY <1>1 DEF CanonHashes
  <2>2. CASE i <= n /\ j <= n
    <3>1. i \in 1..n /\ j \in 1..n
      BY <2>2, <1>1
    <3>2. c.canon[i].hash = c.canon[j].hash
      BY <3>1, <1>3
    <3> QED
      BY <3>1, <3>2 DEF Linked
  <2>3. CASE i = n + 1 \/ j = n + 1
    BY <2>1, <2>3, <1>1, <1>3
  <2> QED
    BY <2>2, <2>3, <1>1
<1>4. ASSUME NEW i \in 2..n + 1 PROVE d.canon[i].parent = d.canon[i - 1].hash
  <2>1. i - 1 \in 1..n
    BY <1>1
  <2>2. d.canon[i - 1] = c.canon[i - 1]
    BY <2>1
  <2>3. CASE i = n + 1
    <3>1. i - 1 = n
      BY <2>3, <1>1
    <3> QED
      BY <2>2, <2>3, <3>1, <1>1
  <2>4. CASE i # n + 1
    <3>1. i \in 1..n /\ i \in 2..n
      BY <2>4, <1>1
    <3>2. c.canon[i].parent = c.canon[i - 1].hash
      BY <3>1 DEF Linked
    <3> QED
      BY <2>2, <3>1, <3>2
  <2> QED
    BY <2>3, <2>4
<1> QED
  BY <1>1, <1>2, <1>3, <1>4 DEF Linked

\* A chain that is a beginning of a linked one is linked.
LEMMA LinkedShorter ==
  ASSUME NEW R, NEW c \in ChainsOf(R), NEW d \in ChainsOf(R), Linked(c),
         Len(d.canon) > 0,
         Len(d.canon) <= Len(c.canon),
         \A i \in 1..Len(d.canon) : d.canon[i] = c.canon[i],
         c.fresh <= d.fresh
  PROVE  Linked(d)
<1>1. /\ Len(c.canon) \in Nat /\ Len(d.canon) \in Nat
      /\ c.fresh \in Nat /\ d.fresh \in Nat
  BY DEF ChainsOf
<1> DEFINE n == Len(d.canon)
<1>2. \A i \in 1..n : i \in 1..Len(c.canon)
  BY <1>1
<1>3. ASSUME NEW i \in 1..n PROVE d.canon[i].hash < d.fresh
  <2>1. c.canon[i].hash < c.fresh
    BY <1>2 DEF Linked
  <2>2. c.canon[i] \in BlocksOf(R)
    BY <1>2, LatestType
  <2>3. c.canon[i].hash \in Nat
    BY <2>2 DEF BlocksOf
  <2> QED
    BY <2>1, <2>3, <1>1
<1>4. ASSUME NEW i \in 1..n, NEW j \in 1..n, d.canon[i].hash = d.canon[j].hash
      PROVE  i = j
  <2>1. c.canon[i].hash = c.canon[j].hash
    BY <1>4
  <2> QED
    BY <2>1, <1>2 DEF Linked
<1>5. ASSUME NEW i \in 2..n PROVE d.canon[i].parent = d.canon[i - 1].hash
  <2>1. i \in 1..n /\ i - 1 \in 1..n /\ i \in 2..Len(c.canon)
    BY <1>1
  <2>2. c.canon[i].parent = c.canon[i - 1].hash
    BY <2>1 DEF Linked
  <2>3. d.canon[i] = c.canon[i] /\ d.canon[i - 1] = c.canon[i - 1]
    BY <2>1
  <2> QED
    BY <2>2, <2>3
<1> QED
  BY <1>3, <1>4, <1>5 DEF Linked

-----------------------------------------------------------------------------
\* A chain as every builder leaves it behind, and the hashes and storages on it.
Intact(R) == { c \in ChainsOf(R) : Linked(c) /\ BestIsFinal(c) }

\* The basic facts of an intact chain.
LEMMA IntactFacts ==
  ASSUME NEW R, NEW c \in Intact(R)
  PROVE  /\ c \in ChainsOf(R) /\ Linked(c) /\ BestIsFinal(c)
         /\ Len(c.canon) \in Nat \ {0}
         /\ c.fresh \in Nat
         /\ Latest(c) \in BlocksOf(R)
         /\ Latest(c) = c.canon[Len(c.canon)]
         /\ Latest(c).root \in R
         /\ \A i \in 1..Len(c.canon) : c.canon[i] \in BlocksOf(R)
         /\ \A h \in CanonHashes(c) : h \in Nat /\ h < c.fresh
<1>1. c \in ChainsOf(R) /\ Linked(c) /\ BestIsFinal(c)
  BY DEF Intact
<1>2. /\ Len(c.canon) \in Nat \ {0}
      /\ Latest(c) \in BlocksOf(R)
      /\ \A i \in 1..Len(c.canon) : c.canon[i] \in BlocksOf(R)
  BY <1>1, LatestType
<1>3. c.fresh \in Nat
  BY <1>1 DEF ChainsOf
<1>4. \A i \in 1..Len(c.canon) : c.canon[i].hash \in Nat /\ c.canon[i].hash < c.fresh
  BY <1>1, <1>2 DEF BlocksOf, Linked
<1> QED
  BY <1>1, <1>2, <1>3, <1>4 DEF CanonHashes, BlocksOf, Latest

\* A new chain is intact.
LEMMA NewChainIntact ==
  ASSUME NEW R, NEW root \in R
  PROVE  /\ NewChain(root) \in Intact(R)
         /\ Len(NewChain(root).canon) = 1
         /\ NewChain(root).canon[1].root = root
         /\ NewChain(root).fresh = 2
<1> DEFINE g == [hash |-> 1, parent |-> 0, root |-> root]
           c == NewChain(root)
<1>1. c = [canon |-> <<g>>, fin |-> 1, side |-> {}, fresh |-> 2]
  BY DEF NewChain
<1>2. g \in BlocksOf(R) /\ g.hash = 1 /\ g.root = root
  BY DEF BlocksOf
<1>3. <<g>> \in Seq(BlocksOf(R)) /\ Len(<<g>>) = 1 /\ <<g>>[1] = g
  BY <1>2
<1> HIDE DEF g, c
<1>4. c.canon = <<g>> /\ c.fin = 1 /\ c.fresh = 2 /\ c \in ChainsOf(R)
  BY <1>1, <1>3 DEF ChainsOf
<1>5. Linked(c) /\ BestIsFinal(c)
  BY <1>2, <1>3, <1>4 DEF Linked, BestIsFinal
<1> QED
  BY <1>2, <1>3, <1>4, <1>5 DEF Intact, c

\* A chain with the same canonical blocks, as final, and hashes still unused.
LEMMA SameCanonIntact ==
  ASSUME NEW R, NEW c \in Intact(R), NEW d \in ChainsOf(R),
         d.canon = c.canon, d.fin = c.fin, c.fresh <= d.fresh
  PROVE  /\ d \in Intact(R)
         /\ Latest(d) = Latest(c)
         /\ CanonHashes(d) = CanonHashes(c)
<1>1. Linked(d)
  BY IntactFacts, LinkedShorter
<1>2. BestIsFinal(d)
  BY IntactFacts DEF BestIsFinal
<1> QED
  BY <1>1, <1>2 DEF Intact, Latest, CanonHashes

\* A commit leaves an intact chain intact; at most the unused hash is new on it.
LEMMA CommitIntact ==
  ASSUME NEW R, NEW c \in Intact(R), NEW root \in R
  PROVE  LET d == WithStateCommit(c, root)
         IN  /\ d \in Intact(R)
             /\ Len(d.canon) = Len(c.canon)
             /\ \A i \in 1..Len(c.canon) - 1 : d.canon[i] = c.canon[i]
             /\ Latest(d).root = root
             /\ Latest(d).parent = Latest(c).parent
             /\ c.fresh <= d.fresh
             /\ CanonHashes(d) \subseteq CanonHashes(c) \cup {c.fresh}
             /\ Latest(d).hash \in {Latest(c).hash, c.fresh}
             /\ Latest(d).hash = Latest(c).hash => root = Latest(c).root
<1> DEFINE d == WithStateCommit(c, root)
           n == Len(c.canon)
<1>1. /\ d \in ChainsOf(R)
      /\ Len(d.canon) = n
      /\ BestIsFinal(d)
      /\ \A i \in 1..n - 1 : d.canon[i] = c.canon[i]
      /\ Latest(d).root = root
      /\ Latest(d).parent = Latest(c).parent
      /\ Latest(d).hash \in {Latest(c).hash, c.fresh}
      /\ Latest(d).hash < d.fresh
      /\ c.fresh <= d.fresh
      /\ Latest(d).hash = Latest(c).hash => root = Latest(c).root
  BY IntactFacts, CommitEffect
<1> HIDE DEF d
<1>2. Linked(d)
  BY <1>1, IntactFacts, LinkedAgain
<1>3. ASSUME NEW i \in 1..n PROVE d.canon[i].hash \in CanonHashes(c) \cup {c.fresh}
  <2>1. n \in Nat \ {0} /\ Latest(c) = c.canon[n] /\ Latest(d) = d.canon[n]
    BY <1>1, IntactFacts DEF Latest
  <2>2. CASE i = n
    BY <2>1, <2>2, <1>1 DEF CanonHashes
  <2>3. CASE i # n
    <3>1. i \in 1..n - 1
      BY <2>1, <2>3
    <3> QED
      BY <3>1, <1>1 DEF CanonHashes
  <2> QED
    BY <2>2, <2>3
<1>4. CanonHashes(d) \subseteq CanonHashes(c) \cup {c.fresh}
  BY <1>1, <1>3 DEF CanonHashes
<1> QED
  BY <1>1, <1>2, <1>4 DEF Intact, d

\* A commit that fails leaves an intact chain, at most one block shorter.
LEMMA CommitErrIntact ==
  ASSUME NEW R, NEW c \in Intact(R)
  PROVE  LET d == WithStateCommitErr(c)
         IN  /\ d \in Intact(R)
             /\ Len(d.canon) = IF Len(c.canon) = 1 THEN 1 ELSE Len(c.canon) - 1
             /\ \A i \in 1..Len(d.canon) : i \in 1..Len(c.canon) /\ d.canon[i] = c.canon[i]
             /\ d.fresh = c.fresh
             /\ CanonHashes(d) \subseteq CanonHashes(c)
<1> DEFINE d == WithStateCommitErr(c)
<1>1. /\ d \in ChainsOf(R)
      /\ Len(d.canon) = IF Len(c.canon) = 1 THEN 1 ELSE Len(c.canon) - 1
      /\ \A i \in 1..Len(d.canon) : d.canon[i] = c.canon[i]
      /\ BestIsFinal(d)
      /\ d.fresh = c.fresh
  BY IntactFacts, CommitErrEffect
<1> HIDE DEF d
<1>2. Len(c.canon) \in Nat \ {0} /\ c.fresh \in Nat
  BY IntactFacts
<1>3. /\ Len(d.canon) > 0 /\ Len(d.canon) <= Len(c.canon)
      /\ \A i \in 1..Len(d.canon) : i \in 1..Len(c.canon)
  <2> DEFINE n == Len(c.canon)
             m == Len(d.canon)
  <2>1. n \in Nat \ {0} /\ (m = IF n = 1 THEN 1 ELSE n - 1)
    BY <1>1, <1>2
  <2> HIDE DEF n, m
  <2>2. m > 0 /\ m <= n /\ \A i \in 1..m : i \in 1..n
    BY <2>1
  <2> QED
    BY <2>2 DEF n, m
<1>4. Linked(d)
  BY <1>1, <1>2, <1>3, IntactFacts, LinkedShorter
<1>5. CanonHashes(d) \subseteq CanonHashes(c)
  BY <1>1, <1>3 DEF CanonHashes
<1> QED
  BY <1>1, <1>3, <1>4, <1>5 DEF Intact, d

\* A child of the best block that is not on an intact chain extends it.
LEMMA ImportIntact ==
  ASSUME NEW R, NEW c \in Intact(R), NEW b \in BlocksOf(R),
         b.parent = Latest(c).hash, b.hash \notin CanonHashes(c), b.hash < c.fresh
  PROVE  LET d == ImportFinal(c, b)
         IN  /\ d \in Intact(R)
             /\ Len(d.canon) = Len(c.canon) + 1
             /\ \A i \in 1..Len(c.canon) : d.canon[i] = c.canon[i]
             /\ Latest(d) = b
             /\ d.canon[Len(c.canon) + 1] = b
             /\ d.fresh = c.fresh
             /\ CanonHashes(d) = CanonHashes(c) \cup {b.hash}
<1> DEFINE d == ImportFinal(c, b)
           n == Len(c.canon)
<1>1. /\ d \in ChainsOf(R)
      /\ Len(d.canon) = n + 1
      /\ \A i \in 1..n : d.canon[i] = c.canon[i]
      /\ Latest(d) = b
      /\ BestIsFinal(d)
      /\ d.fresh = c.fresh
  BY IntactFacts, ImportEffect
<1> HIDE DEF d
<1>2. n \in Nat \ {0} /\ c.fresh \in Nat /\ d.canon[n + 1] = b
  BY <1>1, IntactFacts DEF Latest
<1>3. Linked(d)
  BY <1>1, <1>2, IntactFacts, LinkedLonger
<1>4. CanonHashes(d) = CanonHashes(c) \cup {b.hash}
  <2>1. \A i \in 1..n + 1 : i \in 1..n \/ i = n + 1
    BY <1>2
  <2>2. \A i \in 1..n : i \in 1..n + 1
    BY <1>2
  <2>3. n + 1 \in 1..n + 1
    BY <1>2
  <2>4. CanonHashes(d) = { d.canon[i].hash : i \in 1..n + 1 }
        /\ CanonHashes(c) = { c.canon[i].hash : i \in 1..n }
    BY <1>1 DEF CanonHashes
  <2>5. CanonHashes(d) \subseteq CanonHashes(c) \cup {b.hash}
    BY <2>1, <2>4, <1>1, <1>2
  <2>6. CanonHashes(c) \subseteq CanonHashes(d)
    BY <2>2, <2>4, <1>1
  <2>7. b.hash \in CanonHashes(d)
    BY <2>3, <2>4, <1>2
  <2> QED
    BY <2>5, <2>6, <2>7
<1> QED
  BY <1>1, <1>2, <1>3, <1>4 DEF Intact, d

\* What is no child of the best block is not imported.
LEMMA NoImport ==
  ASSUME NEW c, NEW b, b.parent # Latest(c).hash
  PROVE  ImportFinal(c, b) = c
BY DEF ImportFinal, ImportResult
=============================================================================

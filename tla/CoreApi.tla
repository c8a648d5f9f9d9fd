------------------------------ MODULE CoreApi ------------------------------
(***************************************************************************)
(* core::Builder (core/src/builder/core.rs) as its own users may call it:  *)
(* without the discipline of the builders on top of it (one pending block, *)
(* always final, always the latest block).  A user may hold several built  *)
(* blocks, import them as final, as best or aside on any block, and mutate *)
(* any block the client knows by with_state(Commit, at) or                 *)
(* commit_storage_changes(changes, at).                                    *)
(*                                                                         *)
(* External, from the Substrate client and backend: a block becomes best   *)
(* or final only if the finalized block is below it; the backend sets a    *)
(* block as final only on the finalized block, or on any if that is the    *)
(* genesis block, while the client finalizes the parents of what it        *)
(* imports as final first; a genesis block has no parent to go through; a  *)
(* block that is not above the finalized one is not imported.  Once a      *)
(* block is reverted its number finds nothing, its hash may still find the *)
(* header in a cache.                                                      *)
(*                                                                         *)
(* Backend::revert is taken to go down the best chain, as in Core: its     *)
(* other behaviour, when a block as high as the best one but with another  *)
(* parent was imported last, is not modelled, and blocks aside that it     *)
(* would forget stay known.  A block that was reverted is not named in a   *)
(* later call.  A chain with a gap ends the run.  A definition with an     *)
(* underscore in its name is a faulty variant of the one that follows it.  *)
(***************************************************************************)
EXTENDS Core, FiniteSets

CONSTANTS
  Writes,    \* what mutations and blocks write
  MaxHash,   \* bound: hashes a run may use
  MaxBuilt   \* bound: blocks built and not imported

ASSUME CoreApiAssumption == MaxHash \in Nat /\ MaxBuilt \in Nat

VARIABLES
  chain,  \* the client's and the backend's chain
  built,  \* blocks that build_block returned and the user still has
  call,   \* the last call, the number of the block it was about, was it the latest?
  gap     \* has a block been set whose parent is gone?

apiVars == <<chain, built, call, gap>>

ApiInit ==
  /\ chain = NewChain({})
  /\ built = {}
  /\ call = [name |-> "new", number |-> 0, latest |-> TRUE]
  /\ gap = FALSE

-----------------------------------------------------------------------------
\* The blocks that the client knows.
Known(c) == { c.canon[i] : i \in 1..Len(c.canon) } \cup c.side

\* Some canonical blocks and then blocks aside, in any order.
Branches(c, j) ==
  { SubSeq(c.canon, 1, j) \o s :
      s \in UNION { [1..k -> c.side] : k \in 0..Cardinality(c.side) } }

\* The ways from a genesis block, the present or a replaced one, up to a block
\* that the client knows.
Lines(c) ==
  { p \in UNION { Branches(c, j) : j \in 0..Len(c.canon) } :
      /\ p # << >>
      /\ p[1].parent = 0
      /\ \A i \in 2..Len(p) : p[i].parent = p[i - 1].hash }

Tip(p)   == p[Len(p)]
Below(p) == SubSeq(p, 1, Len(p) - 1)

\* The finalized block is in line p.
OnFinal(c, p) == c.fin <= Len(p) /\ \A i \in 1..c.fin : p[i] = c.canon[i]

\* A block on line q, or a genesis block if q is empty, can be set as final.
Finalizable(c, q) ==
  IF q = << >>
  THEN c.fin = 1
  ELSE Tip(q) \in Known(c) /\ OnFinal(c, q) /\ c.fin \in {1, Len(q)}

\* The chain once canon are the canonical blocks: the others stay known.
Reorganised(c, canon, fin, fresh) ==
  [ canon |-> canon,
    fin   |-> fin,
    side  |-> Known(c) \ { canon[i] : i \in 1..Len(canon) },
    fresh |-> fresh ]

\* mutate_genesis and mutate_normal with commit_operation: block b with another
\* state root is set as final on line q.
SetFinal(c, q, b, root) ==
  Reorganised(c, Append(q, Rehash(c, b, root)), Len(q) + 1, FreshAfter(c, b, root))

\* The call is about the block that line p leads to.
Called(name, p) ==
  call' = [name |-> name, number |-> Len(p) - 1, latest |-> p = chain.canon]

-----------------------------------------------------------------------------
BuildBlock(w) ==
  /\ chain.fresh < MaxHash
  /\ Cardinality(built) < MaxBuilt
  /\ built' = built \cup {Propose(chain, Latest(chain).root \cup {w})}
  /\ chain' = Proposed(chain)
  /\ Called("build_block", chain.canon)
  /\ UNCHANGED gap

\* import_block of b on line q: aside, or as best or final with the canonical
\* chain going over to q.
ImportBlock(b, q, mode) ==
  /\ b.parent = Tip(q).hash
  /\ chain.fin <= Len(q)
  /\ \/ mode = "side"  /\ chain' = ImportSide(chain, b)
     \/ mode = "best"  /\ OnFinal(chain, q)
                       /\ chain' = Reorganised(chain, Append(q, b), chain.fin, chain.fresh)
     \/ mode = "final" /\ OnFinal(chain, q)
                       /\ chain' = Reorganised(chain, Append(q, b), Len(q) + 1, chain.fresh)
  /\ built' = built \ {b}
  /\ Called("import_block", q)
  /\ UNCHANGED gap

\* import_block returning Err, or Ok though the client did not import.
ImportRefused(b) ==
  /\ built' = built \ {b}
  /\ Called("import_block", chain.canon)
  /\ UNCHANGED <<chain, gap>>

\* What with_state(Commit, at) has reverted when it mutates the tip of p.
Unfinalized_Number(p) == CheckBestHashAndRevert(chain, Len(p) - 1)

Unfinalized(p) == IF Len(p) = 1 THEN chain ELSE CheckBestHashAndRevert(chain, 1)

\* with_state(Commit, at) for the tip of p, latest, older or aside.
WithState(p, w) ==
  LET c == Unfinalized(p)
  IN  /\ chain.fresh < MaxHash
      /\ Finalizable(c, Below(p))
      /\ chain' = SetFinal(c, Below(p), Tip(p), Tip(p).root \cup {w})
      /\ Called("with_state", p)
      /\ UNCHANGED <<built, gap>>

\* with_state(Commit, at) returning Err after the revert: the block may not be
\* finalized, or another step fails.
WithStateErr(p) ==
  /\ chain' = Unfinalized(p)
  /\ Called("with_state", p)
  /\ UNCHANGED <<built, gap>>

\* What commit_storage_changes has reverted when it looks the header of the tip
\* of p up again: as many blocks as the number of that block.
RevertedFor(p) == CheckBestHashAndRevert(chain, Len(p) - 1)

\* commit_storage_changes returning Ok; changes write w to the state of the tip
\* of p, which is named by its hash unless it is still there.  When its parent
\* is gone and only the genesis block finalized, the block is set all the same.
CommitChanges(p, w) ==
  LET c    == RevertedFor(p)
      root == Tip(p).root \cup {w}
      lost == Len(p) > 1 /\ Tip(Below(p)) \notin Known(c)
  IN  /\ chain.fresh < MaxHash
      /\ IF lost
         THEN c.fin = 1 /\ chain' = SetFinal(c, c.canon, Tip(p), root)
         ELSE Finalizable(c, Below(p)) /\ chain' = SetFinal(c, Below(p), Tip(p), root)
      /\ gap' = lost
      /\ Called("commit_storage_changes", p)
      /\ UNCHANGED built

\* commit_storage_changes returning Err after the revert: the block is named by
\* its number and gone, the cache has dropped its header, or it may not be
\* finalized.
CommitChangesErr(p) ==
  /\ chain' = RevertedFor(p)
  /\ Called("commit_storage_changes", p)
  /\ UNCHANGED <<built, gap>>

Mutation(p) ==
  \/ \E w \in Writes : WithState(p, w) \/ CommitChanges(p, w)
  \/ WithStateErr(p)
  \/ CommitChangesErr(p)

ApiNext ==
  /\ ~gap
  /\ \/ \E w \in Writes : BuildBlock(w)
     \/ \E b \in built : ImportRefused(b)
     \/ \E p \in Lines(chain) :
          \/ \E b \in built, mode \in {"final", "best", "side"} : ImportBlock(b, p, mode)
          \/ Mutation(p)

ApiSpec == ApiInit /\ [][ApiNext]_apiVars

-----------------------------------------------------------------------------
\* Type invariant.
CoreApiTypeOK ==
  /\ chain \in ChainsOf(SUBSET Writes)
  /\ chain.fin \in 1..Len(chain.canon)
  /\ built \subseteq BlocksOf(SUBSET Writes)
  /\ call.number \in Nat
  /\ gap \in BOOLEAN

\* The blocks below the finalized one stay as they are, and final.
FinalizedKept == \A i \in 1..chain.fin - 1 :
                   i <= chain'.fin /\ chain'.canon[i] = chain.canon[i]

\* core.rs check_best_hash_and_revert takes a number of blocks.  Whatever block
\* a call imports, as best, final or aside, or mutates, under final or other
\* blocks, and whether it fails or not, the blocks below the finalized one stay,
\* except in commit_storage_changes for a block above the first when the best
\* block is final.
OnlyDeepCommitsLoseFinal ==
  [][ \/ FinalizedKept
      \/ /\ call'.name = "commit_storage_changes" /\ call'.number > 1
         /\ BestIsFinal(chain) ]_apiVars

\* The blocks below the latest one stay as they are.
PastKept == \A i \in 1..Len(chain.canon) - 1 :
              i <= Len(chain'.canon) /\ chain'.canon[i] = chain.canon[i]

\* README.md:23 promises "Mutating the latest state of a given chain": a
\* mutation of the latest block leaves the blocks below it alone.
LatestMutationKeepsPast ==
  [][ call'.name \in {"with_state", "commit_storage_changes"} /\ call'.latest
        => PastKept ]_apiVars
=============================================================================

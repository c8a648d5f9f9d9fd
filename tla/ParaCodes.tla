----------------------------- MODULE ParaCodes -----------------------------
(***************************************************************************)
(* The validation code that onboard_para (core/src/builder/relay_chain.rs) *)
(* writes into the storage of the relay chain: the current code hash of a  *)
(* parachain, the code of a hash with a count of its references, and the   *)
(* hash a parachain had before.  A parachain may be onboarded again, in    *)
(* the same block too, and parachains may share a code.  A code stands for *)
(* its hash.  Module RelayPara has the rest of onboard_para and of the     *)
(* relay chain; here the chain is the storage of its blocks.               *)
(*                                                                         *)
(* A definition with an underscore in its name is a faulty variant of the  *)
(* one that follows it.                                                    *)
(***************************************************************************)
EXTENDS Naturals, SequencesExt

CONSTANTS
  ParaIds,    \* parachain ids, which are numbers
  Codes,      \* validation codes
  NoCode,     \* an Option that is None
  MaxBlocks,  \* bound: blocks
  MaxCalls    \* bound: calls of onboard_para

ASSUME ParaIdsAssumption == ParaIds \subseteq Nat /\ NoCode \notin Codes
ASSUME CodeBoundsAssumption == {MaxBlocks, MaxCalls} \subseteq Nat

Numbers == 0..MaxBlocks

Storages ==
  [ parachains : Seq(ParaIds),                            \* Parachains
    current    : [ParaIds -> Codes \cup {NoCode}],        \* CurrentCodeHash
    code       : SUBSET Codes,                            \* CodeByHash
    refs       : [Codes -> Nat],                          \* CodeByHashRefs
    past       : [ParaIds \X Numbers -> Codes \cup {NoCode}] ]  \* PastCodeHash

VARIABLES
  blocks,     \* the storage of each block, genesis first
  onboarded,  \* RelaychainBuilder.parachains
  calls       \* calls of onboard_para so far

codesVars == <<blocks, onboarded, calls>>

Number == Len(blocks) - 1
LatestStorage == blocks[Len(blocks)]

CodesInit ==
  /\ blocks = << [ parachains |-> << >>, current |-> [id \in ParaIds |-> NoCode], code |-> {},
                   refs |-> [c \in Codes |-> 0], past |-> [key \in ParaIds \X Numbers |-> NoCode] ] >>
  /\ onboarded = << >>
  /\ calls = 0

\* Vec::sort
Sorted(seq) ==
  LET from == CHOOSE p \in Bijection(DOMAIN seq, DOMAIN seq) :
                \A i, j \in DOMAIN seq : i < j => seq[p[i]] <= seq[p[j]]
  IN  [i \in DOMAIN seq |-> seq[from[i]]]

\* The storage with id in Parachains, which stays sorted.
Registered(s, id) ==
  IF Contains(s.parachains, id) THEN s
  ELSE [s EXCEPT !.parachains = Sorted(Append(@, id))]

Retired_NewCode(s, id, code) ==
  IF s.current[id] = NoCode THEN s
  ELSE [s EXCEPT !.past[<<id, Number>>] = code]

\* The storage with the current code of id, if it has one, as its past code,
\* even if it stays the current code.
Retired(s, id, code) ==
  IF s.current[id] = NoCode THEN s
  ELSE [s EXCEPT !.past[<<id, Number>>] = s.current[id]]

Stored_Uncounted(s, id, code) ==
  [s EXCEPT !.current[id] = code, !.code = @ \cup {code},
            !.refs[code] = IF @ = 0 THEN @ ELSE @ + 1]

\* The storage with a new current code; the first reference is counted.
Stored(s, id, code) ==
  IF s.current[id] = code THEN s
  ELSE [s EXCEPT !.current[id] = code, !.code = @ \cup {code},
                 !.refs[code] = IF @ = 0 THEN 1 ELSE @]

\* onboard_para; its heads and lifecycle are left out.
OnboardPara(id, code) ==
  /\ calls < MaxCalls
  /\ blocks' = [blocks EXCEPT ![Len(blocks)] = Stored(Retired(Registered(@, id), id, code), id, code)]
  /\ onboarded' = Append(onboarded, id)
  /\ calls' = calls + 1

\* onboard_para, when the commit fails: the latest block is lost.
OnboardParaErr ==
  /\ calls < MaxCalls
  /\ blocks' = IF Len(blocks) = 1 THEN blocks ELSE Front(blocks)
  /\ calls' = calls + 1
  /\ UNCHANGED onboarded

\* build_block and import_block.
NextBlock ==
  /\ Number < MaxBlocks
  /\ blocks' = Append(blocks, LatestStorage)
  /\ UNCHANGED <<onboarded, calls>>

CodesNext ==
  \/ \E id \in ParaIds, code \in Codes : OnboardPara(id, code)
  \/ OnboardParaErr
  \/ NextBlock

CodesSpec == CodesInit /\ [][CodesNext]_codesVars

-----------------------------------------------------------------------------
\* Type invariant.
CodesTypeOK ==
  /\ \A n \in DOMAIN blocks :
       /\ blocks[n].parachains \in Seq(ParaIds)
       /\ blocks[n].current \in [ParaIds -> Codes \cup {NoCode}]
       /\ blocks[n].code \subseteq Codes
       /\ blocks[n].refs \in [Codes -> Nat]
       /\ blocks[n].past \in [ParaIds \X Numbers -> Codes \cup {NoCode}]
  /\ Len(blocks) \in 1..MaxBlocks + 1
  /\ onboarded \in Seq(ParaIds)
  /\ calls \in Nat

Referenced(s, id) ==
  { c \in Codes : c = s.current[id] \/ \E n \in Numbers : c = s.past[<<id, n>>] }

\* However often parachains are onboarded, with shared codes or changed ones,
\* and whatever block a failed commit loses: in the state of every block each
\* code hash a parachain has or had leads to a code, codes that are stored are
\* counted, and exactly the registered parachains have one.
CodesResolvable ==
  \A n \in DOMAIN blocks :
    LET s == blocks[n]
    IN  /\ \A id \in ParaIds : Referenced(s, id) \subseteq s.code
        /\ s.code = { c \in Codes : s.refs[c] > 0 }
        /\ { id \in ParaIds : s.current[id] # NoCode } = ToSet(s.parachains)
        /\ IsInjective(s.parachains)

\* A call of onboard_para or a new block drops no code from what a parachain
\* has or had, but for the one it had before the last change in this block.
CodeHistoryKept ==
  [][Len(blocks') >= Len(blocks) =>
       \A id \in ParaIds :
         Referenced(LatestStorage, id) \ {LatestStorage.past[<<id, Number>>]}
           \subseteq Referenced(blocks'[Len(blocks')], id)]_codesVars
=============================================================================

------------------------------ MODULE MC_Parts ------------------------------
(***************************************************************************)
(* Small instances of the components that are modelled by themselves: the  *)
(* genesis storage, the overlay of a closure, the parser of the macro, the *)
(* validation codes, a parachain with its pool and a core::Builder that is *)
(* used directly.  They share no state, so one of them takes its steps     *)
(* while the others stay as they are, and the states are the sum of        *)
(* theirs.                                                                 *)
(***************************************************************************)
EXTENDS Genesis, Externalities, CompanionParser, ParaCodes, ParaPool, CoreApi

VARIABLE part  \* the component that takes steps

\* A component that takes no steps has one initial state.
PartsInit ==
  /\ part \in {"genesis", "externalities", "parser", "codes", "pool", "core"}
  /\ GenesisInit /\ (part = "genesis" \/ genesis = Default)
  /\ ExtInit /\ (part = "externalities" \/ backend = CHOOSE b \in [Keys -> Vals] : TRUE)
  /\ ParserInit /\ (part = "parser" \/ shape = "Unit")
  /\ CodesInit
  /\ PoolInit
  /\ ApiInit

PartsNext ==
  \/ /\ part = "genesis" /\ GenesisNext
     /\ UNCHANGED <<part, extVars, parserVars, codesVars, poolVars, apiVars>>
  \/ /\ part = "externalities" /\ ExtNext
     /\ UNCHANGED <<part, genesisVars, parserVars, codesVars, poolVars, apiVars>>
  \/ /\ part = "parser" /\ ParserNext
     /\ UNCHANGED <<part, genesisVars, extVars, codesVars, poolVars, apiVars>>
  \/ /\ part = "codes" /\ CodesNext
     /\ UNCHANGED <<part, genesisVars, extVars, parserVars, poolVars, apiVars>>
  \/ /\ part = "pool" /\ PoolNext
     /\ UNCHANGED <<part, genesisVars, extVars, parserVars, codesVars, apiVars>>
  \/ /\ part = "core" /\ ApiNext
     /\ UNCHANGED <<part, genesisVars, extVars, parserVars, codesVars, poolVars>>

PartsSpec ==
  /\ PartsInit
  /\ [][PartsNext]_<<part, genesisVars, extVars, parserVars, codesVars, poolVars, apiVars>>

\* The type invariants of the components: of core::Builder's chain and blocks,
\* BlockStorage, the genesis storage, the overlay, the parser and the codes.
PartsTypeOK ==
  /\ GenesisTypeOK
  /\ ExtTypeOK
  /\ ParserTypeOK
  /\ CodesTypeOK
  /\ PoolTypeOK
  /\ CoreApiTypeOK

\* Child tries and ChildInfos are interchangeable.  Members of the other sets are
\* as well, but permuting them costs more than it saves.
Symmetry == Permutations(Tries) \cup Permutations(Infos)
=============================================================================

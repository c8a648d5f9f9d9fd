------------------------------ MODULE Genesis ------------------------------
(***************************************************************************)
(* StateProvider (core/src/provider/state.rs): the storage a chain starts  *)
(* from, put together by calls of insert_storage.  A storage has a map of  *)
(* top level keys and, by key, child tries with their own map and a        *)
(* ChildInfo.  insert_storage goes through the child tries of the new      *)
(* storage in the order of a HashMap, which is any order, and returns Err  *)
(* at the first whose ChildInfo does not fit.                              *)
(*                                                                         *)
(* A definition with an underscore in its name is a faulty variant of the  *)
(* one that follows it.                                                    *)
(***************************************************************************)
EXTENDS Naturals, FiniteSets

CONSTANTS
  Code,        \* the key CODE
  TrieKeys,    \* the other keys, of the top level and of child tries
  TrieVals,    \* their values
  Tries,       \* the keys of child tries
  Infos,       \* ChildInfos
  NoStorage,   \* an Option that is None
  MaxInserts   \* bound: calls of insert_storage

ASSUME InsertsAssumption == MaxInserts \in Nat

Maps(K) == UNION { [D -> TrieVals] : D \in SUBSET K }
Child   == [info : Infos, data : Maps(TrieKeys)]
Storage == [ top      : Maps(TrieKeys \cup {Code}),
             children : UNION { [D -> Child] : D \in SUBSET Tries } ]

ASSUME CodeAssumption == Code \notin TrieKeys /\ NoStorage \notin Storage

VARIABLES
  genesis,   \* pseudo_genesis
  incoming,  \* the storage insert_storage was called with, NoStorage between calls
  todo,      \* child tries of it that the loop has still to visit
  failed,    \* the last call returned Err
  before,    \* history: genesis at the last call
  inserted,     \* history: the storage of the last call
  inserts    \* calls so far

genesisVars == <<genesis, incoming, todo, failed, before, inserted, inserts>>

Nothing == [x \in {} |-> NoStorage]
Default == [top |-> Nothing, children |-> Nothing]

\* BTreeMap::extend: the values of the other map win.
Extend(map, other) ==
  [k \in DOMAIN map \cup DOMAIN other |-> IF k \in DOMAIN other THEN other[k] ELSE map[k]]

\* with_in_mem_db or from_db, and for empty_default its insert of the code.
\* from_storage goes on with an insert_storage.
GenesisInit ==
  /\ genesis \in {Default} \cup { [Default EXCEPT !.top = [x \in {Code} |-> v]] : v \in TrieVals }
  /\ incoming = NoStorage
  /\ todo = {}
  /\ failed = FALSE
  /\ before = genesis
  /\ inserted = Default
  /\ inserts = 0

\* insert_storage, up to the loop.
InsertStorage(storage) ==
  /\ incoming = NoStorage
  /\ inserts < MaxInserts
  /\ genesis' = [genesis EXCEPT !.top = Extend(@, storage.top)]
  /\ incoming' = storage
  /\ todo' = DOMAIN storage.children
  /\ failed' = FALSE
  /\ before' = genesis
  /\ inserted' = storage
  /\ inserts' = inserts + 1

\* ChildInfo::try_update says whether the two are the same; it changes nothing.
TryUpdate(info, other) == info = other

\* The loop at a trie that genesis does not have.
NewTrie(k) ==
  /\ incoming # NoStorage
  /\ k \in todo \ DOMAIN genesis.children
  /\ genesis' = [genesis EXCEPT !.children = Extend(@, [x \in {k} |-> incoming.children[k]])]
  /\ todo' = todo \ {k}
  /\ UNCHANGED <<incoming, failed, before, inserted, inserts>>

MergeTrie_Replaces(k) ==
  /\ incoming # NoStorage
  /\ k \in todo \cap DOMAIN genesis.children
  /\ genesis' = [genesis EXCEPT !.children[k] = incoming.children[k]]
  /\ IF TryUpdate(genesis.children[k].info, incoming.children[k].info)
     THEN todo' = todo \ {k} /\ UNCHANGED <<incoming, failed>>
     ELSE todo' = {} /\ incoming' = NoStorage /\ failed' = TRUE
  /\ UNCHANGED <<before, inserted, inserts>>

\* The loop at a trie that genesis has: data is extended before the check.
MergeTrie(k) ==
  /\ incoming # NoStorage
  /\ k \in todo \cap DOMAIN genesis.children
  /\ genesis' = [genesis EXCEPT !.children[k].data = Extend(@, incoming.children[k].data)]
  /\ IF TryUpdate(genesis.children[k].info, incoming.children[k].info)
     THEN todo' = todo \ {k} /\ UNCHANGED <<incoming, failed>>
     ELSE todo' = {} /\ incoming' = NoStorage /\ failed' = TRUE
  /\ UNCHANGED <<before, inserted, inserts>>

\* insert_storage returns Ok.
InsertDone ==
  /\ incoming # NoStorage
  /\ todo = {}
  /\ incoming' = NoStorage
  /\ UNCHANGED <<genesis, todo, failed, before, inserted, inserts>>

GenesisNext ==
  \/ \E storage \in Storage : InsertStorage(storage)
  \/ \E k \in Tries : NewTrie(k) \/ MergeTrie(k)
  \/ InsertDone

GenesisSpec == GenesisInit /\ [][GenesisNext]_genesisVars

-----------------------------------------------------------------------------
\* Type invariant.
GenesisTypeOK ==
  /\ {genesis, before, inserted} \subseteq Storage
  /\ incoming \in Storage \cup {NoStorage}
  /\ todo \subseteq Tries
  /\ failed \in BOOLEAN
  /\ inserts \in Nat

\* What the union of two storages is: a key has the value of the later one
\* that has it, a trie the ChildInfo of the earlier one that has it.
IsUnion(new, s, t) ==
  /\ DOMAIN new.top = DOMAIN s.top \cup DOMAIN t.top
  /\ \A k \in DOMAIN t.top : new.top[k] = t.top[k]
  /\ \A k \in DOMAIN s.top \ DOMAIN t.top : new.top[k] = s.top[k]
  /\ DOMAIN new.children = DOMAIN s.children \cup DOMAIN t.children
  /\ \A c \in DOMAIN new.children :
       LET old   == IF c \in DOMAIN s.children THEN s.children[c].data ELSE Nothing
           later == IF c \in DOMAIN t.children THEN t.children[c].data ELSE Nothing
           data  == new.children[c].data
       IN  /\ DOMAIN data = DOMAIN old \cup DOMAIN later
           /\ \A k \in DOMAIN later : data[k] = later[k]
           /\ \A k \in DOMAIN old \ DOMAIN later : data[k] = old[k]
           /\ new.children[c].info =
                (IF c \in DOMAIN s.children THEN s ELSE t).children[c].info

\* What an Err leaves: no trie mixes ChildInfos, a trie is as it was or united
\* with the new one, and some trie whose ChildInfo did not fit is the reason.
IsPartOfUnion(new, s, t) ==
  /\ \E c \in DOMAIN s.children \cap DOMAIN t.children : s.children[c].info # t.children[c].info
  /\ DOMAIN s.children \subseteq DOMAIN new.children
  /\ \A c \in DOMAIN new.children :
       LET only(x) == [Default EXCEPT !.children = [k \in {c} \cap DOMAIN x.children |-> x.children[k]]]
       IN  only(new) = only(s) \/ IsUnion(only(new), only(s), only(t))

\* insert_storage, in whatever order the HashMap has the tries: Ok means that
\* the genesis is the union of what it was and the new storage.  Err leaves it
\* with what was merged before, the data of the offending trie included, which
\* is part of that union only.
InsertOutcome ==
  /\ incoming = NoStorage /\ ~failed => IsUnion(genesis, before, inserted)
  /\ failed => IsPartOfUnion(genesis, before, inserted)
=============================================================================

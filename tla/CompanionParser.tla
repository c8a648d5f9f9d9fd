-------------------------- MODULE CompanionParser --------------------------
(***************************************************************************)
(* The parser of the fudge::companion macro                                *)
(* (core/src/builder/companion/src/parse): reads the fields of a struct in *)
(* order and finds the one relay chain, the parachains with their ids and  *)
(* the other fields, or refuses the struct with an error.  A field is its  *)
(* attributes; its name is its position.                                   *)
(*                                                                         *)
(* A definition with an underscore in its name is a faulty variant of the  *)
(* one that follows it.                                                    *)
(***************************************************************************)
EXTENDS Naturals, Sequences, FiniteSetsExt

CONSTANTS
  Ids,        \* what may stand in the parentheses of fudge::parachain
  NoId,       \* no parentheses, or no relay chain yet
  MaxFields,  \* bound: fields of a struct
  MaxAttrs    \* bound: attributes of a field

ASSUME IdsAssumption == NoId \notin Ids \cup Nat
ASSUME ParserBoundsAssumption == {MaxFields, MaxAttrs} \subseteq Nat

\* An attribute: is the first segment of its path "fudge", is a second one the
\* last one and what is it, and what follows the path.
Attrs ==
       [fudge : {FALSE}, segments : {2}, second : {"parachain"}, id : {NoId}]
  \cup [fudge : {TRUE}, segments : {2}, second : {"parachain"}, id : Ids \cup {NoId}]
  \cup [fudge : {TRUE}, segments : {1, 2}, second : {"relaychain"}, id : {NoId}]
  \cup [fudge : {TRUE}, segments : {2}, second : {"other"}, id : {NoId}]

AttrLists == UNION { [1..n -> Attrs] : n \in 0..MaxAttrs }
Structs   == UNION { [1..n -> AttrLists] : n \in 0..MaxFields }
Shapes    == {"Named", "Unit", "Unnamed"}
Errors    == {"NotNamed", "PathSegments", "ParaId", "Unsupported", "TwoRelaychains", "NoRelaychain"}

VARIABLES
  shape,       \* the kind of the struct
  fields,      \* its named fields
  pos,         \* the fields the loop has read
  parachains,  \* parachains found: the field and the id
  relaychain,  \* the field of the relay chain
  others,      \* other fields
  verdict       \* "Parsing", "Ok" or an error

parserVars == <<shape, fields, pos, parachains, relaychain, others, verdict>>

ParserInit ==
  /\ shape \in Shapes
  /\ fields \in IF shape = "Named" THEN Structs ELSE {<< >>}
  /\ pos = 0
  /\ parachains = << >>
  /\ relaychain = NoId
  /\ others = << >>
  /\ verdict = "Parsing"

-----------------------------------------------------------------------------
\* What parse_field makes of one attribute in the namespace fudge.
ParseAttr(attr) ==
  IF attr.segments # 2 THEN "PathSegments"
  ELSE IF attr.second = "parachain" THEN (IF attr.id = NoId THEN "ParaId" ELSE "Parachain")
  ELSE IF attr.second = "relaychain" THEN "Relaychain"
  ELSE "Unsupported"

FudgeAttrs(field) == { i \in DOMAIN field : field[i].fudge }

FirstFudgeAttr(field) == field[Min(FudgeAttrs(field))]

\* parse_field: the loop over the attributes returns at the first of them.
ParseField(field) ==
  IF FudgeAttrs(field) = {} THEN "Other" ELSE ParseAttr(FirstFudgeAttr(field))

\* parse: only structs with named fields.
ParseShape ==
  /\ verdict = "Parsing"
  /\ shape # "Named"
  /\ verdict' = "NotNamed"
  /\ UNCHANGED <<shape, fields, pos, parachains, relaychain, others>>

Reading(type) ==
  /\ verdict = "Parsing"
  /\ shape = "Named"
  /\ pos < Len(fields)
  /\ ParseField(fields[pos + 1]) = type
  /\ pos' = pos + 1

\* parse_struct at a field without attributes in the namespace.
PushOther ==
  /\ Reading("Other")
  /\ others' = Append(others, pos')
  /\ UNCHANGED <<shape, fields, parachains, relaychain, verdict>>

\* parse_struct at a parachain: that the id is new is not asked for.
PushParachain ==
  /\ Reading("Parachain")
  /\ parachains' = Append(parachains, [field |-> pos', id |-> FirstFudgeAttr(fields[pos']).id])
  /\ UNCHANGED <<shape, fields, relaychain, others, verdict>>

SetRelaychain_Overwrites ==
  /\ Reading("Relaychain")
  /\ relaychain' = pos'
  /\ UNCHANGED <<shape, fields, parachains, others, verdict>>

\* parse_struct at a relay chain.
SetRelaychain ==
  /\ Reading("Relaychain")
  /\ IF relaychain = NoId
     THEN relaychain' = pos' /\ UNCHANGED verdict
     ELSE verdict' = "TwoRelaychains" /\ UNCHANGED relaychain
  /\ UNCHANGED <<shape, fields, parachains, others>>

\* parse_struct, when parse_field returned Err.
FieldErr ==
  /\ \E error \in Errors : Reading(error) /\ verdict' = error
  /\ UNCHANGED <<shape, fields, parachains, relaychain, others>>

\* parse_struct, after the loop.
Finish ==
  /\ verdict = "Parsing"
  /\ shape = "Named"
  /\ pos = Len(fields)
  /\ verdict' = IF relaychain = NoId THEN "NoRelaychain" ELSE "Ok"
  /\ UNCHANGED <<shape, fields, pos, parachains, relaychain, others>>

ParserNext == ParseShape \/ PushOther \/ PushParachain \/ SetRelaychain \/ FieldErr \/ Finish

ParserSpec == ParserInit /\ [][ParserNext]_parserVars

-----------------------------------------------------------------------------
\* Type invariant.
ParserTypeOK ==
  /\ shape \in Shapes
  /\ pos \in 0..Len(fields)
  /\ parachains \in Seq([field : 1..Len(fields), id : Ids])
  /\ relaychain \in (1..Len(fields)) \cup {NoId}
  /\ others \in Seq(1..Len(fields))
  /\ verdict \in Errors \cup {"Parsing", "Ok"}

\* The attribute that decides on a field: the first one in the namespace.
Decides(attr, field) ==
  \E i \in DOMAIN field : /\ field[i] = attr
                          /\ attr.fudge
                          /\ \A j \in 1..i - 1 : ~field[j].fudge

IsRelay(i) ==
  \E attr \in Attrs : /\ Decides(attr, fields[i])
                      /\ attr.segments = 2
                      /\ attr.second = "relaychain"

IsPara(i, id) ==
  \E attr \in Attrs : /\ Decides(attr, fields[i])
                      /\ attr.segments = 2
                      /\ attr.second = "parachain"
                      /\ attr.id = id

IsOther(i) == \A j \in DOMAIN fields[i] : ~fields[i][j].fudge

WellFormed(i) == IsRelay(i) \/ IsOther(i) \/ \E id \in Ids : IsPara(i, id)

\* parse accepts a struct exactly if its fields are named and well formed and
\* one of them is the relay chain, and then every field is in the part it
\* belongs to, once and in the order of the struct, a parachain with its id.  A
\* struct with two relay chains is refused for that only if all before the second
\* is well formed.
AcceptsTheRight ==
  /\ verdict # "Parsing" =>
       /\ (verdict = "Ok") <=>
            /\ shape = "Named"
            /\ \A i \in DOMAIN fields : WellFormed(i)
            /\ \E i \in DOMAIN fields : \A j \in DOMAIN fields : IsRelay(j) <=> j = i
  /\ verdict = "TwoRelaychains" =>
       IsRelay(pos) /\ \E i \in 1..pos - 1 : IsRelay(i) /\ \A j \in 1..pos - 1 : WellFormed(j)
  /\ verdict = "Ok" =>
       /\ IsRelay(relaychain)
       /\ { others[n] : n \in DOMAIN others } = { i \in DOMAIN fields : IsOther(i) }
       /\ { parachains[n] : n \in DOMAIN parachains } =
            { d \in [field : DOMAIN fields, id : Ids] : IsPara(d.field, d.id) }
       /\ \A m, n \in DOMAIN others : m < n => others[m] < others[n]
       /\ \A m, n \in DOMAIN parachains : m < n => parachains[m].field < parachains[n].field
=============================================================================

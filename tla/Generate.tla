------------------------------ MODULE Generate ------------------------------
(***************************************************************************)
(* generate.ts above the single field: what each schema of the annotated   *)
(* canonical becomes, the order the declarations are written in, the two   *)
(* dispatch tables, the coverage counts and the gate on them.  Keys of     *)
(* entries are numbers in the order of the canonical's keys; an entry has  *)
(* its discriminants and its collision number.                             *)
(***************************************************************************)
EXTENDS Patches

Keyed(entry) == entry.discriminant # "anonymous" \/ entry.discriminantOverride
Objects == {"object", "strictObject", "looseObject"}

(* Emitted names by minified ident, for the references in a field          *)
IdentNames(entries) ==
  LET bound == {k \in DOMAIN entries : entries[k].minifiedId # "none"}
  IN  [id \in {entries[k].minifiedId : k \in bound} |->
         entries[Min({k \in bound : entries[k].minifiedId = id})].emittedName]

RECURSIVE extractIdentifiers(_)
extractIdentifiers(e) ==
  IF e.kind # "expr" THEN {}
  ELSE LET n == e.value IN
    CASE n.op = "ref" -> {n.name}
      [] n.op \in {"array", "index"} -> extractIdentifiers(n.of)
      [] n.op = "or" -> UNION {extractIdentifiers(n.of[i]) : i \in DOMAIN n.of}
      [] n.op = "object" -> UNION {extractIdentifiers(n.of[i].arktype) : i \in DOMAIN n.of}

(* emitSchema: an enum by its values, a union by its members unless one is *)
(* missing, an object field by field, anything else as unknown.            *)
Opaque == [form |-> "unknown", fields |-> <<>>, references |-> {}]
Fields(entry, names) ==
  [i \in DOMAIN entry.fields |->
     [name |-> entry.fields[i].name] @@ translateRhs(entry.fields[i].rhs, names)]
ObjectOfFields(fields) ==
  [form |-> "object", fields |-> fields,
   references |-> UNION {extractIdentifiers(fields[i].arktype) : i \in DOMAIN fields}]
emitSchema(entry, entries) ==
  LET members == entry.unionMembers
  IN  CASE entry.schemaKind = "enum" /\ entry.enumValues # <<>> ->
             [Opaque EXCEPT !.form = "enum"]
        [] entry.schemaKind = "union" /\ members # {} /\ members \subseteq DOMAIN entries ->
             [Opaque EXCEPT !.form = "or",
                            !.references = {entries[k].emittedName : k \in members}]
        [] entry.schemaKind \in Objects ->
             ObjectOfFields(Fields(entry, IdentNames(entries)))
        [] OTHER -> Opaque
emitted(entries) == [k \in DOMAIN entries |-> emitSchema(entries[k], entries)]

(* topoSort: depth first by name; a name met again on the stack is a       *)
(* cycle, reported and left.  The state: the order so far, and the cycles. *)
RECURSIVE visit(_, _, _, _), visitAll(_, _, _, _)
visit(name, onStack, deps, acc) ==
  IF name \in Range(acc.order) THEN acc
  ELSE IF name \in onStack THEN [acc EXCEPT !.cycles = @ \cup {name}]
  ELSE LET inner == visitAll(SetToSortSeq(deps[name] \cap DOMAIN deps, <),
                             onStack \cup {name}, deps, acc)
       IN  [inner EXCEPT !.order = Append(@, name)]
visitAll(names, onStack, deps, acc) ==
  IF names = <<>> THEN acc
  ELSE visitAll(Tail(names), onStack, deps, visit(Head(names), onStack, deps, acc))
References(entries, out) ==
  LET keyOf(name) == CHOOSE k \in DOMAIN entries : entries[k].emittedName = name
  IN  [name \in {entries[k].emittedName : k \in DOMAIN entries} |->
         out[keyOf(name)].references]
topoSort(deps) ==
  visitAll(SetToSortSeq(DOMAIN deps, <), {}, deps, [order |-> <<>>, cycles |-> {}])

(* renderDispatchTs: numbered keys are left out; a subtype goes to the     *)
(* bare key's schema rather than to a compound one's, else to the first.   *)
Plainly(entries, kind, value) ==
  {k \in DOMAIN entries : /\ entries[k].discriminant = kind
                          /\ entries[k].value = value /\ entries[k].number = 1}
Values1(entries, kind) ==
  {entries[k].value : k \in {l \in DOMAIN entries :
      entries[l].discriminant = kind /\ entries[l].number = 1}}
inboundBySubtypeOf(entries) ==
  [v \in Values1(entries, "subtype") |->
     LET all == Plainly(entries, "subtype", v)
         bare == {k \in all : ~entries[k].compound}
     IN  entries[Min(IF bare # {} THEN bare ELSE all)].emittedName]
inboundByTypeOf(entries) ==
  [v \in Values1(entries, "type") |-> entries[Max(Plainly(entries, "type", v))].emittedName]

(* computeCoverage, and the gate: a keyed object none of whose fields got  *)
(* a type                                                                  *)
Typed(f) == f.arktype.kind # "none" /\ f.arktype # Str(<<"unknown">>)
TypedFields(schema) == {i \in DOMAIN schema.fields : Typed(schema.fields[i])}
Unresolved(schema) == {i \in DOMAIN schema.fields : schema.fields[i].arktype.kind = "none"}
computeCoverage(entries, out) ==
  LET sum(of) == FoldFunction(+, 0, [k \in DOMAIN entries |-> Cardinality(of[k])])
      total == sum([k \in DOMAIN entries |-> DOMAIN out[k].fields])
      typed == sum([k \in DOMAIN entries |-> TypedFields(out[k])])
      keyed == {k \in DOMAIN entries : Keyed(entries[k]) /\ out[k].fields # <<>>}
  IN  [total |-> total, typed |-> typed, unknown |-> total - typed,
       discriminantKeyed |-> Cardinality(keyed),
       fullyTyped |-> Cardinality({k \in keyed : Unresolved(out[k]) = {}})]
zeroFieldDiscrim(entries, out) ==
  {k \in DOMAIN entries : /\ Keyed(entries[k]) /\ entries[k].schemaKind = "object"
                          /\ out[k].fields # <<>> /\ TypedFields(out[k]) = {}}
=============================================================================

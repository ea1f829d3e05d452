------------------------------- MODULE Patches -------------------------------
(***************************************************************************)
(* apply-patches.ts: the authored patches of a version applied to its      *)
(* canonical.  A patch that names nothing stops the run with an error, as  *)
(* do two schemas of one name.  Keys and names are numbers, their order    *)
(* the order of the strings; an entry has the name inferred from its key.  *)
(***************************************************************************)
EXTENDS Translate

(* The order in which kinds of patches are applied                         *)
order == [renameSchema |-> 0, resolveAnon |-> 1, discriminantHint |-> 2,
          addField |-> 3, fieldType |-> 4, removeField |-> 5]

(* stablePatchKey: a hint's values are not in it, nor a type               *)
stablePatchKey(p) ==
  CASE p.kind = "renameSchema" -> <<p.from, p.to>>
    [] p.kind = "resolveAnon" -> <<p.canonicalKey, p.name>>
    [] OTHER -> <<p.schema, p.field>>
Before(p, q) ==
  \/ order[p.kind] < order[q.kind]
  \/ /\ p.kind = q.kind
     /\ LET a == stablePatchKey(p)
            b == stablePatchKey(q)
        IN  a[1] < b[1] \/ (a[1] = b[1] /\ a[2] < b[2])
Sorted(patches) ==
  LET at == SetToSortSeq(DOMAIN patches,
              LAMBDA i, j : \/ Before(patches[i], patches[j])
                            \/ (~Before(patches[j], patches[i]) /\ i < j))
  IN  [i \in DOMAIN at |-> patches[at[i]]]

(* findEntryByName: the first entry, in the order of the keys              *)
Called(entries, name) == {k \in DOMAIN entries : entries[k].emittedName = name}
HasField(entry, field) == \E i \in DOMAIN entry.fields : entry.fields[i].name = field
FieldAt(entry, field) == Min({i \in DOMAIN entry.fields : entry.fields[i].name = field})

(* The entry a patch is about; 0 if there is none                          *)
Target(entries, p) ==
  LET found == CASE p.kind = "renameSchema" -> Called(entries, p.from)
                 [] p.kind = "resolveAnon" -> {p.canonicalKey} \cap DOMAIN entries
                 [] OTHER -> Called(entries, p.schema)
  IN  IF found = {} THEN 0 ELSE Min(found)
Refused(entries, p) ==
  LET target == Target(entries, p)
  IN  \/ target = 0
      \/ p.kind = "addField" /\ HasField(entries[target], p.field)
      \/ p.kind \in {"removeField", "fieldType"} /\ ~HasField(entries[target], p.field)
Patched1(entry, p) ==
  LET rhs == <<Patch, p.value>>
  IN  CASE p.kind = "renameSchema" -> [entry EXCEPT !.emittedName = p.to]
        [] p.kind = "resolveAnon" -> [entry EXCEPT !.emittedName = p.name]
        [] p.kind = "discriminantHint" -> [entry EXCEPT !.discriminantOverride = TRUE]
        [] p.kind = "addField" ->
             [entry EXCEPT !.fields = Append(@, [name |-> p.field, rhs |-> rhs])]
        [] p.kind = "fieldType" ->
             [entry EXCEPT !.fields[FieldAt(entry, p.field)].rhs = rhs]
        [] p.kind = "removeField" ->
             [entry EXCEPT !.fields = RemoveAt(@, FieldAt(entry, p.field))]

Failed == [ok |-> FALSE, entries |-> <<>>]
RECURSIVE Apply(_, _)
Apply(entries, patches) ==
  IF patches = <<>> THEN [ok |-> TRUE, entries |-> entries]
  ELSE LET p == Head(patches)
       IN  IF Refused(entries, p) THEN Failed
           ELSE Apply([entries EXCEPT ![Target(entries, p)] = Patched1(@, p)], Tail(patches))

Renames(p) == p.kind \in {"renameSchema", "resolveAnon"}
NamesUnique(entries) ==
  \A k, l \in DOMAIN entries :
     entries[k].emittedName = entries[l].emittedName => k = l

(* applyPatches(snapshot, patches): names first, then, if they are unique, *)
(* what refers to schemas by name.                                         *)
applyPatches(canonical, patches) ==
  LET start == [k \in DOMAIN canonical |->
                  canonical[k] @@ [emittedName |-> canonical[k].inferredName,
                                   discriminantOverride |-> FALSE]]
      sorted == Sorted(patches)
      named == Apply(start, SelectSeq(sorted, Renames))
  IN  IF ~named.ok \/ ~NamesUnique(named.entries) THEN Failed
      ELSE Apply(named.entries, SelectSeq(sorted, LAMBDA p : ~Renames(p)))
=============================================================================

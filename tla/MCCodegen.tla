----------------------------- MODULE MCCodegen -----------------------------
(***************************************************************************)
(* The code generator under eight profiles.  Six give a pure stage each of *)
(* its inputs, one per initial state: expressions to translate, object     *)
(* bodies and enum lists to scan, bundles to extract from, patches to      *)
(* apply and schemas to emit.  Two run the commands over their files and   *)
(* the test harness over a live binary.                                    *)
(***************************************************************************)
EXTENDS Codegen, Harness, Meaning, Extract, Generate

VARIABLES profile, input
mcvars == <<cvars, hvars, profile, input>>

(***************************************************************************)
(* "translate": zod expressions of the shapes a bundle has, up to three    *)
(* deep, with every pair of chained calls.                                 *)
(***************************************************************************)
Plain(op, of) == Zod(op, of, <<>>)
ChainCalls == {".optional", ".nullable", ".nullish", ".describe", ".describe(",
               ".min", ".default"}
Chains(n) == UNION {[1 .. k -> ChainCalls] : k \in 0 .. n}
With(es, n) == {[x EXCEPT !.chain = c] : x \in es, c \in Chains(n)}
Basic ==
  {Plain("prim", p) : p \in {".string", ".number", ".boolean", ".unknown", ".null"}}
  \cup {Plain("literal", v) : v \in {"a", "true", "1"}}
  \cup {Plain("enum", <<"a", "s">>), Plain("ref", "Ab"), Plain("ref", "Zz")}
Number == Plain("prim", ".number")
Holders(es) == {Plain(op, x) : op \in {"array", "record", "lazy", "wrap"}, x \in es}
Unions(es, fs) == {Plain("union", <<x, y>>) : x \in es, y \in fs}
InX(x) == [name |-> "x", of |-> x]
OfObjects(es) ==
  {Plain("object", <<InX(x)>>) : x \in es} \cup
  {Plain("object", <<InX(x), [name |-> "y", of |-> Zod("prim", ".string", <<".optional">>)]>>) :
     x \in es}
One == Holders(With(Basic, 1)) \cup Unions(Basic, Basic) \cup OfObjects(With(Basic, 1))
Small == Holders(Basic) \cup Unions(Basic, {Plain("literal", "a"), Number}) \cup OfObjects(Basic)
Two == Holders(Small) \cup Unions(Small, Basic) \cup OfObjects(Small)
Three == Holders(Unions({x \in Two : x.op = "array"}, {Number, Plain("array", Number)}))
Expressions == With(Basic, 2) \cup With(One, 1) \cup Two \cup Three

(* An array of a union whose first alternative is itself written with a    *)
(* leading parenthesis: ArrayOf adds none.                                 *)
RECURSIVE Ambiguous(_), Opening(_), Bare(_)
Bare(x) == IF x.op \in {"lazy", "wrap"} THEN Bare(x.of) ELSE x
Opening(x) ==
  LET b == Bare(x) IN
  \/ b.op = "array" /\ Bare(b.of).op \in {"union", "record", "enum"}
  \/ b.op = "array" /\ Opening(b.of)
  \/ b.op = "union" /\ Opening(b.of[1])
Ambiguous(x) ==
  \/ x.op = "array" /\ Bare(x.of).op = "union" /\ Opening(x.of)
  \/ x.op \in {"array", "record", "lazy", "wrap"} /\ Ambiguous(x.of)
  \/ x.op = "union" /\ \E i \in DOMAIN x.of : Ambiguous(x.of[i])
  \/ x.op = "object" /\ \E i \in DOMAIN x.of : Ambiguous(x.of[i].of)

(* Chains whose calls stripping takes off in the order they stand in, on a *)
(* field; elsewhere a chained call is not read at all.                     *)
FieldChains ==
  {<<>>, <<".optional">>, <<".nullable">>, <<".nullish">>, <<".describe">>,
   <<".min">>, <<".default">>, <<".optional", ".describe">>,
   <<".nullable", ".optional">>, <<".nullable", ".describe">>, <<".min", ".optional">>}
RECURSIVE Readable(_, _)
Readable(x, chains) ==
  /\ x.chain \in chains
  /\ CASE x.op \in {"array", "record", "lazy", "wrap"} -> Readable(x.of, {<<>>})
       [] x.op = "union" -> \A i \in DOMAIN x.of : Readable(x.of[i], {<<>>})
       [] x.op = "object" -> \A i \in DOMAIN x.of : Readable(x.of[i].of, FieldChains)
       [] x.op = "ref" -> x.of \in DOMAIN Names
       [] OTHER -> TRUE

(* The generated schema never refuses a value the zod schema accepts; when *)
(* a type was found it accepts no other either; and one is found for every *)
(* readable expression.  Ambiguous expressions excepted.                   *)
Faithful(e, out) ==
  LET found == out.arktype.kind # "none"
  IN  /\ \/ Ambiguous(e)
         \/ \A v \in Values \cup {Absent} :
              /\ zodAllows(e, v) => fieldAllows(out, v)
              /\ found /\ fieldAllows(out, v) => zodAllows(e, v)
      /\ Readable(e, FieldChains) => found
TranslationFaithful(e) == Faithful(e, translateRhs(TextOf(e), Names))

(***************************************************************************)
(* "fields": the text of an object literal, cut back into its fields.      *)
(***************************************************************************)
Rhs ==
  {TextOf(Number), TextOf(Zod("prim", ".string", <<".describe(">>)),
   TextOf(Plain("object", <<InX(Number)>>)),
   TextOf(Plain("enum", <<"a", "s">>)),
   <<"dq", "escape", "dq", ",", "}", "dq">>, <<"bq", "{", "a", ":", "bq">>,
   <<"/*", ",", "dq", "*/", "a">>, <<"a", "//", ")", "nl">>}
Keys == {<<"x">>, <<"y">>, <<"dq", "q", "dq">>}
Entries == Keys \X Rhs
Bodies == UNION {[1 .. n -> Entries] : n \in 0 .. 2}
Printed(body) ==
  <<"{">> \o Commas([i \in DOMAIN body |-> body[i][1] \o <<":">> \o body[i][2]]) \o <<"}">>
BareKeyed(entry) == Len(entry[1]) = 1

(* Every field with a bare key comes back with its right-hand side whole,  *)
(* in order, whatever strings, comments and brackets are in it; and the    *)
(* literal ends where it ends.  (A quoted key is lost with its field.)     *)
FieldsWhole(body) ==
  LET bare == SelectSeq(body, BareKeyed)
  IN  /\ extractFieldsFromObjectBody(Printed(body) \o <<",", "}">>) =
           [i \in DOMAIN bare |-> [name |-> bare[i][1][1], rhs |-> bare[i][2]]]
      /\ LET call == <<"(">> \o Printed(body) \o <<")">>
         IN  findBalanced(call \o <<")">>, 1) = Len(call)

(* "enum": lists of up to three members                                    *)
EnumMembers ==
  {<<"dq", "a", "dq">>, <<"dq", "b", ",", "]", "dq">>, <<"sq", "escape", "sq", "sq">>,
   <<"/*", ",", "dq", "*/", "dq", "c", "dq">>, <<"z">>, <<"(", "z", ",", "dq", ")">>}
EnumLists == UNION {[1 .. n -> EnumMembers] : n \in 0 .. 3}
Strings1(member) == \E i \in DOMAIN member : member[i] \in {"a", "b", "c", "escape"}

(* A list of strings comes back whole, in order, whatever is in the        *)
(* strings; a list with another member does not pass for one.  (A member   *)
(* in brackets is left out of it, and a schema generated too narrow.)      *)
EnumsWhole(list) ==
  LET out == extractEnumValues(<<"[">> \o Commas(list) \o <<"]", ",", "z">>)
      strings == SelectSeq(list, Strings1)
  IN  IF \E i \in DOMAIN list : list[i] = <<"z">> THEN out = Null
      ELSE /\ Len(out) = Len(strings)
           /\ \A i \in DOMAIN out :
                /\ Range(out[i]) \subseteq Range(strings[i])
                /\ \A word \in {"a", "b", "c"} :
                     word \in Range(strings[i]) => word \in Range(out[i])

(***************************************************************************)
(* "extract": bundles of up to three sites, and the same program minified  *)
(* otherwise.                                                              *)
(***************************************************************************)
Ref(ident) == [ident |-> ident, how |-> "ref"]
Closes1(ident) == [ident |-> ident, how |-> "closing"]
Applied(ident) == [ident |-> ident, how |-> "applied"]
BareArg(ident) == [ident |-> ident, how |-> "bare"]
ZodDot == [ident |-> "z", how |-> "zod"]
Site(before, kind, type, subtype, fields, body, idents) ==
  [before |-> before, alias |-> "z", closes |-> TRUE, args |-> "literal",
   kind |-> kind, type |-> type, subtype |-> subtype, fields |-> fields,
   body |-> body, idents |-> idents]
Sites ==
  {Site(<<"Aa", "=">>, "object", "user", NONE, <<"x">>, "b1", <<ZodDot>>),
   Site(<<"Bb", "=", "iI", "(", "()=>">>, "object", "user", NONE, <<"x", "y">>, "b2", <<ZodDot, Ref("Aa")>>),
   Site(<<"Cc", "=", "iI", "(">>, "object", "system", "init", <<"x">>, "b1", <<ZodDot, Applied("iI")>>),
   Site(<<"Dd", "=", "Ee", "=">>, "object", NONE, NONE, <<"x">>, "b1", <<Ref("Bb"), BareArg("Vv")>>),
   Site(<<"Ff", "=">>, "object", NONE, "can_use_tool", <<"x">>, "b2", <<ZodDot, Ref("$Hh"), BareArg("Vv"), Ref("of")>>),
   Site(<<"Uu", "=">>, "union", NONE, NONE, <<>>, "b3", <<Ref("Aa"), Closes1("Bb"), Ref("Ee")>>),
   Site(<<"Uu", "=">>, "union", NONE, NONE, <<>>, "b3", <<Ref("Ee"), Closes1("Aa")>>),
   Site(<<"(">>, "enum", NONE, NONE, <<>>, "b4", <<>>),
   [Site(<<"Aa", "=">>, "object", "user", NONE, <<"x">>, "b2", <<ZodDot>>) EXCEPT !.args = "ident"],
   [Site(<<"Xx", "=">>, "object", "user", NONE, <<"x">>, "b1", <<ZodDot>>) EXCEPT !.alias = "Q"]}
ZodCalls == [z |-> 5, l6 |-> 0, Q |-> 4, this |-> 9]
Bundles ==
  {[calls |-> ZodCalls, sites |-> s] : s \in UNION {[1 .. n -> Sites] : n \in 1 .. 3}}

(* Other choices of identifiers by a minifier: for schemas and the zod     *)
(* alias; for a wrapper too; for an argument; a name that is blacklisted;  *)
(* and a leading "$" for a schema, the alias, a schema that is in no list. *)
Minified(f, word) == IF word \in DOMAIN f THEN f[word] ELSE word
Renamings ==
  {("Aa" :> "Bb") @@ ("Bb" :> "Cc") @@ ("Cc" :> "Aa") @@ ("z" :> "l6") @@ ("l6" :> "z"),
   ("Aa" :> "X1") @@ ("Ee" :> "Bb") @@ ("Bb" :> "Ee") @@ ("Uu" :> "Dd") @@ ("Dd" :> "Uu") @@ ("iI" :> "iJ"),
   ("Aa" :> "X1") @@ ("Vv" :> "Ww"), "Aa" :> "gt", "Aa" :> "$Kk", "z" :> "$l6", "Uu" :> "$"}
Renamed(bundle, f) ==
  [calls |-> [a \in {Minified(f, b) : b \in DOMAIN bundle.calls} |->
                bundle.calls[CHOOSE b \in DOMAIN bundle.calls : Minified(f, b) = a]],
   sites |-> [i \in DOMAIN bundle.sites |->
     LET site == bundle.sites[i]
     IN  [site EXCEPT !.alias = Minified(f, @),
            !.before = [j \in DOMAIN @ |-> Minified(f, @[j])],
            !.idents = [j \in DOMAIN @ |-> [@[j] EXCEPT !.ident = Minified(f, @)]]]]]
Shuffled(bundle, perm) ==
  [bundle EXCEPT !.sites = [i \in DOMAIN @ |-> @[perm[i]]]]
Without(bundle, i) == [bundle EXCEPT !.sites = RemoveAt(@, i)]

Taken(bundle) ==
  {i \in DOMAIN bundle.sites : Accepted(bundle.sites[i], detectAliases(bundle))}
NameAt(bundle, i) ==
  findBindingContext(TextBefore(bundle.sites[i]), detectAliases(bundle)).name
NamesDiffer(bundle) ==
  \A i, j \in Taken(bundle) :
     i # j => NameAt(bundle, i) # NameAt(bundle, j) \/ NameAt(bundle, i) = NONE

(* Where a renaming may be seen: in the names and aliases when one has a   *)
(* leading "$", in a body when it touches an ident that is not referred to *)
(* in the plainest way.                                                    *)
PlainIdent(ident) == ident \notin DOMAIN Dollared \cup IDENT_BLACKLIST
NamesPlain(bundle) ==
  \A i \in Taken(bundle) :
    PlainIdent(bundle.sites[i].alias) /\ \A w \in Range(bundle.sites[i].before) : PlainIdent(w)
PlainlyUsed(word) == word.how \notin {"bare", "applied"} /\ PlainIdent(word.ident)
SeenIn(site, site1) ==
  \E j \in DOMAIN site.idents :
    /\ site1.idents[j] # site.idents[j]
    /\ ~(PlainlyUsed(site.idents[j]) /\ PlainlyUsed(site1.idents[j]))
HasKey(site) == site.type # NONE \/ site.subtype # NONE
Diff(old, new) == compareSnapshots(Canonical(old), Canonical(new))

(* Another choice of identifiers by the minifier is no difference, as long *)
(* as none has a leading "$" or looks like a method, and those applied or  *)
(* given as arguments stay.  One that does not stay makes a difference,    *)
(* though the program is the same.  A leading "$" of the zod alias loses   *)
(* every name and discriminant, and the counts tell.                       *)
RenamingStable(bundle, f) ==
  LET other == Renamed(bundle, f)
      before == CoverageOf(bundle)
      lost == compareCoverage(before, CoverageOf(other))
      seen == {i \in Taken(bundle) : SeenIn(bundle.sites[i], other.sites[i])}
  IN  /\ NamesPlain(bundle) /\ NamesPlain(other) /\ seen = {} => Diff(bundle, other) = NoDiff
      /\ NamesDiffer(bundle) /\ NamesDiffer(other) /\ (\E i \in seen : HasKey(bundle.sites[i])) =>
           Diff(bundle, other) # NoDiff
      /\ (\A i \in Taken(other) : ~PlainIdent(other.sites[i].alias)) =>
           \A count \in {"bound", "types", "subtypes"} : before[count] > 0 => count \in lost

(* And when no identifier is used twice: each schema is in the canonical,  *)
(* under a key that does not depend on the order of the bundle (which      *)
(* number a key has does), and a body that changed is in the diff, as a    *)
(* lost one is in the counts.                                              *)
ExtractionStable(bundle) ==
  LET canon == Canonical(bundle)
      n == Len(bundle.sites)
  IN  /\ \A f \in Renamings : RenamingStable(bundle, f)
      /\ NamesDiffer(bundle) =>
           /\ Cardinality(DOMAIN canon) = Cardinality(Taken(bundle))
           /\ \A perm \in Permutations(1 .. n) :
                LET other == Canonical(Shuffled(bundle, perm))
                IN  /\ DOMAIN other = DOMAIN canon
                    /\ (\A k \in DOMAIN canon : k[2] = 1) =>
                         compareSnapshots(canon, other) = NoDiff
           /\ \A i \in Taken(bundle) :
                /\ Diff(bundle, [bundle EXCEPT !.sites[i].body = "b9"]) # NoDiff
                /\ compareCoverage(CoverageOf(bundle), CoverageOf(Without(bundle, i))) # {}

(***************************************************************************)
(* "patches": up to three patches on a canonical of three schemas.         *)
(***************************************************************************)
FieldX(v) == [name |-> 8, rhs |-> <<v>>]
Entry(name) == [inferredName |-> name, fields |-> <<FieldX("a")>>]
Canonical3 == [k \in 1 .. 3 |-> Entry(k)]
AnyPatch(kind) == [kind |-> kind, from |-> 1, to |-> 4, canonicalKey |-> 1, name |-> 5,
                   schema |-> 1, field |-> 8, value |-> "p"]
PatchesOffered ==
  {[AnyPatch("renameSchema") EXCEPT !.from = f, !.to = t] : f \in {1, 2}, t \in {2, 4}}
  \cup {[AnyPatch("resolveAnon") EXCEPT !.canonicalKey = k] : k \in {1, 3}}
  \cup {[AnyPatch(kind) EXCEPT !.schema = s, !.field = f] :
          kind \in {"addField", "fieldType", "removeField"}, s \in {1, 4}, f \in {8, 9}}
  \cup {[AnyPatch("fieldType") EXCEPT !.value = "q"], AnyPatch("discriminantHint")}
PatchLists == UNION {[1 .. n -> PatchesOffered] : n \in 0 .. 3}

SameKey(p, q) == p.kind = q.kind /\ stablePatchKey(p) = stablePatchKey(q)
Lone(list, i) ==
  \A j \in DOMAIN list :
     j # i /\ Renames(list[j]) =>
       /\ list[j].kind = "renameSchema" /\ list[i].from \notin {list[j].from, list[j].to}
       /\ list[i].to # list[j].from
About(p, q) == p.kind \in {"addField", "fieldType", "removeField"}
                 /\ p.schema = q.schema /\ p.field = q.field

(* What applies to what does not depend on the order patches are authored  *)
(* in, unless two have the same key.  When they apply, no two schemas have *)
(* one name, a rename chained to no other took place, and a field has the  *)
(* type of the last kind of patch about it, or is gone.                    *)
PatchesSound(list) ==
  LET out == applyPatches(Canonical3, list)
      n == Len(list)
  IN  /\ (\A i, j \in 1 .. n : i # j => ~SameKey(list[i], list[j])) =>
           \A perm \in Permutations(1 .. n) :
             applyPatches(Canonical3, [i \in 1 .. n |-> list[perm[i]]]) = out
      /\ out.ok =>
           /\ NamesUnique(out.entries)
           /\ \A i \in 1 .. n :
                /\ list[i].kind = "renameSchema" /\ Lone(list, i) =>
                     out.entries[list[i].from].emittedName = list[i].to
                /\ list[i].kind \in {"addField", "fieldType"} =>
                     \E k \in Called(out.entries, list[i].schema) :
                       IF \E j \in 1 .. n : About(list[j], list[i]) /\ list[j].kind = "removeField"
                       THEN ~HasField(out.entries[k], list[i].field)
                       ELSE \E j \in 1 .. n :
                              /\ About(list[j], list[i])
                              /\ order[list[j].kind] >= order[list[i].kind]
                              /\ out.entries[k].fields[FieldAt(out.entries[k], list[i].field)].rhs
                                   = <<Patch, list[j].value>>

(***************************************************************************)
(* "generate": three schemas that refer to each other in every way, and    *)
(* three with every discriminant and numbered key.                         *)
(***************************************************************************)
Idents == <<"I1", "I2", "I3">>
Schema(k) ==
  [emittedName |-> k, discriminantOverride |-> FALSE, discriminant |-> "anonymous",
   value |-> "none", number |-> 1, compound |-> FALSE, schemaKind |-> "object",
   enumValues |-> <<>>, unionMembers |-> {}, minifiedId |-> Idents[k], fields |-> <<>>]
RefTo(k) == [name |-> k, rhs |-> <<Idents[k], "(", ")">>]
Graph(edges, union) ==
  [k \in 1 .. 3 |->
     IF k = union /\ edges[k] # {}
     THEN [Schema(k) EXCEPT !.schemaKind = "union", !.unionMembers = edges[k]]
     ELSE [Schema(k) EXCEPT !.fields =
             [i \in 1 .. Cardinality(edges[k]) |-> RefTo(SetToSortSeq(edges[k], <)[i])]]]
Graphs3 ==
  {Graph(edges, union) : edges \in [1 .. 3 -> SUBSET (1 .. 3)], union \in 0 .. 1}

Discriminated(kind, value, number, compound) ==
  [kind |-> kind, value |-> value, number |-> number, compound |-> compound]
Positions ==
  {Discriminated("anonymous", "none", 1, FALSE),
   Discriminated("type", "a", 1, FALSE), Discriminated("type", "a", 2, FALSE),
   Discriminated("subtype", "i", 1, FALSE), Discriminated("subtype", "i", 2, FALSE),
   Discriminated("subtype", "i", 1, TRUE)}
FieldSets ==
  {<<>>, <<[name |-> 1, rhs |-> TextOf(Number)]>>, <<[name |-> 1, rhs |-> <<"q">>]>>,
   <<[name |-> 1, rhs |-> <<"q">>], [name |-> 2, rhs |-> TextOf(Number)]>>}
Catalogue(positions, fields) ==
  [k \in 1 .. 3 |->
     [Schema(k) EXCEPT !.discriminant = positions[k].kind, !.value = positions[k].value,
                       !.number = positions[k].number, !.compound = positions[k].compound,
                       !.fields = fields[k]]]
KeysDiffer(positions) ==
  \A k, l \in 1 .. 3 :
    /\ positions[k] = positions[l] => k = l \/ positions[k].kind = "anonymous"
    /\ positions[k].number = 2 => \E j \in 1 .. 3 : positions[j] = [positions[k] EXCEPT !.number = 1]
Catalogues ==
  {Catalogue(positions, fields) :
     positions \in {q \in [1 .. 3 -> Positions] : KeysDiffer(q)},
     fields \in {f \in [1 .. 3 -> FieldSets] : f[3] = f[2]}}

Precedes(order1, a, b) ==
  \E i, j \in DOMAIN order1 : i < j /\ order1[i] = a /\ order1[j] = b
ReachedFrom(deps, a) ==
  LET more(s) == s \cup UNION {deps[b] : b \in s}
  IN  more(more(deps[a]))

OrderSound(deps, sorted) ==
  /\ Range(sorted.order) = DOMAIN deps /\ Len(sorted.order) = Cardinality(DOMAIN deps)
  /\ \A a \in DOMAIN deps : \A b \in deps[a] :
       Precedes(sorted.order, b, a) \/ a \in ReachedFrom(deps, b)
  /\ sorted.cycles = {} <=> \A a \in DOMAIN deps : a \notin ReachedFrom(deps, a)
Dispatched(entries, table, kind) ==
  \A k \in DOMAIN entries : entries[k].discriminant = kind =>
    \E l \in DOMAIN entries :
       /\ entries[l].emittedName = table[entries[k].value]
       /\ entries[l].discriminant = kind /\ entries[l].value = entries[k].value
       /\ entries[l].number = 1 /\ (entries[l].compound => entries[k].compound \/ entries[k].number > 1)
CountsSound(coverage1, zeroField) ==
  coverage1.fullyTyped + Cardinality(zeroField) <= coverage1.discriminantKeyed
EmittedSound(entries, out) ==
  /\ \A deps \in {References(entries, out)} : OrderSound(deps, topoSort(deps))
  /\ CountsSound(computeCoverage(entries, out), zeroFieldDiscrim(entries, out))

(* A schema is declared once, and after every schema it refers to unless   *)
(* that one refers back to it, when a cycle is reported.  Every            *)
(* discriminant of the canonical is dispatched, to a schema that has it.   *)
(* A schema with no typed field counts as not fully typed.                 *)
EmissionSound(entries) ==
  /\ EmittedSound(entries, emitted(entries))
  /\ Dispatched(entries, inboundBySubtypeOf(entries), "subtype")
  /\ Dispatched(entries, inboundByTypeOf(entries), "type")

(***************************************************************************)
(* The profiles together                                                   *)
(***************************************************************************)
Inputs ==
  [translate |-> Expressions, fields |-> Bodies, enum |-> EnumLists, extract |-> Bundles,
   patches |-> PatchLists, generate |-> Graphs3 \cup Catalogues]
Idle == [kind |-> "behaviour"]

MCInit ==
  \/ /\ profile \in DOMAIN Inputs /\ input \in Inputs[profile]
     /\ CInit /\ binary = 0
     /\ HInit /\ test = InitThenEnd
  \/ /\ profile = "commands" /\ input = Idle
     /\ CInit
     /\ HInit /\ test = InitThenEnd
  \/ /\ profile = "harness" /\ input = Idle
     /\ CInit /\ binary = 0
     /\ HInit
MCNext ==
  \/ profile = "commands" /\ CNext /\ UNCHANGED <<hvars, profile, input>>
  \/ profile = "harness" /\ HNext /\ UNCHANGED <<cvars, profile, input>>
MCSpec == MCInit /\ [][MCNext]_mcvars /\ CFairness /\ HFairness

(* Every stage of the generator keeps what it is given, and the commands   *)
(* and the harness say of their files and their binary only what is so.    *)
CodegenFaithful ==
  CASE profile = "translate" -> TranslationFaithful(input)
    [] profile = "fields" -> FieldsWhole(input)
    [] profile = "enum" -> EnumsWhole(input)
    [] profile = "extract" -> ExtractionStable(input)
    [] profile = "patches" -> PatchesSound(input)
    [] profile = "generate" -> EmissionSound(input)
    [] profile = "commands" -> GreenIsHonest /\ DriftEnds
    [] profile = "harness" -> HarnessSafe

(* Every command ends, and every test of the harness is concluded.         *)
CodegenSettles ==
  /\ profile = "harness" => HarnessSettles
  /\ CommandsEnd
=============================================================================

------------------------------- MODULE Extract -------------------------------
(***************************************************************************)
(* extract.ts: from the call sites of zod methods in a bundle to the       *)
(* canonical, whose keys name a schema by its discriminants or by a hash   *)
(* of its body and so outlive the minifier's choice of identifiers, and    *)
(* the comparison of two canonicals.                                       *)
(*                                                                         *)
(* A bundle gives the number of zod-method calls on every identifier and   *)
(* its schema-defining sites in order.  A site has the text before it, the *)
(* identifier and method called, what decides whether it looks like a      *)
(* schema, its discriminants, its fields, the idents of its body in order, *)
(* each with how it is written there, and the rest of the body (a model    *)
(* value).  An ident is a zod alias before a dot ("zod"), is called        *)
(* without arguments ("ref", and "closing" right before the end of a       *)
(* union's list) or with some ("applied"), or is itself an argument        *)
(* ("bare").                                                               *)
(***************************************************************************)
EXTENDS Scan

ZOD_ALIAS_THRESHOLD == 5
ALIAS_DENYLIST == {"this", "coerce"}
IDENT_BLACKLIST == {"gt", "of"}   \* of some 150, those a minifier may choose
NONE == "none"

(* What \b[A-Za-z_$][\w$]* finds of an identifier: no word begins before a *)
(* leading "$", so that one is left out, and a lone "$" is not found.      *)
Dollared == ("$Hh" :> "Hh") @@ ("$Kk" :> "Kk") @@ ("$l6" :> "l6") @@ ("$" :> NONE)
Seen(ident) == IF ident \in DOMAIN Dollared THEN Dollared[ident] ELSE ident

(* detectAliases(text): every identifier with enough zod-method calls      *)
detectAliases(bundle) ==
  LET idents == DOMAIN bundle.calls
      count(a) == MapThenSumSet(LAMBDA i : bundle.calls[i], {i \in idents : Seen(i) = a})
  IN  {a \in {Seen(i) : i \in idents} :
         a # NONE /\ count(a) >= ZOD_ALIAS_THRESHOLD} \ ALIAS_DENYLIST

(* findBindingContext(text, callSiteStart): the text right before the      *)
(* site, in which the "$" of a zod alias is the last word.                 *)
Binding(name, wrapper) == [name |-> Seen(name), wrapper |-> wrapper]
TextBefore(site) ==
  IF site.alias \in DOMAIN Dollared THEN Append(site.before, "$") ELSE site.before
findBindingContext(before, aliases) ==
  LET n == Len(before)
      Tail4 == SubSeq(before, n - 3, n)
      Tail5 == SubSeq(before, n - 4, n)
  IN  CASE n >= 2 /\ before[n] = "=" -> Binding(before[n - 1], NONE)
        [] n >= 5 /\ Tail5[2] = "=" /\ Tail5[4] = "(" /\ Tail5[5] = "()=>" ->
             Binding(Tail5[1], Tail5[3])
        [] n >= 4 /\ Tail4[2] = "=" /\ Tail4[4] = "(" /\ Tail4[3] \notin aliases ->
             Binding(Tail4[1], Tail4[3])
        [] OTHER -> Binding(NONE, NONE)

(* The filters on a site: a known alias, parentheses that balance, a body  *)
(* that starts with a literal or holds a zod call.                         *)
Accepted(site, aliases) ==
  /\ Seen(site.alias) \in aliases
  /\ site.closes
  /\ site.args \in {"literal", "zod call", "empty"}

(* matchTypeLiteral, matchSubtypeLiteral: ": alias.literal(" is not found  *)
(* when the alias has a leading "$".                                       *)
LiteralSeen(site, value) == IF site.alias \in DOMAIN Dollared THEN NONE ELSE value

(* extract(binaryPath): the first binding of a name wins.                  *)
RECURSIVE ExtractFrom(_, _, _)
ExtractFrom(sites, aliases, seen) ==
  IF sites = <<>> THEN <<>>
  ELSE LET site == Head(sites)
           name == findBindingContext(TextBefore(site), aliases).name
           schema == [name |-> name, kind |-> site.kind, fields |-> site.fields,
                      type |-> LiteralSeen(site, site.type),
                      subtype |-> LiteralSeen(site, site.subtype),
                      text |-> <<site.kind, site.type, site.subtype, site.fields, site.body>>,
                      idents |-> site.idents]
           rest == Tail(sites)
       IN  IF ~Accepted(site, aliases) \/ name \in seen
           THEN ExtractFrom(rest, aliases, seen)
           ELSE <<schema>> \o ExtractFrom(rest, aliases, (seen \cup {name}) \ {NONE})
extract(bundle) == ExtractFrom(bundle.sites, detectAliases(bundle), {})

(* resolveUnions: the idents called without arguments between "union(["    *)
(* and the first "])", however deep in a member they are.                  *)
Closing(schema) == {i \in DOMAIN schema.idents : schema.idents[i].how = "closing"}
Listed(word) ==
  word.how \in {"ref", "closing"} /\ Seen(word.ident) \notin IDENT_BLACKLIST \cup {NONE}
resolveUnions(schema) ==
  IF schema.kind # "union" \/ schema.name = NONE THEN <<>>
  ELSE LET end == IF Closing(schema) = {} THEN Len(schema.idents) ELSE Min(Closing(schema))
           listed == SelectSeq(SubSeq(schema.idents, 1, end), Listed)
       IN  [i \in DOMAIN listed |-> Seen(listed[i].ident)]

(* mangleBodyForHash: a zod alias before a dot becomes one word, and an    *)
(* ident called without arguments another, unless it looks like a method   *)
(* or a keyword; a leading "$" stays before either.  Any other ident, one  *)
(* that is applied or an argument, stays as the minifier chose it.         *)
Replaced(ident, by) == IF ident \in DOMAIN Dollared THEN "$" \o by ELSE by
MinifiedBody(schema, aliases) == schema   \* mutant: nothing replaced
mangleBodyForHash(schema, aliases) ==
  LET mangled(word) ==
        CASE word.how = "zod" /\ Seen(word.ident) \in aliases -> Replaced(word.ident, "__Z__")
          [] Listed(word) -> Replaced(word.ident, "__REF__")
          [] OTHER -> word.ident
  IN  <<schema.text,
        [i \in DOMAIN schema.idents |-> [schema.idents[i] EXCEPT !.ident = mangled(schema.idents[i])]]>>

(* The key without its collision number: the hash is the mangled body.     *)
KeyOf(schema, aliases) ==
  IF schema.type = NONE /\ schema.subtype = NONE
  THEN <<"anon", mangleBodyForHash(schema, aliases)>>
  ELSE <<schema.type, schema.subtype>>
Discriminant(schema) ==
  IF schema.subtype # NONE THEN <<"subtype", schema.subtype>>
  ELSE IF schema.type # NONE THEN <<"type", schema.type>>
  ELSE <<"anonymous", NONE>>

(* Union members by the key of the schema they name, without a number;     *)
(* the ones that name no schema are dropped.  The list is sorted: here a   *)
(* bag.                                                                    *)
MemberKeys(schema, schemas, aliases) ==
  LET members == resolveUnions(schema)
      named(m) == {i \in DOMAIN schemas : schemas[i].name = m}
      known == SelectSeq(members, LAMBDA m : named(m) # {})
  IN  ToBag([i \in DOMAIN known |-> KeyOf(schemas[Max(named(known[i]))], aliases)])

(* canonicalize: a key that is taken gets the next number.                 *)
RECURSIVE CanonicalFrom(_, _, _, _)
CanonicalFrom(i, schemas, aliases, out) ==
  IF i > Len(schemas) THEN out
  ELSE LET s == schemas[i]
           key == KeyOf(s, aliases)
           n == CHOOSE k \in 1 .. i : /\ <<key, k>> \notin DOMAIN out
                                      /\ \A j \in 1 .. k - 1 : <<key, j>> \in DOMAIN out
           entry == [discriminant |-> Discriminant(s), schemaKind |-> s.kind,
                     fieldNames |-> s.fields, bodyHash |-> mangleBodyForHash(s, aliases),
                     members |-> MemberKeys(s, schemas, aliases), minifiedId |-> s.name]
       IN  CanonicalFrom(i + 1, schemas, aliases, out @@ (<<key, n>> :> entry))
canonicalize(schemas, aliases) == CanonicalFrom(1, schemas, aliases, <<>>)
Canonical(bundle) == canonicalize(extract(bundle), detectAliases(bundle))

(* compareSnapshots: keys added and removed, entries changed.  The         *)
(* minified ident is not compared.                                         *)
Compared(entry) ==
  <<entry.bodyHash, entry.schemaKind, Range(entry.fieldNames), BagToSet(entry.members)>>
compareSnapshots(old, new) ==
  [added |-> DOMAIN new \ DOMAIN old,
   removed |-> DOMAIN old \ DOMAIN new,
   changed |-> {k \in DOMAIN old \cap DOMAIN new : Compared(old[k]) # Compared(new[k])}]
NoDiff == [added |-> {}, removed |-> {}, changed |-> {}]

(* compareCoverage: a count that dropped by more than a tenth              *)
CoverageOf(bundle) ==
  LET schemas == extract(bundle)
      count(P(_)) == Cardinality({i \in DOMAIN schemas : P(schemas[i])})
  IN  [sites |-> Cardinality({i \in DOMAIN bundle.sites :
                   Seen(bundle.sites[i].alias) \in detectAliases(bundle) /\ bundle.sites[i].closes}),
       bound |-> count(LAMBDA s : s.name # NONE),
       anonymous |-> count(LAMBDA s : s.name = NONE),
       types |-> count(LAMBDA s : s.type # NONE),
       subtypes |-> count(LAMBDA s : s.subtype # NONE),
       aliases |-> Cardinality(detectAliases(bundle))]
compareCoverage(prior, current) ==
  {f \in DOMAIN prior : prior[f] > 0 /\ 10 * current[f] < 9 * prior[f]}
=============================================================================

------------------------------ MODULE Translate ------------------------------
(***************************************************************************)
(* The per-field translation of generate.ts: a right-hand side of the      *)
(* canonical, a zod expression, becomes an arktype expression, or nothing  *)
(* when no rule matches.  The rules are regular expressions over the       *)
(* text; here they look at its first and last tokens the same way.         *)
(***************************************************************************)
EXTENDS Scan

Str(text) == [kind |-> "string", value |-> text]
Exp(node) == [kind |-> "expr", value |-> node]
None == [kind |-> "none"]

Ns == {"z", "l6"}   \* the zod namespaces of a bundle
Primitives ==
  [p \in {".string", ".boolean", ".number", ".null", ".unknown", ".any"} |->
     CASE p = ".string" -> "string" [] p = ".boolean" -> "boolean"
       [] p = ".number" -> "number" [] p = ".null" -> "null"
       [] OTHER -> "unknown"]
Constants == ("!0" :> "true") @@ ("!1" :> "false") @@ ("1" :> "1")

(* "<ns>.<method>(" ... ")", and what the parentheses hold                 *)
IsCall(t, methods) ==
  /\ Len(t) >= 4 /\ t[1] \in Ns /\ t[2] \in methods
  /\ t[3] = "(" /\ Last(t) = ")"
Arg(t) == SubSeq(t, 4, Len(t) - 1)
IsQuoted(t) == Len(t) = 3 /\ t[1] \in {"dq", "sq"} /\ t[3] = t[1]
Quoted(word) == "'" \o word \o "'"
In(t, open, close) == Len(t) >= 2 /\ Head(t) = open /\ Last(t) = close
Inside(t) == SubSeq(t, 2, Len(t) - 1)
IsName(word) == word \notin Marks \cup Ns
NonEmpty(pieces) == SelectSeq(pieces, LAMBDA p : p # <<>>)

RECURSIVE Joined(_)
Joined(texts) ==
  IF Len(texts) = 1 THEN texts[1] ELSE texts[1] \o <<"|">> \o Joined(Tail(texts))

(* <ns>.literal(v)                                                         *)
Literal(arg) ==
  IF IsQuoted(arg) THEN Str(<<Quoted(arg[2])>>)
  ELSE IF Len(arg) = 1 /\ arg[1] \in DOMAIN Constants
       THEN Str(<<Constants[arg[1]]>>) ELSE None

(* <ns>.enum([...]): every entry a string                                  *)
EnumOf(arg) ==
  LET items == NonEmpty(splitTopLevel(Inside(arg), ","))
  IN  IF items = <<>> \/ \E i \in DOMAIN items : ~IsQuoted(items[i]) THEN None
      ELSE Str(Joined([i \in DOMAIN items |-> <<Quoted(items[i][2])>>]))

(* T[]; a text with a space in it is put in parentheses, unless it already *)
(* starts with one: a union of such an array is not.                       *)
NeedsParen(text) == Range(text) \cap {"|", ","} # {} /\ Head(text) # "("
ArrayOf(inner) ==
  IF inner.kind = "none" THEN None
  ELSE IF inner.kind = "expr" THEN Exp([op |-> "array", of |-> inner])
  ELSE IF NeedsParen(inner.value)
       THEN Str(<<"(">> \o inner.value \o <<")", "[]">>)
  ELSE Str(Append(inner.value, "[]"))

(* Record<k, v>, or an index signature when v is a JavaScript expression;  *)
(* a key that is one is taken for "string".                                *)
RecordOf(k, v) ==
  IF k.kind = "none" \/ v.kind = "none" THEN None
  ELSE IF k.kind = "string" /\ v.kind = "string"
       THEN Str(<<"Record<">> \o k.value \o <<",">> \o v.value \o <<">">>)
  ELSE Exp([op |-> "index", of |-> v,
            key |-> IF k.kind = "string" THEN k.value ELSE <<"string">>])

UnionOf(members) ==
  IF members = <<>> \/ \E i \in DOMAIN members : members[i].kind = "none" THEN None
  ELSE IF \A i \in DOMAIN members : members[i].kind = "string"
       THEN Str(Joined([i \in DOMAIN members |-> members[i].value]))
  ELSE Exp([op |-> "or", of |-> members])

Nullable(inner) ==
  IF inner.kind = "string" THEN Str(inner.value \o <<"|", "null">>)
  ELSE Exp([op |-> "or", of |-> <<inner, Str(<<"null">>)>>])

(* parseInlineObjectFields: <name>:<rhs> pairs, a name bare or quoted;     *)
(* anything else fails the whole object.                                   *)
InlineField(p) ==
  IF Len(p) >= 5 /\ IsQuoted(SubSeq(p, 1, 3)) /\ p[4] = ":"
  THEN [name |-> p[2], rhs |-> SubSeq(p, 5, Len(p))]
  ELSE IF Len(p) >= 3 /\ p[1] \notin Marks /\ p[2] = ":"
  THEN [name |-> p[1], rhs |-> SubSeq(p, 3, Len(p))]
  ELSE [name |-> "none"]
parseInlineObjectFields(t) ==
  LET pieces == NonEmpty(splitTopLevel(t, ","))
  IN  [i \in DOMAIN pieces |-> InlineField(pieces[i])]

Suffix(name) == <<name, "(", ")">>
EndsWith(t, suffix) == Len(t) > Len(suffix) /\ IsSuffix(suffix, t)
RECURSIVE StripEach(_, _)
StripEach(t, suffix) ==
  IF EndsWith(t, suffix)
  THEN StripEach(SubSeq(t, 1, Len(t) - Len(suffix)), suffix) ELSE t

(* The wrappers dropped one after the other, each at most once, in the     *)
(* order of the list and not of the text.                                  *)
Wrappers ==
  <<".default", ".catch", ".min", ".max", ".int", ".positive", ".negative",
    ".trim", ".url", ".email", ".uuid", ".regex", ".refine", ".transform",
    ".pipe", ".brand", ".readonly">>
RECURSIVE StripWrappers(_, _)
StripWrappers(t, wrappers) ==
  IF wrappers = <<>> THEN t
  ELSE StripWrappers(stripCallSuffix(t, Head(wrappers)), Tail(wrappers))

(* A patched right-hand side: the author's expression, taken as it is.     *)
Patch == "__PATCH__:"
Patched(t) ==
  LET optional == Last(t) = "?"
      body == IF optional THEN Front(t) ELSE t
  IN  [arktype |-> IF Head(body) = "expr:" THEN Exp([op |-> "ref", name |-> body[2]])
                   ELSE Str(body),
       optional |-> optional]

RECURSIVE translateInner(_, _), translateRhs(_, _), ObjectOf(_, _)

(* translateRhs(rhs, annotated): the wrappers off, the inner expression    *)
(* translated, null put back.  names: emitted names by minified ident.     *)
FieldType(inner, optional, nullable) ==
  IF inner.kind = "none" THEN [arktype |-> None, optional |-> TRUE]
  ELSE [arktype |-> IF nullable THEN Nullable(inner) ELSE inner, optional |-> optional]
OfDescribed(described, names) ==
  LET required == StripEach(described, Suffix(".optional"))
      nonNull == StripEach(required, Suffix(".nullable"))
      bare == StripEach(nonNull, Suffix(".nullish"))
  IN  FieldType(translateInner(StripWrappers(bare, Wrappers), names),
                required # described \/ bare # nonNull, bare # required)
translateRhs(rhs, names) ==
  IF Head(rhs) = Patch THEN Patched(Tail(rhs))
  ELSE OfDescribed(stripCallSuffix(rhs, ".describe"), names)

ObjectOf(t, names) ==
  LET fields == parseInlineObjectFields(t)
      Of(f) == translateRhs(f.rhs, names)
  IN  IF \E i \in DOMAIN fields :
           fields[i].name = "none" \/ Of(fields[i]).arktype.kind = "none"
      THEN None
      ELSE Exp([op |-> "object", of |->
             [i \in DOMAIN fields |->
                [name |-> fields[i].name] @@ Of(fields[i])]])

translateInner(t, names) ==
  LET Inner(s) == translateInner(s, names)
      Each(texts) == [i \in DOMAIN texts |-> Inner(texts[i])]
  IN
  CASE IsCall(t, DOMAIN Primitives) /\ Len(t) = 4 -> Str(<<Primitives[t[2]]>>)
    [] IsCall(t, {".literal"}) -> Literal(Arg(t))
    [] IsCall(t, {".enum"}) /\ In(Arg(t), "[", "]") -> EnumOf(Arg(t))
    [] IsCall(t, {".array"}) -> ArrayOf(Inner(Arg(t)))
    [] IsCall(t, {".record"}) ->
         LET args == splitTopLevel(Arg(t), ",")
         IN  CASE Len(args) = 1 -> RecordOf(Str(<<"string">>), Inner(args[1]))
               [] Len(args) = 2 -> RecordOf(Inner(args[1]), Inner(args[2]))
               [] OTHER -> None
    [] IsCall(t, {".lazy"}) /\ Len(t) > 4 /\ t[4] = "()=>" -> Inner(Tail(Arg(t)))
    [] IsCall(t, {".union"}) /\ In(Arg(t), "[", "]") ->
         UnionOf(Each(NonEmpty(splitTopLevel(Inside(Arg(t)), ","))))
    [] Len(t) = 3 /\ IsName(t[1]) /\ Tail(t) = <<"(", ")">> ->
         IF t[1] \in DOMAIN names THEN Exp([op |-> "ref", name |-> names[t[1]]])
         ELSE None
    [] Len(t) > 3 /\ IsName(t[1]) /\ In(Tail(t), "(", ")") -> Inner(Inside(Tail(t)))
    [] IsCall(t, {".object", ".strictObject", ".looseObject"})
         /\ In(Arg(t), "{", "}") -> ObjectOf(Inside(Arg(t)), names)
    [] OTHER -> None
=============================================================================

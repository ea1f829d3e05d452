------------------------------- MODULE Meaning -------------------------------
(***************************************************************************)
(* What zod and arktype, the two libraries the code generator stands       *)
(* between, make of an expression: the values they accept.  A zod          *)
(* expression is a tree here, with the text it has in the bundle; the      *)
(* translation has to keep the values of the tree.                         *)
(***************************************************************************)
EXTENDS Translate

Strings == {"a", "b", "s"}
Numbers == {"1", "n"}
Booleans == {"true", "false"}
Atom(v) == [k |-> "atom", v |-> v]
Arr(v) == [k |-> "array", v |-> v]
Obj(v) == [k |-> "object", v |-> v]
Atoms == {Atom(v) : v \in {"a", "s", "1", "true", "null"}}
Flat == Atoms \cup {Arr(<<>>)} \cup {Arr(<<v>>) : v \in Atoms}
Values == Flat \cup {Arr(<<v>>) : v \in Flat \ Atoms}
          \cup {Obj(<<>>)} \cup {Obj([x |-> v]) : v \in Atoms}
Absent == [k |-> "absent"]

OfPrimitive(name, v) ==
  \/ name = "unknown"
  \/ v.k = "atom" /\ v.v \in CASE name = "string" -> Strings
                               [] name = "number" -> Numbers
                               [] name = "boolean" -> Booleans
                               [] OTHER -> {name}

(* The schemas a reference may name: minified ident, emitted name, values  *)
Names == [Ab |-> "Alpha"]
Named(v) == v = Atom("a")

(* arktype: its string DSL, where [] binds tighter than |                  *)
DslLexer == Lexer({}, {"(", "Record<"}, {")", ">"})
Alternatives(t) ==
  LET s == Tokens(DslLexer, t)
  IN  Pieces(t, {0, Len(t) + 1} \cup {i \in DOMAIN t : s[i].depth = 0 /\ t[i] = "|"})
RECURSIVE DslAllows(_, _)
DslAllows(t, v) ==
  LET alternatives == Alternatives(t)
  IN  IF Len(alternatives) > 1
      THEN \E i \in DOMAIN alternatives : DslAllows(alternatives[i], v)
      ELSE IF Last(t) = "[]"
      THEN v.k = "array" /\ \A i \in DOMAIN v.v : DslAllows(Front(t), v.v[i])
      ELSE IF Head(t) = "(" THEN DslAllows(Inside(t), v)
      ELSE IF Head(t) = "Record<"
      THEN v.k = "object" /\ \A x \in DOMAIN v.v : DslAllows(SubSeq(t, 4, Len(t) - 1), v.v[x])
      ELSE IF \E w \in Strings : t[1] = Quoted(w)
      THEN v.k = "atom" /\ t[1] = Quoted(v.v)
      ELSE OfPrimitive(t[1], v)

(* arktype: expressions                                                    *)
RECURSIVE arkAllows(_, _)
arkAllows(e, v) ==
  IF e.kind = "none" THEN TRUE
  ELSE IF e.kind = "string" THEN DslAllows(e.value, v)
  ELSE LET n == e.value IN
    CASE n.op = "ref" -> Named(v)
      [] n.op = "array" -> v.k = "array" /\ \A i \in DOMAIN v.v : arkAllows(n.of, v.v[i])
      [] n.op = "or" -> \E i \in DOMAIN n.of : arkAllows(n.of[i], v)
      [] n.op = "index" -> v.k = "object" /\ \A x \in DOMAIN v.v : arkAllows(n.of, v.v[x])
      [] n.op = "object" ->
           /\ v.k = "object"
           /\ \A i \in DOMAIN n.of :
                IF n.of[i].name \in DOMAIN v.v
                THEN arkAllows(n.of[i].arktype, v.v[n.of[i].name])
                ELSE n.of[i].optional
fieldAllows(f, v) == IF v = Absent THEN f.optional ELSE arkAllows(f.arktype, v)

(* zod: an expression is its method, what it holds, and the calls chained  *)
(* after it.                                                               *)
Zod(op, of, chain) == [op |-> op, of |-> of, chain |-> chain]
Calls(e) == Range(e.chain)
Nulls(e) == Calls(e) \cap {".nullable", ".nullish"} # {}
(* the value parse returns: a default leaves nothing absent                *)
Missing(e) ==
  \E i \in DOMAIN e.chain :
     /\ e.chain[i] \in {".optional", ".nullish"}
     /\ \A j \in i + 1 .. Len(e.chain) : e.chain[j] # ".default"
RECURSIVE zodAllows(_, _)
zodAllows(e, v) ==
  IF v = Absent THEN Missing(e)
  ELSE \/ Nulls(e) /\ v = Atom("null")
       \/ CASE e.op = "prim" -> OfPrimitive(Primitives[e.of], v)
            [] e.op = "literal" -> v = Atom(e.of)
            [] e.op = "enum" -> v.k = "atom" /\ v.v \in Range(e.of)
            [] e.op = "array" -> v.k = "array" /\ \A i \in DOMAIN v.v : zodAllows(e.of, v.v[i])
            [] e.op = "record" -> v.k = "object" /\ \A x \in DOMAIN v.v : zodAllows(e.of, v.v[x])
            [] e.op \in {"lazy", "wrap"} -> zodAllows(e.of, v)
            [] e.op = "union" -> \E i \in DOMAIN e.of : zodAllows(e.of[i], v)
            [] e.op = "ref" -> Named(v)
            [] e.op = "object" ->
                 /\ v.k = "object"
                 /\ \A i \in DOMAIN e.of :
                      zodAllows(e.of[i].of, IF e.of[i].name \in DOMAIN v.v
                                            THEN v.v[e.of[i].name] ELSE Absent)

(* Its text in the bundle                                                  *)
Said(word) == <<"dq", word, "dq">>
ChainText(call) ==
  CASE call = ".describe" -> <<".describe", "(">> \o Said("words") \o <<")">>
    [] call = ".describe(" -> <<".describe", "(", "dq", "see", "(", "dq", ")">>
    [] call = ".min" -> <<".min", "(", "1", ")">>
    [] call = ".default" -> <<".default", "(">> \o Said("a") \o <<")">>
    [] OTHER -> Suffix(call)
Commas(texts) ==
  FlattenSeq([i \in DOMAIN texts |-> IF i = 1 THEN texts[i] ELSE <<",">> \o texts[i]])
RECURSIVE TextOf(_)
TextOf(e) ==
  LET Call(method, arg) == <<"z", method, "(">> \o arg \o <<")">>
      head ==
        CASE e.op = "prim" -> Call(e.of, <<>>)
          [] e.op = "literal" ->
               Call(".literal", IF e.of = "true" THEN <<"!0">>
                                ELSE IF e.of = "1" THEN <<"1">> ELSE Said(e.of))
          [] e.op = "enum" ->
               Call(".enum", <<"[">> \o Commas([i \in DOMAIN e.of |-> Said(e.of[i])]) \o <<"]">>)
          [] e.op = "array" -> Call(".array", TextOf(e.of))
          [] e.op = "record" -> Call(".record", Call(".string", <<>>) \o <<",">> \o TextOf(e.of))
          [] e.op = "lazy" -> Call(".lazy", <<"()=>">> \o TextOf(e.of))
          [] e.op = "wrap" -> <<"iI", "(">> \o TextOf(e.of) \o <<")">>
          [] e.op = "ref" -> <<e.of, "(", ")">>
          [] e.op = "union" ->
               Call(".union", <<"[">> \o Commas([i \in DOMAIN e.of |-> TextOf(e.of[i])]) \o <<"]">>)
          [] e.op = "object" ->
               Call(".object", <<"{">> \o
                 Commas([i \in DOMAIN e.of |-> <<e.of[i].name, ":">> \o TextOf(e.of[i].of)])
                 \o <<"}">>)
  IN  head \o FlattenSeq([i \in DOMAIN e.chain |-> ChainText(e.chain[i])])
=============================================================================

-------------------------------- MODULE Scan --------------------------------
(***************************************************************************)
(* The text scanners of the code generator: findBalanced and               *)
(* extractFieldsFromObjectBody of extract.ts, splitTopLevel and            *)
(* stripCallSuffix of generate.ts.  Each walks the bundle's text with its  *)
(* own idea of what a string and a comment are.  A text is a sequence of   *)
(* tokens: punctuation, the quotes "dq", "sq" and "bq", comment marks,     *)
(* "nl", and words; white space is left out.                               *)
(***************************************************************************)
EXTENDS Integers, Sequences, SequencesExt, FiniteSetsExt

Opens == {"(", "[", "{"}
Closes == {")", "]", "}"}
Quotes == {"dq", "sq", "bq"}
Comments == {"//", "/*"}
Marks == Opens \cup Closes \cup Quotes \cup Comments \cup
         {"*/", "nl", "escape", ",", ":"}

(* What each scanner skips, what it counts, and down to which depth it     *)
(* knows a string                                                          *)
Lexer(skips, opens, closes) ==
  [skips |-> skips, opens |-> opens, closes |-> closes, stringsTo |-> 99]
BalancedLexer == Lexer(Quotes \cup Comments, {"("}, {")"})
FieldsLexer == Lexer(Quotes \cup Comments, Opens, Closes)
SplitLexer == Lexer({"dq", "sq"}, Opens, Closes)
BlindLexer == Lexer({}, {"("}, {")"})
EnumLexer == [FieldsLexer EXCEPT !.stringsTo = 1]

Ends(mode, c) ==
  \/ mode \in Quotes /\ c = mode
  \/ mode = "//" /\ c = "nl"
  \/ mode = "/*" /\ c = "*/"

(* For every token, whether the scanner reads it as code or in a comment,  *)
(* and the depth after it.                                                 *)
RECURSIVE Scan(_, _, _, _)
Scan(lexer, t, mode, depth) ==
  IF t = <<>> THEN <<>>
  ELSE LET c == Head(t)
           code == mode = "code"
           d == IF code /\ c \in lexer.opens THEN depth + 1
                ELSE IF code /\ c \in lexer.closes THEN depth - 1
                ELSE depth
           skipped == c \in lexer.skips /\ (c \in Quotes => depth <= lexer.stringsTo)
           here == <<[code |-> code, depth |-> d,
                      comment |-> mode \in Comments \/ (code /\ c \in Comments)]>>
           escapes == mode \in Quotes /\ c = "escape" /\ Len(t) > 1
           after == IF code /\ skipped THEN c
                    ELSE IF Ends(mode, c) THEN "code" ELSE mode
       IN  IF escapes
           THEN here \o here \o Scan(lexer, Tail(Tail(t)), mode, d)
           ELSE here \o Scan(lexer, Tail(t), after, d)

Tokens(lexer, t) == Scan(lexer, t, "code", 0)

(* The first token of t that brings the depth back to 0; 0 if none does.   *)
BackIn(s, lexer, t) ==
  LET back == {i \in DOMAIN t : s[i].code /\ s[i].depth = 0 /\ t[i] \in lexer.closes}
  IN  IF back = {} THEN 0 ELSE Min(back)
FirstBack(lexer, t) == BackIn(Tokens(lexer, t), lexer, t)

(* What the scanner reads as code at a depth                               *)
CodeAt(s, i, depth) == s[i].code /\ s[i].depth = depth

(* findBalanced(text, openIdx): the matching ")", or 0 (-1 in the code)    *)
Offset(open, back) == IF back = 0 THEN 0 ELSE open - 1 + back
findBalanced(t, open) ==
  Offset(open, FirstBack(BalancedLexer, SubSeq(t, open, Len(t))))

(* The pieces of t between the positions of cuts                           *)
Between(t, at) == [i \in 1 .. Len(at) - 1 |-> SubSeq(t, at[i] + 1, at[i + 1] - 1)]
Pieces(t, cuts) == Between(t, SetToSortSeq(cuts, <))

(* splitTopLevel(s, ","): strings are skipped, template strings and        *)
(* comments are not.                                                       *)
SplitAt(t, delim, s) ==
  Pieces(t, {0, Len(t) + 1} \cup {i \in DOMAIN t : CodeAt(s, i, 0) /\ t[i] = delim})
splitTopLevel(t, delim) == SplitAt(t, delim, Tokens(SplitLexer, t))

(* stripCallSuffix(body, name): the right-most ".name(" whose parenthesis, *)
(* counted without regard to strings, closes at the very end.              *)
CutBefore(t, calls) == IF calls = {} THEN t ELSE SubSeq(t, 1, Max(calls) - 1)
stripCallSuffix(t, name) ==
  CutBefore(t, {i \in DOMAIN t : i < Len(t) /\ t[i] = name /\ t[i + 1] = "("
                  /\ FirstBack(BlindLexer, SubSeq(t, i + 1, Len(t))) = Len(t) - i})

(* One piece of an object literal: the first word at its top level that a  *)
(* colon follows is the key, the rest its right-hand side.  A quoted key   *)
(* is skipped as any string is, and its field with it.                     *)
KeysOf(piece, s) ==
  {i \in DOMAIN piece : /\ CodeAt(s, i, 0) /\ piece[i] \notin Marks
                        /\ i + 1 < Len(piece) /\ piece[i + 1] = ":"}
FieldFrom(piece, keys) ==
  IF keys = {} THEN <<>>
  ELSE LET k == Min(keys)
       IN  <<[name |-> piece[k], rhs |-> SubSeq(piece, k + 2, Len(piece))]>>
FieldOf(piece) == FieldFrom(piece, KeysOf(piece, Tokens(FieldsLexer, piece)))

(* extractFieldsFromObjectBody(body): the fields of the first object       *)
(* literal; a literal that never closes loses its last one.                *)
EndFrom(t, back) == IF back = 0 THEN Len(t) + 1 ELSE back
EndOf(lexer, t) == EndFrom(t, FirstBack(lexer, t))
CommasOf(t, s, end) == {i \in 1 .. end - 1 : CodeAt(s, i, 1) /\ t[i] = ","}
FieldsOf(pieces) == FlattenSeq([i \in DOMAIN pieces |-> FieldOf(pieces[i])])
extractFieldsFromObjectBody(t) ==
  IF t = <<>> \/ Head(t) # "{" THEN <<>>
  ELSE FieldsOf(Pieces(t, ({1, FirstBack(FieldsLexer, t)} \ {0}) \cup
                            CommasOf(t, Tokens(FieldsLexer, t), EndOf(FieldsLexer, t))))

(* extractEnumValues(body): the strings of a list; nothing when a member   *)
(* is not a string, unless all of it is in brackets, when it is left out.  *)
Null == <<"null">>
IsString(m) == Len(m) >= 2 /\ Head(m) \in Quotes /\ Last(m) = Head(m)
Content(m) == SelectSeq(SubSeq(m, 2, Len(m) - 1), LAMBDA c : c # "escape")
MemberOf(m, s) ==
  IF IsString(m) /\ \A i \in 2 .. Len(m) - 1 : ~s[i + 1].code THEN <<Content(m)>>
  ELSE IF \A i \in DOMAIN m : CodeAt(s, i + 1, 1) => m[i] \in Closes THEN <<>>
  ELSE <<Null>>
EnumMember(m) == MemberOf(m, Tokens(EnumLexer, <<"[">> \o m))
Uncommented(t, s, from, to) ==
  FlattenSeq([i \in 1 .. to - from - 1 |->
                IF s[from + i].comment THEN <<>> ELSE <<t[from + i]>>])
MembersOf(t, s, at) ==
  FlattenSeq([i \in 1 .. Len(at) - 1 |-> EnumMember(Uncommented(t, s, at[i], at[i + 1]))])
AllOrNull(values) == IF Null \in Range(values) THEN Null ELSE values
EnumFrom(t, s, end) ==
  AllOrNull(MembersOf(t, s, SetToSortSeq({1, end} \cup CommasOf(t, s, end), <)))
extractEnumValues(t) ==
  IF t = <<>> \/ Head(t) # "[" THEN Null
  ELSE EnumFrom(t, Tokens(EnumLexer, t), EndOf(EnumLexer, t))
=============================================================================

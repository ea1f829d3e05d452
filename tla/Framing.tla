------------------------------ MODULE Framing ------------------------------
(***************************************************************************)
(* The JSONL framing of a pipe (process/framing.ts) and the pump of        *)
(* stdioTransport that drives it: text arrives cut anywhere, complete      *)
(* lines come out and are parsed, the rest waits in the parser's buffer.   *)
(* A frame's text is <<"open", "close">>; a line parses when it is one.    *)
(***************************************************************************)
EXTENDS Naturals, Sequences, Subsequences

CONSTANT Texts    \* the texts a child may write

Newline == "newline"
Chars == {"open", "close", Newline}
ASSUME TextsAssumption == Texts \subseteq Seq(Chars)

VARIABLES
  text,      \* all the child writes before its stdout ends
  fed,       \* how much of it was read
  buf,       \* LineParser.buf
  frames,    \* lines that parsed and were dispatched
  rawLines,  \* lines handed to onRawLine
  stdout     \* open or ended

fvars == <<text, fed, buf, frames, rawLines, stdout>>

(* frameToLine, parseLine *)
Json == <<"open", "close">>
frameToLine == Append(Json, Newline)
Parses(line) == line = Json

FramingInit ==
  /\ text \in Texts
  /\ fed = 0
  /\ buf = <<>>
  /\ frames = <<>> /\ rawLines = <<>>
  /\ stdout = "open"

(* LineParser.push: a line ends at each newline and begins after the one   *)
(* before it; the empty ones are dropped, and the rest waits.              *)
From(s, i) ==
  CHOOSE b \in 1 .. i : /\ b = 1 \/ s[b - 1] = Newline
                        /\ \A j \in b .. i - 1 : s[j] # Newline
Lines(s) == [i \in DOMAIN s |-> SubSeq(s, From(s, i), i - 1)]
Newlines(s) == {i \in DOMAIN s : s[i] = Newline}
LineEnds(s) == {i \in Newlines(s) : Lines(s)[i] # <<>>}
Rest(s) == SubSeq(s, From(s, Len(s) + 1), Len(s))

(* One read of the pump: k more characters.                                *)
Parsed(s) == {i \in LineEnds(s) : Parses(Lines(s)[i])}
Read(k) ==
  /\ stdout = "open" /\ fed + k <= Len(text)
  /\ LET s == buf \o SubSeq(text, fed + 1, fed + k)
     IN  /\ buf' = Rest(s)
         /\ frames' = frames \o Kept(Lines(s), Parsed(s))
         /\ rawLines' = rawLines \o Kept(Lines(s), LineEnds(s) \ Parsed(s))
  /\ fed' = fed + k
  /\ UNCHANGED <<text, stdout>>

(* LineParser.flush: the partial last line, if there is one.              *)
flush == IF buf = <<>> THEN <<>> ELSE <<buf>>

(* stdout ends: what the buffer holds goes to onRawLine, JSON or not.      *)
StdoutEnds ==
  /\ stdout = "open" /\ fed = Len(text)
  /\ stdout' = "ended"
  /\ rawLines' = rawLines \o flush
  /\ buf' = <<>>
  /\ UNCHANGED <<text, fed, frames>>

FramingNext == (\E k \in 1..Len(text) : Read(k)) \/ StdoutEnds

(***************************************************************************)
(* However the pipe cuts the text: the frames whose newline was read were  *)
(* dispatched, each once and in the child's order; every other line went   *)
(* to onRawLine as it was written, never an empty one or two at once; and  *)
(* nothing else was made of what was read but the last line, which the     *)
(* child did not end with a newline.                                       *)
(***************************************************************************)
LastLine == SubSeq(text, From(text, fed + 1), fed)
LinesInOrder ==
  LET raw == Kept(Lines(text), (LineEnds(text) \ Parsed(text)) \cap 1 .. fed)
  IN  /\ frames = Kept(Lines(text), Parsed(text) \cap 1 .. fed)
      /\ stdout = "open" => rawLines = raw /\ buf = LastLine
      /\ stdout = "ended" => /\ buf = <<>>
                             /\ rawLines = IF LastLine = <<>> THEN raw ELSE Append(raw, LastLine)

OneLine(s) == s # <<>> /\ \A i \in DOMAIN s : s[i] # Newline
LinesWhole == LinesInOrder /\ \A i \in DOMAIN rawLines : OneLine(rawLines[i])
=============================================================================

------------------------------ MODULE Composer ------------------------------
(***************************************************************************)
(* packages/element/src/components/Composer.svelte and Suggestions.svelte: *)
(* what is typed, the suggestions for it, and the keys.  A text is a       *)
(* sequence of "/", "@", " " and words.  Svelte runs its effects when a    *)
(* handler is done, so they are part of its action: mode is a new object   *)
(* whenever value or cursor changed, and both effects on it run again.     *)
(***************************************************************************)
EXTENDS Integers, Sequences, SequencesExt, FiniteSets

CONSTANTS
  Docs,         \* the texts that typing, pasting and undo make
  Words,        \* file names and slash commands
  CommandSets,  \* the slash commands an init may name
  MaxResults,   \* files in an answer: 14
  MaxMentions   \* changes of a mention in a behaviour

NoPopup == "none"
ASSUME ComposerAssumption ==
  /\ \A commands \in CommandSets : IsFiniteSet(commands)
  /\ IsFiniteSet(Words) /\ MaxResults \in 0 .. Cardinality(Words)
NoItems == [query |-> <<>>, ids |-> <<>>]

VARIABLES
  value, head,   \* the text, and the editor's caret in it
  parked,        \* Escape has set cursor to -1
  isShell, vimMode,  \* vimMode "off" is vimEnabled = FALSE
  slashCommands,
  active,        \* the item highlighted
  timer,         \* the query that waits 80 ms, if any
  fetches,       \* [token, query] whose answers are awaited
  mentionToken,
  mentionItems   \* the files of the last answer taken, and its query

cvars == <<value, head, parked, isShell, vimMode, slashCommands, active, timer,
           fetches, mentionToken, mentionItems>>
mention == <<timer, fetches, mentionToken, mentionItems>>

CInit ==
  /\ value = <<>> /\ head = 0 /\ parked = FALSE
  /\ isShell = FALSE /\ vimMode \in {"off", "normal"}
  /\ slashCommands = {} /\ active = 0
  /\ timer = {} /\ fetches = {} /\ mentionToken = 0 /\ mentionItems = NoItems

(***************************************************************************)
(* What the popup is for                                                   *)
(***************************************************************************)
cursor == IF parked THEN -1 ELSE head

(* detect: a first word after "/" up to the caret, or a word after an "@"  *)
(* that begins one.                                                        *)
TokenEnd(text) == LET space == SelectInSeq(text, LAMBDA c : c = " ")
                  IN  IF space = 0 THEN Len(text) ELSE space - 1
detect(text, pos) ==
  LET at == SelectLastInSubSeq(text, 1, pos, LAMBDA c : c \in {"@", " "})
      begins == at = 1 \/ text[at - 1] = " "
      end == TokenEnd(text)
  IN  CASE text # <<>> /\ text[1] = "/" /\ pos <= end ->
             [kind |-> "slash", query |-> SubSeq(text, 2, end), from |-> 0, to |-> end]
        [] at # 0 /\ text[at] = "@" /\ begins
           /\ ~(text[1] = "/" /\ pos <= end) ->
             [kind |-> "mention", query |-> SubSeq(text, at + 1, pos),
              from |-> at - 1, to |-> pos]
        [] OTHER -> [kind |-> NoPopup, query |-> <<>>, from |-> 0, to |-> 0]
mode == detect(value, cursor)

(* items: the commands that begin with the query, or the files answered    *)
Matching(commands, query) ==
  {c \in commands : query = <<>> \/ query = <<c>>}
slashItems == SetToSeq(Matching(slashCommands, mode.query))
items == CASE mode.kind = "slash" -> slashItems
           [] mode.kind = "mention" -> mentionItems.ids
           [] OTHER -> <<>>
popupVisible == items # <<>>

(* Suggestions.svelte: the highlight is kept inside the list.              *)
Clamped(at, list) == IF at < Len(list) THEN at ELSE IF list = <<>> THEN 0 ELSE Len(list) - 1

(* The effects, when text and caret are new or not: a mention is asked for *)
(* after 80 ms, what it replaces is not asked for any more.                *)
Effects(text, pos) ==
  IF <<text, pos>> = <<value, cursor>>
  THEN UNCHANGED <<active, mention>>
  ELSE /\ active' = 0
       /\ IF detect(text, pos).kind = "mention"
          THEN /\ mentionToken < MaxMentions
               /\ timer' = {detect(text, pos).query}
               /\ mentionToken' = mentionToken + 1
               /\ UNCHANGED <<fetches, mentionItems>>
          ELSE /\ timer' = {} /\ mentionItems' = NoItems
               /\ UNCHANGED <<fetches, mentionToken>>

(* A transaction of the editor that ends with this text and caret          *)
Dispatch(text, at) ==
  /\ value' = text /\ head' = at /\ parked' = FALSE
  /\ Effects(text, at)

(***************************************************************************)
(* Handlers                                                                *)
(***************************************************************************)
Edit(text, at) ==
  /\ text # value \/ at # head \/ parked
  /\ Dispatch(text, at)
  /\ UNCHANGED <<isShell, vimMode, slashCommands>>

applySelection(item) ==
  LET insert == <<IF mode.kind = "slash" THEN "/" ELSE "@", item, " ">>
  IN  /\ Dispatch(SubSeq(value, 1, mode.from) \o insert
                    \o SubSeq(value, mode.to + 1, Len(value)),
                  mode.from + 3)
      /\ UNCHANGED <<isShell, vimMode, slashCommands>>
Click(k) == k \in DOMAIN items /\ applySelection(items[k])
Hover(k) ==
  /\ k \in DOMAIN items /\ active' = k - 1
  /\ UNCHANGED <<value, head, parked, isShell, vimMode, slashCommands, mention>>

(* value.trim() is sent, as a message or to the shell: Session.tla.        *)
Trimmed(text) ==
  LET words == {i \in DOMAIN text : text[i] # " "}
  IN  IF words = {} THEN <<>> ELSE SubSeq(text, Min(words), Max(words))
send ==
  /\ Trimmed(value) # <<>>
  /\ isShell' = FALSE
  /\ Dispatch(<<>>, 0)
  /\ UNCHANGED <<vimMode, slashCommands>>

(* Enter and Tab take the item highlighted if there is one; Enter sends    *)
(* if no popup is there, and in vim's normal mode goes to the next line.   *)
Choose == popupVisible /\ active < Len(items) /\ applySelection(items[active + 1])
Enter == Choose \/ (~popupVisible /\ vimMode # "normal" /\ send)
Arrow(to) ==
  /\ popupVisible /\ to \in {Min({Len(items) - 1, active + 1}), Max({0, active - 1})}
  /\ active' = to
  /\ UNCHANGED <<value, head, parked, isShell, vimMode, slashCommands, mention>>
Escape ==
  /\ popupVisible /\ parked' = TRUE
  /\ Effects(value, -1)
  /\ UNCHANGED <<value, head, isShell, vimMode, slashCommands>>
Bang ==
  /\ ~isShell /\ head = 0 /\ isShell' = TRUE
  /\ UNCHANGED <<value, head, parked, vimMode, slashCommands, active, mention>>
Backspace ==
  /\ isShell /\ value = <<>> /\ isShell' = FALSE
  /\ UNCHANGED <<value, head, parked, vimMode, slashCommands, active, mention>>
toggleVim(to) ==
  /\ vimMode' = to /\ to # vimMode
  /\ vimMode = "off" => to = "normal"
  /\ UNCHANGED <<value, head, parked, isShell, slashCommands, active, mention>>

(* 80 ms later                                                             *)
Fetch ==
  /\ timer # {} /\ timer' = {}
  /\ fetches' = fetches \cup {[token |-> mentionToken, query |-> q] : q \in timer}
  /\ UNCHANGED <<value, head, parked, isShell, vimMode, slashCommands, active,
                 mentionToken, mentionItems>>
TakesAny(f) == TRUE   \* mutant: an answer that was overtaken is taken
IsCurrent(f) == f.token = mentionToken
(* The answer, empty if the request failed.  If no mention is open by then *)
(* the effect, which has read mentionItems, clears it at once.             *)
Answer(f, ids) ==
  /\ f \in fetches /\ fetches' = fetches \ {f}
  /\ mentionItems' =
       IF ~IsCurrent(f) THEN mentionItems
       ELSE IF mode.kind = "mention" THEN [query |-> f.query, ids |-> ids] ELSE NoItems
  /\ active' = IF mode.kind = "mention" THEN Clamped(active, mentionItems'.ids) ELSE active
  /\ UNCHANGED <<value, head, parked, isShell, vimMode, slashCommands, timer,
                 mentionToken>>
(* An init frame names other commands.                                     *)
InitFrame(commands) ==
  /\ slashCommands' = commands /\ commands # slashCommands
  /\ active' = IF mode.kind = "slash"
               THEN Clamped(active, SetToSeq(Matching(commands, mode.query))) ELSE active
  /\ UNCHANGED <<value, head, parked, isShell, vimMode, mention>>

Answers == {<<>>} \cup {SubSeq(SetToSeq(Words), 1, n) : n \in 1 .. MaxResults}
CNext ==
  \/ \E text \in Docs : \E at \in 0 .. Len(text) : Edit(text, at)
  \/ \E k \in 1 .. Cardinality(Words) : Click(k) \/ Hover(k) \/ Arrow(k - 1)
  \/ Enter \/ Escape \/ Bang \/ Backspace \/ Fetch
  \/ \E to \in {"off", "normal", "insert"} : toggleVim(to)
  \/ \E f \in fetches, ids \in Answers : Answer(f, ids)
  \/ \E commands \in CommandSets : InitFrame(commands)

(***************************************************************************)
(* Properties                                                              *)
(***************************************************************************)

(* The files offered are those of what is typed, once nothing is asked for *)
(* or about to be; without a mention none are kept, and none are asked for.*)
MentionsAnswered ==
  /\ mode.kind = "mention" =>
       \/ mode.query \in timer
       \/ \E f \in fetches : IsCurrent(f) /\ f.query = mode.query
       \/ mentionItems.query = mode.query
  /\ mode.kind # "mention" => timer = {} /\ mentionItems = NoItems

(* Whatever replaces the list under the highlight, the keys that take an   *)
(* item find one.                                                          *)
HighlightIsAnItem == active < Len(items) \/ (~popupVisible /\ active = 0)

ComposerSafe == MentionsAnswered /\ HighlightIsAnItem
=============================================================================

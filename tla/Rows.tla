-------------------------------- MODULE Rows --------------------------------
(***************************************************************************)
(* packages/element/src/lib/classify.ts: the rows MessageStream.svelte     *)
(* shows for the timeline, and the classifier that remembers what it made  *)
(* of an entry, so that a render need not read the whole timeline again.   *)
(* An entry is told apart by what the code sees in it:                     *)
(*   local, note (an assistant, result or shown system frame), text (a     *)
(*   user frame), results (tool results only), blank, hidden, streaming,   *)
(*   input, output, merged and mergedText (parseBashFrame of a user frame).*)
(***************************************************************************)
EXTENDS Integers, Sequences, SequencesExt, FiniteSets, Subsequences

CONSTANTS
  Frames,      \* the kinds of frame that arrive
  GcSlack,     \* what gc lets the cache hold beyond the entries seen: 16
  MaxEntries,  \* entries pushed in a behaviour
  MaxRuns,     \* runs of the command
  MaxChunks    \* chunks of output of a run

VARIABLES
  messages,    \* [id, what]
  nextId,
  shells,      \* the runs of the command, each the number of its chunks
  cache,       \* what the classifier made of an entry, by its id
  rows,        \* what is shown: a list of rows for each entry stopped at
  dirty,       \* the timeline changed after the last render
  slipped      \* history: the inputs that Slips names

rvars == <<messages, nextId, shells, cache, rows, dirty, slipped>>

NoCache == [id \in {} |-> 0]
UserFrames == {"text", "results", "blank", "input", "output", "merged", "mergedText"}

RInit ==
  /\ messages = <<>> /\ nextId = 1 /\ shells = <<>>
  /\ cache = NoCache /\ rows = <<>> /\ dirty = FALSE /\ slipped = {}

(***************************************************************************)
(* classify.ts                                                             *)
(***************************************************************************)

Row(id, part, what) == [id |-> <<id, part>>, what |-> what, pair |-> 0, chunks |-> 0]
Analysis(made) == [rows |-> made, consumed |-> 0, shellsDependent |-> FALSE]

(* 0 if there is none *)
nextUserFrameAt(i) ==
  SelectInSubSeq(messages, i, Len(messages), LAMBDA e : e.what \in UserFrames)

(* An input whose output is the next user frame takes it, and all entries  *)
(* up to it; else it shows what the last run of its command has printed.   *)
analyzeInput(i) ==
  LET id == messages[i].id
      pair == nextUserFrameAt(i + 1)
  IN  IF pair # 0 /\ messages[pair].what = "output"
      THEN [rows |-> <<[Row(id, "", "bash") EXCEPT !.pair = messages[pair].id]>>,
            consumed |-> pair - i, shellsDependent |-> FALSE]
      ELSE [rows |-> <<[Row(id, "", "live") EXCEPT
                          !.chunks = IF shells = <<>> THEN 0 ELSE Last(shells)]>>,
            consumed |-> 0, shellsDependent |-> TRUE]

analyzeEntry(i) ==
  LET id == messages[i].id
      what == messages[i].what
  IN  CASE what = "input" -> analyzeInput(i)
        [] what = "output" -> Analysis(<<Row(id, "", "(shell)")>>)
        [] what = "merged" -> Analysis(<<Row(id, "bash", "bash")>>)
        [] what = "mergedText" ->
             Analysis(<<Row(id, "bash", "bash"), Row(id, "text", "text")>>)
        [] what \in {"blank", "hidden"} -> Analysis(<<>>)
        [] OTHER -> Analysis(<<Row(id, "", what)>>)

(* The loop of both classifiers over the analyses a of the entries stops   *)
(* at an entry unless one that it stopped at before has consumed it.       *)
Visited(a) ==
  CHOOSE stops \in SUBSET DOMAIN messages :
    \A i \in DOMAIN messages :
      i \in stops <=> \A j \in stops : j < i => j + a[j].consumed < i
RowsOf(a) == Kept([i \in DOMAIN messages |-> a[i].rows], Visited(a))

classifyMessages == RowsOf([i \in DOMAIN messages |-> analyzeEntry(i)])

Recalled(i) ==
  LET e == messages[i]
  IN  IF e.what # "streaming" /\ e.id \in DOMAIN cache THEN cache[e.id]
      ELSE analyzeEntry(i)
RecalledAll == [i \in DOMAIN messages |-> Recalled(i)]
Seen == {i \in Visited(RecalledAll) : messages[i].what # "streaming"}
gc(held) ==
  LET seen == {messages[i].id : i \in Seen}
  IN  IF Cardinality(DOMAIN held) <= Cardinality(seen) + GcSlack THEN held
      ELSE [id \in DOMAIN held \cap seen |-> held[id]]
RemembersLive(a) == TRUE   \* mutant: a run in flight is remembered, too
Remembered(a) == ~a.shellsDependent
classify ==
  /\ rows' = RowsOf(RecalledAll)
  /\ LET learnt == {i \in Seen : Remembered(RecalledAll[i])}
         at(id) == CHOOSE i \in learnt : messages[i].id = id
         held == [id \in DOMAIN cache \cup {messages[i].id : i \in learnt} |->
                    IF id \in DOMAIN cache THEN cache[id] ELSE RecalledAll[at(id)]]
     IN  cache' = gc(held)

(* The message at i streamed between an input and the output it is         *)
(* remembered with: without it, the distance remembered is one too far.    *)
Slips(i) ==
  {messages[j].id : j \in {j \in 1 .. i - 1 :
     /\ messages[j].id \in DOMAIN cache
     /\ \E l \in i + 1 .. Len(messages) :
          \E k \in DOMAIN cache[messages[j].id].rows :
            cache[messages[j].id].rows[k].pair = messages[l].id}}

(***************************************************************************)
(* The timeline and the shells, as their aggregators change them           *)
(***************************************************************************)
Changed == dirty' = TRUE /\ UNCHANGED <<cache, rows>>
Entry(what) == [id |-> nextId, what |-> what]
Push(what) ==
  /\ nextId <= MaxEntries
  /\ messages' = Append(messages, Entry(what)) /\ nextId' = nextId + 1
  /\ Changed /\ UNCHANGED <<shells, slipped>>
(* The assistant frame that replaces the message streamed: dropStreaming,  *)
(* then pushFrame.                                                         *)
AssistantEnvelope(i) ==
  /\ i \in DOMAIN messages /\ messages[i].what = "streaming" /\ nextId <= MaxEntries
  /\ messages' = Append(RemoveAt(messages, i), Entry("note")) /\ nextId' = nextId + 1
  /\ slipped' = slipped \cup Slips(i)
  /\ Changed /\ UNCHANGED shells
ShellRuns ==
  /\ Len(shells) < MaxRuns /\ shells' = Append(shells, 0)
  /\ Changed /\ UNCHANGED <<messages, nextId, slipped>>
ShellPrints(k) ==
  /\ k \in DOMAIN shells /\ shells[k] < MaxChunks
  /\ shells' = [shells EXCEPT ![k] = @ + 1]
  /\ Changed /\ UNCHANGED <<messages, nextId, slipped>>
Reset ==
  /\ messages # <<>> /\ messages' = <<>> /\ shells' = <<>> /\ slipped' = {}
  /\ Changed /\ UNCHANGED nextId
Render ==
  /\ dirty /\ dirty' = FALSE /\ classify
  /\ UNCHANGED <<messages, nextId, shells, slipped>>

RNext ==
  \/ \E what \in Frames \cup {"local", "streaming"} : Push(what)
  \/ \E i \in 1 .. MaxEntries : AssistantEnvelope(i) \/ ShellPrints(i)
  \/ ShellRuns \/ Reset \/ Render

(***************************************************************************)
(* Properties                                                              *)
(***************************************************************************)

(* However frames, output and renders interleave, remembering is not seen: *)
(* the rows are those of classifyMessages, unless a distance slipped.      *)
MemoIsUnseen == ~dirty /\ slipped = {} => rows = classifyMessages

(* No two rows have the same id: Svelte refuses a keyed list where they do.*)
(* And an output that an input took is not shown once more.                *)
ShownOnce ==
  \A k, l \in DOMAIN rows : \A m \in DOMAIN rows[k], n \in DOMAIN rows[l] :
    /\ rows[k][m].id = rows[l][n].id => k = l /\ m = n
    /\ rows[k][m].pair # rows[l][n].id[1]

(* Every entry that is to be seen has its row, once each render is done,   *)
(* but the output an input took and the entries between the two.           *)
EntriesShown ==
  ~dirty /\ slipped = {} =>
    \A i \in DOMAIN messages :
      \/ messages[i].what \in {"hidden", "blank"}
      \/ \E k \in DOMAIN rows : \E m \in DOMAIN rows[k] :
           messages[i].id \in {rows[k][m].id[1], rows[k][m].pair}
      \/ \E j, l \in DOMAIN messages :
           /\ j < i /\ i < l /\ messages[j].what = "input" /\ messages[l].what = "output"
           /\ messages[i].what \notin UserFrames

RowsSafe == MemoIsUnseen /\ ShownOnce /\ EntriesShown
=============================================================================

------------------------------ MODULE Timeline ------------------------------
(***************************************************************************)
(* The messages aggregator of packages/protocol/src/client/messages.ts:    *)
(* the main timeline, and the assembly of an assistant message from its    *)
(* stream events until the canonical assistant frame replaces it.          *)
(*                                                                         *)
(* Stream events other than message_start carry no message id: they go to  *)
(* the message that started last.  A piece of streamed text is the message *)
(* the binary wrote it for.  A timeline entry refers to the message being  *)
(* assembled, which the code shares between the entry and its map, so the  *)
(* content is kept in streaming only.                                      *)
(***************************************************************************)
EXTENDS Frames, Subsequences, Integers, SequencesExt

VARIABLES
  messages,        \* MessageEntry[]
  activeStreamId,
  streaming,       \* Map<id, InFlightMessage>: a function on the ids it holds
  revision,
  arrivalCounter

timelineVars == <<messages, activeStreamId, streaming, revision, arrivalCounter>>

NoContent == [b \in {} |-> 0]
StreamingBlock == [kind : BlockKinds, chunks : Seq(MsgIds), parsed : BOOLEAN]
IsInFlightMessage(msg) ==
  /\ DOMAIN msg = {"content", "done"} /\ msg.done \in BOOLEAN
  /\ DOMAIN msg.content \subseteq Blocks
  /\ \A b \in DOMAIN msg.content : msg.content[b] \in StreamingBlock
MessageEntry == [kind : {"local_user", "frame", "streaming"},
                 msg : MsgIds \cup {NoMsg}, arrivalIdx : Nat]

TimelineTypeOK ==
  /\ messages \in Seq(MessageEntry)
  /\ activeStreamId \in MsgIds \cup {NoMsg}
  /\ DOMAIN streaming \subseteq MsgIds
  /\ \A m \in DOMAIN streaming : IsInFlightMessage(streaming[m])
  /\ revision \in Nat /\ arrivalCounter \in Nat

TimelineInit ==
  /\ messages = <<>> /\ activeStreamId = NoMsg /\ streaming = NoContent
  /\ revision = 0 /\ arrivalCounter = 0

Entry(kind, m, at) == [kind |-> kind, msg |-> m, arrivalIdx |-> at]

(* pushLocalUser and pushFrame: the entries pushed, in order *)
Push(entries) ==
  /\ messages' = messages \o
       [i \in DOMAIN entries |->
          Entry(entries[i].kind, entries[i].msg, arrivalCounter + i - 1)]
  /\ arrivalCounter' = arrivalCounter + Len(entries)
  /\ revision' = revision + Len(entries)

LocalUser == [kind |-> "local_user", msg |-> NoMsg]
Plain == [kind |-> "frame", msg |-> NoMsg]

PushEntries(entries) == Push(entries) /\ UNCHANGED <<activeStreamId, streaming>>

(* message_start: startStreaming.  The revision is left alone, as for all  *)
(* streaming changes.                                                      *)
MessageStart(m) ==
  /\ streaming' = [x \in DOMAIN streaming \cup {m} |->
       IF x = m THEN [content |-> NoContent, done |-> FALSE] ELSE streaming[x]]
  /\ messages' = Append(messages, Entry("streaming", m, arrivalCounter))
  /\ arrivalCounter' = arrivalCounter + 1
  /\ activeStreamId' = m
  /\ UNCHANGED revision

Assembling == activeStreamId \in DOMAIN streaming

Active == streaming[activeStreamId]

(* An event for the message that started last, or for none *)
ToActive(changed) ==
  /\ streaming' = IF Assembling
                  THEN [streaming EXCEPT ![activeStreamId] = changed]
                  ELSE streaming
  /\ UNCHANGED <<messages, activeStreamId, revision, arrivalCounter>>

BlockStart(b, kind) ==
  ToActive([Active EXCEPT !.content =
    [x \in DOMAIN @ \cup {b} |->
       IF x = b THEN [kind |-> kind, chunks |-> <<>>, parsed |-> FALSE]
       ELSE Active.content[x]]])

(* A delta joins its block when the block exists and is of its kind.       *)
BlockDelta(b, kind, piece) ==
  ToActive(
    IF b \in DOMAIN Active.content /\ Active.content[b].kind = kind
    THEN [Active EXCEPT !.content[b].chunks = Append(@, piece)]
    ELSE Active)

(* content_block_stop: a tool input is parsed once; JSON that does not     *)
(* parse leaves it unparsed.                                               *)
BlockStop(b, wellFormed) ==
  ToActive(
    IF /\ b \in DOMAIN Active.content /\ Active.content[b].kind = "tool_use"
       /\ Active.content[b].chunks = <<>> \/ wellFormed
    THEN [Active EXCEPT !.content[b].parsed = TRUE]
    ELSE Active)

MessageStop == ToActive([Active EXCEPT !.done = TRUE])

(* applyStreamEvent; piece is the message the binary wrote a delta for     *)
ApplyStreamEvent(ev, piece) ==
  \/ ev.type = "message_start" /\ MessageStart(ev.id)
  \/ ev.type = "content_block_start" /\ BlockStart(ev.index, ev.kind)
  \/ ev.type = "content_block_delta" /\ BlockDelta(ev.index, ev.kind, piece)
  \/ ev.type = "content_block_stop" /\ BlockStop(ev.index, ev.wellFormed)
  \/ ev.type = "message_stop" /\ MessageStop
  \/ ev.type = "message_delta" /\ UNCHANGED timelineVars

Without(m) ==
  Kept(messages, {i \in DOMAIN messages :
                    ~(messages[i].kind = "streaming" /\ messages[i].msg = m)})

(* The canonical assistant frame: dropStreaming, then pushFrame.           *)
AssistantEnvelope(m) ==
  /\ streaming' = [x \in DOMAIN streaming \ {m} |-> streaming[x]]
  /\ activeStreamId' = IF m \in DOMAIN streaming /\ activeStreamId = m THEN NoMsg
                       ELSE activeStreamId
  /\ messages' = Append(IF m \in DOMAIN streaming THEN Without(m) ELSE messages,
                        Entry("frame", m, arrivalCounter))
  /\ arrivalCounter' = arrivalCounter + 1
  /\ revision' = revision + (IF m \in DOMAIN streaming THEN 2 ELSE 1)

(* Without the streaming entries: what a page restores and what            *)
(* persistence saves                                                       *)
Stable(list) == Kept(list, {i \in DOMAIN list : list[i].kind # "streaming"})

(* Mutant: the counter continues after the number of entries restored. *)
HydrateCountsEntries(entries) ==
  LET filtered == Stable(entries)
  IN  /\ messages' = filtered /\ arrivalCounter' = Len(filtered)
      /\ streaming' = NoContent /\ activeStreamId' = NoMsg
      /\ revision' = revision + 1

(* hydrate: what a page restores; streaming entries do not come back, and  *)
(* the counter continues after the largest index that does.                *)
Hydrate(entries) ==
  LET filtered == Stable(entries)
      indices == {filtered[i].arrivalIdx : i \in DOMAIN filtered}
  IN  /\ messages' = filtered
      /\ arrivalCounter' = IF indices = {} THEN 0 ELSE Max(indices) + 1
      /\ streaming' = NoContent /\ activeStreamId' = NoMsg
      /\ revision' = revision + 1

TimelineReset ==
  /\ messages' = <<>> /\ activeStreamId' = NoMsg /\ streaming' = NoContent
  /\ arrivalCounter' = 0 /\ revision' = revision + 1

----------------------------------------------------------------------------
(* Every entry has a key of its own, increasing along the timeline, also   *)
(* after a page restored a timeline whose oldest entries were trimmed.     *)
ArrivalOrder ==
  \A i, j \in DOMAIN messages :
    i < j => messages[i].arrivalIdx < messages[j].arrivalIdx

(* Assembly and timeline agree: the message events are applied to is on    *)
(* the timeline, the streaming entries are those being assembled, and no   *)
(* streaming entry stands before the canonical frame of its message.       *)
StreamingShown ==
  /\ activeStreamId # NoMsg => activeStreamId \in DOMAIN streaming
  /\ DOMAIN streaming = {messages[i].msg : i \in
                           {k \in DOMAIN messages : messages[k].kind = "streaming"}}
  /\ \A i, j \in DOMAIN messages :
       (i < j /\ messages[i].kind = "streaming" /\ messages[j].msg = messages[i].msg)
         => messages[j].kind = "streaming"

(* What a bubble shows was written for its message, although the events    *)
(* do not say which message they are for.                                  *)
StreamedTextIsOwn ==
  \A m \in DOMAIN streaming : \A b \in DOMAIN streaming[m].content :
    \A k \in DOMAIN streaming[m].content[b].chunks :
      streaming[m].content[b].chunks[k] = m

(* A change of what persistence saves bumps the revision it watches.       *)
RevisionTracks == Stable(messages') # Stable(messages) => revision' > revision
=============================================================================

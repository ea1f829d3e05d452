-------------------------------- MODULE Shell --------------------------------
(***************************************************************************)
(* The shell side-channel of packages/protocol/src/client/shell.ts.  A     *)
(* command is sent to the binary as a bash_command frame and its output    *)
(* comes back as frames that name no command: the code pairs them with the *)
(* oldest command of its capture queue.  In context mode the exchange is   *)
(* kept and put before the next user message.                              *)
(*                                                                         *)
(* A command is the number it was issued under, an output the number of    *)
(* the command it belongs to.                                              *)
(***************************************************************************)
EXTENDS Frames, Subsequences, Integers, SequencesExt

VARIABLES
  shellEntries,          \* ShellEntry[]
  captureQueue,          \* commands whose output has not been seen
  pendingBashExchanges,  \* exchanges for the next user message
  pendingFollowUps,      \* commands with a text to send after their output
  issued,                \* how many commands were issued (the id source)
  userSends              \* history: user messages sent, with their exchanges

shellVars == <<shellEntries, captureQueue, pendingBashExchanges,
               pendingFollowUps, issued, userSends>>

ShellSource == {"context", "sideChannel"}

Commands == 1 .. issued
ShellEntry == [id : Commands, source : ShellSource, chunks : Seq(Commands)]
Capture == [entryId : Commands, source : ShellSource, sawInputEcho : BOOLEAN]
Exchange == [entryId : Commands, output : Commands]

ShellTypeOK ==
  /\ issued \in Nat
  /\ shellEntries \in Seq(ShellEntry)
  /\ captureQueue \in Seq(Capture)
  /\ pendingBashExchanges \in Seq(Exchange)
  /\ pendingFollowUps \subseteq Commands
  /\ userSends \in Seq([exchanges : Seq(Exchange), followUpOf : 0 .. issued])

ShellInit ==
  /\ shellEntries = <<>> /\ captureQueue = <<>> /\ pendingBashExchanges = <<>>
  /\ pendingFollowUps = {} /\ issued = 0 /\ userSends = <<>>

(* The entry gets one more chunk, if it is still shown. *)
WithChunk(id, output) ==
  [i \in DOMAIN shellEntries |->
     IF shellEntries[i].id = id
     THEN [shellEntries[i] EXCEPT !.chunks = Append(@, output)]
     ELSE shellEntries[i]]

(* sendShellContext and sendBashSideChannel *)
SendCommand(source, followUp) ==
  LET id == issued + 1
  IN  /\ issued' = id
      /\ shellEntries' = Append(shellEntries,
           [id |-> id, source |-> source, chunks |-> <<>>])
      /\ captureQueue' = Append(captureQueue,
           [entryId |-> id, source |-> source, sawInputEcho |-> FALSE])
      /\ pendingFollowUps' = IF followUp THEN pendingFollowUps \cup {id}
                             ELSE pendingFollowUps
      /\ UNCHANGED <<pendingBashExchanges, userSends>>

(* handleShellReplay on an input echo *)
InputEcho ==
  /\ captureQueue' = IF captureQueue = <<>> THEN captureQueue
                     ELSE [captureQueue EXCEPT ![1].sawInputEcho = TRUE]
  /\ UNCHANGED <<shellEntries, pendingBashExchanges, pendingFollowUps, issued,
                 userSends>>

(* handleLocalCommandOutput: a chunk for the head of the queue, which the  *)
(* frame does not take off it                                              *)
OutputChunk(output) ==
  /\ captureQueue # <<>>
  /\ shellEntries' = WithChunk(Head(captureQueue).entryId, output)
  /\ UNCHANGED <<captureQueue, pendingBashExchanges, pendingFollowUps, issued,
                 userSends>>

(* drainPending inside sendUserMessage: all pending exchanges leave with   *)
(* the message and their entries are taken off the list.                   *)
Drain(entries, exchanges, followUpOf) ==
  /\ userSends' = Append(userSends,
       [exchanges |-> exchanges, followUpOf |-> followUpOf])
  /\ shellEntries' = Kept(entries, {i \in DOMAIN entries :
       \A k \in DOMAIN exchanges : exchanges[k].entryId # entries[i].id})
  /\ pendingBashExchanges' = <<>>

(* Mutant: the follow-up is sent before its exchange is kept. *)
OutputReplayFollowsFirst(output) ==
  LET cap == Head(captureQueue)
      entries == WithChunk(cap.entryId, output)
      exchange == [entryId |-> cap.entryId, output |-> output]
  IN  /\ captureQueue # <<>>
      /\ captureQueue' = Tail(captureQueue)
      /\ IF cap.source = "context" /\ cap.entryId \in pendingFollowUps
         THEN /\ userSends' = Append(userSends, [exchanges |-> pendingBashExchanges,
                                                followUpOf |-> cap.entryId])
              /\ shellEntries' = entries
              /\ pendingBashExchanges' = <<exchange>>
              /\ pendingFollowUps' = pendingFollowUps \ {cap.entryId}
         ELSE /\ shellEntries' = entries
              /\ pendingBashExchanges' = IF cap.source = "context"
                   THEN Append(pendingBashExchanges, exchange) ELSE pendingBashExchanges
              /\ UNCHANGED <<pendingFollowUps, userSends>>
      /\ UNCHANGED issued

(* handleShellReplay on an output (or on input and output in one frame):   *)
(* it closes the head of the queue, wherever it came from.  A context      *)
(* exchange is kept, and a follow-up text is sent at once.                 *)
OutputReplay(output) ==
  LET cap == Head(captureQueue)
      entries == WithChunk(cap.entryId, output)
      exchange == [entryId |-> cap.entryId, output |-> output]
      exchanges == Append(pendingBashExchanges, exchange)
  IN  /\ captureQueue # <<>>
      /\ captureQueue' = Tail(captureQueue)
      /\ CASE cap.source = "sideChannel" ->
                /\ shellEntries' = entries
                /\ UNCHANGED <<pendingBashExchanges, pendingFollowUps, userSends>>
           [] cap.source = "context" /\ cap.entryId \notin pendingFollowUps ->
                /\ shellEntries' = entries
                /\ pendingBashExchanges' = exchanges
                /\ UNCHANGED <<pendingFollowUps, userSends>>
           [] OTHER ->
                /\ Drain(entries, exchanges, cap.entryId)
                /\ pendingFollowUps' = pendingFollowUps \ {cap.entryId}
      /\ UNCHANGED issued
FollowUpDue == /\ captureQueue # <<>> /\ Head(captureQueue).source = "context"
               /\ Head(captureQueue).entryId \in pendingFollowUps

(* parseBashFrame: what a replayed user message is, from the tags in it    *)
parseBashFrame(tags) ==
  CASE tags = {} -> "none"
    [] tags = {"input"} -> "input"
    [] "input" \in tags /\ tags # {"input"} -> "merged"
    [] OTHER -> "output"

BashKind(f) ==
  IF isUserFrame(f) /\ f.isReplay THEN parseBashFrame(f.bash) ELSE "none"
ClosesCommand(f) == BashKind(f) \in {"output", "merged"}

(* handleShellReplay: any frame of the main path is looked at              *)
HandleShellReplay(f, output) ==
  CASE BashKind(f) = "input" -> InputEcho
    [] ClosesCommand(f) /\ captureQueue # <<>> -> OutputReplay(output)
    [] OTHER -> UNCHANGED shellVars

(* The shell's part of sendUserMessage(text) *)
DrainForUser ==
  /\ Drain(shellEntries, pendingBashExchanges, 0)
  /\ UNCHANGED <<captureQueue, pendingFollowUps, issued>>

Dismiss(id) ==
  /\ shellEntries' = Kept(shellEntries,
       {i \in DOMAIN shellEntries : shellEntries[i].id # id})
  /\ UNCHANGED <<captureQueue, pendingBashExchanges, pendingFollowUps, issued,
                 userSends>>

ShellReset ==
  /\ shellEntries' = <<>> /\ captureQueue' = <<>> /\ pendingBashExchanges' = <<>>
  /\ pendingFollowUps' = {}
  /\ UNCHANGED <<issued, userSends>>

----------------------------------------------------------------------------
(* A context exchange reaches the model once, in the order the commands    *)
(* were issued, and a follow-up text leaves in the message that carries    *)
(* the exchange it follows, as its last one.                               *)
ExchangeOnce ==
  /\ \A i, j \in DOMAIN userSends :
       \A k \in DOMAIN userSends[i].exchanges, l \in DOMAIN userSends[j].exchanges :
         i < j \/ (i = j /\ k < l) =>
           userSends[i].exchanges[k].entryId < userSends[j].exchanges[l].entryId
  /\ \A i \in DOMAIN userSends : userSends[i].followUpOf # 0 =>
       /\ userSends[i].exchanges # <<>>
       /\ Last(userSends[i].exchanges).entryId = userSends[i].followUpOf
  /\ \A i \in DOMAIN userSends, j \in DOMAIN pendingBashExchanges :
       \A k \in DOMAIN userSends[i].exchanges :
         userSends[i].exchanges[k].entryId < pendingBashExchanges[j].entryId

(* What is shown, kept and sent as a command's output is its own, although *)
(* the frames do not name the command.                                     *)
OutputIsOwn ==
  /\ \A i \in DOMAIN shellEntries : \A k \in DOMAIN shellEntries[i].chunks :
       shellEntries[i].chunks[k] = shellEntries[i].id
  /\ \A i \in DOMAIN pendingBashExchanges :
       pendingBashExchanges[i].output = pendingBashExchanges[i].entryId
  /\ \A i \in DOMAIN userSends : \A k \in DOMAIN userSends[i].exchanges :
       userSends[i].exchanges[k].output = userSends[i].exchanges[k].entryId
=============================================================================

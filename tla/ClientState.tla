---------------------------- MODULE ClientState ----------------------------
(***************************************************************************)
(* The client's state holder (packages/protocol/src/client/state.ts) with  *)
(* its aggregators, behind handleInbound of client/index.ts.  A frame of   *)
(* the wire is one step, which goes to the aggregators that claim it; the  *)
(* user's calls and the respawns of reactive.ts are the other steps.       *)
(*                                                                         *)
(* The binary is external: it runs the commands it received one by one,    *)
(* streams one message of the main thread at a time and never starts a     *)
(* message id twice.  A respawn is asked for by the client and happens     *)
(* later, at Swap; until then the old child's frames keep coming, while    *)
(* what the client sends is read by the new child.                         *)
(***************************************************************************)
EXTENDS Tasks, Timeline, Shell, Permissions

CONSTANTS
  HooksCap,      \* DEFAULT_HOOK_EVENTS_CAP
  Profiles,      \* the mixes of traffic TLC explores: sets of kinds of steps
  MaxChild, MaxNow, MaxAgentFrames, MaxArrivals, MaxIssued, MaxRequests,
  MaxHooks, MaxChunks

ASSUME HolderAssumption == HooksCap \in Nat /\ MaxChild \in Nat \ {0}

VARIABLES
  sessionState, initSeen, sessionId,
  hookEvents, hooksSeen,
  profile,       \* the kinds of steps of this behaviour
  child,         \* number of the child that is running
  swapping,      \* a respawn was asked for and has not happened
  commands,      \* external: bash_commands the running child has not finished
  nextCommands,  \* external: those the next child will read
  speaking,      \* external: the message the child is streaming
  spoken,        \* external: message ids used
  disturbed,     \* history: a child was replaced with a command outstanding,
                 \* or a bash_command was lost
  late           \* history: requests that arrived after clearQueue, from a
                 \* child that was being replaced

sessionVars == <<sessionState, initSeen, sessionId>>
hookVars == <<hookEvents, hooksSeen>>
binaryVars == <<commands, nextCommands, speaking, spoken>>
lifeVars == <<profile, child, swapping, disturbed, late>>
aggregatorVars == <<taskVars, timelineVars, shellVars, permVars, hookVars>>
vars == <<aggregatorVars, sessionVars, binaryVars, lifeVars>>

SessionState == {"idle", "running", "requires_action", "ended", "unknown"}

TypeOK ==
  /\ TasksTypeOK /\ TimelineTypeOK /\ ShellTypeOK /\ PermissionsTypeOK
  /\ sessionState \in SessionState /\ initSeen \in BOOLEAN
  /\ sessionId \in 0 .. MaxChild
  /\ hookEvents \in Seq(Nat) /\ Len(hookEvents) <= HooksCap /\ hooksSeen \in Nat
  /\ profile \in Profiles /\ child \in 1 .. MaxChild /\ swapping \in BOOLEAN
  /\ commands \in Seq(Commands) /\ nextCommands \in Seq(Commands)
  /\ speaking \in MsgIds \cup {NoMsg} /\ spoken \subseteq MsgIds
  /\ disturbed \in BOOLEAN /\ late \subseteq DOMAIN askedBy

(* initialClientState *)
Init ==
  /\ TasksInit /\ TimelineInit /\ ShellInit /\ PermissionsInit
  /\ sessionState = "unknown" /\ initSeen = FALSE /\ sessionId = 0
  /\ hookEvents = <<>> /\ hooksSeen = 0
  /\ profile \in Profiles /\ ("can_use_tool" \notin profile => ~onCanUseTool)
  /\ child = 1 /\ swapping = FALSE
  /\ commands = <<>> /\ nextCommands = <<>>
  /\ speaking = NoMsg /\ spoken = {}
  /\ disturbed = FALSE /\ late = {}

----------------------------------------------------------------------------
(* Frames of the running child: applyInbound, one action per branch        *)

RoomFor(n) == arrivalCounter + n <= MaxArrivals
PushToTimeline == RoomFor(1) /\ PushEntries(<<Plain>>)

(* system/init: only the first one since the last reset counts.            *)
OnInit(f) ==
  /\ f \in SystemInit
  /\ IF initSeen THEN UNCHANGED sessionVars
     ELSE initSeen' = TRUE /\ sessionId' = child /\ sessionState' = "running"
  /\ PushToTimeline
  /\ UNCHANGED <<taskVars, shellVars, permVars, hookVars, binaryVars, lifeVars>>

OnSessionState(f) ==
  /\ f \in SystemSessionStateChanged
  /\ sessionState' = f.state
  /\ UNCHANGED <<initSeen, sessionId, aggregatorVars, binaryVars, lifeVars>>

(* Mutant: the ring grows without end. *)
OnHookUncapped(f) ==
  /\ f \in SystemHook /\ hooksSeen < MaxHooks
  /\ hooksSeen' = hooksSeen + 1
  /\ hookEvents' = Append(hookEvents, hooksSeen + 1)
  /\ UNCHANGED <<taskVars, timelineVars, shellVars, permVars, sessionVars,
                 binaryVars, lifeVars>>

(* hooks.ts: ingest with capRingFifo *)
OnHook(f) ==
  LET all == Append(hookEvents, hooksSeen + 1)
  IN  /\ f \in SystemHook /\ hooksSeen < MaxHooks
      /\ hooksSeen' = hooksSeen + 1
      /\ hookEvents' = IF Len(all) > HooksCap
                       THEN SubSeq(all, Len(all) - HooksCap + 1, Len(all)) ELSE all
      /\ UNCHANGED <<taskVars, timelineVars, shellVars, permVars, sessionVars,
                     binaryVars, lifeVars>>

OnTask(f) ==
  /\ f \in SystemTaskStarted \cup SystemTaskProgress \cup SystemTaskUpdated
           \cup SystemTaskNotification
  /\ HandleTaskEvent(f)
  /\ UNCHANGED <<timelineVars, shellVars, permVars, hookVars, sessionVars,
                 binaryVars, lifeVars>>

(* local_command_output: a chunk for the head of the capture queue, or one *)
(* more timeline entry.                                                    *)
OnLocalCommandOutput(f) ==
  /\ f \in SystemLocalCommandOutput /\ commands # <<>>
  /\ IF captureQueue = <<>> THEN PushToTimeline /\ UNCHANGED shellVars
     ELSE /\ OutputChunk(Head(commands)) /\ UNCHANGED timelineVars
          /\ \A i \in DOMAIN shellEntries : Len(shellEntries[i].chunks) < MaxChunks
  /\ UNCHANGED <<taskVars, permVars, hookVars, sessionVars, binaryVars, lifeVars>>

OnOtherSystem(f) ==
  /\ f \in SystemStatus \cup SystemCompactBoundary
  /\ PushToTimeline
  /\ UNCHANGED <<taskVars, shellVars, permVars, hookVars, sessionVars, binaryVars,
                 lifeVars>>

(* can_use_tool: the session state first, then the permissions.            *)
OnCanUseTool(f) ==
  /\ isControlRequest(f) /\ f.subtype = "can_use_tool"
  /\ Len(askedBy) < MaxRequests
  /\ sessionState' = "requires_action"
  /\ Ingest(child)
  /\ late' = IF swapping THEN late \cup {Len(askedBy) + 1} ELSE late
  /\ UNCHANGED <<initSeen, sessionId, taskVars, timelineVars, shellVars, hookVars,
                 binaryVars, profile, child, swapping, disturbed>>

(* A control_response is left to the correlator, any other control_request *)
(* is ignored.                                                             *)
OnOtherControl(f) ==
  /\ isControlResponse(f) \/ (isControlRequest(f) /\ f.subtype # "can_use_tool")
  /\ UNCHANGED vars

(* The local user entry of the follow-up text the shell sends while it     *)
(* looks at f                                                              *)
FollowUpEntry(f) ==
  IF ClosesCommand(f) /\ FollowUpDue THEN <<LocalUser>> ELSE <<>>

(* Every other frame: the shell looks at it, then it goes to its task, or  *)
(* to the streaming machinery, or to the timeline; a rate limit is dropped *)
OnMain(f) ==
  /\ f.type \in {"user", "assistant", "stream_event", "result", "rate_limit_event"}
  /\ RoomFor(2) /\ HandleShellReplay(f, Head(commands))
  /\ IF f.parent # NoTool
     THEN SubAgentFrame(f.parent) /\ PushEntries(FollowUpEntry(f))
     ELSE /\ CASE isStreamEventFrame(f) -> ApplyStreamEvent(f.event, speaking)
               [] isAssistantFrame(f) -> AssistantEnvelope(f.message)
               [] f.type = "rate_limit_event" -> UNCHANGED timelineVars
               [] OTHER -> PushEntries(FollowUpEntry(f) \o <<Plain>>)
          /\ UNCHANGED taskVars
  /\ UNCHANGED <<permVars, hookVars, sessionVars, lifeVars>>

(* What the external binary may send next, and what it did by sending it.  *)
Emits(f) ==
  /\ (f \in UserFrame /\ f.isReplay /\ f.bash # {}) => commands # <<>>
  /\ commands' = IF ClosesCommand(f) THEN Tail(commands) ELSE commands
  /\ IF isStreamEventFrame(f)
     THEN IF f.event.type = "message_start"
          THEN /\ speaking = NoMsg /\ f.event.id \notin spoken
               /\ speaking' = f.event.id /\ spoken' = spoken \cup {f.event.id}
          ELSE /\ speaking # NoMsg /\ UNCHANGED spoken
               /\ speaking' = IF f.event.type = "message_stop" THEN NoMsg
                              ELSE speaking
               /\ f.event.type = "content_block_delta" =>
                    \A m \in DOMAIN streaming : \A x \in DOMAIN streaming[m].content :
                      Len(streaming[m].content[x].chunks) < MaxChunks
     ELSE UNCHANGED <<speaking, spoken>>
  /\ (isAssistantFrame(f) /\ f.parent = NoTool) => f.message \in spoken
  /\ UNCHANGED nextCommands

(* The kind of traffic a frame belongs to *)
Kind(f) ==
  CASE isSystemFrame(f) -> f.subtype
    [] isControlRequest(f) -> f.subtype
    [] "parent" \in DOMAIN f /\ f.parent # NoTool -> "sub_agent"
    [] isUserFrame(f) /\ f.isReplay -> "replay"
    [] OTHER -> f.type

Receive(f) ==
  /\ Kind(f) \in profile
  /\ Kind(f) = "sub_agent" => Len(agentFrames) < MaxAgentFrames
  /\ \/ OnInit(f) \/ OnSessionState(f) \/ OnHook(f) \/ OnTask(f)
     \/ OnLocalCommandOutput(f) \/ OnOtherSystem(f) \/ OnCanUseTool(f)
     \/ OnOtherControl(f)
     \/ Emits(f) /\ OnMain(f)

----------------------------------------------------------------------------
(* The user's calls *)

(* A page that restores a saved timeline does it before anything else:     *)
(* the last entries of an earlier page, with the keys they had there.      *)
HydrateMessages ==
  /\ "restore" \in profile /\ revision = 0 /\ messages = <<>>
  /\ \E saved \in {<<Entry("local_user", NoMsg, 0), Entry("streaming", m, 1),
                     Entry("frame", NoMsg, 2)>> : m \in MsgIds} : Hydrate(saved)
  /\ UNCHANGED <<taskVars, shellVars, permVars, sessionVars, hookVars, binaryVars,
                 lifeVars>>

(* The child that will read what the client sends now *)
Reader == IF swapping THEN child + 1 ELSE child

SendUserMessage ==
  /\ "send" \in profile /\ RoomFor(1)
  /\ DrainForUser /\ PushEntries(<<LocalUser>>)
  /\ UNCHANGED <<taskVars, permVars, sessionVars, hookVars, binaryVars, lifeVars>>

(* sendShellContext, sendBashSideChannel: a send that fails is swallowed,  *)
(* with the command left in the capture queue.                             *)
BashCommand(source, followUp, lost) ==
  /\ "command" \in profile /\ issued < MaxIssued
  /\ SendCommand(source, followUp)
  /\ CASE lost -> UNCHANGED <<commands, nextCommands>>
       [] ~lost /\ swapping ->
            nextCommands' = Append(nextCommands, issued + 1) /\ UNCHANGED commands
       [] OTHER ->
            commands' = Append(commands, issued + 1) /\ UNCHANGED nextCommands
  /\ disturbed' = (disturbed \/ lost)
  /\ UNCHANGED <<speaking, spoken, taskVars, timelineVars, permVars, sessionVars,
                 hookVars, profile, child, swapping, late>>

DismissShellEntry ==
  /\ "dismiss" \in profile
  /\ \E i \in DOMAIN shellEntries : Dismiss(shellEntries[i].id)
  /\ UNCHANGED <<taskVars, timelineVars, permVars, sessionVars, hookVars,
                 binaryVars, lifeVars>>

(* respondToPermission: an empty queue ends requires_action, also when the *)
(* verdict itself was ignored.                                             *)
RespondToPermission ==
  /\ \E id \in DOMAIN askedBy, b \in Behaviors : Respond(id, b, Reader)
  /\ sessionState' = IF pendingPermissions' = <<>>
                        /\ sessionState = "requires_action"
                     THEN "running" ELSE sessionState
  /\ UNCHANGED <<initSeen, sessionId, taskVars, timelineVars, shellVars, hookVars,
                 binaryVars, lifeVars>>

CallbackDone ==
  /\ \E id \in deciding, b \in Behaviors : CallbackSettles(id, b, Reader)
  /\ UNCHANGED <<taskVars, timelineVars, shellVars, sessionVars, hookVars,
                 binaryVars, lifeVars>>

ChangeCallback ==
  /\ "callback" \in profile
  /\ SetPermissionCallback(~permissionCallback)
  /\ UNCHANGED <<taskVars, timelineVars, shellVars, sessionVars, hookVars,
                 binaryVars, lifeVars>>

(* endSession, acknowledged *)
MarkEnded ==
  /\ "end" \in profile
  /\ sessionState' = "ended"
  /\ UNCHANGED <<initSeen, sessionId, aggregatorVars, binaryVars, lifeVars>>

(* reactive.ts respawn, after resetTimeline for a new or resumed session   *)
Respawn(resetTimeline) ==
  /\ "respawn" \in profile /\ ~swapping /\ child < MaxChild
  /\ swapping' = TRUE
  /\ ClearQueue
  /\ disturbed' = (disturbed \/ captureQueue # <<>> \/ commands # <<>>)
  /\ IF resetTimeline
     THEN /\ TasksReset /\ TimelineReset /\ ShellReset
          /\ hookEvents' = <<>> /\ initSeen' = FALSE /\ sessionId' = 0
     ELSE UNCHANGED <<taskVars, timelineVars, shellVars, hookEvents, initSeen,
                      sessionId>>
  /\ UNCHANGED <<sessionState, hooksSeen, binaryVars, profile, child, late>>

(* The bridge replaces the child: external to the client.                  *)
Swap ==
  /\ swapping /\ swapping' = FALSE /\ child' = child + 1
  /\ commands' = nextCommands /\ nextCommands' = <<>> /\ speaking' = NoMsg
  /\ UNCHANGED <<spoken, aggregatorVars, sessionVars, profile, disturbed, late>>

Tick ==
  /\ "sub_agent" \in profile /\ now < MaxNow
  /\ now' = now + 1
  /\ UNCHANGED <<tasks, pendingByParent, agentFrames, expired, evicted, unannounced,
                 timelineVars, shellVars, permVars, sessionVars, hookVars,
                 binaryVars, lifeVars>>

Next ==
  \/ \E f \in InboundFrame : Receive(f)
  \/ HydrateMessages \/ SendUserMessage \/ DismissShellEntry
  \/ \E s \in ShellSource, f, lost \in BOOLEAN :
       /\ f => s = "context"
       /\ lost => "loss" \in profile
       /\ BashCommand(s, f, lost)
  \/ RespondToPermission \/ CallbackDone \/ ChangeCallback \/ MarkEnded
  \/ \E reset \in BOOLEAN : Respawn(reset)
  \/ Swap \/ Tick

Spec == Init /\ [][Next]_vars

----------------------------------------------------------------------------
(* Unless a child was replaced with a command outstanding, or a command    *)
(* was lost on its way, every output shown, kept or sent to the model is   *)
(* that of its own command: the code pairs them by position alone          *)
(* (shell.ts:157).                                                         *)
OwnOutput == disturbed \/ OutputIsOwn

(* A verdict is read by the child that asked, unless a callback gave it or *)
(* the request came from a child already being replaced: the respawn       *)
(* clears the queue before the new child can read anything.                *)
VerdictReachesAsker ==
  (~onCanUseTool /\ ~permissionCallback /\ "callback" \notin profile) =>
    \A i \in DOMAIN verdicts : verdicts[i].id \notin late =>
      verdicts[i].to = askedBy[verdicts[i].id]

(* Sub-agent frames (tasks.ts): none is lost or shown twice, transcripts   *)
(* are in order, and the cap spares running tasks.                         *)
SubAgentFramesSafe == AgentFramesKept /\ TranscriptInOrder /\ CapSparesRunning

(* The timeline (messages.ts): unique increasing keys, streaming entries   *)
(* that agree with the messages being assembled, and text that is their    *)
(* own.                                                                    *)
TimelineSafe == ArrivalOrder /\ StreamingShown /\ StreamedTextIsOwn

(* Permissions (permissions.ts): one verdict per request, read by the      *)
(* child that asked.                                                       *)
PermissionsSafe == VerdictOnce /\ VerdictReachesAsker

(* The shell (shell.ts): each exchange sent once and in order, follow-ups  *)
(* with their exchange, outputs with their command.                        *)
ShellSafe == ExchangeOnce /\ OwnOutput

(* What a step may never do: take a running task off the list (but for a   *)
(* reset, or the frame that finishes it over the cap), or change what      *)
(* persistence saves without bumping the revision it watches.              *)
StepsSafe == [][RunningStays /\ RevisionTracks]_vars
=============================================================================

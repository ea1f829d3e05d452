------------------------------- MODULE Frames -------------------------------
(***************************************************************************)
(* The wire frames of packages/protocol/src/client/frames.ts, as sets of   *)
(* records holding the fields the client's state depends on.  A frame of   *)
(* the main thread has no parent_tool_use_id (NoTool); bash tags stand for *)
(* the XML elements in the text of a replayed user message.                *)
(***************************************************************************)
CONSTANTS
  TaskIds,      \* task ids
  ToolOf,       \* the tool use each task was started by
  NoTool,       \* a frame without tool_use_id
  MsgIds,       \* ids of assistant messages
  NoMsg,        \* null
  Blocks,       \* content block indices
  BlockKinds,   \* subset of {"text", "thinking", "tool_use"}
  BashTexts     \* which sets of XML elements a replayed message may have

Tools == {ToolOf[t] : t \in TaskIds}
Parents == Tools \cup {NoTool}
BashTags == {"input", "stdout", "stderr", "exit"}

ASSUME FramesAssumption ==
  /\ ToolOf \in [TaskIds -> Tools] /\ NoTool \notin Tools /\ NoMsg \notin MsgIds
  /\ BashTexts \subseteq SUBSET BashTags
  /\ \A s, t \in TaskIds : ToolOf[s] = ToolOf[t] => s = t

StreamEvent ==
  [type : {"message_start"}, id : MsgIds]
    \cup [type : {"content_block_start", "content_block_delta"}, index : Blocks,
          kind : BlockKinds]
    \cup [type : {"content_block_stop"}, index : Blocks, wellFormed : BOOLEAN]
    \cup [type : {"message_delta", "message_stop"}]

SystemInit == [type : {"system"}, subtype : {"init"}]
SystemStatus == [type : {"system"}, subtype : {"status"}]
SystemSessionStateChanged ==
  [type : {"system"}, subtype : {"session_state_changed"},
   state : {"idle", "running", "requires_action"}]
SystemTaskStarted ==
  UNION {[type : {"system"}, subtype : {"task_started"}, task_id : {t},
          tool_use_id : {ToolOf[t], NoTool}] : t \in TaskIds}
SystemTaskProgress ==
  [type : {"system"}, subtype : {"task_progress"}, task_id : TaskIds]
SystemTaskNotification ==
  UNION {[type : {"system"}, subtype : {"task_notification"}, task_id : {t},
          tool_use_id : {ToolOf[t]}, status : {"completed", "stopped", "other"}]
           : t \in TaskIds}
TaskUpdatedPatch == {"running", "failed", "killed"}
SystemTaskUpdated ==
  [type : {"system"}, subtype : {"task_updated"}, task_id : TaskIds,
   status : TaskUpdatedPatch]
SystemHook ==
  [type : {"system"},
   subtype : {"hook_started", "hook_progress", "hook_response"}]
SystemLocalCommandOutput == [type : {"system"}, subtype : {"local_command_output"}]
SystemCompactBoundary == [type : {"system"}, subtype : {"compact_boundary"}]
SystemFrame ==
  SystemInit \cup SystemStatus \cup SystemSessionStateChanged
    \cup SystemTaskStarted \cup SystemTaskProgress \cup SystemTaskNotification
    \cup SystemTaskUpdated \cup SystemHook \cup SystemLocalCommandOutput
    \cup SystemCompactBoundary

AssistantFrame == [type : {"assistant"}, message : MsgIds, parent : Parents]
UserFrame ==
  [type : {"user"}, isReplay : {TRUE}, bash : BashTexts, parent : Parents]
    \cup [type : {"user"}, isReplay : {FALSE}, bash : {{}}, parent : Parents]
ResultFrame == [type : {"result"}, parent : {NoTool}]
StreamEventFrame ==
  [type : {"stream_event"}, event : StreamEvent, parent : {NoTool}]
RateLimitEventFrame == [type : {"rate_limit_event"}, parent : {NoTool}]
ControlRequestFrame ==
  [type : {"control_request"}, subtype : {"can_use_tool", "other"}]
ControlResponseFrame == [type : {"control_response"}]

InboundFrame ==
  AssistantFrame \cup UserFrame \cup ResultFrame \cup StreamEventFrame
    \cup SystemFrame \cup ControlRequestFrame \cup ControlResponseFrame
    \cup RateLimitEventFrame

isSystemFrame(f) == f.type = "system"
isUserFrame(f) == f.type = "user"
isAssistantFrame(f) == f.type = "assistant"
isStreamEventFrame(f) == f.type = "stream_event"
isControlRequest(f) == f.type = "control_request"
isControlResponse(f) == f.type = "control_response"
=============================================================================

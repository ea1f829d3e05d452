------------------------------ MODULE Schemas ------------------------------
(***************************************************************************)
(* The generated arktype schemas that validation can reach (schemas.ts)    *)
(* and the two tables that choose one (dispatch.ts).  A schema is kept to  *)
(* what decides whether it allows a frame: the literals it fixes for type  *)
(* and subtype and the keys it requires.  Optional keys and the kinds of   *)
(* the values are left out: a frame of the model has well-kinded values.   *)
(***************************************************************************)
EXTENDS TLC, FiniteSets

(* The keys nearly every frame of the binary carries *)
Envelope == {"uuid", "session_id"}
NoSubtype == "none"

(* An empty set of literals leaves the key open; inner is the schemas of   *)
(* the nested request or response, if the schema checks one.               *)
Untyped(keys) == [type |-> {}, subtype |-> {}, needs |-> keys, inner |-> {}]
Anything == Untyped({})
Message(type, keys) == [Untyped(keys) EXCEPT !.type = {type}]
Request(subtype, keys) == [Untyped(keys) EXCEPT !.subtype = {subtype}]
System(subtype, keys) ==
  [Message("system", keys \cup Envelope) EXCEPT !.subtype = {subtype}]

(* schema.allows(frame) *)
Matches(schema, frame) ==
  /\ schema.type = {} \/ frame.type \in schema.type
  /\ schema.subtype = {} \/ frame.subtype \in schema.subtype
  /\ schema.needs \subseteq frame.keys
allows(schema, frame) ==
  /\ Matches(schema, frame)
  /\ \/ schema.inner = {}
     \/ \E nested \in schema.inner : Matches(nested, frame.inner)

AdaptiveMessage == Message("adaptive", {})
AddDirectoriesMessage ==
  Message("addDirectories", {"directories", "destination"})
AddRulesMessage == Anything
HttpMessage == Message("http", {"url"})
SdkMessage == Message("sdk", {"name"})
SseMessage == Message("sse", {"url"})
StdioMessage == Untyped({"command", "args"})
AgentMessage == Message("agent", {"prompt"})
AssistantMessage ==
  Message("assistant", {"message", "parent_tool_use_id"} \cup Envelope)
AuthStatusMessage ==
  Message("auth_status", {"isAuthenticating", "output"} \cup Envelope)
PromptSuggestionMessage ==
  Message("prompt_suggestion", {"suggestion"} \cup Envelope)
RateLimitEventMessage ==
  Message("rate_limit_event", {"rate_limit_info"} \cup Envelope)
StreamEventMessage ==
  Message("stream_event", {"event", "parent_tool_use_id"} \cup Envelope)
SystemApiRetry ==
  System("api_retry", {"attempt", "max_retries", "retry_delay_ms",
    "error_status", "error"})
SystemCompactBoundary == System("compact_boundary", {})
SystemElicitationComplete ==
  System("elicitation_complete", {"mcp_server_name", "elicitation_id"})
SystemFilesPersisted ==
  System("files_persisted", {"files", "failed", "processed_at"})
SystemHookProgress ==
  System("hook_progress", {"hook_id", "hook_name", "hook_event", "stdout",
    "stderr", "output"})
SystemHookResponse ==
  System("hook_response", {"hook_id", "hook_name", "hook_event", "output",
    "stdout", "stderr", "outcome"})
SystemHookStarted ==
  System("hook_started", {"hook_id", "hook_name", "hook_event"})
SystemInit ==
  System("init", {"apiKeySource", "claude_code_version", "cwd", "tools",
    "mcp_servers", "model", "permissionMode", "slash_commands",
    "output_style", "skills", "plugins"})
SystemLocalCommandOutput == System("local_command_output", {"content"})
SystemMemoryRecall == System("memory_recall", {"mode", "memories"})
SystemMirrorError == System("mirror_error", {"error", "key"})
SystemNotification == System("notification", {"key", "text", "priority"})
SystemPermissionDenied ==
  System("permission_denied", {"tool_name", "tool_use_id", "message"})
SystemPluginInstall == System("plugin_install", {"status"})
SystemSessionStateChanged == System("session_state_changed", {"state"})
SystemStatus == System("status", {"status"})
SystemTaskNotification ==
  System("task_notification", {"task_id", "status", "output_file", "summary"})
SystemTaskProgress ==
  System("task_progress", {"task_id", "description", "usage"})
SystemTaskStarted == System("task_started", {"task_id", "description"})
SystemTaskUpdated == System("task_updated", {"task_id", "patch"})
ToolProgressMessage ==
  Message("tool_progress", {"tool_use_id", "tool_name", "parent_tool_use_id",
    "elapsed_time_seconds"} \cup Envelope)
ToolUseSummaryMessage ==
  Message("tool_use_summary", {"summary", "preceding_tool_use_ids"} \cup
    Envelope)
CanUseToolRequest ==
  Request("can_use_tool", {"tool_name", "input", "tool_use_id"})
ElicitationRequest == Request("elicitation", {"mcp_server_name", "message"})
HookCallbackRequest == Request("hook_callback", {"callback_id", "input"})
McpMessageRequest == Request("mcp_message", {"server_name", "message"})
OauthTokenRefreshRequest == Request("oauth_token_refresh", {})
RequestUserDialogRequest ==
  Request("request_user_dialog", {"dialog_kind", "payload"})
BashCommandMessage == Message("bash_command", {"command"})
ApplyFlagSettingsRequest == Request("apply_flag_settings", {"settings"})
BackgroundTasksRequest == Request("background_tasks", {})
CancelAsyncMessageRequest == Request("cancel_async_message", {"message_uuid"})
FileSuggestionsRequest == Request("file_suggestions", {"query"})
GetBinaryVersionRequest == Request("get_binary_version", {})
GetContextUsageRequest == Request("get_context_usage", {})
GetSessionCostRequest == Request("get_session_cost", {})
GetSettingsRequest == Request("get_settings", {})
InitializeRequest == Request("initialize", {})
InterruptRequest == Request("interrupt", {})
McpCallRequest == Request("mcp_call", {"tool"})
McpReconnectRequest == Request("mcp_reconnect", {"serverName"})
McpSetServersRequest == Request("mcp_set_servers", {"servers"})
McpStatusRequest == Request("mcp_status", {})
McpToggleRequest == Request("mcp_toggle", {"serverName", "enabled"})
MessageRatedRequest == Request("message_rated", {"messageUuid", "sentiment"})
ReadFileRequest == Request("read_file", {"path"})
ReloadPluginsRequest == Request("reload_plugins", {})
RenameSessionRequest == Request("rename_session", {"title"})
RewindFilesRequest == Request("rewind_files", {"user_message_id"})
SeedReadStateRequest == Request("seed_read_state", {"path", "mtime"})
SetColorRequest == Request("set_color", {"color"})
SetMaxThinkingTokensRequest ==
  Request("set_max_thinking_tokens", {"max_thinking_tokens"})
SetModelRequest == Request("set_model", {})
SetPermissionModeRequest == Request("set_permission_mode", {"mode"})
StopTaskRequest == Request("stop_task", {"task_id"})
SubmitFeedbackRequest == Request("submit_feedback", {"description"})
(* The requests a control_request may carry; end_session is not one.       *)
ControlRequests ==
  {ApplyFlagSettingsRequest, BackgroundTasksRequest, CanUseToolRequest,
   CancelAsyncMessageRequest, ElicitationRequest, FileSuggestionsRequest,
   GetBinaryVersionRequest, GetContextUsageRequest, GetSessionCostRequest,
   GetSettingsRequest, HookCallbackRequest, InitializeRequest,
   InterruptRequest, McpCallRequest, McpMessageRequest, McpReconnectRequest,
   McpSetServersRequest, McpStatusRequest, McpToggleRequest,
   MessageRatedRequest, OauthTokenRefreshRequest, ReadFileRequest,
   ReloadPluginsRequest, RenameSessionRequest, RequestUserDialogRequest,
   RewindFilesRequest, SeedReadStateRequest, SetColorRequest,
   SetMaxThinkingTokensRequest, SetModelRequest, SetPermissionModeRequest,
   StopTaskRequest, SubmitFeedbackRequest}

ControlRequestMessage ==
  [Message("control_request", {"request_id", "request"})
     EXCEPT !.inner = ControlRequests]
ErrorRequest == Request("error", {"request_id", "error"})
SuccessRequest == Request("success", {"request_id"})
ControlResponseMessage ==
  [Message("control_response", {"response"})
     EXCEPT !.inner = {SuccessRequest, ErrorRequest}]
KeepAliveMessage == Message("keep_alive", {})
UpdateEnvironmentVariablesMessage ==
  Message("update_environment_variables", {"variables"})
ClaudeaiProxyMessage == Message("claudeai-proxy", {"url", "id"})
SystemPostTurnSummary ==
  System("post_turn_summary", {"summarizes_uuid", "status_category",
    "status_detail", "needs_action"})
SystemTaskSummary == System("task_summary", {"detail"})
TranscriptMirrorMessage ==
  Message("transcript_mirror", {"filePath", "entries"})
ResultMessage ==
  [Message("result", {"duration_ms", "duration_api_ms", "is_error",
    "num_turns", "stop_reason", "total_cost_usd", "usage", "modelUsage",
    "permission_denials", "errors"} \cup Envelope) EXCEPT !.subtype =
    {"error_during_execution", "error_max_turns", "error_max_budget_usd",
    "error_max_structured_output_retries"}]
ResultSuccess ==
  [Message("result", {"duration_ms", "duration_api_ms", "is_error",
    "num_turns", "result", "stop_reason", "total_cost_usd", "usage",
    "modelUsage", "permission_denials"} \cup Envelope) EXCEPT !.subtype =
    {"success"}]
SseIdeMessage == Message("sse-ide", {"url", "ideName"})
WsIdeMessage == Message("ws-ide", {"url", "ideName"})
WsMessage == Message("ws", {"url"})
ControlCancelRequestMessage ==
  Message("control_cancel_request", {"request_id"})
DisabledMessage == Message("disabled", {})
EnabledMessage == Message("enabled", {})
Base64Message == Untyped({"method", "params"})
CommandMessage == Message("command", {"command"})
FileUnchangedMessage == Message("file_unchanged", {"file"})
ImageMessage == Message("image", {})
JsonSchemaMessage == Message("json_schema", {"schema"})
LocalMessage == Message("local", {"path"})
McpToolMessage == Message("mcp_tool", {"server", "tool"})
ModeSetRequestMessage == Message("mode_set_request", {"mode", "from"})
NotebookMessage == Message("notebook", {"file"})
PartsMessage == Message("parts", {"file"})
PdfMessage == Message("pdf", {"file"})
PlanApprovalRequestMessage ==
  Message("plan_approval_request", {"from", "timestamp", "planFilePath",
    "planContent", "requestId"})
PlanApprovalResponseMessage ==
  Message("plan_approval_response", {"requestId", "approved", "timestamp"})
PromptMessage == Message("prompt", {"prompt"})
RemoveDirectoriesMessage ==
  Message("removeDirectories", {"directories", "destination"})
RemoveRulesMessage ==
  Message("removeRules", {"rules", "behavior", "destination"})
ReplaceRulesMessage ==
  Message("replaceRules", {"rules", "behavior", "destination"})
SetModeMessage == Message("setMode", {"mode", "destination"})
ShutdownApprovedMessage ==
  Message("shutdown_approved", {"requestId", "from", "timestamp"})
ShutdownRejectedMessage ==
  Message("shutdown_rejected", {"requestId", "from", "reason", "timestamp"})
ShutdownRequestMessage ==
  Message("shutdown_request", {"requestId", "from", "timestamp"})
ShutdownResponseMessage ==
  Message("shutdown_response", {"request_id", "approve"})
TextMessage ==
  Untyped({"agentId", "content", "totalToolUseCount", "totalDurationMs",
    "totalTokens", "usage"})
UserMessage == Message("user", {"message", "parent_tool_use_id"})

(* dispatch.ts *)
inboundBySubtype ==
  [api_retry |-> SystemApiRetry,
   apply_flag_settings |-> ApplyFlagSettingsRequest,
   background_tasks |-> BackgroundTasksRequest,
   can_use_tool |-> CanUseToolRequest,
   cancel_async_message |-> CancelAsyncMessageRequest,
   compact_boundary |-> SystemCompactBoundary,
   elicitation |-> ElicitationRequest,
   elicitation_complete |-> SystemElicitationComplete,
   error |-> ErrorRequest, file_suggestions |-> FileSuggestionsRequest,
   files_persisted |-> SystemFilesPersisted,
   get_binary_version |-> GetBinaryVersionRequest,
   get_context_usage |-> GetContextUsageRequest,
   get_session_cost |-> GetSessionCostRequest,
   get_settings |-> GetSettingsRequest,
   hook_callback |-> HookCallbackRequest,
   hook_progress |-> SystemHookProgress,
   hook_response |-> SystemHookResponse, hook_started |-> SystemHookStarted,
   init |-> SystemInit, initialize |-> InitializeRequest,
   interrupt |-> InterruptRequest,
   local_command_output |-> SystemLocalCommandOutput,
   mcp_call |-> McpCallRequest, mcp_message |-> McpMessageRequest,
   mcp_reconnect |-> McpReconnectRequest,
   mcp_set_servers |-> McpSetServersRequest,
   mcp_status |-> McpStatusRequest, mcp_toggle |-> McpToggleRequest,
   memory_recall |-> SystemMemoryRecall,
   message_rated |-> MessageRatedRequest,
   mirror_error |-> SystemMirrorError, notification |-> SystemNotification,
   oauth_token_refresh |-> OauthTokenRefreshRequest,
   permission_denied |-> SystemPermissionDenied,
   plugin_install |-> SystemPluginInstall,
   post_turn_summary |-> SystemPostTurnSummary,
   read_file |-> ReadFileRequest, reload_plugins |-> ReloadPluginsRequest,
   rename_session |-> RenameSessionRequest,
   request_user_dialog |-> RequestUserDialogRequest,
   rewind_files |-> RewindFilesRequest,
   seed_read_state |-> SeedReadStateRequest,
   session_state_changed |-> SystemSessionStateChanged,
   set_color |-> SetColorRequest,
   set_max_thinking_tokens |-> SetMaxThinkingTokensRequest,
   set_model |-> SetModelRequest,
   set_permission_mode |-> SetPermissionModeRequest,
   status |-> SystemStatus, stop_task |-> StopTaskRequest,
   submit_feedback |-> SubmitFeedbackRequest, success |-> SuccessRequest,
   task_notification |-> SystemTaskNotification,
   task_progress |-> SystemTaskProgress, task_started |-> SystemTaskStarted,
   task_summary |-> SystemTaskSummary, task_updated |-> SystemTaskUpdated]

inboundByType ==
  [adaptive |-> AdaptiveMessage, addDirectories |-> AddDirectoriesMessage,
   addRules |-> AddRulesMessage, agent |-> AgentMessage,
   assistant |-> AssistantMessage, auth_status |-> AuthStatusMessage,
   base64 |-> Base64Message, bash_command |-> BashCommandMessage,
   command |-> CommandMessage,
   control_cancel_request |-> ControlCancelRequestMessage,
   control_request |-> ControlRequestMessage,
   control_response |-> ControlResponseMessage,
   disabled |-> DisabledMessage, enabled |-> EnabledMessage,
   file_unchanged |-> FileUnchangedMessage, http |-> HttpMessage,
   image |-> ImageMessage, json_schema |-> JsonSchemaMessage,
   keep_alive |-> KeepAliveMessage, local |-> LocalMessage,
   mcp_tool |-> McpToolMessage, mode_set_request |-> ModeSetRequestMessage,
   notebook |-> NotebookMessage, parts |-> PartsMessage, pdf |-> PdfMessage,
   plan_approval_request |-> PlanApprovalRequestMessage,
   plan_approval_response |-> PlanApprovalResponseMessage,
   prompt |-> PromptMessage, prompt_suggestion |-> PromptSuggestionMessage,
   rate_limit_event |-> RateLimitEventMessage,
   removeDirectories |-> RemoveDirectoriesMessage,
   removeRules |-> RemoveRulesMessage, replaceRules |-> ReplaceRulesMessage,
   result |-> ResultMessage, sdk |-> SdkMessage, setMode |-> SetModeMessage,
   shutdown_approved |-> ShutdownApprovedMessage,
   shutdown_rejected |-> ShutdownRejectedMessage,
   shutdown_request |-> ShutdownRequestMessage,
   shutdown_response |-> ShutdownResponseMessage, sse |-> SseMessage,
   stdio |-> StdioMessage, stream_event |-> StreamEventMessage,
   text |-> TextMessage, tool_progress |-> ToolProgressMessage,
   tool_use_summary |-> ToolUseSummaryMessage,
   transcript_mirror |-> TranscriptMirrorMessage,
   update_environment_variables |-> UpdateEnvironmentVariablesMessage,
   user |-> UserMessage, ws |-> WsMessage] @@
  "claudeai-proxy" :> ClaudeaiProxyMessage @@
  "sse-ide" :> SseIdeMessage @@
  "ws-ide" :> WsIdeMessage

(* What the binary writes: the union of its messages, the two shapes of a  *)
(* result (which the extractor lost from that union) and of the control    *)
(* protocol.                                                               *)
StdoutSchemas ==
  {AssistantMessage, AuthStatusMessage, PromptSuggestionMessage,
   RateLimitEventMessage, StreamEventMessage, SystemApiRetry,
   SystemCompactBoundary, SystemElicitationComplete, SystemFilesPersisted,
   SystemHookProgress, SystemHookResponse, SystemHookStarted, SystemInit,
   SystemLocalCommandOutput, SystemMemoryRecall, SystemMirrorError,
   SystemNotification, SystemPermissionDenied, SystemPluginInstall,
   SystemSessionStateChanged, SystemStatus, SystemTaskNotification,
   SystemTaskProgress, SystemTaskStarted, SystemTaskUpdated,
   ToolProgressMessage, ToolUseSummaryMessage, ResultMessage, ResultSuccess,
   ControlCancelRequestMessage, ControlRequestMessage,
   ControlResponseMessage, KeepAliveMessage, SystemPostTurnSummary,
   SystemTaskSummary, TranscriptMirrorMessage}
=============================================================================

--------------------------- MODULE MCClientState ---------------------------
(* Two tasks and a cap of one; two messages; two commands; two children.   *)
EXTENDS ClientState, TLC
CONSTANTS t1, t2, u1, u2, m1, m2

MCToolOf == (t1 :> u1) @@ (t2 :> u2)
MCBashTexts == {{}, {"input"}, {"stdout", "stderr", "exit"}, {"input", "stdout"}}
TaskFrames == {"task_started", "task_progress", "task_updated",
               "task_notification", "sub_agent"}
ShellFrames == {"local_command_output", "replay"}
MCProfiles == {
  TaskFrames,
  {"task_started", "task_notification", "sub_agent", "respawn"},
  {"stream_event", "assistant", "result", "respawn", "restore"},
  {"command", "send", "respawn"} \cup ShellFrames,
  {"command", "send", "dismiss", "loss"} \cup ShellFrames,
  {"command", "sub_agent", "replay"},
  {"can_use_tool", "callback", "respawn", "session_state_changed", "end"},
  {"can_use_tool", "respawn", "init", "session_state_changed"},
  {"hook_started", "hook_response", "respawn", "init", "status", "other",
   "compact_boundary", "result", "user", "rate_limit_event", "control_response"}}

(* Kept of Subsequences is SelectSeq of the standard module Sequences.     *)
ASSUME KeptIsSelectSeq ==
  \A n \in 0 .. 4 : \A q \in [1 .. n -> 0 .. 2] : \A S \in SUBSET (0 .. 2) :
    Kept(q, {i \in DOMAIN q : q[i] \in S}) = SelectSeq(q, LAMBDA x : x \in S)
=============================================================================

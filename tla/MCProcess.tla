----------------------------- MODULE MCProcess -----------------------------
(***************************************************************************)
(* ClaudeProcess under three profiles: its calls with the acks they wait   *)
(* for, its validation of every frame of the tables, and the framing of    *)
(* the pipe below it.                                                      *)
(***************************************************************************)
EXTENDS Process, Framing

CONSTANT MaxJudged   \* frames judged in a behaviour of profile "frames"

VARIABLES profile, judged
mcvars == <<vars, fvars, profile, judged>>

TheType(schema) == IF schema.type = {} THEN "none" ELSE CHOOSE t \in schema.type : TRUE

(* The least frames of a schema: its literals and required keys, around    *)
(* the least of each nested schema.                                        *)
Nested(schema) ==
  IF schema.inner = {} THEN {NoNested}
  ELSE {[type |-> TheType(n), subtype |-> CHOOSE s \in n.subtype : TRUE,
         keys |-> n.needs] : n \in schema.inner}
LeastFrames(schema) ==
  {Frame(TheType(schema), s, schema.needs, n) :
     s \in IF schema.subtype = {} THEN {NoSubtype} ELSE schema.subtype,
     n \in Nested(schema)}

StdoutFrames == UNION {LeastFrames(s) : s \in StdoutSchemas}

(* What ClaudeClient sends: intents.ts and the methods of client/index.ts. *)
buildControlRequest(subtype, payload) ==
  Frame("control_request", NoSubtype, {"request_id", "request"},
        [type |-> "none", subtype |-> subtype, keys |-> payload])
buildUserMessage == Frame("user", NoSubtype, {"message"}, NoNested)
buildBashCommandMessage == Frame("bash_command", NoSubtype, {"command"}, NoNested)
Verdict == Frame("control_response", NoSubtype, {"response"},
  [type |-> "none", subtype |-> "success", keys |-> {"request_id", "response"}])
EndSession == buildControlRequest("end_session", {})
Incomplete == {buildControlRequest("apply_flag_settings", {}),
               buildControlRequest("seed_read_state", {})}
ClientFrames ==
  {buildControlRequest(s, {}) :
     s \in {"interrupt", "get_settings", "get_context_usage",
            "get_session_cost", "get_binary_version", "mcp_status",
            "reload_plugins"}} \cup
  {buildControlRequest("set_permission_mode", {"mode"}),
   buildControlRequest("set_model", {"model"}),
   buildControlRequest("set_max_thinking_tokens", {"max_thinking_tokens"}),
   buildControlRequest("file_suggestions", {"query"}),
   buildControlRequest("stop_task", {"task_id"}),
   EndSession, buildUserMessage, buildBashCommandMessage, Verdict} \cup Incomplete

(* What a newer binary may write.                                          *)
NewSystem == Frame("system", "new", Envelope, NoNested)
NewType == Frame("new", NoSubtype, Envelope, NoNested)
NewResult == Frame("result", "new", Envelope, NoNested)
BareResponse == Frame("control_response", NoSubtype, {}, NoNested)
StrangeFrames == {NewSystem, NewType, NewResult, BareResponse}

Answer(kind) == Frame("control_response", NoSubtype, {"response"},
  [type |-> "none", subtype |-> kind, keys |-> {"request_id"} \cup
     IF kind = "error" THEN {"error"} ELSE {}])
Answers == {Answer("success"), Answer("error"), Answer("other")}

AllTexts ==
  LET pieces == {frameToLine, <<Newline>>, <<"open", Newline>>,
                 <<"close", "open", Newline>>}
      tails == {<<>>, <<"open">>, Json}
  IN  {<<>>} \cup
      {a \o b \o c \o t : a \in pieces, b \in pieces, c \in pieces, t \in tails}

MCInit ==
  /\ Init /\ FramingInit
  /\ profile \in {"calls", "frames", "pipe"}
  /\ judged = 0
  /\ profile # "frames" => mode = "discriminator" /\ vse = FALSE
  /\ profile # "calls" => throwsOn = "never"
  /\ profile # "pipe" => text = <<>>

MCNext ==
  \/ /\ profile = "calls"
     /\ CallStep(Answers)
     /\ UNCHANGED <<fvars, profile, judged>>
  \/ /\ profile = "frames" /\ judged < MaxJudged
     /\ judged' = judged + 1
     /\ \E f \in StdoutFrames \cup ClientFrames \cup StrangeFrames : Judge(f)
     /\ UNCHANGED <<fvars, profile>>
  \/ /\ profile = "pipe"
     /\ FramingNext
     /\ UNCHANGED <<vars, profile, judged>>

MCSpec == MCInit /\ [][MCNext]_mcvars /\ Fairness

(* What each tier refuses.  Discriminators refuse only what a newer binary *)
(* adds under a type no table has (every system message is such a type).   *)
(* In strict mode a successful result is refused too: its subtype is that  *)
(* of a response, whose schema it does not meet.  And of the frames of the *)
(* client: its end_session, its user message, and two requests it sends    *)
(* without what they require.                                              *)
Refused ==
  CASE mode = "off" -> {}
    [] mode = "discriminator" -> {NewSystem, NewType}
    [] mode = "strict" ->
         StrangeFrames \cup LeastFrames(ResultSuccess) \cup Incomplete \cup
         {EndSession, buildUserMessage}

(* No frame is lost on its way to a handler but those, and send() refuses  *)
(* them in strict mode only; and the lines of the pipe are whole.          *)
FramesKept ==
  /\ last.passed <=> (last.frame \notin Refused \/
                         (~last.inbound /\ mode # "strict"))
  /\ LinesWhole
=============================================================================

------------------------------ MODULE Process ------------------------------
(***************************************************************************)
(* ClaudeProcess (packages/protocol/src/process): start() and end() as the *)
(* segments their awaits cut them into, the acks they register and the     *)
(* timers of those, the lifecycle holder, the validation of every frame    *)
(* and the transport underneath.  Several start() and end() calls may be   *)
(* under way at once.                                                      *)
(*                                                                         *)
(* A call is identified with the request_id it generates.  Latencies and   *)
(* the sampling of them are left out.  The transport may accept a frame    *)
(* later than the call (a pipe), may answer before it returns (the         *)
(* in-memory pair), and may go away at any time.                           *)
(***************************************************************************)
EXTENDS Schemas, Naturals

CONSTANTS Starters,  \* the start() calls
          Enders     \* the end() calls

Callers == Starters \cup Enders
NoCaller == "no caller"

ASSUME CallersApart == Starters \cap Enders = {} /\ NoCaller \notin Callers

VARIABLES
  mode,         \* the validation mode
  vse,          \* validateStreamEvents
  throwsOn,     \* the state on which a state subscriber of the owner throws
  state,        \* LifecycleHolder
  calls,        \* how far each start() and end() got
  acks,         \* the promise of expect(): none, pending, ok or error
  unsent,       \* calls whose send was refused
  unheard,      \* acks rejected with nobody awaiting them, and how far the
                \* call was
  wire,         \* the transport: open, closing (close() awaited), closed
  attached,     \* the transport still calls handleInbound
  metering,     \* onMetrics timers: none, set before, or after the end
  endedIdle,    \* end() found the process idle
  last          \* the last frame judged, its verdict and how it came

vars == <<mode, vse, throwsOn, state, calls, acks, unsent, unheard, wire,
          attached, metering, endedIdle, last>>

Config == <<mode, vse, throwsOn>>

ProcessState == {"idle", "ready", "ending", "ended"}
Modes == {"off", "discriminator", "strict"}
Settled == {"done", "failed"}

Frame(type, subtype, keys, nested) ==
  [type |-> type, subtype |-> subtype, keys |-> keys, inner |-> nested]
NoNested == [type |-> "none", subtype |-> NoSubtype, keys |-> {}]
NoFrame == Frame("none", NoSubtype, {}, NoNested)

Init ==
  /\ mode \in Modes
  /\ vse \in BOOLEAN
  /\ throwsOn \in {"never"} \cup (ProcessState \ {"idle"})
  /\ state = "idle"
  /\ calls = [c \in Callers |-> "none"]
  /\ acks = [c \in Callers |-> "none"]
  /\ unsent = {}
  /\ unheard = {}
  /\ wire = "open"
  /\ attached = TRUE
  /\ metering = "none"
  /\ endedIdle = FALSE
  /\ last = [frame |-> NoFrame, passed |-> TRUE, inbound |-> FALSE]

----------------------------------------------------------------------------
(* The transport: sends are refused, and frames no longer delivered, once  *)
(* it is closed; its close() also drops its handlers.                      *)
Accepts == wire = "open"
Delivers == attached /\ wire # "closed"
CloseCalled == wire' = IF wire = "open" THEN "closing" ELSE wire

----------------------------------------------------------------------------
(* Validation *)

Known(table, literal) == literal \in DOMAIN table

(* Mutant: a frame with a subtype is looked up by nothing else. *)
HasSchemaBySubtype(f) == IF f.subtype = NoSubtype
                         THEN Known(inboundByType, f.type)
                         ELSE Known(inboundBySubtype, f.subtype)

(* The subtype chooses the schema when a table has it, otherwise the type. *)
HasSchema(f) == Known(inboundBySubtype, f.subtype) \/ Known(inboundByType, f.type)
SchemaOf(f) == IF Known(inboundBySubtype, f.subtype)
               THEN inboundBySubtype[f.subtype]
               ELSE inboundByType[f.type]

(* A stream event is only asked for its event unless told otherwise.       *)
Bypassed(f) == f.type = "stream_event" /\ ~vse

validateFrame(f) ==
  \/ mode = "off"
  \/ Bypassed(f) /\ "event" \in f.keys
  \/ /\ ~Bypassed(f)
     /\ HasSchema(f)
     /\ mode = "strict" => allows(SchemaOf(f), f)

----------------------------------------------------------------------------
(* LifecycleHolder *)

Order == [s \in ProcessState |->
  CASE s = "idle" -> 0 [] s = "ready" -> 1 [] s = "ending" -> 2 [] OTHER -> 3]

(* Mutant: no state is final, any other may follow. *)
AnyTransition(from, to) == from # to

isValidTransition(from, to) == from # "ended" /\ Order[to] > Order[from]

(* set(): nothing when already there, throws on a step back, and throws    *)
(* what a subscriber throws, the state being changed and the subscribers   *)
(* behind that one untold.                                                 *)
CanSet(to) == to = state \/ isValidTransition(state, to)
SetThrows(to) ==
  \/ ~CanSet(to)
  \/ to # state /\ throwsOn = to
Set(to) == state' = IF CanSet(to) THEN to ELSE state

(* The end() calls that watch the holder hear of the end.                  *)
WatchersTold(told) ==
  [c \in Callers |->
     IF calls[c] = "watching" /\ ~SetThrows("ended") THEN "done" ELSE told[c]]

----------------------------------------------------------------------------
(* Acks *)

Awaited(c) == calls[c] \in {"waiting", "racing"}

(* reject of an ack: somebody awaits it, or nobody hears of it.            *)
Rejects(c) ==
  /\ acks' = [acks EXCEPT ![c] = "error"]
  /\ unheard' = IF Awaited(c) THEN unheard ELSE unheard \cup {<<c, calls[c]>>}

(* tryResolvePending: only a success or an error of a request still        *)
(* pending does anything; an answer that is neither counts as success.     *)
TryResolve(f, c) ==
  IF f.type = "control_response" /\ c \in Callers /\ acks[c] = "pending"
  THEN IF f.inner.subtype = "error"
       THEN Rejects(c)
       ELSE acks' = [acks EXCEPT ![c] = "ok"] /\ UNCHANGED unheard
  ELSE UNCHANGED <<acks, unheard>>

(* Mutant: the timer forgets the request and rejects nothing. *)
AckForgotten(c) ==
  /\ acks[c] = "pending"
  /\ acks' = [acks EXCEPT ![c] = "none"]
  /\ UNCHANGED <<Config, state, calls, unsent, unheard, wire, attached,
                 metering, endedIdle, last>>

(* The timer of expect() *)
AckTimesOut(c) ==
  /\ acks[c] = "pending"
  /\ Rejects(c)
  /\ UNCHANGED <<Config, state, calls, unsent, wire, attached, metering,
                 endedIdle, last>>

(* handleInbound: frame f names request c; rejected frames stop here.      *)
HandleInbound(f, c) ==
  /\ Delivers
  /\ last' = [frame |-> f, passed |-> validateFrame(f), inbound |-> TRUE]
  /\ IF validateFrame(f) THEN TryResolve(f, c) ELSE UNCHANGED <<acks, unheard>>
  /\ UNCHANGED <<Config, state, calls, unsent, wire, attached, metering,
                 endedIdle>>

(* send(): in strict mode a frame the schemas refuse is not sent.          *)
Send(f) ==
  /\ last' = [frame |-> f, passed |-> mode = "strict" => validateFrame(f),
              inbound |-> FALSE]
  /\ UNCHANGED <<Config, state, calls, acks, unsent, unheard, wire, attached,
                 metering, endedIdle>>

----------------------------------------------------------------------------
(* start() *)

(* Up to the await of its send: the ack is registered first.               *)
Start(c) ==
  /\ c \in Starters /\ calls[c] = "none"
  /\ IF state # "idle"
     THEN calls' = [calls EXCEPT ![c] = "failed"] /\ UNCHANGED <<acks, unsent>>
     ELSE /\ acks' = [acks EXCEPT ![c] = "pending"]
          /\ IF Accepts
             THEN calls' = [calls EXCEPT ![c] = "sending"] /\ UNCHANGED unsent
             ELSE /\ calls' = [calls EXCEPT ![c] = "failed"]
                  /\ unsent' = unsent \cup {c}
  /\ UNCHANGED <<Config, state, unheard, wire, attached, metering, endedIdle,
                 last>>

(* The await of its send ends: accepted, or refused by a wire gone since.  *)
StartSent(c) ==
  /\ c \in Starters /\ calls[c] = "sending"
  /\ \/ calls' = [calls EXCEPT ![c] = "waiting"] /\ UNCHANGED unsent
     \/ /\ ~Accepts
        /\ calls' = [calls EXCEPT ![c] = "failed"]
        /\ unsent' = unsent \cup {c}
  /\ UNCHANGED <<Config, state, acks, unheard, wire, attached, metering,
                 endedIdle, last>>

(* The await of the ack ends.                                              *)
StartReturns(c) ==
  /\ c \in Starters /\ calls[c] = "waiting" /\ acks[c] \in {"ok", "error"}
  /\ IF acks[c] = "error"
     THEN calls' = [calls EXCEPT ![c] = "failed"] /\ UNCHANGED state
     ELSE /\ Set("ready")
          /\ calls' = [calls EXCEPT
               ![c] = IF SetThrows("ready") THEN "failed" ELSE "done"]
  /\ UNCHANGED <<Config, acks, unsent, unheard, wire, attached, metering,
                 endedIdle, last>>

----------------------------------------------------------------------------
(* end() *)

(* From idle the transport is closed and nothing else is cleaned up.       *)
EndIdle(c) ==
  /\ state = "idle"
  /\ Set("ended")
  /\ endedIdle' = TRUE
  /\ IF SetThrows("ended")
     THEN calls' = [calls EXCEPT ![c] = "failed"] /\ UNCHANGED wire
     ELSE /\ calls' = [calls EXCEPT ![c] = "closing idle"]
          /\ CloseCalled
  /\ UNCHANGED <<acks, unsent>>

EndReady(c) ==
  /\ state = "ready"
  /\ Set("ending")
  /\ UNCHANGED <<wire, endedIdle>>
  /\ IF SetThrows("ending")
     THEN calls' = [calls EXCEPT ![c] = "failed"] /\ UNCHANGED <<acks, unsent>>
     ELSE /\ acks' = [acks EXCEPT ![c] = "pending"]
          /\ calls' = [calls EXCEPT ![c] = "sending"]
          /\ unsent' = IF Accepts THEN unsent ELSE unsent \cup {c}

End(c) ==
  /\ c \in Enders /\ calls[c] = "none"
  /\ \/ EndIdle(c)
     \/ EndReady(c)
     \/ /\ state \in {"ending", "ended"}
        /\ calls' = [calls EXCEPT
             ![c] = IF state = "ended" THEN "done" ELSE "watching"]
        /\ UNCHANGED <<state, acks, unsent, wire, endedIdle>>
  /\ UNCHANGED <<Config, unheard, attached, metering, last>>

(* After the try block, however it ended: ended, then close().             *)
TearDown(c) ==
  /\ Set("ended")
  /\ IF SetThrows("ended")
     THEN /\ calls' = WatchersTold([calls EXCEPT ![c] = "failed"])
          /\ UNCHANGED wire
     ELSE /\ calls' = WatchersTold([calls EXCEPT ![c] = "closing"])
          /\ CloseCalled

(* The await of its send ends; a refused one is ignored.                   *)
EndSent(c) ==
  /\ c \in Enders /\ calls[c] = "sending"
  /\ \/ /\ c \notin unsent
        /\ calls' = [calls EXCEPT ![c] = "racing"]
        /\ UNCHANGED <<state, wire, unsent>>
     \/ /\ c \in unsent \/ ~Accepts
        /\ unsent' = unsent \cup {c}
        /\ TearDown(c)
  /\ UNCHANGED <<Config, acks, unheard, attached, metering, endedIdle, last>>

(* The race: the ack, whatever it is.  The timer it races was set after    *)
(* the ack's own, with the same delay, and never wins.                     *)
EndRaced(c) ==
  /\ c \in Enders /\ calls[c] = "racing" /\ acks[c] \in {"ok", "error"}
  /\ TearDown(c)
  /\ UNCHANGED <<Config, acks, unsent, unheard, attached, metering, endedIdle,
                 last>>

(* The await of close() ends.                                              *)
EndReturns(c) ==
  /\ calls[c] \in {"closing", "closing idle"}
  /\ wire' = "closed"
  /\ calls' = [calls EXCEPT ![c] = "done"]
  /\ IF calls[c] = "closing"
     THEN attached' = FALSE /\ metering' = "none"
     ELSE UNCHANGED <<attached, metering>>
  /\ UNCHANGED <<Config, state, acks, unsent, unheard, endedIdle, last>>

----------------------------------------------------------------------------
(* The other end closes the wire; the process is not told.                 *)
PeerCloses ==
  /\ wire = "open"
  /\ wire' = "closed"
  /\ UNCHANGED <<Config, state, calls, acks, unsent, unheard, attached,
                 metering, endedIdle, last>>

(* onMetrics; its unsubscribe *)
OnMetrics ==
  /\ metering' = IF metering = "early" \/ state # "ended" THEN "early" ELSE "late"
  /\ UNCHANGED <<Config, state, calls, acks, unsent, unheard, wire, attached,
                 endedIdle, last>>
OffMetrics ==
  /\ metering' = "none"
  /\ UNCHANGED <<Config, state, calls, acks, unsent, unheard, wire, attached,
                 endedIdle, last>>

Segment(c) ==
  \/ AckTimesOut(c)
  \/ StartSent(c) \/ StartReturns(c)
  \/ EndSent(c) \/ EndRaced(c) \/ EndReturns(c)

(* A frame that names no request of a call, or is sent by the owner.       *)
Judge(f) == HandleInbound(f, NoCaller) \/ Send(f)

(* The calls at work, with `frames` that may name their requests.          *)
CallStep(frames) ==
  \/ \E c \in Callers : Segment(c) \/ Start(c) \/ End(c)
  \/ \E c \in Callers, f \in frames : HandleInbound(f, c)
  \/ PeerCloses
  \/ OnMetrics \/ OffMetrics

Next(frames) == CallStep(frames) \/ \E f \in frames : Judge(f)
Spec(frames) == Init /\ [][Next(frames)]_vars
----------------------------------------------------------------------------
TypeOK ==
  /\ mode \in Modes /\ vse \in BOOLEAN
  /\ throwsOn \in {"never"} \cup (ProcessState \ {"idle"})
  /\ state \in ProcessState
  /\ calls \in [Callers -> {"none", "sending", "waiting", "racing", "watching",
                            "closing", "closing idle"} \cup Settled]
  /\ acks \in [Callers -> {"none", "pending", "ok", "error"}]
  /\ unsent \subseteq Callers
  /\ unheard \subseteq Callers \X {"sending", "closing", "done", "failed"}
  /\ wire \in {"open", "closing", "closed"}
  /\ attached \in BOOLEAN /\ endedIdle \in BOOLEAN
  /\ metering \in {"none", "early", "late"}

(* Nothing calls the process ready, or sends end_session, before an        *)
(* initialize was acknowledged with success.                               *)
ReadyAcked ==
  state \in {"ready", "ending"} => \E s \in Starters : acks[s] = "ok"

(* However many end() calls race, end_session is sent once at most.        *)
EndsOnce == \A c, d \in Enders : acks[c] # "none" /\ acks[d] # "none" => c = d

(* A start() that resolves was acknowledged; one that fails although it    *)
(* was acknowledged was overtaken by an end(), by a subscriber that threw  *)
(* or by its own send.                                                     *)
StartsHonest ==
  \A s \in Starters :
    /\ calls[s] = "done" => acks[s] = "ok"
    /\ calls[s] = "failed" /\ acks[s] = "ok" =>
         state \in {"ending", "ended"} \/ throwsOn = "ready" \/ s \in unsent

(* A rejected ack goes unheard only when its send was refused, or the await *)
(* of its send was still not over.                                         *)
UnheardExplained == \A u \in unheard : u[1] \in unsent \/ u[2] = "sending"

(* Once an end() has closed the process and returned, its wire is closed,  *)
(* no frame reaches a handler and no metrics timer of before still runs    *)
(* (an end() that found the process idle leaves those running).            *)
EndIsFinal ==
  (\E c \in Enders : calls[c] = "done") /\ ~(\E c \in Enders : calls[c] \in
      {"closing", "closing idle", "failed"}) =>
    /\ state = "ended" /\ wire = "closed"
    /\ ~endedIdle => ~attached
    /\ metering = "early" => endedIdle

(* What start(), end() and the lifecycle never do, all together.           *)
ProcessSafe == /\ TypeOK
               /\ ReadyAcked /\ EndsOnce
               /\ StartsHonest /\ UnheardExplained
               /\ EndIsFinal

(* Timers fire and awaits of a transport end.                              *)
Fairness == \A c \in Callers : WF_vars(Segment(c))

(* Every start() and every end() settles, whatever the peer answers and    *)
(* whenever the wire goes: except an end() that watches another one whose  *)
(* state change a subscriber of the owner broke.                           *)
CallsSettle ==
  \A c \in Callers :
    (calls[c] # "none") ~>
       \/ calls[c] \in Settled
       \/ calls[c] = "watching" /\ throwsOn \in {"ending", "ended"}
=============================================================================

------------------------------ MODULE Intents -------------------------------
(***************************************************************************)
(* The intents of ClaudeClient (packages/protocol/src/client): a           *)
(* control_request goes out, RequestIdCorrelator keeps its resolvers and   *)
(* its timer, and the promise the caller holds is settled by the answer,   *)
(* the timer, a failed send or an abort.  On top of it the round trip of a *)
(* setting the user sees, the permission mode (the model's is the same     *)
(* code with other names): pendingMode while the change is under way,      *)
(* activeMode once the binary said yes.                                    *)
(*                                                                         *)
(* A request id is used once, so ids are numbered in order of use.         *)
(* Settling a promise queues its continuation, and the JavaScript engine   *)
(* drains that queue before the next event: an answer, a timer or the      *)
(* link's end is handled only when `jobs` is empty.  The consumer's calls  *)
(* may come between two continuations, since its own code runs there too.  *)
(***************************************************************************)
EXTENDS Naturals, Sequences

CONSTANTS MaxReq,     \* bound: intents issued
          Mode,       \* the values of the setting
          None        \* `null`

Req == 1 .. MaxReq

ASSUME MaxReqAssumption == MaxReq \in Nat
ASSUME NoneAssumption == None \notin Mode \cup Req

VARIABLES
    pending,     \* RequestIdCorrelator.pending, each with its timer armed
    promise,     \* "unused" | "pending" | "resolved" | "rejected"
    wants,       \* per request: the mode it sets, or None for other intents
    jobs,        \* continuations to run: <<"sent" | "then" | "catch", id>>;
                 \* in any order, since those one event queues commute
    activeMode, pendingMode, modeError,     \* of ClientState
    link,        \* "up" | "broken" (send rejects) | "detached" (send drops)
    disposed,    \* dispose() was called: no inbound frame is handled
    wire,        \* requests on their way to the binary
    answers,     \* responses on their way back: [id, ok]
    granted      \* the last mode change the binary made, or None

clientVars == <<activeMode, pendingMode, modeError>>
binaryVars == <<wire, answers, granted>>
vars == <<pending, promise, wants, jobs, clientVars, link, disposed, binaryVars>>

ModeReq(r) == wants[r] # None

Init ==
    /\ pending = {}
    /\ promise = [r \in Req |-> "unused"]
    /\ wants = [r \in Req |-> None]
    /\ jobs = {}
    /\ activeMode \in Mode
    /\ pendingMode = None
    /\ modeError = FALSE
    /\ link = "up"
    /\ disposed = FALSE
    /\ wire = <<>>
    /\ answers = <<>>
    /\ granted = None

-----------------------------------------------------------------------------
(* intent(): register, then send.  A rejected send is seen in a later      *)
(* microtask; a detached transport drops the frame and reports success.    *)
Register(r) ==
    /\ promise[r] = "unused"
    /\ \A q \in Req : q < r => promise[q] # "unused"
    /\ pending' = pending \cup {r}
    /\ promise' = [promise EXCEPT ![r] = "pending"]
    /\ wire' = IF link = "up" THEN Append(wire, r) ELSE wire
    /\ jobs' = IF link = "broken" THEN jobs \cup {<<"sent", r>>} ELSE jobs
    /\ UNCHANGED <<link, disposed, answers, granted>>

(* setPermissionMode: beginModeChange, then the intent.                    *)
SetMode(r, m) ==
    /\ Register(r)
    /\ wants' = [wants EXCEPT ![r] = m]
    /\ pendingMode' = m
    /\ modeError' = FALSE
    /\ UNCHANGED activeMode

(* Any other intent method.                                                *)
OtherIntent(r) ==
    /\ Register(r)
    /\ UNCHANGED <<wants, clientVars>>

-----------------------------------------------------------------------------
(* Mutant: the entries stay in the map.                                    *)
RejectAllKeepsEntries(queue) ==
    /\ pending' = pending
    /\ promise' = [r \in Req |-> IF r \in pending THEN "rejected" ELSE promise[r]]
    /\ jobs' = queue \cup {<<"catch", r>> : r \in pending}

(* rejectAll: every entry leaves the map, its timer is cleared, its        *)
(* promise is rejected.                                                    *)
RejectAll(queue) ==
    /\ pending' = {}
    /\ promise' = [r \in Req |-> IF r \in pending THEN "rejected" ELSE promise[r]]
    /\ jobs' = queue \cup {<<"catch", r>> : r \in pending}

(* abortAllIntents, on respawn and disconnect; dispose, which also stops   *)
(* listening.                                                              *)
AbortAllIntents ==
    /\ pending # {}
    /\ RejectAll(jobs)
    /\ UNCHANGED <<wants, clientVars, link, disposed, binaryVars>>

Dispose ==
    /\ ~disposed
    /\ disposed' = TRUE
    /\ RejectAll(jobs)
    /\ UNCHANGED <<wants, clientVars, link, binaryVars>>

(* The continuations.  A failed send rejects every pending intent ...      *)
SendFailed(r) ==
    /\ <<"sent", r>> \in jobs
    /\ RejectAll(jobs \ {<<"sent", r>>})
    /\ UNCHANGED <<wants, clientVars, link, disposed, binaryVars>>

(* Mutant: the mode shown is what the response carried.                    *)
ResolvedFromPayload(r) ==
    /\ <<"then", r>> \in jobs
    /\ jobs' = jobs \ {<<"then", r>>}
    /\ IF ModeReq(r)
          THEN activeMode' = None /\ pendingMode' = None
          ELSE UNCHANGED <<activeMode, pendingMode>>
    /\ UNCHANGED <<pending, promise, wants, modeError, link, disposed, binaryVars>>

(* Mutant: the mode shown is the pending one when the answer comes.        *)
ResolvedFromPending(r) ==
    /\ <<"then", r>> \in jobs
    /\ jobs' = jobs \ {<<"then", r>>}
    /\ IF ModeReq(r) /\ pendingMode # None
          THEN activeMode' = pendingMode /\ pendingMode' = None
          ELSE UNCHANGED <<activeMode, pendingMode>>
    /\ UNCHANGED <<pending, promise, wants, modeError, link, disposed, binaryVars>>

(* ... resolveModeChange, when the request set the mode ...                *)
Resolved(r) ==
    /\ <<"then", r>> \in jobs
    /\ jobs' = jobs \ {<<"then", r>>}
    /\ IF ModeReq(r)
          THEN activeMode' = wants[r] /\ pendingMode' = None
          ELSE UNCHANGED <<activeMode, pendingMode>>
    /\ UNCHANGED <<pending, promise, wants, modeError, link, disposed, binaryVars>>

(* Mutant: a failed change reports its error and nothing else.             *)
RejectedKeepsPending(r) ==
    /\ <<"catch", r>> \in jobs
    /\ jobs' = jobs \ {<<"catch", r>>}
    /\ modeError' = (modeError \/ ModeReq(r))
    /\ UNCHANGED <<pending, promise, wants, activeMode, pendingMode, link, disposed,
                   binaryVars>>

(* ... and failModeChange.                                                 *)
Rejected(r) ==
    /\ <<"catch", r>> \in jobs
    /\ jobs' = jobs \ {<<"catch", r>>}
    /\ IF ModeReq(r)
          THEN pendingMode' = None /\ modeError' = TRUE
          ELSE UNCHANGED <<pendingMode, modeError>>
    /\ UNCHANGED <<pending, promise, wants, activeMode, link, disposed, binaryVars>>

-----------------------------------------------------------------------------
(* Events, each handled when no continuation is left.                      *)

Settle(r, how, job) ==
    /\ pending' = pending \ {r}
    /\ promise' = [promise EXCEPT ![r] = how]
    /\ jobs' = jobs \cup {<<job, r>>}

(* Mutant: register arms no timer.                                         *)
TimeoutNever(r) == FALSE /\ UNCHANGED vars

(* The timer of an entry: it is deleted and the promise rejected.          *)
Timeout(r) ==
    /\ jobs = {} /\ r \in pending
    /\ Settle(r, "rejected", "catch")
    /\ UNCHANGED <<wants, clientVars, link, disposed, binaryVars>>

(* handleInbound of a control_response, with tryResolve: an answer whose   *)
(* entry is gone, after a timeout or an abort, changes nothing.            *)
Answered ==
    /\ jobs = {} /\ answers # <<>>
    /\ answers' = Tail(answers)
    /\ LET a == Head(answers) IN
         IF a.id \in pending /\ ~disposed
           THEN IF a.ok THEN Settle(a.id, "resolved", "then")
                        ELSE Settle(a.id, "rejected", "catch")
           ELSE UNCHANGED <<pending, promise, jobs>>
    /\ UNCHANGED <<wants, clientVars, link, disposed, wire, granted>>

(* The link ends: what is on it is lost, and later sends reject, or vanish *)
(* in a transport that forwards to nothing.                                *)
LinkEnds ==
    /\ jobs = {} /\ link = "up"
    /\ link' \in {"broken", "detached"}
    /\ wire' = <<>> /\ answers' = <<>>
    /\ UNCHANGED <<pending, promise, wants, jobs, clientVars, disposed, granted>>

(* The binary takes its requests in order; it may refuse any, and grants a *)
(* mode change by making it.                                               *)
BinaryAnswers(ok) ==
    /\ wire # <<>>
    /\ wire' = Tail(wire)
    /\ answers' = Append(answers, [id |-> Head(wire), ok |-> ok])
    /\ granted' = IF ok /\ ModeReq(Head(wire)) THEN Head(wire) ELSE granted
    /\ UNCHANGED <<pending, promise, wants, jobs, clientVars, link, disposed>>

-----------------------------------------------------------------------------
Call  == \/ \E r \in Req, m \in Mode : SetMode(r, m)
         \/ \E r \in Req : OtherIntent(r)
         \/ AbortAllIntents
         \/ Dispose

Microtask == \E r \in Req : SendFailed(r) \/ Resolved(r) \/ Rejected(r)

Next ==
    \/ Call
    \/ Microtask
    \/ \E r \in Req : Timeout(r)
    \/ Answered
    \/ LinkEnds
    \/ \E ok \in BOOLEAN : BinaryAnswers(ok)

(* The engine drains its microtasks and fires its timers.  The binary need *)
(* not answer.                                                             *)
Fairness == WF_vars(Microtask) /\ \A r \in Req : WF_vars(Timeout(r))

Spec     == Init /\ [][Next]_vars
FairSpec == Spec /\ Fairness

-----------------------------------------------------------------------------
Answer == [id : Req, ok : BOOLEAN]

TypeOK ==
    /\ pending \subseteq Req
    /\ promise \in [Req -> {"unused", "pending", "resolved", "rejected"}]
    /\ wants \in [Req -> Mode \cup {None}]
    /\ jobs \subseteq {"sent", "then", "catch"} \X Req
    /\ activeMode \in Mode
    /\ pendingMode \in Mode \cup {None}
    /\ modeError \in BOOLEAN
    /\ link \in {"up", "broken", "detached"}
    /\ disposed \in BOOLEAN
    /\ wire \in Seq(Req)
    /\ answers \in Seq(Answer)
    /\ granted \in Req \cup {None}

(* A promise that is not settled has its entry, and so its timer: no       *)
(* failure, abort or late answer strands a caller.  And an entry is never  *)
(* left behind for a promise that is settled.                              *)
EntryPerPromise == \A r \in Req : promise[r] = "pending" <=> r \in pending

(* When nothing is under way the user sees no pending mode, however many   *)
(* changes overlapped and whatever became of each.                         *)
NoStuckSpinner ==
    /\ jobs = {}
    /\ \A r \in Req : ModeReq(r) => promise[r] # "pending"
    => pendingMode = None

(* If the binary's last mode change is one the client was told of, the     *)
(* client shows the binary's mode: earlier changes that timed out or were  *)
(* aborted, and overlapping ones, do not leave it wrong.                   *)
LastGrantShown ==
    /\ jobs = {} /\ granted # None
    /\ promise[granted] = "resolved"
    => activeMode = wants[granted]

(* Every intent settles, with a binary that never answers and a transport  *)
(* that drops what it is given.                                            *)
IntentSettles ==
    \A r \in Req : promise[r] = "pending" ~> promise[r] \in {"resolved", "rejected"}
=============================================================================

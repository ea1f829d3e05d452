------------------------------ MODULE Session -------------------------------
(***************************************************************************)
(* createCcSession (packages/client/src/reactive.ts): the connections a    *)
(* session opens, the respawns it asks the bridge for, and the effort,     *)
(* which only a respawn can change.                                        *)
(*                                                                         *)
(* Every transport is a wsClientTransport that does not reconnect by       *)
(* itself: when its socket is down the next send dials again, and the      *)
(* onOpen hook of whatever opens sends a respawn ahead of the frames that  *)
(* waited.  Respawns are numbered in order of use.  The bridge is that of  *)
(* Bridge.tla with its children reduced to "attached" and "being closed";  *)
(* a connection that ends takes everything on it along.                    *)
(*                                                                         *)
(* Settling the respawn of setEffort queues its continuation, which runs   *)
(* before the next event.  Calls of the session's user come at any time.   *)
(***************************************************************************)
EXTENDS Naturals, Sequences

CONSTANTS MaxConn,        \* bound: transports made
          MaxRespawn,     \* bound: respawns asked for
          Mode,           \* session modes: new, continue, resume of a session
          Effort,
          DefaultEffort,  \* the effort of a child that was told none
          FirstMode,      \* opts.args.mode, or what storage says
          FirstEffort,    \* likewise: the efforts a session may start with
          None            \* `undefined`, `null` and ""

Conn    == 1 .. MaxConn
Respawn == 1 .. MaxRespawn
Args    == [mode : Mode, effort : Effort \cup {None}]

ASSUME BoundsAssumption == MaxConn \in Nat /\ MaxRespawn \in Nat
ASSUME EffortAssumption == DefaultEffort \in Effort /\ None \notin Effort \cup Args
ASSUME FirstAssumption  == FirstMode \in Mode /\ FirstEffort \subseteq Effort \cup {None}

VARIABLES
    status, connectStarted,
    transport,     \* the current transport, or 0
    ready,         \* per transport, its socket: "none" | "connecting" | "open" |
                   \* "down" | "closing" (close() was called) | "gone"
    args,          \* currentArgs
    asked,         \* per respawn: the args it was sent with, or None
    pending,       \* pendingRespawns, each with its timer running
    activeEffort, pendingEffort,
    setter,        \* the respawn of the setEffort under way, or 0
    prev,          \* the effort setEffort falls back to
    outcome,       \* of setter, its continuation queued: "none" | "ok" | "fail"
    probe,         \* the one get_settings: "no" | "asked" | "done"
    queue,         \* respawns waiting for the current socket to open
    toBridge,      \* respawns on their way
    awaiting,      \* respawns whose handler awaits the end of the old child
    child,         \* the respawn that started the attached child, or 0
    replies,       \* respawnResults on their way back: [of, ok]
    raced,         \* history: a respawn overtook another in this connection
    doubtful,      \* history: the respawns before setEffort last gave up
    late           \* history: status was last set by a former transport

effortVars == <<activeEffort, pendingEffort, setter, prev, outcome>>
bridgeVars == <<toBridge, awaiting, child, replies, raced>>
connVars   == <<status, connectStarted, transport, ready, late>>
vars == <<connVars, args, asked, pending, effortVars, probe, queue, bridgeVars,
          doubtful>>

Init ==
    /\ status = "idle" /\ connectStarted = FALSE
    /\ transport = 0
    /\ ready = [t \in Conn |-> "none"]
    /\ args \in [mode : {FirstMode}, effort : FirstEffort]
    /\ asked = [r \in Respawn |-> None]
    /\ pending = {}
    /\ activeEffort = args.effort /\ pendingEffort = None
    /\ setter = 0 /\ prev = None /\ outcome = "none"
    /\ probe = "no"
    /\ queue = <<>>
    /\ toBridge = <<>> /\ awaiting = {} /\ child = 0 /\ replies = <<>>
    /\ raced = FALSE /\ doubtful = {} /\ late = FALSE

Event == outcome = "none"

-----------------------------------------------------------------------------
(* send() of a frame the bridge need not see here: a socket that is down   *)
(* is dialled again.                                                       *)
Dialled ==
    ready' = IF transport # 0 /\ ready[transport] = "down"
             THEN [ready EXCEPT ![transport] = "connecting"] ELSE ready

(* respawn(), up to its send: the intents in flight are aborted, that of   *)
(* the probe with them.                                                    *)
Ask(r, a) ==
    /\ asked[r] = None /\ \A q \in Respawn : q < r => asked[q] # None
    /\ asked' = [asked EXCEPT ![r] = a]
    /\ pending' = pending \cup {r}
    /\ probe' = IF probe = "asked" THEN "done" ELSE probe

(* Its send: dropped without a transport, else on its way or waiting.      *)
Post(r) ==
    /\ Dialled
    /\ LET open == transport # 0 /\ ready[transport] = "open" IN
         /\ toBridge' = IF open THEN Append(toBridge, r) ELSE toBridge
         /\ queue' = IF transport # 0 /\ ~open THEN Append(queue, r) ELSE queue

(* Mutant: the session chosen is that of the respawn after.                *)
ChangeSessionLate(r, m) ==
    /\ args' = [args EXCEPT !.mode = m]
    /\ Ask(r, args) /\ Post(r)
    /\ UNCHANGED <<status, connectStarted, transport, late, effortVars, awaiting,
                   child, replies, raced, doubtful>>

(* newSession, continueSession, resumeSession.                             *)
ChangeSession(r, m) ==
    /\ args' = [args EXCEPT !.mode = m]
    /\ Ask(r, args') /\ Post(r)
    /\ UNCHANGED <<status, connectStarted, transport, late, effortVars, awaiting,
                   child, replies, raced, doubtful>>

(* Mutant: the effort joins the arguments once the respawn succeeded.      *)
SetEffortLate(r, e) ==
    /\ pendingEffort = None /\ e # activeEffort
    /\ pendingEffort' = e
    /\ args' = args
    /\ Ask(r, args) /\ Post(r)
    /\ setter' = r /\ prev' = args.effort
    /\ UNCHANGED <<status, connectStarted, transport, late, activeEffort, outcome,
                   awaiting, child, replies, raced, doubtful>>

(* setEffort, up to `await respawn()`.                                     *)
SetEffort(r, e) ==
    /\ pendingEffort = None /\ e # activeEffort
    /\ pendingEffort' = e
    /\ args' = [args EXCEPT !.effort = e]
    /\ Ask(r, args') /\ Post(r)
    /\ setter' = r /\ prev' = args.effort
    /\ UNCHANGED <<status, connectStarted, transport, late, activeEffort, outcome,
                   awaiting, child, replies, raced, doubtful>>

(* Mutant: the effort is active and still pending.                         *)
EffortSetKeepsPending ==
    /\ outcome = "ok"
    /\ activeEffort' = pendingEffort /\ pendingEffort' = pendingEffort
    /\ setter' = 0 /\ prev' = None /\ outcome' = "none"
    /\ UNCHANGED <<connVars, args, asked, pending, probe, queue, bridgeVars, doubtful>>

(* Its continuation: the effort is active ...                              *)
EffortSet ==
    /\ outcome = "ok"
    /\ activeEffort' = pendingEffort /\ pendingEffort' = None
    /\ setter' = 0 /\ prev' = None /\ outcome' = "none"
    /\ UNCHANGED <<connVars, args, asked, pending, probe, queue, bridgeVars, doubtful>>

(* Mutant: the failure is shown, the arguments keep the new effort.        *)
EffortFailedKeepsArgs ==
    /\ outcome = "fail"
    /\ args' = args
    /\ pendingEffort' = None
    /\ setter' = 0 /\ prev' = None /\ outcome' = "none"
    /\ doubtful' = {r \in Respawn : asked[r] # None}
    /\ UNCHANGED <<connVars, asked, pending, activeEffort, probe, queue, bridgeVars>>

(* ... or the arguments are as before.                                     *)
EffortFailed ==
    /\ outcome = "fail"
    /\ args' = [args EXCEPT !.effort = prev]
    /\ pendingEffort' = None
    /\ setter' = 0 /\ prev' = None /\ outcome' = "none"
    /\ doubtful' = {r \in Respawn : asked[r] # None}
    /\ UNCHANGED <<connVars, asked, pending, activeEffort, probe, queue, bridgeVars>>

(* Any other call that sends: a message, an intent.                        *)
OtherSend ==
    /\ Dialled /\ ready' # ready
    /\ UNCHANGED <<status, connectStarted, transport, late, args, asked, pending,
                   effortVars, probe, queue, bridgeVars, doubtful>>

-----------------------------------------------------------------------------
(* Mutant: connect() can be called again once the connection is lost.      *)
ConnectAgain ==
    /\ status # "open"
    /\ \E t \in Conn :
         /\ ready[t] = "none" /\ \A u \in Conn : u < t => ready[u] # "none"
         /\ transport' = t
         /\ ready' = [ready EXCEPT ![t] = "connecting"]
    /\ connectStarted' = TRUE
    /\ status' = "connecting" /\ late' = FALSE
    /\ UNCHANGED <<args, asked, pending, effortVars, probe, queue, bridgeVars, doubtful>>

Connect ==
    /\ ~connectStarted
    /\ \E t \in Conn :
         /\ ready[t] = "none" /\ \A u \in Conn : u < t => ready[u] # "none"
         /\ transport' = t
         /\ ready' = [ready EXCEPT ![t] = "connecting"]
    /\ connectStarted' = TRUE
    /\ status' = "connecting" /\ late' = FALSE
    /\ UNCHANGED <<args, asked, pending, effortVars, probe, queue, bridgeVars, doubtful>>

(* What was on the connection is lost.                                     *)
Cut ==
    /\ toBridge' = <<>> /\ awaiting' = {} /\ child' = 0 /\ replies' = <<>>
    /\ raced' = FALSE /\ queue' = <<>>

(* disconnect(): every respawn is rejected, the socket is closed.          *)
Disconnect ==
    /\ connectStarted' = FALSE
    /\ probe' = IF probe = "asked" THEN "done" ELSE probe
    /\ pending' = {}
    /\ outcome' = IF setter \in pending THEN "fail" ELSE outcome
    /\ ready' = [t \in Conn |->
                   IF t # transport THEN ready[t]
                   ELSE IF ready[t] = "down" THEN "gone" ELSE "closing"]
    /\ transport' = 0
    /\ status' = "closed" /\ late' = FALSE
    /\ Cut
    /\ UNCHANGED <<args, asked, activeEffort, pendingEffort, setter, prev, doubtful>>

(* The socket opens: the hook's respawn goes first.                        *)
Opened(r) ==
    /\ Event /\ transport # 0 /\ ready[transport] = "connecting"
    /\ ready' = [ready EXCEPT ![transport] = "open"]
    /\ status' = "open" /\ late' = FALSE
    /\ Ask(r, args)
    /\ toBridge' = <<r>> \o queue /\ queue' = <<>>
    /\ UNCHANGED <<connectStarted, transport, args, effortVars, awaiting, child,
                   replies, raced, doubtful>>

(* Mutant: the loss is noticed only when the user disconnects.             *)
SocketClosedSilently ==
    /\ Event /\ transport # 0 /\ ready[transport] \in {"connecting", "open"}
    /\ ready' = [ready EXCEPT ![transport] = "down"]
    /\ Cut
    /\ UNCHANGED <<status, late, connectStarted, transport, args, asked, pending,
                   effortVars, probe, doubtful>>

(* onSocketClose of the current transport: the socket did not open, or the *)
(* bridge or the network ended it.  Respawns on it keep their timers.      *)
SocketClosed ==
    /\ Event /\ transport # 0 /\ ready[transport] \in {"connecting", "open"}
    /\ ready' = [ready EXCEPT ![transport] = "down"]
    /\ status' = "closed" /\ late' = FALSE
    /\ Cut
    /\ UNCHANGED <<connectStarted, transport, args, asked, pending, effortVars,
                   probe, doubtful>>

(* onSocketClose of a transport that disconnect() closed, however late.    *)
FormerSocketClosed(t) ==
    /\ Event /\ ready[t] = "closing"
    /\ ready' = [ready EXCEPT ![t] = "gone"]
    /\ status' = "closed" /\ late' = (late \/ status # "closed")
    /\ UNCHANGED <<connectStarted, transport, args, asked, pending, effortVars,
                   probe, queue, bridgeVars, doubtful>>

-----------------------------------------------------------------------------
Settled(r, ok) ==
    /\ pending' = pending \ {r}
    /\ outcome' = IF r # setter THEN outcome ELSE IF ok THEN "ok" ELSE "fail"

(* Mutant: the entry is forgotten, its promise with it.                    *)
TimeoutForgets(r) ==
    /\ Event /\ r \in pending
    /\ pending' = pending \ {r} /\ UNCHANGED outcome
    /\ UNCHANGED <<connVars, args, asked, activeEffort, pendingEffort, setter, prev,
                   probe, queue, bridgeVars, doubtful>>

(* The timer of a respawn.                                                 *)
Timeout(r) ==
    /\ Event /\ r \in pending
    /\ Settled(r, FALSE)
    /\ UNCHANGED <<connVars, args, asked, activeEffort, pendingEffort, setter, prev,
                   probe, queue, bridgeVars, doubtful>>

(* handleLocalFrame: a result whose respawn was given up changes nothing.  *)
Result ==
    /\ Event /\ replies # <<>>
    /\ replies' = Tail(replies)
    /\ LET a == Head(replies) IN
         IF a.of \in pending THEN Settled(a.of, a.ok) ELSE UNCHANGED <<pending, outcome>>
    /\ UNCHANGED <<connVars, args, asked, activeEffort, pendingEffort, setter, prev,
                   probe, queue, toBridge, awaiting, child, raced, doubtful>>

(* The first state change with a session id: an effort that is not known   *)
(* is asked for, once.                                                     *)
Probe ==
    /\ Event /\ probe = "no"
    /\ probe' = IF args.effort = None THEN "asked" ELSE "done"
    /\ IF args.effort = None THEN Dialled ELSE UNCHANGED ready
    /\ UNCHANGED <<status, connectStarted, transport, late, args, asked, pending,
                   effortVars, queue, bridgeVars, doubtful>>

RunsAt(r) == IF asked[r].effort = None THEN DefaultEffort ELSE asked[r].effort

(* Its answer comes after all that was on the connection before it.        *)
Probed ==
    /\ Event /\ probe = "asked"
    /\ child # 0 /\ toBridge = <<>> /\ replies = <<>>
    /\ probe' = "done"
    /\ activeEffort' = RunsAt(child)
    /\ args' = [args EXCEPT !.effort = RunsAt(child)]
    /\ UNCHANGED <<connVars, asked, pending, pendingEffort, setter, prev, outcome,
                   queue, bridgeVars, doubtful>>

ProbeFails ==
    /\ Event /\ probe = "asked"
    /\ probe' = "done"
    /\ UNCHANGED <<connVars, args, asked, pending, effortVars, queue, bridgeVars, doubtful>>

-----------------------------------------------------------------------------
(* The bridge.  A respawn that finds a child detaches and closes it, and   *)
(* goes on when the child is gone; one that finds none attaches its own.   *)
Attach(r, ok) ==
    /\ child' = IF ok THEN r ELSE child
    /\ replies' = Append(replies, [of |-> r, ok |-> ok])

BridgeTakes(ok) ==
    /\ toBridge # <<>>
    /\ toBridge' = Tail(toBridge)
    /\ raced' = (raced \/ awaiting # {})
    /\ IF child = 0
         THEN Attach(Head(toBridge), ok) /\ UNCHANGED awaiting
         ELSE /\ child' = 0 /\ awaiting' = awaiting \cup {Head(toBridge)}
              /\ UNCHANGED replies
    /\ UNCHANGED <<connVars, args, asked, pending, effortVars, probe, queue, doubtful>>

BridgeResumes(r, ok) ==
    /\ r \in awaiting
    /\ awaiting' = awaiting \ {r}
    /\ Attach(r, ok)
    /\ UNCHANGED <<connVars, args, asked, pending, effortVars, probe, queue,
                   toBridge, raced, doubtful>>

-----------------------------------------------------------------------------
UserCall == \/ \E r \in Respawn, m \in Mode : ChangeSession(r, m)
            \/ \E r \in Respawn, e \in Effort : SetEffort(r, e)
            \/ OtherSend
            \/ Connect
            \/ Disconnect

Continuation == EffortSet \/ EffortFailed

Next ==
    \/ UserCall
    \/ Continuation
    \/ \E r \in Respawn : Opened(r) \/ Timeout(r)
    \/ SocketClosed
    \/ \E t \in Conn : FormerSocketClosed(t)
    \/ Result
    \/ Probe \/ Probed \/ ProbeFails
    \/ \E ok \in BOOLEAN : \/ BridgeTakes(ok)
                           \/ \E r \in Respawn : BridgeResumes(r, ok)

(* The engine runs what is queued and fires its timers.  Sockets need not  *)
(* open, and the bridge need not answer.                                   *)
Fairness == WF_vars(Continuation) /\ \A r \in Respawn : WF_vars(Timeout(r))

Spec     == Init /\ [][Next]_vars
FairSpec == Spec /\ Fairness

-----------------------------------------------------------------------------
TypeOK ==
    /\ status \in {"idle", "connecting", "open", "closed"}
    /\ connectStarted \in BOOLEAN
    /\ transport \in Conn \cup {0}
    /\ ready \in [Conn -> {"none", "connecting", "open", "down", "closing", "gone"}]
    /\ args \in Args
    /\ asked \in [Respawn -> Args \cup {None}]
    /\ pending \subseteq {r \in Respawn : asked[r] # None}
    /\ activeEffort \in Effort \cup {None} /\ pendingEffort \in Effort \cup {None}
    /\ setter = 0 <=> pendingEffort = None
    /\ setter \in Respawn \cup {0} /\ prev \in Effort \cup {None}
    /\ outcome \in {"none", "ok", "fail"}
    /\ probe \in {"no", "asked", "done"}
    /\ queue \in Seq(Respawn) /\ toBridge \in Seq(Respawn)
    /\ awaiting \subseteq Respawn /\ child \in Respawn \cup {0}
    /\ replies \in Seq([of : Respawn, ok : BOOLEAN])
    /\ raced \in BOOLEAN /\ late \in BOOLEAN
    /\ doubtful \subseteq Respawn

(* The user reads "open" exactly while the current transport's socket is   *)
(* open, through losses, redials by a send and reconnections, except after *)
(* the close event of a former transport has overwritten it.               *)
StatusTruth ==
    ~late => (status = "open" <=> transport # 0 /\ ready[transport] = "open")

(* A session holds one connection: no socket of a former transport opens,  *)
(* stays open or can be dialled again, since nothing would close it.       *)
OneConnection ==
    \A t \in Conn : ready[t] \in {"connecting", "open", "down"} => t = transport

(* What the next respawn will ask for is what the user sees: the effort    *)
(* under way, or the active one, whatever became of earlier changes, and   *)
(* with the probe's answer in between.                                     *)
NextAsShown ==
    outcome = "none" =>
        args.effort = IF pendingEffort # None THEN pendingEffort ELSE activeEffort

(* Every respawn has been taken and answered, as far as it will be.        *)
Quiet ==
    /\ pending = {} /\ outcome = "none"
    /\ toBridge = <<>> /\ awaiting = {} /\ replies = <<>>

(* Once all is quiet the child runs at the effort shown, if one is shown,  *)
(* provided that respawns did not overtake each other and that it was      *)
(* asked for after the last setEffort that gave up.                        *)
EffortShown ==
    Quiet /\ child # 0 /\ ~raced /\ child \notin doubtful
    => activeEffort \in {None, RunsAt(child)}

(* ... and in the session that was chosen last, whether or not that choice *)
(* was reported as failed.                                                 *)
SessionIsLast ==
    Quiet /\ child # 0 /\ ~raced => asked[child].mode = args.mode

(* Every change of effort ends, and with it the respawn it waits for, with *)
(* a bridge that never answers and a connection that comes and goes.       *)
EffortSettles == pendingEffort # None ~> pendingEffort = None

(* README of the client: "activeEffort: Current effort tier."              *)
EffortIsCurrent ==
    Quiet /\ child # 0 /\ child \notin doubtful
    => activeEffort \in {None, RunsAt(child)}
=============================================================================

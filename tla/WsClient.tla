------------------------------ MODULE WsClient ------------------------------
(***************************************************************************)
(* wsClientTransport (packages/protocol/src/transport/ws-client.ts): one   *)
(* transport, the WebSockets it opens one after the other, and the promise *)
(* `openWait` that every send() waiting for the same socket shares.        *)
(*                                                                         *)
(* Sockets are numbered in the order of construction.  A WebSocket that    *)
(* fails fires `error` and then `close` in one task, with the microtasks   *)
(* the error listener queued in between.  Events are handled when the      *)
(* microtask queue is empty; calls of the transport's user may come        *)
(* between two microtasks.  The user sends a frame from the onOpen hook,   *)
(* as createCcSession does (its respawn).                                  *)
(***************************************************************************)
EXTENDS Naturals, Sequences

CONSTANTS MaxSockets,    \* bound: sockets opened
          MaxAttempts,   \* opts.reconnect.maxAttempts; 1 is no reconnect
          Call           \* the send() calls made outside the hook

Socket == 1 .. MaxSockets
Frame  == Call \cup Socket        \* the hook's frame is named by its socket

ASSUME SocketAssumption  == MaxSockets \in Nat
ASSUME AttemptAssumption == MaxAttempts \in Nat \ {0}
ASSUME CallAssumption    == Call \cap Nat = {}

VARIABLES
    closedByUser, attempt,
    sock,       \* the current socket, or 0
    openWait,   \* the socket whose opening the shared promise stands for, or 0
    ready,      \* readyState: "none" | "connecting" | "open" | "closing" |
                \* "failed" (error fired, close about to) | "closed"
    waiters,    \* per socket: send() calls awaiting its promise, in order
    jobs,       \* microtasks: continuations of send(), [frame, opened]
    sends,      \* per frame: "idle" | "waiting" | "sent" | "refused" |
                \* "rejected" (the promise was) | "notOpen" (it was resolved)
    wire,       \* per socket: the frames sent on it
    timers,     \* reconnect timers running
    cut,        \* history: sockets whose pending promise openWait lost
    overlap     \* history: a socket was made while another was yet to close

vars == <<closedByUser, attempt, sock, openWait, ready, waiters, jobs,
          sends, wire, timers, cut, overlap>>

Init ==
    /\ closedByUser = FALSE /\ attempt = 0
    /\ sock = 0 /\ openWait = 0
    /\ ready = [s \in Socket |-> "none"]
    /\ waiters = [s \in Socket |-> <<>>]
    /\ jobs = <<>>
    /\ sends = [f \in Frame |-> "idle"]
    /\ wire = [s \in Socket |-> <<>>]
    /\ timers = 0
    /\ cut = {} /\ overlap = FALSE

-----------------------------------------------------------------------------
IsOpen == sock # 0 /\ ready[sock] = "open"

(* The microtasks an event runs to the end; the next event, unless a       *)
(* failed socket has its close event coming in the same task.              *)
Idle      == jobs = <<>>
NextEvent == Idle /\ \A s \in Socket : ready[s] # "failed"

(* new WebSocket(url): `sock` and `openWait` are both replaced.            *)
Dial(s, queue) ==
    /\ ready[s] = "none" /\ \A t \in Socket : t < s => ready[t] # "none"
    /\ ready' = [ready EXCEPT ![s] = "connecting"]
    /\ sock' = s /\ openWait' = s
    /\ waiters' = [waiters EXCEPT ![s] = queue]
    /\ overlap' = (overlap \/ \E t \in Socket : ready[t] \in {"closing", "failed"})

(* ensureSocket() for the frames of `queue`, not closed and not open: join *)
(* the promise, or make one.                                               *)
Await(queue) ==
    \/ /\ openWait # 0
       /\ waiters' = [waiters EXCEPT ![openWait] = @ \o queue]
       /\ UNCHANGED <<ready, sock, openWait, overlap>>
    \/ /\ openWait = 0
       /\ \E s \in Socket : Dial(s, queue)

(* openWait = null, whoever's promise it is.                               *)
Drop(unsettled) ==
    /\ openWait' = 0
    /\ cut' = cut \cup (unsettled \cap {openWait})

-----------------------------------------------------------------------------
(* send(f).                                                                *)
SendRefused(f) ==
    /\ sends[f] = "idle" /\ closedByUser
    /\ sends' = [sends EXCEPT ![f] = "refused"]
    /\ UNCHANGED <<closedByUser, attempt, sock, openWait, ready, waiters,
                   jobs, wire, timers, cut, overlap>>

SendOpen(f) ==
    /\ sends[f] = "idle" /\ ~closedByUser /\ IsOpen
    /\ sends' = [sends EXCEPT ![f] = "waiting"]
    /\ jobs' = Append(jobs, [frame |-> f, opened |-> TRUE])
    /\ UNCHANGED <<closedByUser, attempt, sock, openWait, ready, waiters,
                   wire, timers, cut, overlap>>

SendAwaits(f) ==
    /\ sends[f] = "idle" /\ ~closedByUser /\ ~IsOpen
    /\ sends' = [sends EXCEPT ![f] = "waiting"]
    /\ Await(<<f>>)
    /\ UNCHANGED <<closedByUser, attempt, jobs, wire, timers, cut>>

(* onFrame of the first subscriber.                                        *)
OnFrame ==
    /\ ~closedByUser /\ ~IsOpen /\ openWait = 0
    /\ Await(<<>>)
    /\ UNCHANGED <<closedByUser, attempt, jobs, sends, wire, timers, cut>>

(* close().  A socket closed before it opened fails later.                 *)
Close ==
    /\ ~closedByUser /\ closedByUser' = TRUE
    /\ sock' = 0 /\ Drop(Socket)
    /\ ready' = IF sock # 0 /\ ready[sock] \in {"connecting", "open"}
                THEN [ready EXCEPT ![sock] = "closing"] ELSE ready
    /\ UNCHANGED <<attempt, waiters, jobs, sends, wire, timers, overlap>>

(* The next microtask: a send() goes on where it awaited ensureSocket().   *)
Continue ==
    /\ jobs # <<>>
    /\ jobs' = Tail(jobs)
    /\ LET f == Head(jobs).frame IN
         IF ~Head(jobs).opened
           THEN sends' = [sends EXCEPT ![f] = "rejected"] /\ UNCHANGED wire
         ELSE IF IsOpen
           THEN /\ sends' = [sends EXCEPT ![f] = "sent"]
                /\ wire' = [wire EXCEPT ![sock] = Append(@, f)]
         ELSE sends' = [sends EXCEPT ![f] = "notOpen"] /\ UNCHANGED wire
    /\ UNCHANGED <<closedByUser, attempt, sock, openWait, ready, waiters,
                   timers, cut, overlap>>

-----------------------------------------------------------------------------
Continuations(s, opened) ==
    [i \in 1 .. Len(waiters[s]) |-> [frame |-> waiters[s][i], opened |-> opened]]

(* Mutant: the waiting sends are let go before the hook is called.         *)
OpenedHookLast(s) ==
    /\ NextEvent /\ ready[s] = "connecting" /\ ~closedByUser
    /\ sock = s \/ IsOpen
    /\ ready' = [ready EXCEPT ![s] = "open"]
    /\ sends' = [sends EXCEPT ![s] = "waiting"]
    /\ jobs' = Append(Continuations(s, TRUE), [frame |-> s, opened |-> TRUE])
    /\ waiters' = [waiters EXCEPT ![s] = <<>>]
    /\ Drop(Socket \ {s})
    /\ UNCHANGED <<closedByUser, attempt, sock, wire, timers, overlap>>

(* The open event.  The hook runs first: its send() finds this socket, or  *)
(* another that has become current, open ...                               *)
Opened(s) ==
    /\ NextEvent /\ ready[s] = "connecting" /\ ~closedByUser
    /\ sock = s \/ IsOpen
    /\ ready' = [ready EXCEPT ![s] = "open"]
    /\ sends' = [sends EXCEPT ![s] = "waiting"]
    /\ jobs' = <<[frame |-> s, opened |-> TRUE]>> \o Continuations(s, TRUE)
    /\ waiters' = [waiters EXCEPT ![s] = <<>>]
    /\ Drop(Socket \ {s})
    /\ UNCHANGED <<closedByUser, attempt, sock, wire, timers, overlap>>

(* ... or joins or makes the promise of yet another, which the listener    *)
(* then drops ...                                                          *)
OpenedBesideWait(s) ==
    /\ NextEvent /\ ready[s] = "connecting" /\ sock # s /\ ~closedByUser /\ ~IsOpen
    /\ sends' = [sends EXCEPT ![s] = "waiting"]
    /\ jobs' = Continuations(s, TRUE)
    /\ \/ /\ openWait # 0
          /\ ready' = [ready EXCEPT ![s] = "open"]
          /\ waiters' = [waiters EXCEPT ![openWait] = Append(@, s), ![s] = <<>>]
          /\ cut' = cut \cup {openWait}
          /\ UNCHANGED sock
       \/ /\ openWait = 0
          /\ \E t \in Socket :
               /\ ready[t] = "none" /\ \A u \in Socket : u < t => ready[u] # "none"
               /\ ready' = [ready EXCEPT ![s] = "open", ![t] = "connecting"]
               /\ waiters' = [waiters EXCEPT ![t] = <<s>>, ![s] = <<>>]
               /\ cut' = cut \cup {t}
               /\ sock' = t
    /\ openWait' = 0
    /\ UNCHANGED <<closedByUser, attempt, wire, timers, overlap>>

(* ... or is refused: a socket close() did not know of opens all the same. *)
OpenedAfterClose(s) ==
    /\ NextEvent /\ ready[s] = "connecting" /\ closedByUser
    /\ ready' = [ready EXCEPT ![s] = "open"]
    /\ sends' = [sends EXCEPT ![s] = "refused"]
    /\ jobs' = Continuations(s, TRUE)
    /\ waiters' = [waiters EXCEPT ![s] = <<>>]
    /\ Drop(Socket \ {s})
    /\ UNCHANGED <<closedByUser, attempt, sock, wire, timers, overlap>>

(* Mutant: the error listener leaves the promise to the close listener.    *)
ErrorNoReject(s) ==
    /\ NextEvent /\ ready[s] \in {"connecting", "open", "closing"}
    /\ ready' = [ready EXCEPT ![s] = "failed"]
    /\ UNCHANGED <<closedByUser, attempt, sock, openWait, waiters, jobs,
                   sends, wire, timers, cut, overlap>>

(* The error event: the socket's own promise is rejected, and openWait     *)
(* dropped, if openWait holds any promise.                                 *)
Error(s) ==
    /\ NextEvent /\ ready[s] \in {"connecting", "open", "closing"}
    /\ ready' = [ready EXCEPT ![s] = "failed"]
    /\ IF openWait # 0
         THEN /\ Drop(Socket \ {s})
              /\ jobs' = Continuations(s, FALSE)
              /\ waiters' = [waiters EXCEPT ![s] = <<>>]
         ELSE UNCHANGED <<openWait, cut, jobs, waiters>>
    /\ UNCHANGED <<closedByUser, attempt, sock, sends, wire, timers, overlap>>

(* The server ends the connection, or the connection goes down.            *)
PeerCloses(s) ==
    /\ NextEvent /\ ready[s] = "open"
    /\ ready' = [ready EXCEPT ![s] = "closing"]
    /\ UNCHANGED <<closedByUser, attempt, sock, openWait, waiters, jobs,
                   sends, wire, timers, cut, overlap>>

(* Mutant: the close listener keeps the promise of a socket that failed.   *)
SocketClosedKeepsWait(s) ==
    /\ Idle /\ ready[s] \in {"failed", "closing"}
    /\ ready[s] = "closing" => NextEvent
    /\ ready' = [ready EXCEPT ![s] = "closed"]
    /\ sock' = 0
    /\ IF ~closedByUser /\ attempt + 1 < MaxAttempts
         THEN attempt' = attempt + 1 /\ timers' = timers + 1
         ELSE UNCHANGED <<attempt, timers>>
    /\ UNCHANGED <<closedByUser, openWait, waiters, jobs, sends, wire, cut, overlap>>

(* Mutant: one attempt too many.                                           *)
SocketClosedOneMore(s) ==
    /\ Idle /\ ready[s] \in {"failed", "closing"}
    /\ ready[s] = "closing" => NextEvent
    /\ ready' = [ready EXCEPT ![s] = "closed"]
    /\ sock' = 0 /\ Drop(Socket \ {s})
    /\ IF ~closedByUser /\ attempt < MaxAttempts
         THEN attempt' = attempt + 1 /\ timers' = timers + 1
         ELSE UNCHANGED <<attempt, timers>>
    /\ UNCHANGED <<closedByUser, waiters, jobs, sends, wire, overlap>>

(* The close event, after an error or for a clean close.                   *)
SocketClosed(s) ==
    /\ Idle /\ ready[s] \in {"failed", "closing"}
    /\ ready[s] = "closing" => NextEvent
    /\ ready' = [ready EXCEPT ![s] = "closed"]
    /\ sock' = 0 /\ Drop(Socket \ {s})
    /\ IF ~closedByUser /\ attempt + 1 < MaxAttempts
         THEN attempt' = attempt + 1 /\ timers' = timers + 1
         ELSE UNCHANGED <<attempt, timers>>
    /\ UNCHANGED <<closedByUser, waiters, jobs, sends, wire, overlap>>

(* Mutant: the timer opens a socket whatever happened since.               *)
ReconnectDials ==
    /\ NextEvent /\ timers > 0
    /\ timers' = timers - 1
    /\ \E s \in Socket : Dial(s, <<>>)
    /\ UNCHANGED <<closedByUser, attempt, jobs, sends, wire, cut>>

(* Mutant: ensureSocket does not look at closedByUser.                     *)
ReconnectAfterClose ==
    /\ NextEvent /\ timers > 0
    /\ timers' = timers - 1
    /\ IF IsOpen THEN UNCHANGED <<ready, sock, openWait, waiters, overlap>>
                 ELSE Await(<<>>)
    /\ UNCHANGED <<closedByUser, attempt, jobs, sends, wire, cut>>

(* A reconnect timer: ensureSocket(), its rejection swallowed.             *)
Reconnect ==
    /\ NextEvent /\ timers > 0
    /\ timers' = timers - 1
    /\ IF closedByUser \/ IsOpen
         THEN UNCHANGED <<ready, sock, openWait, waiters, overlap>>
         ELSE Await(<<>>)
    /\ UNCHANGED <<closedByUser, attempt, jobs, sends, wire, cut>>

-----------------------------------------------------------------------------
OpenEvent(s) == Opened(s) \/ OpenedBesideWait(s) \/ OpenedAfterClose(s)

Next ==
    \/ \E f \in Call : SendRefused(f) \/ SendOpen(f) \/ SendAwaits(f)
    \/ OnFrame
    \/ Close
    \/ Continue
    \/ \E s \in Socket : OpenEvent(s) \/ Error(s) \/ PeerCloses(s) \/ SocketClosed(s)
    \/ Reconnect

(* Microtasks run; a connection attempt ends, with a connection or a       *)
(* failure, and a closing socket gets its close event.                     *)
Fairness ==
    /\ WF_vars(Continue)
    /\ \A s \in Socket : /\ WF_vars(OpenEvent(s) \/ (ready[s] = "connecting" /\ Error(s)))
                         /\ WF_vars(SocketClosed(s))

Spec     == Init /\ [][Next]_vars
FairSpec == Spec /\ Fairness

-----------------------------------------------------------------------------
TypeOK ==
    /\ closedByUser \in BOOLEAN /\ overlap \in BOOLEAN
    /\ attempt \in 0 .. MaxAttempts - 1
    /\ sock \in {0} \cup Socket /\ openWait \in {0} \cup Socket
    /\ ready \in [Socket -> {"none", "connecting", "open", "closing", "failed", "closed"}]
    /\ waiters \in [Socket -> Seq(Frame)]
    /\ jobs \in Seq([frame : Frame, opened : BOOLEAN])
    /\ sends \in [Frame -> {"idle", "waiting", "sent", "refused", "rejected", "notOpen"}]
    /\ wire \in [Socket -> Seq(Frame)]
    /\ timers \in Nat
    /\ cut \subseteq Socket

(* A promise that a new send() may join can still be settled: it is that   *)
(* of the current socket, which is connecting and whose listeners have not *)
(* run.                                                                    *)
WaitIsLive == openWait # 0 => openWait = sock /\ ready[sock] = "connecting"

(* The frame the onOpen hook sends is the first on its socket, before the  *)
(* sends that were waiting for it: the bridge drops what comes before a    *)
(* respawn.                                                                *)
HookFirst == \A s \in Socket : wire[s] # <<>> => wire[s][1] \in Socket

(* Unless a socket was made while an earlier one had its close event yet   *)
(* to come, whatever is connecting or open is the current socket, so that  *)
(* close() ends it and no frame arrives twice: onFrame, send() and the     *)
(* reconnect timers never open two.                                        *)
OneSocket ==
    ~overlap => \A s \in Socket : ready[s] \in {"connecting", "open"} => s = sock

(* After close() no socket is opened, not even by a timer already running, *)
(* and nothing more is sent.                                               *)
QuietAfterClose ==
    [][closedByUser => /\ wire' = wire
                       /\ \A s \in Socket : ready[s] = "none" => ready'[s] = "none"]_vars

(* A send() settles, whatever becomes of the socket it waits for, unless   *)
(* openWait was taken from that socket: by close(), or by a listener of    *)
(* another socket.                                                         *)
Stranded(f) == \E s \in cut : \E i \in 1 .. Len(waiters[s]) : waiters[s][i] = f
SendSettles ==
    \A f \in Frame : sends[f] = "waiting" ~> (sends[f] # "waiting" \/ Stranded(f))

(* The header of ws-client.ts: "pending send()s queued during a disconnect *)
(* resolve once the new socket opens".                                     *)
PendingSendResolves ==
    ~closedByUser => \A f \in Frame : sends[f] # "notOpen"
=============================================================================

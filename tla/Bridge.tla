------------------------------- MODULE Bridge -------------------------------
(***************************************************************************)
(* The WebSocket bridge of packages/server: one WebSocket connection and   *)
(* the `claude` children its `_local:respawn` messages start.              *)
(*                                                                         *)
(* JavaScript runs one callback at a time, so a step of this model is one  *)
(* callback: a `message` or `close` event of the socket, the continuation  *)
(* of an `await`, a timer, a line read from a child's stdout, the exit     *)
(* event of a child.  The `message` handler is async and Bun does not wait *)
(* for it: while one respawn awaits `prev.close()`, every other callback   *)
(* may run, further messages included.                                     *)
(*                                                                         *)
(* A respawn message starts at most one child, so a child is named by the  *)
(* request that started it.                                                *)
(***************************************************************************)
EXTENDS Naturals, Sequences

CONSTANTS Request,      \* the respawn messages the consumer may send
          None,         \* `null`
          MaxFrames     \* bound: frames read from one child, frames sent to one

ASSUME NoneAssumption == None \notin Request
ASSUME MaxFramesAssumption == MaxFrames \in Nat

VARIABLES
    ws,        \* "open" | "closing" (ws.close() called) | "closed"
    childT,    \* WsData.childT; WsData.unsubChild is its subscription
    handler,   \* per message: "unsent" | "awaiting" prev.close() | "done"
    prev,      \* the local `prev` of a handler that awaits
    proc,      \* the process: "unborn" | "running" | "dead" | "reaped"
    closing,   \* progress of spawnTransport.close(), see CloseStep
    listening, \* children whose transport still has the bridge's onFrame handler
    heard,     \* per child: frames its stdout pump has dispatched
    stdin,     \* per child: frames written to it
    out,       \* what was sent on the socket, in order
    stale,     \* history: children alive when a later respawn was received
    raced      \* history: a respawn was overtaken by another, or by the close

vars == <<ws, childT, handler, prev, proc, closing, listening, heard,
          stdin, out, stale, raced>>

procVars == <<proc, closing>>

Ok(r)       == [kind |-> "ok",    of |-> r]
Failed(r)   == [kind |-> "fail",  of |-> r]
FrameOf(c)  == [kind |-> "frame", of |-> c]
Sent        == [kind : {"ok", "fail", "frame"}, of : Request]

Awaiting == {r \in Request : handler[r] = "awaiting"}

Init ==
    /\ ws = "open"
    /\ childT = None
    /\ handler = [r \in Request |-> "unsent"]
    /\ prev = [r \in Request |-> None]
    /\ proc = [c \in Request |-> "unborn"]
    /\ closing = [c \in Request |-> "no"]
    /\ listening = {}
    /\ heard = [c \in Request |-> 0]
    /\ stdin = [c \in Request |-> 0]
    /\ out = <<>>
    /\ stale = {}
    /\ raced = FALSE

-----------------------------------------------------------------------------
(* ws.send on a socket that is closing or closed drops the text.           *)
Send(m) == out' = IF ws = "open" THEN Append(out, m) ELSE out

(* detachChild: cancel the subscription, forget the child.                 *)
Detach ==
    /\ childT' = None
    /\ listening' = listening \ {childT}

(* The first, synchronous part of spawnTransport.close(), which ends the   *)
(* child's stdin.  It returns at once on a transport that is closed, by an *)
(* earlier close() or because the exit was reported.                       *)
BeginClose(c) ==
    closing' = IF c # None /\ closing[c] = "no" /\ proc[c] # "reaped"
               THEN [closing EXCEPT ![c] = "ending"] ELSE closing

(* attachChild and the reply: the spawn succeeds, and the child is current *)
(* from here, whatever the handler finds in WsData ...                     *)
Attach(r) ==
    /\ proc' = [proc EXCEPT ![r] = "running"]
    /\ childT' = r
    /\ listening' = listening \cup {r}
    /\ Send(Ok(r))

(* ... or Bun.spawn throws, and the reply says ok: false.                  *)
AttachFails(r) ==
    /\ Send(Failed(r))
    /\ UNCHANGED <<proc, childT, listening>>

-----------------------------------------------------------------------------
(* The `message` handler, `_local:respawn`, when no child is attached: it  *)
(* awaits nothing and runs to its end.                                     *)
RespawnFirst(r) ==
    /\ ws = "open" /\ handler[r] = "unsent" /\ childT = None
    /\ handler' = [handler EXCEPT ![r] = "done"]
    /\ Attach(r) \/ AttachFails(r)
    /\ stale' = stale \cup {c \in Request : proc[c] # "unborn"}
    /\ raced' = (raced \/ Awaiting # {})
    /\ UNCHANGED <<ws, prev, closing, heard, stdin>>

(* Mutant: `prev` is read after detachChild.                               *)
RespawnReplaceSwapped(r) ==
    /\ ws = "open" /\ handler[r] = "unsent" /\ childT # None
    /\ handler' = [handler EXCEPT ![r] = "awaiting"]
    /\ Detach
    /\ prev' = [prev EXCEPT ![r] = childT']
    /\ UNCHANGED <<ws, procVars, heard, stdin, out, stale, raced>>

(* Mutant: detachChild only once prev.close() has resolved.                *)
RespawnReplaceNoDetach(r) ==
    /\ ws = "open" /\ handler[r] = "unsent" /\ childT # None
    /\ handler' = [handler EXCEPT ![r] = "awaiting"]
    /\ prev' = [prev EXCEPT ![r] = childT]
    /\ BeginClose(childT)
    /\ stale' = stale \cup {c \in Request : proc[c] # "unborn"}
    /\ UNCHANGED <<ws, childT, proc, listening, heard, stdin, out, raced>>

(* The same handler when a child is attached, up to `await prev.close()`.  *)
RespawnReplace(r) ==
    /\ ws = "open" /\ handler[r] = "unsent" /\ childT # None
    /\ handler' = [handler EXCEPT ![r] = "awaiting"]
    /\ prev' = [prev EXCEPT ![r] = childT]
    /\ Detach
    /\ BeginClose(childT)
    /\ stale' = stale \cup {c \in Request : proc[c] # "unborn"}
    /\ raced' = (raced \/ Awaiting # {})
    /\ UNCHANGED <<ws, proc, heard, stdin, out>>

(* prev.close() has resolved.                                              *)
PrevClosed(r) ==
    \/ closing[prev[r]] = "done"
    \/ closing[prev[r]] = "no" /\ proc[prev[r]] = "reaped"

(* The handler resumes after `await prev.close()`.  It does not look again *)
(* at the socket or at WsData: another handler may have attached a child   *)
(* meanwhile, and the socket may be closed.                                *)
RespawnResume(r) ==
    /\ handler[r] = "awaiting" /\ PrevClosed(r)
    /\ handler' = [handler EXCEPT ![r] = "done"]
    /\ Attach(r) \/ AttachFails(r)
    /\ UNCHANGED <<ws, prev, closing, heard, stdin, stale, raced>>

(* The `message` handler, any other frame: dropped without a child, thrown *)
(* away (child.send rejects, logged) once the transport is closed.         *)
ConsumerFrame ==
    /\ ws = "open" /\ childT # None
    /\ closing[childT] = "no" /\ proc[childT] # "reaped"
    /\ stdin[childT] < MaxFrames
    /\ stdin' = [stdin EXCEPT ![childT] = @ + 1]
    /\ UNCHANGED <<ws, childT, handler, prev, procVars, listening, heard,
                   out, stale, raced>>

(* Mutant: without the `data.childT !== child` check.                      *)
ChildFrameUnchecked(c) ==
    /\ proc[c] # "unborn" /\ closing[c] \in {"no", "ending"}
    /\ heard[c] < MaxFrames
    /\ heard' = [heard EXCEPT ![c] = @ + 1]
    /\ IF c \in listening THEN Send(FrameOf(c)) ELSE UNCHANGED out
    /\ UNCHANGED <<ws, childT, handler, prev, procVars, listening, stdin,
                   stale, raced>>

(* The pump of stdioTransport dispatches a line of child c: possibly one   *)
(* read before close(), and possibly after the process died.  The bridge's *)
(* handler drops it unless c is the current child.                         *)
ChildFrame(c) ==
    /\ proc[c] # "unborn" /\ closing[c] \in {"no", "ending"}
    /\ heard[c] < MaxFrames
    /\ heard' = [heard EXCEPT ![c] = @ + 1]
    /\ IF c \in listening /\ childT = c THEN Send(FrameOf(c)) ELSE UNCHANGED out
    /\ UNCHANGED <<ws, childT, handler, prev, procVars, listening, stdin,
                   stale, raced>>

-----------------------------------------------------------------------------
(* A child may exit at any moment, whatever the bridge does.               *)
ChildDies(c) ==
    /\ proc[c] = "running"
    /\ proc' = [proc EXCEPT ![c] = "dead"]
    /\ UNCHANGED <<ws, childT, handler, prev, closing, listening, heard,
                   stdin, out, stale, raced>>

(* Mutant: the exit of the current child is not surfaced.                  *)
ChildExitedSilently(c) ==
    /\ proc[c] = "dead"
    /\ proc' = [proc EXCEPT ![c] = "reaped"]
    /\ UNCHANGED <<ws, childT, handler, prev, closing, listening, heard,
                   stdin, out, stale, raced>>

(* `exited` resolves: the transport is closed, and if the child is the     *)
(* current one the bridge closes the socket.                               *)
ChildExited(c) ==
    /\ proc[c] = "dead"
    /\ proc' = [proc EXCEPT ![c] = "reaped"]
    /\ ws' = IF childT = c /\ ws = "open" THEN "closing" ELSE ws
    /\ UNCHANGED <<childT, handler, prev, closing, listening, heard,
                   stdin, out, stale, raced>>

(* spawnTransport.close() past its first line.  "ending": inner.close()    *)
(* returns, the handlers are cleared and SIGTERM is sent unless the exit   *)
(* is known.                                                               *)
StdinEnded(c) ==
    /\ closing[c] = "ending"
    /\ closing' = [closing EXCEPT ![c] = IF proc[c] = "reaped" THEN "done" ELSE "term"]
    /\ listening' = listening \ {c}
    /\ UNCHANGED <<ws, childT, handler, prev, proc, heard, stdin, out,
                   stale, raced>>

(* Mutant: gracefulKill waits for the exit alone.                          *)
TermTimeoutNever(c) == FALSE /\ UNCHANGED vars

(* gracefulKill's race is lost: 1500 ms without an exit, SIGKILL.          *)
TermTimeout(c) ==
    /\ closing[c] = "term" /\ proc[c] # "reaped"
    /\ closing' = [closing EXCEPT ![c] = "kill"]
    /\ UNCHANGED <<ws, childT, handler, prev, proc, listening, heard,
                   stdin, out, stale, raced>>

(* gracefulKill returns: the exit has been reported.                       *)
Killed(c) ==
    /\ closing[c] \in {"term", "kill"} /\ proc[c] = "reaped"
    /\ closing' = [closing EXCEPT ![c] = "done"]
    /\ UNCHANGED <<ws, childT, handler, prev, proc, listening, heard,
                   stdin, out, stale, raced>>

(* Mutant: the close handler forgets the child without closing it.         *)
WsCloseNoKill ==
    /\ ws # "closed"
    /\ ws' = "closed"
    /\ Detach
    /\ raced' = (raced \/ Awaiting # {})
    /\ UNCHANGED <<handler, prev, procVars, heard, stdin, out, stale>>

(* The `close` event: the peer went away, or the bridge closed the socket. *)
(* close() of the child is started and not awaited.                        *)
WsClose ==
    /\ ws # "closed"
    /\ ws' = "closed"
    /\ Detach
    /\ BeginClose(childT)
    /\ raced' = (raced \/ Awaiting # {})
    /\ UNCHANGED <<handler, prev, proc, heard, stdin, out, stale>>

CloseStep(c) == StdinEnded(c) \/ TermTimeout(c) \/ Killed(c)

Next ==
    \/ \E r \in Request : RespawnFirst(r) \/ RespawnReplace(r) \/ RespawnResume(r)
    \/ ConsumerFrame
    \/ \E c \in Request : ChildFrame(c) \/ ChildDies(c) \/ ChildExited(c)
    \/ \E c \in Request : CloseStep(c)
    \/ WsClose

(* Promises resolve and timers fire; a process sent SIGKILL dies and its   *)
(* exit is reported; a socket the bridge closed gets its close event.      *)
(* Nothing says that a child exits unless it is killed, that a consumer    *)
(* sends anything or that it goes away.                                    *)
Fairness ==
    /\ \A c \in Request : /\ WF_vars(CloseStep(c))
                          /\ WF_vars(closing[c] = "kill" /\ ChildDies(c))
                          /\ WF_vars(ChildExited(c))
                          /\ WF_vars(RespawnResume(c))
    /\ WF_vars(ws = "closing" /\ WsClose)

Spec     == Init /\ [][Next]_vars
FairSpec == Spec /\ Fairness

-----------------------------------------------------------------------------
(* Types, and that a handler awaits the close of a child it took over.     *)
TypeOK ==
    /\ ws \in {"open", "closing", "closed"}
    /\ childT \in Request \cup {None}
    /\ handler \in [Request -> {"unsent", "awaiting", "done"}]
    /\ prev \in [Request -> Request \cup {None}]
    /\ \A r \in Awaiting : prev[r] \in Request
    /\ proc \in [Request -> {"unborn", "running", "dead", "reaped"}]
    /\ closing \in [Request -> {"no", "ending", "term", "kill", "done"}]
    /\ listening \subseteq Request
    /\ heard \in [Request -> Nat]
    /\ stdin \in [Request -> Nat]
    /\ out \in Seq(Sent)
    /\ stale \subseteq Request
    /\ raced \in BOOLEAN

(* A child nobody has told to stop is running.                             *)
Unattended(c) == proc[c] = "running" /\ closing[c] = "no"

(* Unless a respawn was overtaken by another one or by the close of the    *)
(* socket, a connection has at most one child that was not told to stop:   *)
(* the attached one; and none once the socket is closed.  The bridge keeps *)
(* no list of children, so a child it forgets here is never killed.        *)
NoOrphan ==
    ~raced => /\ \A c \in Request : Unattended(c) => c = childT
              /\ ws = "closed" => childT = None

(* From the moment a respawn is received, no child started before is       *)
(* written to or heard from again, however long its shutdown takes and     *)
(* whatever it still prints.                                               *)
SupersededIsCutOff ==
    [][\A c \in stale :
          /\ stdin'[c] = stdin[c]
          /\ out' # out => out'[Len(out')] # FrameOf(c)]_vars

(* The texts on the socket are a stream the consumer can make sense of,    *)
(* overtaken respawns included: one answer a respawn, and each frame from  *)
(* the child of the last ok reply.                                         *)
View == INSTANCE ConsumerView WITH stream <- out
ImplementsConsumerView == View!Spec

(* The header of server.ts, "4. On WS close, kill the child", and          *)
(* attachChild's caller: what the connection started does not outlive it.  *)
OnCloseKillTheChild ==
    ws = "closed" => \A c \in Request : ~Unattended(c)

(* Every respawn received is answered (or its socket gone): close() of the *)
(* old child ends even when that child ignores the end of its stdin and    *)
(* SIGTERM.                                                                *)
RespawnAnswered ==
    \A r \in Request : handler[r] = "awaiting" ~> handler[r] = "done"

(* "Surface child exit so the WS doesn't hang on a dead binary": an open   *)
(* connection whose child died is closed, or gets another child.           *)
HangsOnDeadChild(c) == ws # "closed" /\ childT = c /\ proc[c] \in {"dead", "reaped"}
NoHangOnDeadChild == \A c \in Request : HangsOnDeadChild(c) ~> ~HangsOnDeadChild(c)

(* After the close of a socket no respawn was racing with, every process   *)
(* the connection started is dead and its exit reported.                   *)
CloseReapsChildren ==
    (ws = "closed" /\ ~raced) ~> \A c \in Request : proc[c] \in {"unborn", "reaped"}
=============================================================================

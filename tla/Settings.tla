------------------------------ MODULE Settings ------------------------------
(***************************************************************************)
(* What a page of createCcSession (packages/client/src/reactive.ts) keeps  *)
(* of its session: the id, the permission mode and the timeline, shown in  *)
(* atoms, saved to storage 250 ms after a change (persistence.ts), given   *)
(* to every child as spawn arguments (protocol.ts) and read back by the    *)
(* next page.  Setting the mode is a round trip to the child that a        *)
(* refusal, a timeout or a respawn ends, and that then goes on to the next *)
(* mode of the cycle (modes.ts).                                           *)
(*                                                                         *)
(* The page is one record, and what a callback does to it one operator;    *)
(* promises settle in the task that settles them.  The bridge is that of   *)
(* Bridge.tla with respawns that do not overtake each other: it replaces   *)
(* the child at once, and frames it has passed on stay on their way.       *)
(***************************************************************************)
EXTENDS Naturals, Sequences, FiniteSets, SequencesExt

CONSTANTS MaxSession,    \* bound: sessions
          MaxSpawn,      \* bound: children
          MaxWire,       \* bound: messages on the way, either direction
          MaxMessages,   \* persistence.maxMessages
          UserModes,     \* the modes a user sets by name
          Profiles,      \* bounds: pages, calls, and the kinds of call
          Forbidden,     \* the modes the binary refuses
          New, Continue, \* session modes without a session
          None

ASSUME BoundsAssumption ==
    /\ {MaxSession, MaxSpawn, MaxWire, MaxMessages} \subseteq Nat
    /\ MaxSession > 0

PERMISSION_MODE_DEFS ==
    [default |-> 1, acceptEdits |-> 2, plan |-> 3, bypassPermissions |-> 4,
     auto |-> 5, dontAsk |-> 0]     \* place in the cycle, 0 outside it

Mode == DOMAIN PERMISSION_MODE_DEFS
CYCLE_ORDER == [i \in 1 .. 5 |-> CHOOSE m \in Mode : PERMISSION_MODE_DEFS[m] = i]
InCycle == ToSet(CYCLE_ORDER)

(* Mutant: the cycle stops at its end.                                     *)
nextCycleModeEnds(m) ==
    IF m \notin InCycle THEN "default"
    ELSE CYCLE_ORDER[IF m = Last(CYCLE_ORDER) THEN Len(CYCLE_ORDER)
                     ELSE PERMISSION_MODE_DEFS[m] + 1]

nextCycleMode(m) ==
    IF m \notin InCycle THEN "default"
    ELSE CYCLE_ORDER[(PERMISSION_MODE_DEFS[m] % Len(CYCLE_ORDER)) + 1]

Session     == 1 .. MaxSession
SessionMode == {New, Continue} \cup Session     \* a session: resume of it
Request     == 1 .. 2 * MaxWire + 1
Entry       == Session \cup {0}                     \* 0: the user's own text

Saved == [sessionId : Session \cup {None}, messages : Seq(Entry), permissionMode : Mode]

Page ==
    [sessionId : Session \cup {None}, initSeen : BOOLEAN,
     messages : Seq(Entry), mode : Mode \cup {None},
     pendingMode : Mode \cup {None}, modeError : {"raw", None},
     activeMode : Mode, shownError : {"raw", "told", None}, errTimer : BOOLEAN,
     session : SessionMode, permissionMode : Mode,   \* currentArgs
     request : Request \cup {0},      \* of the pending mode
     skip : Seq(Mode),                \* timeouts that set a mode
     saveTimer : BOOLEAN, open : BOOLEAN,
     since : 0 .. MaxSpawn + 1]      \* history: the last reset

ASSUME ModesAssumption ==
    UserModes \subseteq Mode /\ \A p \in Profiles : p.opt \in Mode \cup {None}

ASSUME TokensAssumption ==
    /\ None \notin Mode /\ None \notin Session /\ None \notin Saved
    /\ New # Continue /\ New \notin Session /\ Continue \notin Session

VARIABLES
    page,       \* the page's variables, a Page
    stored,     \* the saved record, or None
    toBridge,   \* respawns, mode requests and messages on their way
    frames,     \* frames on their way back
    child,      \* [gen, session, mode, announced], or None
    disk,       \* sessions on disk: how many, and the most recent
    profile,    \* [loads, calls, kinds, opt]: kinds from "mode", "session" and
                \* "message"; opt is opts.args.permissionMode, or None
    spawned, loads, calls,   \* counters
    hist        \* history: see NoteFrame, NoteGrant

vars == <<page, stored, toBridge, frames, child, disk, profile,
          spawned, loads, calls, hist>>

-----------------------------------------------------------------------------
(* What the writer subscribes to.                                          *)
SaveWorthy(p) == <<p.sessionId, p.messages, p.activeMode>>

(* The listeners of onStateChange: the atoms follow the client, an error   *)
(* that is not shown is shown, and a change worth saving starts the timer. *)
Mirror(p, q) ==
    LET new == q.modeError # None /\ q.modeError # q.shownError
        r   == [q EXCEPT !.activeMode = IF q.mode = None THEN "default" ELSE q.mode,
                         !.shownError = IF new THEN q.modeError ELSE @,
                         !.errTimer = new \/ @]
    IN  [r EXCEPT !.saveTimer = @ \/ SaveWorthy(p) # SaveWorthy(r)]

(* savePersisted, also of what the page shows now.                         *)
Payload(p) ==
    [sessionId |-> p.sessionId,
     messages  |-> SubSeq(p.messages, 1 + IF Len(p.messages) > MaxMessages
                                          THEN Len(p.messages) - MaxMessages ELSE 0,
                          Len(p.messages)),
     permissionMode |-> p.activeMode]

(* createCcSession: the arguments of the first child, ...                  *)
CurrentArgs(s) ==
    [session        |-> IF s # None /\ s.sessionId # None THEN s.sessionId ELSE Continue,
     permissionMode |-> IF profile.opt # None THEN profile.opt
                        ELSE IF s # None THEN s.permissionMode ELSE "default"]

(* ... hydration and seeds, ...                                            *)
Seeded(s) ==
    IF s = None THEN [sessionId |-> None, messages |-> <<>>, mode |-> None]
    ELSE [sessionId |-> s.sessionId, messages |-> s.messages, mode |-> s.permissionMode]

(* ... the atoms, and the writer's subscriptions, which schedule a save.   *)
Loaded(s) ==
    LET seed == Seeded(s)
        args == CurrentArgs(s)
    IN  [sessionId |-> seed.sessionId, initSeen |-> FALSE,
         messages |-> seed.messages, mode |-> seed.mode,
         pendingMode |-> None, modeError |-> None,
         activeMode |-> IF seed.mode # None THEN seed.mode ELSE args.permissionMode,
         shownError |-> None, errTimer |-> FALSE,
         session |-> args.session, permissionMode |-> args.permissionMode,
         request |-> 0, skip |-> <<>>, saveTimer |-> TRUE, open |-> FALSE, since |-> 0]

Init ==
    /\ profile \in Profiles
    /\ stored \in {None} \cup {[sessionId |-> 1, messages |-> <<1>>,
                               permissionMode |-> "default"]}
    /\ disk = IF stored = None THEN [count |-> 0, recent |-> 0]
              ELSE [count |-> 1, recent |-> 1]
    /\ page = Loaded(stored)
    /\ toBridge = <<>> /\ frames = <<>> /\ child = None
    /\ spawned = 0 /\ loads = 1 /\ calls = 0
    /\ hist = [strayed |-> FALSE, mixed |-> FALSE,
               unsure |-> FALSE, told |-> profile.opt = None]

-----------------------------------------------------------------------------
(* setPermissionMode of the session when the client's promise rejects.     *)
Refused(p) ==
    LET next == p.pendingMode
        q == Mirror(p, [p EXCEPT !.pendingMode = None, !.modeError = "raw", !.request = 0])
    IN  [q EXCEPT !.shownError = "told", !.errTimer = TRUE,
                  !.skip = IF next \in InCycle THEN Append(@, nextCycleMode(next)) ELSE @]

(* Mutant: the arguments keep the mode the child was started in.           *)
GrantedForgotten(p) ==
    Mirror(p, [p EXCEPT !.mode = p.pendingMode, !.pendingMode = None, !.request = 0])

(* ... and when it resolves.                                               *)
Granted(p) ==
    [Mirror(p, [p EXCEPT !.mode = p.pendingMode, !.pendingMode = None, !.request = 0])
        EXCEPT !.permissionMode = p.pendingMode]

(* buildSpawnArgs, as far as the child tells its arguments apart.          *)
buildSpawnArgs(p) == [kind |-> "respawn", session |-> p.session, mode |-> p.permissionMode]

(* History: the children asked for, and what a respawn puts right.         *)
Generation == spawned + Cardinality({i \in DOMAIN toBridge : toBridge[i].kind = "respawn"})

NoteRespawn(reset) ==
    hist' = [hist EXCEPT !.unsure = FALSE, !.strayed = @ /\ ~reset, !.mixed = @ /\ ~reset]

(* respawn(): the request in flight is aborted, whatever the child does.   *)
Respawn(p) == page' = IF p.request # 0 THEN Refused(p) ELSE p

(* A respawn by the user's call, on the socket or waiting for it.          *)
Asks(p) ==
    /\ Len(toBridge) < MaxWire /\ Generation < IF page.open THEN MaxSpawn ELSE MaxSpawn - 1
    /\ Respawn(p)
    /\ toBridge' = Append(toBridge, buildSpawnArgs(p))
    /\ NoteRespawn(p.since # page.since)
    /\ UNCHANGED <<frames, child, disk, profile, spawned, loads>>

(* Mutant: the writer is not told of the reset.                            *)
ResetQuietly(p) == [p EXCEPT !.initSeen = FALSE, !.messages = <<>>, !.sessionId = None]

(* resetTimeline bumps the revision, so a save is due.                     *)
Reset(p) ==
    LET q == [p EXCEPT !.initSeen = FALSE, !.messages = <<>>, !.sessionId = None]
    IN  [Mirror(p, q) EXCEPT !.saveTimer = TRUE, !.since = Generation + 1]

Call(kind) == kind \in profile.kinds /\ calls < profile.calls /\ calls' = calls + 1

(* newSession and resumeSession, ...                                       *)
ChangeSession(m) ==
    /\ Call("session")
    /\ stored' = None
    /\ Asks([Reset(page) EXCEPT !.session = m])

(* ... continueSession, ...                                                *)
ContinueSession ==
    /\ Call("session")
    /\ Asks([page EXCEPT !.session = Continue])
    /\ UNCHANGED stored

(* ... and setEffort, which leaves the session as it was chosen.           *)
SetEffort ==
    /\ \E kind \in {"mode", "session"} : Call(kind)
    /\ Asks(page)
    /\ UNCHANGED stored

(* setPermissionMode of the session, up to its await.                      *)
SetPermissionMode(p, m) ==
    IF m = p.activeMode \/ p.pendingMode # None
    THEN page' = p /\ UNCHANGED toBridge
    ELSE LET onWire == {k.request : k \in {k \in ToSet(toBridge \o frames) :
                                             k.kind \in {"set", "answer"}}}
             n == CHOOSE n \in Request \ onWire : TRUE
             q == [p EXCEPT !.shownError = None, !.errTimer = FALSE] IN
         /\ page' = Mirror(p, [q EXCEPT !.pendingMode = m, !.modeError = None, !.request = n])
         /\ toBridge' = Append(toBridge, [kind |-> "set", mode |-> m, request |-> n])

SameBeyondPage == UNCHANGED <<stored, frames, child, disk, profile, spawned, loads, hist>>

UserSetsMode(m) ==
    /\ Call("mode") /\ Len(toBridge) < MaxWire
    /\ SetPermissionMode(page, m)
    /\ SameBeyondPage

CyclePermissionMode ==
    /\ Call("mode") /\ Len(toBridge) < MaxWire
    /\ page.pendingMode = None
    /\ SetPermissionMode(page, nextCycleMode(page.activeMode))
    /\ SameBeyondPage

(* The setTimeout of a refusal: on to the next mode.                       *)
Skip ==
    /\ page.skip # <<>> /\ Len(toBridge) < MaxWire
    /\ SetPermissionMode([page EXCEPT !.skip = Tail(@)], Head(page.skip))
    /\ UNCHANGED calls /\ SameBeyondPage

SendMessage ==
    /\ Call("message") /\ Len(toBridge) < MaxWire
    /\ page' = Mirror(page, [page EXCEPT !.messages = Append(@, 0)])
    /\ toBridge' = Append(toBridge, [kind |-> "user"])
    /\ SameBeyondPage

-----------------------------------------------------------------------------
(* The socket of a page opens: the hook's respawn precedes what waited.    *)
Open ==
    /\ ~page.open /\ Generation < MaxSpawn
    /\ Respawn([page EXCEPT !.open = TRUE])
    /\ toBridge' = <<buildSpawnArgs(page)>> \o toBridge
    /\ hist' = [hist EXCEPT !.unsure = \E m \in ToSet(toBridge) : m.kind = "set"]
    /\ UNCHANGED <<stored, frames, child, disk, profile, spawned, loads, calls>>

(* The page is reloaded: its socket closes, its child dies, its timers and *)
(* what it has not saved are gone.                                         *)
Reload ==
    /\ loads < profile.loads /\ loads' = loads + 1 /\ spawned < MaxSpawn
    /\ page' = Loaded(stored)
    /\ toBridge' = <<>> /\ frames' = <<>> /\ child' = None
    /\ hist' = [hist EXCEPT !.told = profile.opt = None, !.unsure = FALSE,
                         !.strayed = FALSE]
    /\ UNCHANGED <<stored, disk, profile, spawned, calls>>

(* The save timer.                                                         *)
Flush ==
    /\ page.saveTimer
    /\ stored' = Payload(page)
    /\ page' = [page EXCEPT !.saveTimer = FALSE]
    /\ UNCHANGED <<toBridge, frames, child, disk, profile, spawned, loads,
                   calls, hist>>

(* The timer of an error.                                                  *)
ErrorCleared ==
    /\ page.errTimer
    /\ page' = [page EXCEPT !.shownError = None, !.errTimer = FALSE]
    /\ UNCHANGED <<toBridge, calls>> /\ SameBeyondPage

(* The timer of an intent: the child may have granted it, or may yet.      *)
IntentTimeout ==
    /\ page.request # 0
    /\ page' = Refused(page)
    /\ hist' = [hist EXCEPT !.unsure = TRUE]
    /\ UNCHANGED <<stored, toBridge, frames, child, disk, profile, spawned, loads,
                   calls>>

-----------------------------------------------------------------------------
(* A frame of a child in a session that is not the one the page knows of   *)
(* (strayed); or that was restored, or of a child that was replaced when   *)
(* the timeline was reset (mixed).                                         *)
NoteFrame(f) ==
    LET old     == f.gen < page.since
        other   == page.sessionId \notin {None, f.session}
        adopted == f.kind = "init" /\ ~page.initSeen IN
    hist' = [hist EXCEPT !.strayed = @ \/ (page.initSeen /\ other),
                         !.mixed = @ \/ old \/ other,
                         !.told = IF adopted THEN f.gen = Generation /\ f.mode = page.permissionMode
                                  ELSE @]

(* A granted mode is the child's, whatever timed out before.               *)
NoteGrant == hist' = [hist EXCEPT !.unsure = FALSE, !.told = TRUE]

(* The first init frame names the session and its mode, a later one is     *)
(* only an entry of the timeline.                                          *)
Adopted(p, f) ==
    LET q == [p EXCEPT !.messages = Append(@, f.session)] IN
    IF p.initSeen THEN q
    ELSE [q EXCEPT !.initSeen = TRUE, !.sessionId = f.session, !.mode = f.mode]

Receive ==
    /\ frames # <<>>
    /\ frames' = Tail(frames)
    /\ LET f == Head(frames) IN
         \/ /\ f.kind = "init"
            /\ page' = Mirror(page, Adopted(page, f)) /\ NoteFrame(f)
         \/ /\ f.kind = "message"
            /\ page' = Mirror(page, [page EXCEPT !.messages = Append(@, f.session)])
            /\ NoteFrame(f)
         \/ /\ f.kind = "answer" /\ f.request # page.request
            /\ UNCHANGED <<page, hist>>
         \/ /\ f.kind = "answer" /\ f.request = page.request
            /\ page' = IF f.ok THEN Granted(page) ELSE Refused(page)
            /\ IF f.ok THEN NoteGrant ELSE UNCHANGED hist
    /\ UNCHANGED <<stored, toBridge, child, disk, profile, spawned, loads, calls>>

-----------------------------------------------------------------------------
(* The bridge and the child.  A child takes the session it is told to: a   *)
(* new one, the most recent on disk, or the one named.                     *)
Spawned(a) ==
    LET new == a.session = New \/ (a.session = Continue /\ disk.recent = 0)
        s   == IF new THEN disk.count + 1
               ELSE IF a.session = Continue THEN disk.recent ELSE a.session IN
    /\ s <= MaxSession
    /\ child' = [gen |-> spawned + 1, session |-> s, mode |-> a.mode, announced |-> FALSE]
    /\ disk' = IF new THEN [disk EXCEPT !.count = s] ELSE disk
    /\ spawned' = spawned + 1
    /\ UNCHANGED frames

(* The first message makes the child announce itself; a frame of text adds *)
(* no more to the timeline than that.                                      *)
Answers ==
    /\ frames' = Append(frames, [kind |-> IF child.announced THEN "message" ELSE "init",
                                 gen |-> child.gen, session |-> child.session,
                                 mode |-> child.mode])
    /\ child' = [child EXCEPT !.announced = TRUE]
    /\ disk' = [disk EXCEPT !.recent = child.session]
    /\ UNCHANGED spawned

Decides(m) ==
    LET ok == m.mode \notin Forbidden IN
    /\ frames' = Append(frames, [kind |-> "answer", request |-> m.request, ok |-> ok])
    /\ child' = IF ok THEN [child EXCEPT !.mode = m.mode] ELSE child
    /\ UNCHANGED <<disk, spawned>>

BridgeTakes ==
    /\ page.open /\ toBridge # <<>> /\ Len(frames) < MaxWire
    /\ toBridge' = Tail(toBridge)
    /\ LET m == Head(toBridge) IN
         \/ m.kind = "respawn" /\ Spawned(m)
         \/ m.kind = "user" /\ child # None /\ Answers
         \/ m.kind = "set" /\ child # None /\ Decides(m)
    /\ UNCHANGED <<page, stored, profile, loads, calls, hist>>

-----------------------------------------------------------------------------
UserCall ==
    \/ \E m \in {New} \cup 1 .. disk.count : ChangeSession(m)
    \/ ContinueSession \/ SetEffort
    \/ \E m \in UserModes : UserSetsMode(m)
    \/ CyclePermissionMode
    \/ SendMessage

Timers == Skip \/ Flush \/ ErrorCleared \/ IntentTimeout

Next == UserCall \/ Timers \/ Open \/ Reload \/ Receive \/ BridgeTakes

(* Timers fire, the socket opens and both directions of it are read.       *)
(* Users need not call.                                                    *)
Fairness ==
    /\ WF_vars(Skip) /\ WF_vars(Flush) /\ WF_vars(IntentTimeout)
    /\ WF_vars(Open) /\ WF_vars(Receive) /\ WF_vars(BridgeTakes)

Spec     == Init /\ [][Next]_vars
FairSpec == Spec /\ Fairness
-----------------------------------------------------------------------------
TypeOK ==
    /\ page \in Page
    /\ stored \in Saved \cup {None}
    /\ (page.request # 0) <=> (page.pendingMode # None)

(* What is shown and worth keeping is saved, or the timer runs that will   *)
(* save it, also after the record was removed for a change of session.     *)
SaveScheduled == stored # Payload(page) => page.saveTimer

(* All that was sent has been taken and answered.                          *)
Quiet ==
    /\ page.open /\ toBridge = <<>> /\ frames = <<>>
    /\ page.request = 0 /\ page.skip = <<>>

(* A reload goes back to the session in use, unless a child was started    *)
(* without one in a session of its own; with a timeline of nothing but     *)
(* that session, unless frames of a former child came after the reset of a *)
(* new session, or a page restored with the timeline of one session        *)
(* continued with another, which such a child had left as the most recent. *)
ReloadReturns ==
    Quiet /\ ~page.saveTimer /\ child # None /\ child.announced =>
        /\ ~hist.strayed => Loaded(stored).session = child.session
        /\ ~hist.mixed => ToSet(stored.messages) \subseteq {child.session, 0}

StorageSafe == TypeOK /\ SaveScheduled /\ ReloadReturns

(* Through refusals, timeouts, skips, respawns and reloads the mode shown  *)
(* is the child's, and that of the next child; and no error stays for      *)
(* good.  Excluded are a request that was given up (it may have been       *)
(* granted) and a page that was told a mode by its options and has not     *)
(* heard of the child's.                                                   *)
ModeShown ==
    /\ Quiet /\ child # None /\ hist.told /\ ~hist.unsure =>
           page.activeMode = child.mode /\ page.activeMode = page.permissionMode
    /\ page.shownError # None => page.errTimer

(* Going on from a mode that was refused ends, at the latest at the mode   *)
(* that is active, which must be one of the cycle.                         *)
SkipSettles ==
    page.request # 0 \/ page.skip # <<>>
    ~> (page.request = 0 /\ page.skip = <<>>) \/ page.activeMode \notin InCycle
=============================================================================

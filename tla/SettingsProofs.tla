--------------------------- MODULE SettingsProofs ---------------------------
(***************************************************************************)
(* Theorems about Settings, for any number of sessions, children, pages    *)
(* and calls: what is saved is what is shown and what a reload goes back   *)
(* to, and the mode shown is the child's.                                  *)
(***************************************************************************)
EXTENDS Settings, FunctionTheorems, FiniteSetTheorems, SequenceTheorems, TLAPS

USE BoundsAssumption, ModesAssumption, TokensAssumption

-----------------------------------------------------------------------------
(* The messages of either direction, and the child.                        *)
Respawned == [kind : {"respawn"}, session : SessionMode, mode : Mode]
Asked     == [kind : {"set"}, mode : Mode, request : Request]
ToChild   == Respawned \cup Asked \cup [kind : {"user"}]
Told      == [kind : {"init", "message"}, gen : Nat, session : Session, mode : Mode]
Answered  == [kind : {"answer"}, request : Request, ok : BOOLEAN]
FromChild == Told \cup Answered
Child     == [gen : Nat, session : Session, mode : Mode, announced : BOOLEAN]
History   == [strayed : BOOLEAN, mixed : BOOLEAN, unsure : BOOLEAN, told : BOOLEAN]

TypeInv ==
    /\ TypeOK
    /\ toBridge \in Seq(ToChild)
    /\ frames \in Seq(FromChild) /\ Len(frames) <= MaxWire
    /\ child \in Child \cup {None}
    /\ disk \in [count : 0 .. MaxSession, recent : 0 .. MaxSession]
    /\ profile \in Profiles
    /\ spawned \in Nat /\ Generation \in spawned .. MaxSpawn
    /\ hist \in History

-----------------------------------------------------------------------------
(* Modes: the cycle is one of modes.                                       *)
LEMMA ModeSet ==
    Mode = {"default", "acceptEdits", "plan", "bypassPermissions", "auto", "dontAsk"}
BY DEF Mode, PERMISSION_MODE_DEFS

LEMMA CycleType ==
    CYCLE_ORDER \in [1 .. 5 -> Mode] /\ Len(CYCLE_ORDER) = 5
<1>1. ASSUME NEW i \in 1 .. 5
      PROVE  \E m \in Mode : PERMISSION_MODE_DEFS[m] = i
  <2>1. i = 1 \/ i = 2 \/ i = 3 \/ i = 4 \/ i = 5
    OBVIOUS
  <2>2. /\ PERMISSION_MODE_DEFS["default"] = 1 /\ PERMISSION_MODE_DEFS["acceptEdits"] = 2
        /\ PERMISSION_MODE_DEFS["plan"] = 3 /\ PERMISSION_MODE_DEFS["bypassPermissions"] = 4
        /\ PERMISSION_MODE_DEFS["auto"] = 5
    BY DEF PERMISSION_MODE_DEFS
  <2> QED BY <2>1, <2>2, ModeSet
<1>2. ASSUME NEW i \in 1 .. 5
      PROVE  (CHOOSE m \in Mode : PERMISSION_MODE_DEFS[m] = i) \in Mode
  BY <1>1
<1>3. CYCLE_ORDER \in [1 .. 5 -> Mode]
  BY <1>2 DEF CYCLE_ORDER
<1>4. CYCLE_ORDER \in Seq(Mode)
  BY <1>3, SeqDef
<1> QED BY <1>3, <1>4, LenProperties

LEMMA NextModeType == ASSUME NEW m PROVE nextCycleMode(m) \in Mode
<1>1. CASE m \notin InCycle
  BY <1>1, ModeSet DEF nextCycleMode
<1>2. CASE m \in InCycle
  <2>1. m \in Mode
    BY <1>2, CycleType DEF InCycle, ToSet
  <2>2. PERMISSION_MODE_DEFS[m] \in 0 .. 5
    BY <2>1, ModeSet DEF PERMISSION_MODE_DEFS
  <2>4. (PERMISSION_MODE_DEFS[m] % 5) + 1 \in 1 .. 5
    BY <2>2
  <2> QED BY <1>2, <2>4, CycleType DEF nextCycleMode
<1> QED BY <1>1, <1>2

-----------------------------------------------------------------------------
(* How many respawns are on their way.                                     *)
Respawns(q) == {i \in DOMAIN q : q[i].kind = "respawn"}
HowMany(m) == IF m.kind = "respawn" THEN 1 ELSE 0

LEMMA RespawnsFinite ==
    ASSUME NEW q \in Seq(ToChild)
    PROVE  IsFiniteSet(Respawns(q)) /\ Cardinality(Respawns(q)) \in Nat
<1>1. IsFiniteSet(1 .. Len(q))
  BY FS_Interval
<1>2. Respawns(q) \subseteq 1 .. Len(q)
  BY DEF Respawns
<1> QED BY <1>1, <1>2, FS_Subset, FS_CardinalityType

LEMMA RespawnsAppended ==
    ASSUME NEW q \in Seq(ToChild), NEW m \in ToChild
    PROVE  Cardinality(Respawns(Append(q, m))) = Cardinality(Respawns(q)) + HowMany(m)
<1>1. CASE m.kind = "respawn"
  <2>1. Respawns(Append(q, m)) = Respawns(q) \cup {Len(q) + 1}
    BY <1>1 DEF Respawns
  <2>2. Len(q) + 1 \notin Respawns(q)
    BY DEF Respawns
  <2> QED BY <1>1, <2>1, <2>2, RespawnsFinite, FS_AddElement DEF HowMany
<1>2. CASE m.kind # "respawn"
  <2>1. Respawns(Append(q, m)) = Respawns(q)
    BY <1>2 DEF Respawns
  <2> QED BY <1>2, <2>1, RespawnsFinite DEF HowMany
<1> QED BY <1>1, <1>2

(* The places of the respawns behind the head move up by one.              *)
LEMMA RespawnsShifted ==
    ASSUME NEW q \in Seq(ToChild), NEW r \in Seq(ToChild), NEW m \in ToChild,
           Len(q) = Len(r) + 1, q[1] = m, \A i \in 1 .. Len(r) : q[i + 1] = r[i]
    PROVE  Cardinality(Respawns(q)) = Cardinality(Respawns(r)) + HowMany(m)
<1> DEFINE S == {i \in Respawns(q) : i # 1}
           f == [i \in Respawns(r) |-> i + 1]
<1>1. Respawns(r) \subseteq 1 .. Len(r) /\ Respawns(q) \subseteq 1 .. Len(q)
  BY DEF Respawns
<1>2. f \in Bijection(Respawns(r), S)
  <2>1. ASSUME NEW i \in Respawns(r) PROVE i + 1 \in S
    BY <1>1 DEF Respawns
  <2>2. f \in [Respawns(r) -> S]
    BY <2>1
  <2>3. ASSUME NEW i \in Respawns(r), NEW j \in Respawns(r), f[i] = f[j] PROVE i = j
    BY <2>3, <1>1
  <2>4. ASSUME NEW j \in S PROVE \E i \in Respawns(r) : f[i] = j
    <3>1. j \in 2 .. Len(r) + 1 /\ q[j].kind = "respawn"
      BY <1>1 DEF Respawns
    <3>2. j - 1 \in 1 .. Len(r) /\ q[(j - 1) + 1] = r[j - 1]
      BY <3>1
    <3>3. j - 1 \in Respawns(r)
      BY <3>1, <3>2 DEF Respawns
    <3> QED BY <3>1, <3>3
  <2> HIDE DEF S, f
  <2> QED BY <2>2, <2>3, <2>4, Fun_IsBij
<1>3. IsFiniteSet(Respawns(r)) /\ IsFiniteSet(S) /\ Cardinality(S) = Cardinality(Respawns(r))
  BY <1>2, RespawnsFinite, FS_Bijection DEF ExistsBijection
<1>4. CASE m.kind = "respawn"
  <2>1. Respawns(q) = S \cup {1} /\ 1 \notin S
    BY <1>4 DEF Respawns
  <2> QED BY <1>3, <1>4, <2>1, FS_AddElement DEF HowMany
<1>5. CASE m.kind # "respawn"
  <2>1. Respawns(q) = S
    BY <1>5 DEF Respawns
  <2>2. Cardinality(Respawns(r)) \in Nat
    BY RespawnsFinite
  <2> HIDE DEF S, f
  <2> QED BY <1>3, <1>5, <2>1, <2>2 DEF HowMany
<1> QED BY <1>4, <1>5

LEMMA RespawnsPrepended ==
    ASSUME NEW q \in Seq(ToChild), NEW m \in ToChild
    PROVE  Cardinality(Respawns(<<m>> \o q)) = Cardinality(Respawns(q)) + HowMany(m)
<1>1. <<m>> \in Seq(ToChild)
  OBVIOUS
<1>2. <<m>> \o q \in Seq(ToChild) /\ Len(<<m>> \o q) = Len(q) + 1
  BY <1>1
<1>3. (<<m>> \o q)[1] = m /\ \A i \in 1 .. Len(q) : (<<m>> \o q)[i + 1] = q[i]
  OBVIOUS
<1> QED BY <1>2, <1>3, RespawnsShifted

LEMMA RespawnsTaken ==
    ASSUME NEW q \in Seq(ToChild), q # <<>>
    PROVE  Cardinality(Respawns(q)) = Cardinality(Respawns(Tail(q))) + HowMany(Head(q))
<1>1. Tail(q) \in Seq(ToChild) /\ Head(q) \in ToChild /\ Len(q) = Len(Tail(q)) + 1
  OBVIOUS
<1>2. q[1] = Head(q) /\ \A i \in 1 .. Len(Tail(q)) : q[i + 1] = Tail(q)[i]
  OBVIOUS
<1> QED BY <1>1, <1>2, RespawnsShifted

-----------------------------------------------------------------------------
(* What the callbacks do to a page.                                        *)

(* The session and timeline of a page stay ...                             *)
SameSession(p, r) ==
    /\ r.sessionId = p.sessionId /\ r.initSeen = p.initSeen
    /\ r.messages = p.messages /\ r.since = p.since

(* ... and its socket and spawn arguments.                                 *)
SameArgs(p, r) == r.open = p.open /\ r.session = p.session /\ r.permissionMode = p.permissionMode

(* What changed is scheduled for saving.                                   *)
Saves(p, r) == r.saveTimer \/ (r.saveTimer = p.saveTimer /\ SaveWorthy(r) = SaveWorthy(p))

Errs(p) == p.shownError # None => p.errTimer
Paired(p) == (p.request # 0) <=> (p.pendingMode # None)

(* The mode shown is the one the next child is started in.                 *)
InStep(p) ==
    /\ p.activeMode = p.permissionMode
    /\ p.mode \in {None, p.permissionMode}
    /\ p.mode = None => p.permissionMode = "default"

LEMMA DefaultIsMode == "default" \in Mode
BY ModeSet

LEMMA MirrorEffect ==
    ASSUME NEW p \in Page, NEW q \in Page
    PROVE  LET r == Mirror(p, q) IN
           /\ r \in Page
           /\ SameSession(q, r) /\ SameArgs(q, r)
           /\ r.mode = q.mode /\ r.pendingMode = q.pendingMode /\ r.request = q.request
           /\ r.skip = q.skip
           /\ r.activeMode = IF q.mode = None THEN "default" ELSE q.mode
           /\ Errs(q) => Errs(r)
           /\ q.saveTimer = p.saveTimer => Saves(p, r)
<1> DEFINE new == q.modeError # None /\ q.modeError # q.shownError
           mode == IF q.mode = None THEN "default" ELSE q.mode
           shown == IF new THEN q.modeError ELSE q.shownError
           timer == new \/ q.errTimer
           s == [q EXCEPT !.activeMode = mode, !.shownError = shown, !.errTimer = timer]
           r == [s EXCEPT !.saveTimer = q.saveTimer \/ SaveWorthy(p) # SaveWorthy(s)]
<1>1. mode \in Mode
  BY DefaultIsMode DEF Page
<1>2. shown \in {"raw", "told", None} /\ timer \in BOOLEAN
  BY DEF Page
<1>3. /\ s \in Page /\ s.saveTimer = q.saveTimer
      /\ s.activeMode = mode /\ s.shownError = shown /\ s.errTimer = timer
      /\ SameSession(q, s) /\ SameArgs(q, s)
      /\ s.mode = q.mode /\ s.pendingMode = q.pendingMode /\ s.request = q.request
      /\ s.skip = q.skip
  <2> HIDE DEF mode, shown, timer, new
  <2>1. s \in Page
    BY <1>1, <1>2, ZenonT(60) DEF Page
  <2>2. /\ s.saveTimer = q.saveTimer
        /\ s.activeMode = mode /\ s.shownError = shown /\ s.errTimer = timer
        /\ SameSession(q, s) /\ SameArgs(q, s)
        /\ s.mode = q.mode /\ s.pendingMode = q.pendingMode /\ s.request = q.request
        /\ s.skip = q.skip
    BY DEF Page, SameSession, SameArgs
  <2> QED BY <2>1, <2>2
<1>4. /\ r \in Page /\ SameSession(s, r) /\ SameArgs(s, r) /\ SaveWorthy(r) = SaveWorthy(s)
      /\ r.saveTimer = (q.saveTimer \/ SaveWorthy(p) # SaveWorthy(s))
      /\ r.activeMode = s.activeMode /\ r.shownError = s.shownError /\ r.errTimer = s.errTimer
      /\ r.mode = s.mode /\ r.pendingMode = s.pendingMode /\ r.request = s.request
      /\ r.skip = s.skip
  <2> DEFINE due == q.saveTimer \/ SaveWorthy(p) # SaveWorthy(s)
  <2>1. due \in BOOLEAN /\ s \in Page
    BY <1>3 DEF Page
  <2> HIDE DEF s, due
  <2>2. [s EXCEPT !.saveTimer = due] \in Page
    BY <2>1 DEF Page
  <2>3. LET t == [s EXCEPT !.saveTimer = due] IN
        /\ SameSession(s, t) /\ SameArgs(s, t) /\ SaveWorthy(t) = SaveWorthy(s)
        /\ t.saveTimer = due
        /\ t.activeMode = s.activeMode /\ t.shownError = s.shownError /\ t.errTimer = s.errTimer
        /\ t.mode = s.mode /\ t.pendingMode = s.pendingMode /\ t.request = s.request
        /\ t.skip = s.skip
    BY <2>1 DEF Page, SameSession, SameArgs, SaveWorthy
  <2> QED BY <2>2, <2>3 DEF due
<1>5. Mirror(p, q) = r
  BY <1>3 DEF Mirror
<1>6. Errs(q) => Errs(r)
  <2> HIDE DEF s, r
  <2> QED BY <1>3, <1>4 DEF Errs
<1>7. q.saveTimer = p.saveTimer => Saves(p, r)
  <2> HIDE DEF s, r
  <2> QED BY <1>3, <1>4 DEF Saves, Page
<1>8. SameSession(q, r) /\ SameArgs(q, r)
  <2> HIDE DEF s, r
  <2> QED BY <1>3, <1>4 DEF SameSession, SameArgs
<1> HIDE DEF s, r
<1> QED BY <1>3, <1>4, <1>5, <1>6, <1>7, <1>8

(* A refusal ends the request, and goes on along the cycle.                *)
LEMMA RefusedEffect ==
    ASSUME NEW p \in Page
    PROVE  LET r == Refused(p) IN
           /\ r \in Page /\ SameSession(p, r) /\ SameArgs(p, r)
           /\ r.mode = p.mode /\ r.pendingMode = None /\ r.request = 0
           /\ r.activeMode = IF p.mode = None THEN "default" ELSE p.mode
           /\ Errs(r) /\ Saves(p, r) /\ Paired(r)
<1> DEFINE q == [p EXCEPT !.pendingMode = None, !.modeError = "raw", !.request = 0]
           s == Mirror(p, q)
           skip == IF p.pendingMode \in InCycle THEN Append(s.skip, nextCycleMode(p.pendingMode))
                   ELSE s.skip
           r == [s EXCEPT !.shownError = "told", !.errTimer = TRUE, !.skip = skip]
<1>1. /\ q \in Page /\ SameSession(p, q) /\ SameArgs(p, q) /\ q.saveTimer = p.saveTimer
      /\ q.mode = p.mode /\ q.pendingMode = None /\ q.request = 0
  BY DEF Page, SameSession, SameArgs
<1>2. /\ s \in Page /\ SameSession(q, s) /\ SameArgs(q, s) /\ Saves(p, s)
      /\ s.mode = q.mode /\ s.pendingMode = q.pendingMode /\ s.request = q.request
      /\ s.activeMode = IF q.mode = None THEN "default" ELSE q.mode
  <2> HIDE DEF q
  <2> QED BY <1>1, MirrorEffect
<1>3. skip \in Seq(Mode)
  <2> HIDE DEF s, q
  <2>1. s.skip \in Seq(Mode)
    BY <1>2 DEF Page
  <2> QED BY <2>1, NextModeType
<1>4. /\ r \in Page /\ SameSession(s, r) /\ SameArgs(s, r) /\ SaveWorthy(r) = SaveWorthy(s)
      /\ r.mode = s.mode /\ r.pendingMode = s.pendingMode /\ r.request = s.request
      /\ r.activeMode = s.activeMode /\ r.saveTimer = s.saveTimer /\ r.errTimer
  <2> HIDE DEF s, q, skip
  <2> QED BY <1>2, <1>3, ZenonT(60) DEF Page, SameSession, SameArgs, SaveWorthy
<1>5. Refused(p) = r
  BY DEF Refused
<1> HIDE DEF r, s, q
<1> QED BY <1>1, <1>2, <1>4, <1>5 DEF SameSession, SameArgs, Saves, Errs, Paired

(* What is shown of the mode is as it was, or brought up to date.          *)
SameMode(p, r) ==
    /\ r.mode = p.mode
    /\ r.activeMode \in {p.activeMode, IF p.mode = None THEN "default" ELSE p.mode}

(* Whatever respawns, the request in flight is aborted.                    *)
LEMMA RespawnEffect ==
    ASSUME NEW p \in Page, Paired(p), Respawn(p)
    PROVE  /\ page' \in Page /\ SameSession(p, page') /\ SameArgs(p, page') /\ SameMode(p, page')
           /\ page'.request = 0 /\ Paired(page') /\ Saves(p, page')
           /\ Errs(p) => Errs(page')
<1>1. CASE p.request # 0
  <2>1. page' = Refused(p)
    BY <1>1 DEF Respawn
  <2> QED BY <2>1, RefusedEffect DEF SameMode
<1>2. CASE p.request = 0
  <2>1. page' = p
    BY <1>2 DEF Respawn
  <2> QED BY <1>2, <2>1 DEF SameSession, SameArgs, SameMode, Saves
<1> QED BY <1>1, <1>2

(* A grant makes the mode shown, and the next child's, the one asked for.  *)
LEMMA GrantedEffect ==
    ASSUME NEW p \in Page, p.pendingMode # None
    PROVE  LET r == Granted(p) IN
           /\ r \in Page /\ SameSession(p, r) /\ r.open = p.open /\ InStep(r)
           /\ r.permissionMode = p.pendingMode
           /\ r.request = 0 /\ Paired(r) /\ Saves(p, r)
           /\ (Errs(p) => Errs(r))
<1> DEFINE q == [p EXCEPT !.mode = p.pendingMode, !.pendingMode = None, !.request = 0]
           s == Mirror(p, q)
           r == [s EXCEPT !.permissionMode = p.pendingMode]
<1>1. p.pendingMode \in Mode
  BY DEF Page
<1>2. q \in Page
  BY <1>1 DEF Page
<1>3. /\ SameSession(p, q) /\ SameArgs(p, q) /\ q.saveTimer = p.saveTimer
      /\ q.mode = p.pendingMode /\ q.pendingMode = None /\ q.request = 0
      /\ (Errs(p) => Errs(q))
  BY DEF Page, SameSession, SameArgs, Errs
<1>4. /\ s \in Page /\ SameSession(q, s) /\ SameArgs(q, s) /\ Saves(p, s)
      /\ s.mode = q.mode /\ s.pendingMode = q.pendingMode /\ s.request = q.request
      /\ s.activeMode = IF q.mode = None THEN "default" ELSE q.mode
      /\ (Errs(q) => Errs(s))
  <2> HIDE DEF q
  <2> QED BY <1>2, <1>3, MirrorEffect
<1>5. r \in Page
  <2> HIDE DEF s
  <2> QED BY <1>1, <1>4 DEF Page
<1>6. /\ SameSession(s, r) /\ r.open = s.open /\ SaveWorthy(r) = SaveWorthy(s)
      /\ r.permissionMode = p.pendingMode /\ r.saveTimer = s.saveTimer
      /\ r.mode = s.mode /\ r.pendingMode = s.pendingMode /\ r.request = s.request
      /\ r.activeMode = s.activeMode /\ (Errs(s) => Errs(r))
  <2> HIDE DEF s
  <2> QED BY <1>4 DEF Page, SameSession, SaveWorthy, Errs
<1>7. Granted(p) = r
  BY DEF Granted
<1>8. SameSession(p, r) /\ r.open = p.open
  <2> HIDE DEF r, s, q
  <2> QED BY <1>3, <1>4, <1>6 DEF SameSession, SameArgs
<1>9. Paired(r) /\ InStep(r)
  <2> HIDE DEF r, s, q
  <2>1. r.mode = p.pendingMode /\ r.pendingMode = None /\ r.request = 0
    BY <1>3, <1>4, <1>6
  <2>2. r.activeMode = p.pendingMode
    BY <1>1, <1>3, <1>4, <1>6
  <2> QED BY <1>1, <1>6, <2>1, <2>2 DEF Paired, InStep
<1> HIDE DEF r, s, q
<1> QED BY <1>3, <1>4, <1>5, <1>6, <1>7, <1>8, <1>9 DEF Saves

(* A reset empties the timeline, and is saved.                             *)
LEMMA ResetEffect ==
    ASSUME NEW p \in Page, Generation \in 0 .. MaxSpawn
    PROVE  LET r == Reset(p) IN
           /\ r \in Page /\ SameArgs(p, r) /\ SameMode(p, r)
           /\ r.sessionId = None /\ r.messages = <<>> /\ r.initSeen = FALSE /\ r.since = Generation + 1
           /\ r.pendingMode = p.pendingMode /\ r.request = p.request /\ r.saveTimer = TRUE
           /\ (Errs(p) => Errs(r))
<1> DEFINE q == [p EXCEPT !.initSeen = FALSE, !.messages = <<>>, !.sessionId = None]
           s == Mirror(p, q)
           r == [s EXCEPT !.saveTimer = TRUE, !.since = Generation + 1]
<1>1. q \in Page
  <2>1. <<>> \in Seq(Entry)
    OBVIOUS
  <2> QED BY <2>1 DEF Page
<1>2. /\ SameArgs(p, q) /\ q.mode = p.mode /\ q.pendingMode = p.pendingMode
      /\ q.request = p.request /\ (Errs(p) => Errs(q))
      /\ q.sessionId = None /\ q.messages = <<>> /\ q.initSeen = FALSE
  BY DEF Page, SameArgs, Errs
<1>3. /\ s \in Page /\ SameSession(q, s) /\ SameArgs(q, s)
      /\ s.mode = q.mode /\ s.pendingMode = q.pendingMode /\ s.request = q.request
      /\ s.activeMode = IF q.mode = None THEN "default" ELSE q.mode
      /\ (Errs(q) => Errs(s))
  <2> HIDE DEF q
  <2> QED BY <1>1, <1>2, MirrorEffect
<1>4. r \in Page
  <2>1. Generation + 1 \in 0 .. MaxSpawn + 1
    OBVIOUS
  <2> HIDE DEF s
  <2> QED BY <1>3, <2>1 DEF Page
<1>5. /\ SameArgs(s, r) /\ r.mode = s.mode /\ r.activeMode = s.activeMode
      /\ r.sessionId = s.sessionId /\ r.messages = s.messages /\ r.initSeen = s.initSeen
      /\ r.since = Generation + 1 /\ r.saveTimer = TRUE
      /\ r.pendingMode = s.pendingMode /\ r.request = s.request /\ (Errs(s) => Errs(r))
  <2> HIDE DEF s
  <2> QED BY <1>3 DEF Page, SameArgs, Errs
<1>6. Reset(p) = r
  BY DEF Reset
<1> HIDE DEF r, s, q
<1> QED BY <1>2, <1>3, <1>4, <1>5, <1>6 DEF SameArgs, SameMode, SameSession

(* An entry of the timeline; the first init frame names the session.       *)
Entered(p, r, entry) ==
    /\ r \in Page /\ SameArgs(p, r) /\ r.messages = Append(p.messages, entry)
    /\ r.since = p.since /\ r.saveTimer = p.saveTimer
    /\ r.pendingMode = p.pendingMode /\ r.request = p.request
    /\ (Errs(p) => Errs(r))

LEMMA AdoptedEffect ==
    ASSUME NEW p \in Page, NEW f \in Told
    PROVE  /\ Entered(p, Adopted(p, f), f.session)
           /\ Adopted(p, f).initSeen = TRUE
           /\ p.initSeen = TRUE =>
                 Adopted(p, f).sessionId = p.sessionId /\ Adopted(p, f).mode = p.mode
           /\ p.initSeen = FALSE =>
                 Adopted(p, f).sessionId = f.session /\ Adopted(p, f).mode = f.mode
<1> DEFINE q == [p EXCEPT !.messages = Append(@, f.session)]
           r == [q EXCEPT !.initSeen = TRUE, !.sessionId = f.session, !.mode = f.mode]
<1>1. f.session \in Session /\ f.mode \in Mode
  BY DEF Told
<1>2. Append(p.messages, f.session) \in Seq(Entry)
  <2>1. p.messages \in Seq(Entry) /\ f.session \in Entry
    BY <1>1 DEF Page, Entry
  <2> QED BY <2>1
<1>3. q \in Page
  BY <1>2 DEF Page
<1>4. /\ SameArgs(p, q) /\ q.messages = Append(p.messages, f.session)
      /\ q.initSeen = p.initSeen /\ q.since = p.since /\ q.saveTimer = p.saveTimer
      /\ q.sessionId = p.sessionId /\ q.mode = p.mode /\ q.activeMode = p.activeMode
      /\ q.pendingMode = p.pendingMode /\ q.request = p.request /\ (Errs(p) => Errs(q))
  BY DEF Page, SameArgs, Errs
<1>5. r \in Page
  <2> HIDE DEF q
  <2> QED BY <1>1, <1>3 DEF Page
<1>6. /\ SameArgs(q, r) /\ r.messages = q.messages
      /\ r.initSeen = TRUE /\ r.since = q.since /\ r.saveTimer = q.saveTimer
      /\ r.sessionId = f.session /\ r.mode = f.mode /\ r.activeMode = q.activeMode
      /\ r.pendingMode = q.pendingMode /\ r.request = q.request /\ (Errs(q) => Errs(r))
  <2> HIDE DEF q
  <2> QED BY <1>3 DEF Page, SameArgs, Errs
<1>7. Adopted(p, f) = IF p.initSeen THEN q ELSE r
  BY DEF Adopted
<1>8. Entered(p, q, f.session) /\ Entered(p, r, f.session)
  <2> HIDE DEF r, q
  <2> QED BY <1>3, <1>4, <1>5, <1>6 DEF Entered, SameArgs
<1>9. p.initSeen \in BOOLEAN
  BY DEF Page
<1> HIDE DEF r, q
<1>10. CASE p.initSeen = TRUE
  BY <1>4, <1>7, <1>8, <1>10
<1>11. CASE p.initSeen = FALSE
  BY <1>6, <1>7, <1>8, <1>11
<1> QED BY <1>9, <1>10, <1>11

-----------------------------------------------------------------------------
(* A request: the numbers of those on the wire leave one free, ...         *)
OnWire == {k.request : k \in {k \in ToSet(toBridge \o frames) : k.kind \in {"set", "answer"}}}

LEMMA FreeRequest ==
    ASSUME TypeInv, Len(toBridge) < MaxWire
    PROVE  \E n \in Request : n \notin OnWire
<1> DEFINE w == toBridge \o frames
<1>1. toBridge \in Seq(ToChild \cup FromChild) /\ frames \in Seq(ToChild \cup FromChild)
  BY SeqMonotonic DEF TypeInv
<1>2. w \in Seq(ToChild \cup FromChild) /\ Len(w) = Len(toBridge) + Len(frames)
  BY <1>1
<1>3. Len(w) \in Nat /\ Len(w) < 2 * MaxWire + 1 /\ MaxWire \in Nat
  BY <1>1, <1>2 DEF TypeInv
<1>4. SUFFICES ASSUME Request \subseteq OnWire PROVE FALSE
  OBVIOUS
<1> DEFINE f == [n \in Request |-> CHOOSE i \in 1 .. Len(w) : w[i].request = n]
<1>5. ASSUME NEW n \in Request
      PROVE  \E i \in 1 .. Len(w) : w[i].request = n
  <2>1. PICK k \in ToSet(w) : k.request = n
    BY <1>4 DEF OnWire
  <2>2. PICK i \in DOMAIN w : w[i] = k
    BY <2>1 DEF ToSet
  <2>3. i \in 1 .. Len(w)
    BY <1>2, <2>2
  <2> QED BY <2>1, <2>2, <2>3
<1> HIDE DEF w
<1>6. ASSUME NEW n \in Request
      PROVE  f[n] \in 1 .. Len(w) /\ w[f[n]].request = n
  BY <1>5
<1>7. f \in [Request -> 1 .. Len(w)]
  BY <1>6
<1>8. /\ IsFiniteSet(Request) /\ Cardinality(Request) = 2 * MaxWire + 1
      /\ IsFiniteSet(1 .. Len(w)) /\ Cardinality(1 .. Len(w)) = Len(w)
  <2>1. 2 * MaxWire + 1 \in Int /\ 1 \in Int /\ Len(w) \in Int
    BY <1>3
  <2>2. /\ IsFiniteSet(Request)
        /\ Cardinality(Request) = IF 1 > 2 * MaxWire + 1 THEN 0 ELSE (2 * MaxWire + 1) - 1 + 1
    BY <2>1, FS_Interval DEF Request
  <2>3. /\ IsFiniteSet(1 .. Len(w))
        /\ Cardinality(1 .. Len(w)) = IF 1 > Len(w) THEN 0 ELSE Len(w) - 1 + 1
    BY <2>1, FS_Interval
  <2> QED BY <1>3, <2>2, <2>3
<1> HIDE DEF f
<1>9. PICK m \in Request, n \in Request : m # n /\ f[m] = f[n]
  BY <1>3, <1>7, <1>8, FS_PigeonHole
<1> QED BY <1>6, <1>9

(* ... which the request takes.                                            *)
LEMMA SetEffect ==
    ASSUME TypeInv, Len(toBridge) < MaxWire,
           NEW p \in Page, NEW m \in Mode, Paired(p), SetPermissionMode(p, m)
    PROVE  \/ page' = p /\ UNCHANGED toBridge
           \/ /\ p.pendingMode = None
              /\ page' \in Page /\ SameSession(p, page') /\ SameArgs(p, page')
              /\ SameMode(p, page') /\ Saves(p, page') /\ Errs(page') /\ Paired(page')
              /\ page'.pendingMode = m
              /\ page'.request \in Request \ OnWire
              /\ toBridge' = Append(toBridge, [kind |-> "set", mode |-> m,
                                               request |-> page'.request])
<1> DEFINE n == CHOOSE n \in Request \ OnWire : TRUE
           q == [p EXCEPT !.shownError = None, !.errTimer = FALSE]
           r == [q EXCEPT !.pendingMode = m, !.modeError = None, !.request = n]
<1>1. CASE m = p.activeMode \/ p.pendingMode # None
  BY <1>1 DEF SetPermissionMode
<1>2. CASE ~(m = p.activeMode \/ p.pendingMode # None)
  <2>1. n \in Request \ OnWire
    BY FreeRequest
  <2> HIDE DEF n
  <2>2. q \in Page
    BY DEF Page
  <2>3. r \in Page
    <3> HIDE DEF q
    <3> QED BY <2>1, <2>2 DEF Page
  <2>4. /\ SameSession(p, r) /\ SameArgs(p, r) /\ r.mode = p.mode /\ r.pendingMode = m
        /\ r.request = n /\ r.shownError = None /\ r.saveTimer = p.saveTimer
        /\ SaveWorthy(q) = SaveWorthy(p) /\ q.saveTimer = p.saveTimer
    BY DEF Page, SameSession, SameArgs, SaveWorthy
  <2>5. page' = Mirror(p, r) /\ toBridge' = Append(toBridge, [kind |-> "set", mode |-> m,
                                                               request |-> n])
    BY <1>2 DEF SetPermissionMode, n, OnWire
  <2> HIDE DEF q, r
  <2>6. /\ page' \in Page /\ SameSession(r, page') /\ SameArgs(r, page')
        /\ page'.mode = r.mode /\ page'.pendingMode = r.pendingMode
        /\ page'.request = r.request
        /\ page'.activeMode = IF r.mode = None THEN "default" ELSE r.mode
        /\ (Errs(r) => Errs(page'))
        /\ Saves(p, page')
    BY <2>3, <2>4, <2>5, MirrorEffect
  <2>7. Errs(page')
    BY <2>4, <2>6 DEF Errs
  <2>8. Paired(page')
    BY <2>1, <2>4, <2>6 DEF Paired, Request
  <2> QED
    BY <1>2, <2>1, <2>4, <2>5, <2>6, <2>7, <2>8 DEF SameSession, SameArgs, SameMode
<1> QED BY <1>1, <1>2

-----------------------------------------------------------------------------
(* The types.                                                              *)
LEMMA Kinds ==
    /\ \A m \in Respawned : m.kind = "respawn"
    /\ \A m \in Asked : m.kind = "set"
    /\ [kind |-> "user"] \in ToChild
    /\ \A m \in ToChild : m.kind = "respawn" => m \in Respawned
    /\ \A m \in ToChild : m.kind = "set" => m \in Asked
    /\ \A f \in FromChild : f.kind \in {"init", "message"} => f \in Told
    /\ \A f \in FromChild : f.kind = "answer" => f \in Answered
    /\ \A f \in Told : f.kind \in {"init", "message"}
    /\ \A f \in Answered : f.kind = "answer"
    /\ \A f \in FromChild : f.kind \in {"init", "message", "answer"}
BY DEF ToChild, Respawned, Asked, FromChild, Told, Answered

LEMMA HeadAndTail ==
    ASSUME NEW S, NEW q \in Seq(S), q # <<>>
    PROVE  Head(q) \in S /\ Tail(q) \in Seq(S) /\ Len(Tail(q)) = Len(q) - 1
OBVIOUS

LEMMA GenerationIs == Generation = spawned + Cardinality(Respawns(toBridge))
BY DEF Generation, Respawns

(* A message that is not a respawn leaves the children asked for.          *)
LEMMA Sent ==
    ASSUME TypeInv, NEW m \in ToChild, toBridge' = Append(toBridge, m), UNCHANGED spawned
    PROVE  toBridge' \in Seq(ToChild) /\ Generation' = Generation + HowMany(m)
<1>1. toBridge \in Seq(ToChild) /\ spawned \in Nat
  BY DEF TypeInv
<1>2. toBridge' \in Seq(ToChild)
  BY <1>1
<1>3. Generation' = spawned' + Cardinality(Respawns(toBridge'))
  BY DEF Generation, Respawns
<1>4. Cardinality(Respawns(toBridge')) = Cardinality(Respawns(toBridge)) + HowMany(m)
  BY <1>1, RespawnsAppended
<1>5. Cardinality(Respawns(toBridge)) \in Nat /\ HowMany(m) \in Nat
  BY <1>1, RespawnsFinite DEF HowMany
<1> QED BY <1>1, <1>2, <1>3, <1>4, <1>5, GenerationIs

LEMMA PayloadEffect ==
    ASSUME NEW p \in Page
    PROVE  /\ Payload(p) \in Saved
           /\ Payload(p).sessionId = p.sessionId
           /\ \A i \in DOMAIN Payload(p).messages :
                 \E j \in DOMAIN p.messages : Payload(p).messages[i] = p.messages[j]
<1> DEFINE n == Len(p.messages)
           m == 1 + IF n > MaxMessages THEN n - MaxMessages ELSE 0
           t == SubSeq(p.messages, m, n)
<1>1. p.messages \in Seq(Entry) /\ n \in Nat /\ DOMAIN p.messages = 1 .. n
  BY DEF Page
<1>2. m \in 1 .. n + 1 /\ n \in m - 1 .. n
  BY <1>1
<1>3. /\ t \in Seq(Entry) /\ Len(t) = IF m <= n THEN n - m + 1 ELSE 0
      /\ \A i \in 1 .. n - m + 1 : t[i] = p.messages[m + i - 1]
  <2> HIDE DEF m, n
  <2> QED BY <1>1, <1>2, SubSeqProperties
<1>4. ASSUME NEW i \in DOMAIN t PROVE \E j \in DOMAIN p.messages : t[i] = p.messages[j]
  <2>1. i \in 1 .. Len(t)
    <3> HIDE DEF m, n, t
    <3> QED BY <1>3
  <2>2. m \in Nat /\ n \in Nat
    BY <1>1, <1>2
  <2>3. i \in 1 .. n - m + 1 /\ m + i - 1 \in 1 .. n
    <3> HIDE DEF m, n, t
    <3> QED BY <1>2, <1>3, <2>1, <2>2
  <2> HIDE DEF m, n, t
  <2> QED BY <1>1, <1>3, <2>3
<1>5. Payload(p) = [sessionId |-> p.sessionId, messages |-> t, permissionMode |-> p.activeMode]
  BY DEF Payload
<1>6. Payload(p) \in Saved
  <2> HIDE DEF t
  <2> QED BY <1>3, <1>5 DEF Saved, Page
<1> HIDE DEF t
<1> QED BY <1>4, <1>5, <1>6

LEMMA LoadedEffect ==
    ASSUME NEW s \in Saved \cup {None}, profile \in Profiles
    PROVE  LET r == Loaded(s) IN
           /\ r \in Page /\ Paired(r) /\ Errs(r) /\ r.saveTimer = TRUE
           /\ r.open = FALSE /\ r.request = 0 /\ r.since = 0 /\ r.initSeen = FALSE
           /\ r.sessionId = IF s = None THEN None ELSE s.sessionId
           /\ r.messages = IF s = None THEN <<>> ELSE s.messages
           /\ profile.opt = None => InStep(r)
<1> DEFINE seed == Seeded(s)
           args == CurrentArgs(s)
           r == Loaded(s)
<1>1. s # None => s \in Saved /\ s.sessionId \in Session \cup {None}
                  /\ s.messages \in Seq(Entry) /\ s.permissionMode \in Mode
  BY DEF Saved
<1>2. /\ seed.sessionId \in Session \cup {None} /\ seed.messages \in Seq(Entry)
      /\ seed.mode \in Mode \cup {None}
      /\ seed.sessionId = IF s = None THEN None ELSE s.sessionId
      /\ seed.messages = IF s = None THEN <<>> ELSE s.messages
      /\ seed.mode = IF s = None THEN None ELSE s.permissionMode
  <2>1. <<>> \in Seq(Entry)
    OBVIOUS
  <2> QED BY <1>1, <2>1 DEF Seeded
<1>3. args.session \in SessionMode
  BY <1>1 DEF CurrentArgs, SessionMode
<1>4. /\ args.permissionMode \in Mode
      /\ profile.opt = None =>
            args.permissionMode = IF s = None THEN "default" ELSE s.permissionMode
  <2>1. profile.opt \in Mode \cup {None}
    OBVIOUS
  <2> QED BY <1>1, <2>1, DefaultIsMode DEF CurrentArgs
<1>5. r = [sessionId |-> seed.sessionId, initSeen |-> FALSE,
           messages |-> seed.messages, mode |-> seed.mode,
           pendingMode |-> None, modeError |-> None,
           activeMode |-> IF seed.mode # None THEN seed.mode ELSE args.permissionMode,
           shownError |-> None, errTimer |-> FALSE,
           session |-> args.session, permissionMode |-> args.permissionMode,
           request |-> 0, skip |-> <<>>, saveTimer |-> TRUE, open |-> FALSE, since |-> 0]
  BY DEF Loaded
<1> HIDE DEF seed, args, r
<1>6. r \in Page
  <2>1. (IF seed.mode # None THEN seed.mode ELSE args.permissionMode) \in Mode
    BY <1>2, <1>4
  <2>2. 0 \in 0 .. MaxSpawn + 1 /\ <<>> \in Seq(Mode)
    OBVIOUS
  <2> QED BY <1>2, <1>3, <1>4, <1>5, <2>1, <2>2 DEF Page
<1>7. profile.opt = None => InStep(r)
  <2> SUFFICES ASSUME profile.opt = None PROVE InStep(r)
    OBVIOUS
  <2>1. r.permissionMode = args.permissionMode /\ r.mode = seed.mode
    BY <1>5
  <2>2. seed.mode = None => args.permissionMode = "default"
    BY <1>1, <1>2, <1>4
  <2>3. seed.mode # None => seed.mode = args.permissionMode
    BY <1>1, <1>2, <1>4
  <2>4. r.activeMode = args.permissionMode
    BY <1>5, <2>3
  <2> QED BY <2>1, <2>2, <2>3, <2>4 DEF InStep
<1>8. Paired(r) /\ Errs(r)
  BY <1>5 DEF Paired, Errs
<1> QED BY <1>2, <1>5, <1>6, <1>7, <1>8 DEF r

-----------------------------------------------------------------------------
(* The steps, by what they do to the page and the wire.                    *)

(* A page that keeps its session, its socket and the mode shown.           *)
Touched(p, r) ==
    /\ r \in Page /\ Paired(r)
    /\ SameSession(p, r) /\ SameArgs(p, r) /\ SameMode(p, r) /\ Saves(p, r)
    /\ Errs(p) => Errs(r)

(* A page after a reset.                                                   *)
IsReset(r) ==
    /\ r.sessionId = None /\ r.messages = <<>> /\ r.initSeen = FALSE
    /\ r.since = Generation + 1 /\ r.saveTimer = TRUE

RespawnStep ==
    /\ page' \in Page /\ Paired(page') /\ page'.request = 0
    /\ page'.open = page.open /\ page'.permissionMode = page.permissionMode
    /\ SameMode(page, page') /\ (Errs(page) => Errs(page'))
    /\ \E m \in Respawned :
          m.mode = page.permissionMode /\ toBridge' = Append(toBridge, m)
    /\ Generation < MaxSpawn
    /\ hist' \in History /\ hist'.unsure = FALSE /\ hist'.told = hist.told
    /\ UNCHANGED <<frames, child, disk, profile, spawned>>
    /\ \/ /\ SameSession(page, page') /\ Saves(page, page') /\ UNCHANGED stored
          /\ hist'.strayed = hist.strayed /\ hist'.mixed = hist.mixed
       \/ /\ IsReset(page') /\ stored' = None
          /\ (hist.strayed => hist.mixed) => (hist'.strayed => hist'.mixed)

LEMMA AsksEffect ==
    ASSUME TypeInv, NEW p \in Page, Paired(p), p.open = page.open, Asks(p)
    PROVE  /\ page' \in Page /\ SameSession(p, page') /\ SameArgs(p, page')
           /\ SameMode(p, page') /\ page'.request = 0 /\ Paired(page') /\ Saves(p, page')
           /\ (Errs(p) => Errs(page'))
           /\ \E m \in Respawned :
                 m.mode = p.permissionMode /\ toBridge' = Append(toBridge, m)
           /\ Generation < MaxSpawn
           /\ hist' \in History /\ hist'.unsure = FALSE /\ hist'.told = hist.told
           /\ p.since = page.since =>
                 hist'.strayed = hist.strayed /\ hist'.mixed = hist.mixed
           /\ (hist.strayed => hist.mixed) => (hist'.strayed => hist'.mixed)
           /\ UNCHANGED <<frames, child, disk, profile, spawned>>
<1>1. /\ Respawn(p) /\ toBridge' = Append(toBridge, buildSpawnArgs(p))
      /\ NoteRespawn(p.since # page.since)
      /\ Generation < IF page.open THEN MaxSpawn ELSE MaxSpawn - 1
      /\ UNCHANGED <<frames, child, disk, profile, spawned>>
  BY DEF Asks
<1>2. /\ page' \in Page /\ SameSession(p, page') /\ SameArgs(p, page')
      /\ SameMode(p, page') /\ page'.request = 0 /\ Paired(page') /\ Saves(p, page')
      /\ (Errs(p) => Errs(page'))
  BY <1>1, RespawnEffect
<1>3. buildSpawnArgs(p) \in Respawned /\ buildSpawnArgs(p).mode = p.permissionMode
  BY DEF buildSpawnArgs, Respawned, Page
<1>4. Generation < MaxSpawn
  <2>1. Generation \in Int
    BY DEF TypeInv
  <2> QED BY <1>1, <2>1
<1>5. /\ hist' \in History /\ hist'.unsure = FALSE /\ hist'.told = hist.told
      /\ hist'.strayed = (hist.strayed /\ p.since = page.since)
      /\ hist'.mixed = (hist.mixed /\ p.since = page.since)
  BY <1>1 DEF TypeInv, History, NoteRespawn
<1>6. hist \in History
  BY DEF TypeInv
<1>7. /\ p.since = page.since => hist'.strayed = hist.strayed /\ hist'.mixed = hist.mixed
      /\ (hist.strayed => hist.mixed) => (hist'.strayed => hist'.mixed)
  BY <1>5, <1>6 DEF History
<1> QED BY <1>1, <1>2, <1>3, <1>4, <1>5, <1>7

LEMMA PagePaired == TypeInv => page \in Page /\ Paired(page)
BY DEF TypeInv, TypeOK, Paired

LEMMA RespawnSteps ==
    ASSUME TypeInv,
           \/ \E m \in {New} \cup 1 .. disk.count : ChangeSession(m)
           \/ ContinueSession \/ SetEffort
    PROVE  RespawnStep
<1>0. page \in Page /\ Paired(page)
  BY PagePaired
<1>1. ASSUME NEW m \in {New} \cup 1 .. disk.count, ChangeSession(m) PROVE RespawnStep
  <2> DEFINE s == Reset(page)
             p == [s EXCEPT !.session = m]
  <2>1. m \in SessionMode
    BY DEF TypeInv, SessionMode, Session
  <2>2. Generation \in 0 .. MaxSpawn
    BY DEF TypeInv
  <2>3. /\ s \in Page /\ SameArgs(page, s) /\ SameMode(page, s) /\ IsReset(s)
        /\ s.pendingMode = page.pendingMode /\ s.request = page.request
        /\ (Errs(page) => Errs(s))
    BY <1>0, <2>2, ResetEffect DEF IsReset
  <2> HIDE DEF s
  <2>4. p \in Page
    BY <2>1, <2>3 DEF Page
  <2>5. /\ p.open = s.open /\ p.permissionMode = s.permissionMode /\ SameMode(s, p)
        /\ p.sessionId = s.sessionId /\ p.messages = s.messages /\ p.initSeen = s.initSeen
        /\ p.since = s.since /\ p.saveTimer = s.saveTimer /\ (Errs(s) => Errs(p))
        /\ p.pendingMode = s.pendingMode /\ p.request = s.request
    BY <2>3 DEF Page, SameMode, Errs
  <2>6. Asks(p) /\ stored' = None
    BY <1>1 DEF ChangeSession, s
  <2> HIDE DEF p
  <2>7. Paired(p) /\ p.open = page.open /\ p.permissionMode = page.permissionMode
        /\ SameMode(page, p) /\ IsReset(p) /\ (Errs(page) => Errs(p))
    BY <1>0, <2>3, <2>5 DEF Paired, SameArgs, SameMode, IsReset
  <2>8. /\ page' \in Page /\ SameSession(p, page') /\ SameArgs(p, page')
        /\ SameMode(p, page') /\ page'.request = 0 /\ Paired(page') /\ Saves(p, page')
        /\ (Errs(p) => Errs(page'))
        /\ \E k \in Respawned :
              k.mode = p.permissionMode /\ toBridge' = Append(toBridge, k)
        /\ Generation < MaxSpawn
        /\ hist' \in History /\ hist'.unsure = FALSE /\ hist'.told = hist.told
        /\ (hist.strayed => hist.mixed) => (hist'.strayed => hist'.mixed)
        /\ UNCHANGED <<frames, child, disk, profile, spawned>>
    BY <2>4, <2>6, <2>7, AsksEffect
  <2>9. IsReset(page')
    BY <2>7, <2>8 DEF IsReset, SameSession, Saves
  <2>10. SameMode(page, page') /\ page'.open = page.open
         /\ page'.permissionMode = page.permissionMode
    BY <2>7, <2>8 DEF SameMode, SameArgs
  <2> QED BY <2>6, <2>7, <2>8, <2>9, <2>10 DEF RespawnStep
<1>2. ASSUME NEW p \in Page, Paired(p), p.open = page.open, SameSession(page, p),
             SameMode(page, p), p.permissionMode = page.permissionMode, Saves(page, p),
             Errs(page) => Errs(p), Asks(p), UNCHANGED stored
      PROVE  RespawnStep
  <2>1. p.since = page.since
    BY <1>2 DEF SameSession
  <2>2. /\ page' \in Page /\ SameSession(p, page') /\ SameArgs(p, page')
        /\ SameMode(p, page') /\ page'.request = 0 /\ Paired(page') /\ Saves(p, page')
        /\ (Errs(p) => Errs(page'))
        /\ \E k \in Respawned :
              k.mode = p.permissionMode /\ toBridge' = Append(toBridge, k)
        /\ Generation < MaxSpawn
        /\ hist' \in History /\ hist'.unsure = FALSE /\ hist'.told = hist.told
        /\ hist'.strayed = hist.strayed /\ hist'.mixed = hist.mixed
        /\ UNCHANGED <<frames, child, disk, profile, spawned>>
    BY <1>2, <2>1, AsksEffect
  <2>3. SameSession(page, page') /\ SameMode(page, page') /\ page'.open = page.open
        /\ page'.permissionMode = page.permissionMode
    BY <1>2, <2>2 DEF SameSession, SameMode, SameArgs
  <2>4. Saves(page, page')
    BY <1>2, <2>2 DEF Saves
  <2> QED BY <1>2, <2>2, <2>3, <2>4 DEF RespawnStep
<1>3. CASE ContinueSession
  <2> DEFINE p == [page EXCEPT !.session = Continue]
  <2>1. p \in Page
    BY <1>0 DEF Page, SessionMode
  <2>2. /\ Paired(p) /\ p.open = page.open /\ SameSession(page, p) /\ SameMode(page, p)
        /\ p.permissionMode = page.permissionMode /\ Saves(page, p) /\ (Errs(page) => Errs(p))
    BY <1>0 DEF Page, Paired, SameSession, SameMode, Saves, SaveWorthy, Errs
  <2>3. Asks(p) /\ UNCHANGED stored
    BY <1>3 DEF ContinueSession
  <2> HIDE DEF p
  <2> QED BY <1>2, <2>1, <2>2, <2>3
<1>4. CASE SetEffort
  <2>1. Asks(page) /\ UNCHANGED stored
    BY <1>4 DEF SetEffort
  <2>2. SameSession(page, page) /\ SameMode(page, page) /\ Saves(page, page)
    BY DEF SameSession, SameMode, Saves
  <2> QED BY <1>0, <1>2, <2>1, <2>2
<1> QED BY <1>1, <1>3, <1>4

(* A request for a mode, or none where there is nothing to ask for.        *)
AskStep ==
    /\ Touched(page, page')
    /\ \/ UNCHANGED toBridge /\ page'.request = page.request
                             /\ page'.pendingMode = page.pendingMode
       \/ /\ page.request = 0
          /\ page'.request \in Request \ OnWire
          /\ page'.pendingMode \in Mode
          /\ toBridge' = Append(toBridge, [kind |-> "set", mode |-> page'.pendingMode,
                                           request |-> page'.request])
    /\ UNCHANGED <<stored, frames, child, disk, profile, spawned, hist>>

MessageStep ==
    /\ page' \in Page /\ Paired(page') /\ SameArgs(page, page') /\ SameMode(page, page')
    /\ page'.messages = Append(page.messages, 0)
    /\ page'.sessionId = page.sessionId /\ page'.initSeen = page.initSeen
    /\ page'.since = page.since /\ page'.request = page.request
    /\ page'.pendingMode = page.pendingMode
    /\ Saves(page, page') /\ (Errs(page) => Errs(page'))
    /\ toBridge' = Append(toBridge, [kind |-> "user"])
    /\ UNCHANGED <<stored, frames, child, disk, profile, spawned, hist>>

OpenStep ==
    /\ ~page.open
    /\ page' \in Page /\ Paired(page') /\ page'.request = 0 /\ SameSession(page, page')
    /\ page'.permissionMode = page.permissionMode /\ SameMode(page, page')
    /\ Saves(page, page') /\ (Errs(page) => Errs(page'))
    /\ \E m \in Respawned :
          m.mode = page.permissionMode /\ toBridge' = <<m>> \o toBridge
    /\ Generation < MaxSpawn
    /\ hist' = [hist EXCEPT !.unsure = \E m \in ToSet(toBridge) : m.kind = "set"]
    /\ UNCHANGED <<stored, frames, child, disk, profile, spawned>>

(* The timers that save nothing: of an error, and of a request.            *)
TimerStep ==
    /\ Touched(page, page')
    /\ \/ UNCHANGED hist /\ page'.request = page.request /\ page'.pendingMode = page.pendingMode
       \/ page'.request = 0 /\ hist' = [hist EXCEPT !.unsure = TRUE]
    /\ UNCHANGED <<stored, toBridge, frames, child, disk, profile, spawned>>

(* A frame of the child.                                                   *)
HeardStep ==
    /\ frames # <<>> /\ Head(frames) \in Told
    /\ LET f == Head(frames) IN
       /\ page' \in Page /\ Paired(page') /\ SameArgs(page, page')
       /\ page'.messages = Append(page.messages, f.session)
       /\ page'.since = page.since
       /\ page'.request = page.request /\ page'.pendingMode = page.pendingMode
       /\ page'.initSeen = (page.initSeen \/ f.kind = "init")
       /\ page'.sessionId = IF f.kind = "init" /\ ~page.initSeen THEN f.session
                            ELSE page.sessionId
       /\ \/ SameMode(page, page') /\ (page.initSeen \/ f.kind = "message")
          \/ page'.mode = f.mode /\ page'.activeMode = f.mode
             /\ ~page.initSeen /\ f.kind = "init"
       /\ Saves(page, page') /\ (Errs(page) => Errs(page'))
       /\ NoteFrame(f)

AnswerStep ==
    /\ frames # <<>> /\ Head(frames) \in Answered
    /\ LET f == Head(frames) IN
       \/ f.request # page.request /\ UNCHANGED <<page, hist>>
       \/ /\ f.request = page.request /\ f.ok /\ page.pendingMode \in Mode
          /\ page' \in Page /\ Paired(page') /\ SameSession(page, page')
          /\ page'.open = page.open /\ InStep(page')
          /\ page'.permissionMode = page.pendingMode /\ page'.request = 0
          /\ Saves(page, page') /\ (Errs(page) => Errs(page'))
          /\ NoteGrant
       \/ /\ f.request = page.request /\ ~f.ok
          /\ Touched(page, page') /\ page'.request = 0
          /\ UNCHANGED hist

ReceiveStep ==
    /\ HeardStep \/ AnswerStep
    /\ frames' = Tail(frames)
    /\ UNCHANGED <<stored, toBridge, child, disk, profile, spawned>>

LEMMA AskSteps ==
    ASSUME TypeInv,
           \/ \E m \in UserModes : UserSetsMode(m)
           \/ CyclePermissionMode \/ Skip
    PROVE  AskStep
<1>0. page \in Page /\ Paired(page)
  BY PagePaired
<1>1. ASSUME NEW p \in Page, NEW m \in Mode, Touched(page, p), p.request = page.request,
             p.pendingMode = page.pendingMode,
             Len(toBridge) < MaxWire, SetPermissionMode(p, m), SameBeyondPage
      PROVE  AskStep
  <2>1. UNCHANGED <<stored, frames, child, disk, profile, spawned, hist>>
    BY <1>1 DEF SameBeyondPage
  <2>2. CASE page' = p /\ UNCHANGED toBridge
    BY <1>1, <2>1, <2>2 DEF AskStep
  <2>3. CASE /\ p.pendingMode = None
             /\ page' \in Page /\ SameSession(p, page') /\ SameArgs(p, page')
             /\ SameMode(p, page') /\ Saves(p, page') /\ Errs(page') /\ Paired(page')
             /\ page'.pendingMode = m
             /\ page'.request \in Request \ OnWire
             /\ toBridge' = Append(toBridge, [kind |-> "set", mode |-> m,
                                              request |-> page'.request])
    <3>1. SameSession(page, page') /\ SameArgs(page, page') /\ SameMode(page, page')
      BY <1>1, <2>3 DEF Touched, SameSession, SameArgs, SameMode
    <3>2. Saves(page, page')
      BY <1>1, <2>3 DEF Touched, Saves
    <3>3. page.request = 0
      BY <1>0, <1>1, <2>3 DEF Paired
    <3> QED BY <2>1, <2>3, <3>1, <3>2, <3>3 DEF AskStep, Touched
  <2> QED BY <1>1, <2>2, <2>3, SetEffect DEF Touched
<1>2. Touched(page, page)
  BY <1>0 DEF Touched, SameSession, SameArgs, SameMode, Saves
<1>3. ASSUME NEW m \in UserModes, UserSetsMode(m) PROVE AskStep
  <2>1. m \in Mode
    OBVIOUS
  <2> QED BY <1>0, <1>1, <1>2, <1>3, <2>1 DEF UserSetsMode
<1>4. CASE CyclePermissionMode
  <2>1. nextCycleMode(page.activeMode) \in Mode
    BY NextModeType
  <2> QED BY <1>0, <1>1, <1>2, <1>4, <2>1 DEF CyclePermissionMode
<1>5. CASE Skip
  <2> DEFINE p == [page EXCEPT !.skip = Tail(@)]
  <2>1. page.skip \in Seq(Mode) /\ page.skip # <<>>
    BY <1>0, <1>5 DEF Page, Skip
  <2>2. Head(page.skip) \in Mode /\ Tail(page.skip) \in Seq(Mode)
    BY <2>1, HeadAndTail
  <2>3. p \in Page
    BY <1>0, <2>2 DEF Page
  <2>4. Touched(page, p) /\ p.request = page.request /\ p.pendingMode = page.pendingMode
    BY <1>0, <2>3 DEF Page, Touched, Paired, SameSession, SameArgs, SameMode, Saves,
                      SaveWorthy, Errs
  <2>5. Len(toBridge) < MaxWire /\ SetPermissionMode(p, Head(page.skip)) /\ SameBeyondPage
    BY <1>5 DEF Skip
  <2> HIDE DEF p
  <2> QED BY <1>1, <2>2, <2>3, <2>4, <2>5
<1> QED BY <1>3, <1>4, <1>5

LEMMA MessageSteps == ASSUME TypeInv, SendMessage PROVE MessageStep
<1>0. page \in Page /\ Paired(page)
  BY PagePaired
<1> DEFINE q == [page EXCEPT !.messages = Append(@, 0)]
<1>1. Append(page.messages, 0) \in Seq(Entry)
  <2>1. page.messages \in Seq(Entry) /\ 0 \in Entry
    BY <1>0 DEF Page, Entry
  <2> QED BY <2>1
<1>2. q \in Page
  BY <1>0, <1>1 DEF Page
<1>3. /\ SameArgs(page, q) /\ q.mode = page.mode /\ q.request = page.request
      /\ q.messages = Append(page.messages, 0)
      /\ q.sessionId = page.sessionId /\ q.initSeen = page.initSeen /\ q.since = page.since
      /\ q.pendingMode = page.pendingMode /\ q.saveTimer = page.saveTimer
      /\ (Errs(page) => Errs(q))
  BY <1>0 DEF Page, SameArgs, Errs
<1>4. /\ page' = Mirror(page, q) /\ toBridge' = Append(toBridge, [kind |-> "user"])
      /\ UNCHANGED <<stored, frames, child, disk, profile, spawned, hist>>
  BY DEF SendMessage, SameBeyondPage
<1> HIDE DEF q
<1>5. /\ page' \in Page /\ SameSession(q, page') /\ SameArgs(q, page')
      /\ page'.mode = q.mode /\ page'.pendingMode = q.pendingMode /\ page'.request = q.request
      /\ page'.activeMode = IF q.mode = None THEN "default" ELSE q.mode
      /\ (Errs(q) => Errs(page'))
      /\ Saves(page, page')
  BY <1>0, <1>2, <1>3, <1>4, MirrorEffect
<1> QED BY <1>0, <1>3, <1>4, <1>5 DEF MessageStep, SameSession, SameArgs, SameMode, Paired

LEMMA OpenSteps == ASSUME TypeInv, Open PROVE OpenStep
<1>0. page \in Page /\ Paired(page)
  BY PagePaired
<1> DEFINE p == [page EXCEPT !.open = TRUE]
<1>1. p \in Page
  BY <1>0 DEF Page
<1>2. /\ Paired(p) /\ SameSession(page, p) /\ SameMode(page, p) /\ SaveWorthy(p) = SaveWorthy(page)
      /\ p.permissionMode = page.permissionMode /\ p.saveTimer = page.saveTimer
      /\ (Errs(page) => Errs(p))
  BY <1>0 DEF Page, Paired, SameSession, SameMode, SaveWorthy, Errs
<1>3. /\ Respawn(p) /\ toBridge' = <<buildSpawnArgs(page)>> \o toBridge /\ ~page.open
      /\ Generation < MaxSpawn
      /\ hist' = [hist EXCEPT !.unsure = \E m \in ToSet(toBridge) : m.kind = "set"]
      /\ UNCHANGED <<stored, frames, child, disk, profile, spawned>>
  BY DEF Open
<1>4. buildSpawnArgs(page) \in Respawned /\ buildSpawnArgs(page).mode = page.permissionMode
  BY <1>0 DEF buildSpawnArgs, Respawned, Page
<1> HIDE DEF p
<1>5. /\ page' \in Page /\ SameSession(p, page') /\ SameArgs(p, page') /\ SameMode(p, page')
      /\ page'.request = 0 /\ Paired(page') /\ Saves(p, page')
      /\ (Errs(p) => Errs(page'))
  BY <1>1, <1>2, <1>3, RespawnEffect
<1>6. SameSession(page, page') /\ SameMode(page, page') /\ Saves(page, page')
  BY <1>2, <1>5 DEF SameSession, SameMode, Saves
<1> QED BY <1>2, <1>3, <1>4, <1>5, <1>6 DEF OpenStep, SameArgs

LEMMA TimerSteps == ASSUME TypeInv, ErrorCleared \/ IntentTimeout PROVE TimerStep
<1>0. page \in Page /\ Paired(page)
  BY PagePaired
<1>1. CASE ErrorCleared
  <2> DEFINE p == [page EXCEPT !.shownError = None, !.errTimer = FALSE]
  <2>1. p \in Page
    BY <1>0 DEF Page
  <2>2. Touched(page, p) /\ p.request = page.request /\ p.pendingMode = page.pendingMode
    BY <1>0, <2>1 DEF Page, Touched, Paired, SameSession, SameArgs, SameMode, Saves,
                      SaveWorthy, Errs
  <2>3. page' = p /\ UNCHANGED <<stored, toBridge, frames, child, disk, profile, spawned, hist>>
    BY <1>1 DEF ErrorCleared, SameBeyondPage
  <2> QED BY <2>2, <2>3 DEF TimerStep
<1>2. CASE IntentTimeout
  <2>1. /\ page' = Refused(page) /\ hist' = [hist EXCEPT !.unsure = TRUE]
        /\ UNCHANGED <<stored, toBridge, frames, child, disk, profile, spawned>>
    BY <1>2 DEF IntentTimeout
  <2>2. Touched(page, page') /\ page'.request = 0
    BY <1>0, <2>1, RefusedEffect DEF Touched, SameMode
  <2> QED BY <2>1, <2>2 DEF TimerStep
<1> QED BY <1>1, <1>2

LEMMA HeardSteps ==
    ASSUME TypeInv, Receive, Head(frames).kind \in {"init", "message"}
    PROVE  HeardStep
<1>0. page \in Page /\ Paired(page)
  BY PagePaired
<1> DEFINE f == Head(frames)
<1>1. frames # <<>> /\ f \in Told
  <2>1. frames # <<>> /\ frames \in Seq(FromChild)
    BY DEF Receive, TypeInv
  <2> QED BY <2>1, HeadAndTail, Kinds
<1>2. f.session \in Session /\ f.mode \in Mode /\ f.kind \in {"init", "message"}
  BY <1>1 DEF Told
<1> DEFINE Same(q) ==
      /\ Entered(page, q, f.session)
      /\ q.initSeen = (page.initSeen \/ f.kind = "init")
      /\ q.sessionId = IF f.kind = "init" /\ ~page.initSeen THEN f.session ELSE page.sessionId
      /\ q.mode = IF f.kind = "init" /\ ~page.initSeen THEN f.mode ELSE page.mode
<1>3. \E q : page' = Mirror(page, q) /\ NoteFrame(f) /\ Same(q)
  <2>1. CASE f.kind = "init"
    <3>1. page' = Mirror(page, Adopted(page, f)) /\ NoteFrame(f)
      BY <2>1 DEF Receive
    <3>2. Same(Adopted(page, f))
      <4> DEFINE r == Adopted(page, f)
      <4>1. page.initSeen \in BOOLEAN
        BY <1>0 DEF Page
      <4>2. /\ Entered(page, r, f.session) /\ r.initSeen = TRUE
            /\ page.initSeen = TRUE => r.sessionId = page.sessionId /\ r.mode = page.mode
            /\ page.initSeen = FALSE => r.sessionId = f.session /\ r.mode = f.mode
        BY <1>0, <1>1, AdoptedEffect, ZenonT(60)
      <4> SUFFICES Same(r)
        OBVIOUS
      <4> HIDE DEF r, f
      <4>3. CASE page.initSeen = TRUE
        BY <2>1, <4>2, <4>3
      <4>4. CASE page.initSeen = FALSE
        BY <2>1, <4>2, <4>4
      <4> QED BY <4>1, <4>3, <4>4
    <3> QED BY <3>1, <3>2
  <2>2. CASE f.kind = "message"
    <3> DEFINE q == [page EXCEPT !.messages = Append(@, f.session)]
    <3>1. page' = Mirror(page, q) /\ NoteFrame(f)
      BY <2>2 DEF Receive
    <3>2. Append(page.messages, f.session) \in Seq(Entry)
      <4>1. page.messages \in Seq(Entry) /\ f.session \in Entry
        BY <1>0, <1>2 DEF Page, Entry
      <4> QED BY <4>1
    <3>3. q \in Page
      BY <1>0, <3>2 DEF Page
    <3>4. Same(q)
      BY <1>0, <2>2, <3>3 DEF Page, SameArgs, Errs, Entered
    <3> QED BY <3>1, <3>4
  <2> QED BY <1>2, <2>1, <2>2
<1>4. PICK q : page' = Mirror(page, q) /\ NoteFrame(f) /\ Same(q)
  BY <1>3
<1>5. /\ page' \in Page /\ SameSession(q, page') /\ SameArgs(q, page')
      /\ page'.mode = q.mode /\ page'.pendingMode = q.pendingMode /\ page'.request = q.request
      /\ page'.activeMode = IF q.mode = None THEN "default" ELSE q.mode
      /\ (Errs(q) => Errs(page'))
      /\ Saves(page, page')
  BY <1>0, <1>4, MirrorEffect DEF Entered
<1>6. Paired(page') /\ SameArgs(page, page')
  BY <1>0, <1>4, <1>5 DEF Paired, SameArgs, Entered
<1>7. \/ SameMode(page, page') /\ (page.initSeen \/ f.kind = "message")
      \/ page'.mode = f.mode /\ page'.activeMode = f.mode /\ ~page.initSeen /\ f.kind = "init"
  <2>1. CASE f.kind = "init" /\ ~page.initSeen
    BY <1>2, <1>4, <1>5, <2>1
  <2>2. CASE ~(f.kind = "init" /\ ~page.initSeen)
    BY <1>2, <1>4, <1>5, <2>2 DEF SameMode
  <2> QED BY <2>1, <2>2
<1> QED BY <1>1, <1>4, <1>5, <1>6, <1>7 DEF HeardStep, SameSession, Entered

LEMMA AnswerSteps ==
    ASSUME TypeInv, Receive, Head(frames).kind = "answer"
    PROVE  AnswerStep
<1>0. page \in Page /\ Paired(page)
  BY PagePaired
<1> DEFINE f == Head(frames)
<1>1. frames # <<>> /\ f \in Answered
  <2>1. frames # <<>> /\ frames \in Seq(FromChild)
    BY DEF Receive, TypeInv
  <2> QED BY <2>1, HeadAndTail, Kinds
<1>2. f.request \in Request /\ f.ok \in BOOLEAN
  BY <1>1 DEF Answered
<1>3. CASE f.request # page.request
  <2>1. UNCHANGED <<page, hist>>
    BY <1>3 DEF Receive
  <2> QED BY <1>1, <1>3, <2>1 DEF AnswerStep
<1>4. CASE f.request = page.request
  <2>1. page' = (IF f.ok THEN Granted(page) ELSE Refused(page))
        /\ IF f.ok THEN NoteGrant ELSE UNCHANGED hist
    BY <1>4 DEF Receive
  <2>2. page.pendingMode # None
    BY <1>0, <1>2, <1>4 DEF Paired, Request
  <2>3. CASE f.ok
    BY <1>0, <1>1, <1>4, <2>1, <2>2, <2>3, GrantedEffect DEF AnswerStep, Page
  <2>4. CASE ~f.ok
    BY <1>0, <1>1, <1>4, <2>1, <2>4, RefusedEffect DEF AnswerStep, Touched, SameMode
  <2> QED BY <2>3, <2>4
<1> QED BY <1>3, <1>4

LEMMA ReceiveSteps == ASSUME TypeInv, Receive PROVE ReceiveStep
<1>1. /\ frames # <<>> /\ frames' = Tail(frames)
      /\ UNCHANGED <<stored, toBridge, child, disk, profile, spawned>>
  BY DEF Receive
<1>2. Head(frames).kind \in {"init", "message", "answer"}
  <2>1. frames \in Seq(FromChild)
    BY DEF TypeInv
  <2> QED BY <1>1, <2>1, HeadAndTail, Kinds
<1>3. HeardStep \/ AnswerStep
  BY <1>2, HeardSteps, AnswerSteps
<1> QED BY <1>1, <1>3 DEF ReceiveStep

-----------------------------------------------------------------------------
(* The bridge takes a message: a respawn makes a child, ...                *)
SpawnStep ==
    /\ toBridge # <<>> /\ toBridge' = Tail(toBridge) /\ Head(toBridge) \in Respawned
    /\ child' \in Child /\ child'.gen = spawned + 1 /\ child'.mode = Head(toBridge).mode
    /\ child'.announced = FALSE
    /\ disk' \in [count : 0 .. MaxSession, recent : 0 .. MaxSession]
    /\ spawned' = spawned + 1
    /\ UNCHANGED <<page, stored, frames, profile, hist>>

(* ... a message is answered, ...                                          *)
SpeakStep ==
    /\ toBridge # <<>> /\ toBridge' = Tail(toBridge) /\ Head(toBridge).kind = "user"
    /\ child \in Child /\ child # None /\ Len(frames) < MaxWire
    /\ \E f \in Told :
          /\ f.kind = IF child.announced THEN "message" ELSE "init"
          /\ f.gen = child.gen /\ f.session = child.session
          /\ frames' = Append(frames, f)
    /\ child' = [child EXCEPT !.announced = TRUE]
    /\ disk' = [disk EXCEPT !.recent = child.session]
    /\ UNCHANGED <<page, stored, profile, spawned, hist>>

(* ... and a request for a mode is decided.                                *)
DecideStep ==
    /\ toBridge # <<>> /\ toBridge' = Tail(toBridge) /\ Head(toBridge) \in Asked
    /\ child \in Child /\ child # None /\ Len(frames) < MaxWire
    /\ \E f \in Answered :
          /\ f.request = Head(toBridge).request
          /\ frames' = Append(frames, f)
          /\ child' = IF f.ok THEN [child EXCEPT !.mode = Head(toBridge).mode] ELSE child
    /\ UNCHANGED <<page, stored, disk, profile, spawned, hist>>

LEMMA BridgeSteps ==
    ASSUME TypeInv, BridgeTakes
    PROVE  SpawnStep \/ SpeakStep \/ DecideStep
<1> DEFINE m == Head(toBridge)
<1>1. /\ toBridge # <<>> /\ toBridge' = Tail(toBridge) /\ Len(frames) < MaxWire
      /\ UNCHANGED <<page, stored, profile, hist>>
  BY DEF BridgeTakes
<1>2. m \in ToChild
  BY <1>1, HeadAndTail DEF TypeInv
<1>3. CASE m.kind = "respawn" /\ Spawned(m)
  <2> DEFINE new == m.session = New \/ (m.session = Continue /\ disk.recent = 0)
             s   == IF new THEN disk.count + 1
                    ELSE IF m.session = Continue THEN disk.recent ELSE m.session
  <2>1. m \in Respawned /\ m.session \in SessionMode /\ m.mode \in Mode
    BY <1>2, <1>3, Kinds DEF Respawned
  <2>2. disk.count \in 0 .. MaxSession /\ disk.recent \in 0 .. MaxSession
    BY DEF TypeInv
  <2>3. /\ s <= MaxSession /\ spawned' = spawned + 1 /\ UNCHANGED frames
        /\ child' = [gen |-> spawned + 1, session |-> s, mode |-> m.mode, announced |-> FALSE]
        /\ disk' = IF new THEN [disk EXCEPT !.count = s] ELSE disk
    BY <1>3 DEF Spawned
  <2>4. s \in Session
    <3>1. CASE new
      BY <2>2, <2>3, <3>1 DEF Session
    <3>2. CASE ~new /\ m.session = Continue
      BY <2>2, <3>2 DEF Session
    <3>3. CASE ~new /\ m.session # Continue
      BY <2>1, <3>3 DEF SessionMode
    <3> QED BY <3>1, <3>2, <3>3
  <2>5. disk' \in [count : 0 .. MaxSession, recent : 0 .. MaxSession]
    <3>1. s \in 0 .. MaxSession
      BY <2>4 DEF Session
    <3> HIDE DEF s
    <3> QED BY <2>2, <2>3, <3>1 DEF TypeInv
  <2>6. spawned + 1 \in Nat
    BY DEF TypeInv
  <2> HIDE DEF s
  <2>7. child' \in Child
    BY <2>1, <2>3, <2>4, <2>6 DEF Child
  <2> QED BY <1>1, <2>1, <2>3, <2>5, <2>7 DEF SpawnStep
<1>4. CASE m.kind = "user" /\ child # None /\ Answers
  <2> DEFINE f == [kind |-> IF child.announced THEN "message" ELSE "init",
                   gen |-> child.gen, session |-> child.session, mode |-> child.mode]
  <2>1. child \in Child
    BY <1>4 DEF TypeInv
  <2>2. f \in Told
    BY <2>1 DEF Child, Told
  <2>3. /\ frames' = Append(frames, f) /\ child' = [child EXCEPT !.announced = TRUE]
        /\ disk' = [disk EXCEPT !.recent = child.session] /\ UNCHANGED spawned
    BY <1>4 DEF Answers
  <2>4. /\ f.kind = IF child.announced THEN "message" ELSE "init"
        /\ f.gen = child.gen /\ f.session = child.session
    OBVIOUS
  <2> HIDE DEF f
  <2> QED BY <1>1, <1>4, <2>1, <2>2, <2>3, <2>4 DEF SpeakStep
<1>5. CASE m.kind = "set" /\ child # None /\ Decides(m)
  <2> DEFINE f == [kind |-> "answer", request |-> m.request, ok |-> m.mode \notin Forbidden]
  <2>1. m \in Asked /\ m.request \in Request
    BY <1>2, <1>5, Kinds DEF Asked
  <2>2. f \in Answered /\ f.request = m.request /\ f.ok = (m.mode \notin Forbidden)
    BY <2>1 DEF Answered
  <2>3. /\ frames' = Append(frames, f)
        /\ child' = IF m.mode \notin Forbidden THEN [child EXCEPT !.mode = m.mode] ELSE child
        /\ UNCHANGED <<disk, spawned>>
    BY <1>5 DEF Decides
  <2>4. child \in Child
    BY <1>5 DEF TypeInv
  <2> HIDE DEF f
  <2> QED BY <1>1, <1>5, <2>1, <2>2, <2>3, <2>4 DEF DecideStep
<1> QED BY <1>3, <1>4, <1>5 DEF BridgeTakes

ReloadStep ==
    /\ page' \in Page /\ Paired(page') /\ Errs(page') /\ page'.saveTimer = TRUE
    /\ page'.open = FALSE /\ page'.request = 0 /\ page'.since = 0 /\ page'.initSeen = FALSE
    /\ page'.sessionId = IF stored = None THEN None ELSE stored.sessionId
    /\ page'.messages = IF stored = None THEN <<>> ELSE stored.messages
    /\ profile.opt = None => InStep(page')
    /\ toBridge' = <<>> /\ frames' = <<>> /\ child' = None /\ spawned < MaxSpawn
    /\ hist' = [hist EXCEPT !.told = profile.opt = None, !.unsure = FALSE, !.strayed = FALSE]
    /\ UNCHANGED <<stored, disk, profile, spawned>>

FlushStep ==
    /\ stored' = Payload(page) /\ stored' \in Saved
    /\ page' \in Page /\ Paired(page') /\ (Errs(page) => Errs(page'))
    /\ SameSession(page, page') /\ SameArgs(page, page') /\ SameMode(page, page')
    /\ page'.request = page.request /\ page'.pendingMode = page.pendingMode
    /\ SaveWorthy(page') = SaveWorthy(page)
    /\ UNCHANGED <<toBridge, frames, child, disk, profile, spawned, hist>>

(* Every step is one of these.                                             *)
Step ==
    \/ RespawnStep \/ AskStep \/ MessageStep \/ OpenStep \/ ReloadStep \/ FlushStep
    \/ TimerStep \/ ReceiveStep \/ SpawnStep \/ SpeakStep \/ DecideStep
    \/ UNCHANGED vars

LEMMA ReloadSteps == ASSUME TypeInv, Reload PROVE ReloadStep
<1>1. stored \in Saved \cup {None} /\ profile \in Profiles
  BY DEF TypeInv, TypeOK
<1> QED BY <1>1, LoadedEffect DEF Reload, ReloadStep

LEMMA FlushSteps == ASSUME TypeInv, Flush PROVE FlushStep
<1>0. page \in Page /\ Paired(page)
  BY PagePaired
<1>1. /\ page' = [page EXCEPT !.saveTimer = FALSE] /\ stored' = Payload(page)
      /\ UNCHANGED <<toBridge, frames, child, disk, profile, spawned, hist>>
  BY DEF Flush
<1>2. page' \in Page
  BY <1>0, <1>1 DEF Page
<1>3. /\ Paired(page') /\ (Errs(page) => Errs(page')) /\ SaveWorthy(page') = SaveWorthy(page)
      /\ SameSession(page, page') /\ SameArgs(page, page') /\ SameMode(page, page')
      /\ page'.request = page.request /\ page'.pendingMode = page.pendingMode
  BY <1>0, <1>1 DEF Page, Paired, Errs, SaveWorthy, SameSession, SameArgs, SameMode
<1>4. stored' \in Saved
  BY <1>0, <1>1, PayloadEffect
<1> QED BY <1>1, <1>2, <1>3, <1>4 DEF FlushStep

LEMMA StepCases == ASSUME TypeInv, [Next]_vars PROVE Step
<1>1. CASE UserCall
  BY <1>1, RespawnSteps, AskSteps, MessageSteps DEF UserCall, Step
<1>2. CASE Timers
  BY <1>2, AskSteps, TimerSteps, FlushSteps DEF Timers, Step
<1>3. CASE Open \/ Reload
  BY <1>3, OpenSteps, ReloadSteps DEF Step
<1>4. CASE Receive
  BY <1>4, ReceiveSteps DEF Step
<1>5. CASE BridgeTakes
  BY <1>5, BridgeSteps DEF Step
<1>6. CASE UNCHANGED vars
  BY <1>6 DEF Step
<1> QED BY <1>1, <1>2, <1>3, <1>4, <1>5, <1>6 DEF Next

-----------------------------------------------------------------------------
LEMMA TypeInit == Init => TypeInv
<1> SUFFICES ASSUME Init PROVE TypeInv
  OBVIOUS
<1>1. stored \in Saved \cup {None}
  <2>1. 1 \in Session /\ 1 \in Entry
    BY DEF Session, Entry
  <2>2. <<1>> \in Seq(Entry)
    BY <2>1
  <2>3. [sessionId |-> 1, messages |-> <<1>>, permissionMode |-> "default"] \in Saved
    BY <2>1, <2>2, DefaultIsMode DEF Saved
  <2> QED BY <2>3 DEF Init
<1>2. page \in Page /\ Paired(page)
  BY <1>1, LoadedEffect DEF Init
<1>3. toBridge = <<>> /\ frames = <<>> /\ <<>> \in Seq(ToChild) /\ <<>> \in Seq(FromChild)
  BY DEF Init
<1>4. Generation = 0
  <2>1. Respawns(toBridge) = {}
    BY <1>3 DEF Respawns
  <2>2. Cardinality(Respawns(toBridge)) = 0
    BY <2>1, FS_EmptySet
  <2> QED BY <2>2, GenerationIs DEF Init
<1>5. disk \in [count : 0 .. MaxSession, recent : 0 .. MaxSession]
  BY DEF Init
<1>6. hist \in History
  BY DEF Init, History
<1> QED BY <1>1, <1>2, <1>3, <1>4, <1>5, <1>6 DEF TypeInv, TypeOK, Init, Paired

(* One message was taken: if a respawn, a child was made.                  *)
LEMMA Taken ==
    ASSUME TypeInv, toBridge # <<>>, toBridge' = Tail(toBridge),
           spawned' = spawned + HowMany(Head(toBridge))
    PROVE  toBridge' \in Seq(ToChild) /\ Generation' = Generation /\ spawned' \in Nat
           /\ Generation' >= spawned'
<1>1. toBridge \in Seq(ToChild) /\ spawned \in Nat
  BY DEF TypeInv
<1>2. toBridge' \in Seq(ToChild)
  BY <1>1
<1>3. Cardinality(Respawns(toBridge)) = Cardinality(Respawns(toBridge')) + HowMany(Head(toBridge))
  BY <1>1, RespawnsTaken
<1>4. Cardinality(Respawns(toBridge')) \in Nat /\ HowMany(Head(toBridge)) \in Nat
  BY <1>2, RespawnsFinite DEF HowMany
<1>5. Generation' = spawned' + Cardinality(Respawns(toBridge'))
  BY DEF Generation, Respawns
<1> QED BY <1>1, <1>2, <1>3, <1>4, <1>5, GenerationIs

LEMMA SetMessage ==
    ASSUME NEW m \in Mode, NEW n \in Request
    PROVE  /\ [kind |-> "set", mode |-> m, request |-> n] \in ToChild
           /\ HowMany([kind |-> "set", mode |-> m, request |-> n]) = 0
           /\ HowMany([kind |-> "user"]) = 0
BY DEF ToChild, Asked, HowMany

(* What concerns the wire when nothing is sent or taken, ...               *)
LEMMA SameWire ==
    ASSUME TypeInv, UNCHANGED <<toBridge, spawned>>
    PROVE  /\ toBridge' \in Seq(ToChild) /\ spawned' \in Nat
           /\ Generation' \in spawned' .. MaxSpawn
BY DEF TypeInv, Generation

(* ... or a message that is not a respawn is.                              *)
LEMMA WireSent ==
    ASSUME TypeInv, NEW m \in ToChild, HowMany(m) = 0,
           toBridge' = Append(toBridge, m), UNCHANGED spawned
    PROVE  /\ toBridge' \in Seq(ToChild) /\ spawned' \in Nat
           /\ Generation' \in spawned' .. MaxSpawn
BY Sent DEF TypeInv

LEMMA TypeKept ==
    ASSUME TypeInv, Step PROVE TypeInv'
<1> USE DEF TypeInv, TypeOK, Paired
<1>1. CASE RespawnStep
  <2>1. PICK m \in Respawned : toBridge' = Append(toBridge, m)
    BY <1>1 DEF RespawnStep
  <2>2. m \in ToChild /\ HowMany(m) = 1
    BY Kinds DEF ToChild, HowMany
  <2>3. toBridge' \in Seq(ToChild) /\ Generation' = Generation + 1
    BY <1>1, <2>1, <2>2, Sent DEF RespawnStep
  <2>4. Generation' \in spawned' .. MaxSpawn
    BY <1>1, <2>3 DEF RespawnStep
  <2>5. stored' \in Saved \cup {None}
    BY <1>1 DEF RespawnStep
  <2> QED BY <1>1, <2>3, <2>4, <2>5 DEF RespawnStep
<1>2. CASE AskStep
  <2>1. /\ page' \in Page /\ Paired(page')
        /\ UNCHANGED <<stored, frames, child, disk, profile, spawned, hist>>
    BY <1>2 DEF AskStep, Touched
  <2>2. /\ toBridge' \in Seq(ToChild) /\ spawned' \in Nat
        /\ Generation' \in spawned' .. MaxSpawn
    <3>1. CASE UNCHANGED toBridge
      BY <2>1, <3>1, SameWire
    <3>2. CASE /\ page'.request \in Request \ OnWire /\ page'.pendingMode \in Mode
               /\ toBridge' = Append(toBridge, [kind |-> "set", mode |-> page'.pendingMode,
                                                request |-> page'.request])
      BY <2>1, <3>2, SetMessage, WireSent
    <3> QED BY <1>2, <3>1, <3>2 DEF AskStep
  <2> QED BY <2>1, <2>2
<1>3. CASE MessageStep
  <2>1. /\ toBridge' \in Seq(ToChild) /\ spawned' \in Nat
        /\ Generation' \in spawned' .. MaxSpawn
    <3>1. [kind |-> "user"] \in ToChild /\ HowMany([kind |-> "user"]) = 0
      BY Kinds DEF HowMany
    <3> QED BY <1>3, <3>1, WireSent DEF MessageStep
  <2> QED BY <1>3, <2>1 DEF MessageStep
<1>4. CASE OpenStep
  <2>1. PICK m \in Respawned : toBridge' = <<m>> \o toBridge
    BY <1>4 DEF OpenStep
  <2>2. m \in ToChild /\ HowMany(m) = 1 /\ <<m>> \in Seq(ToChild)
    BY Kinds DEF ToChild, HowMany
  <2>3. toBridge' \in Seq(ToChild)
    BY <2>1, <2>2
  <2>4. Cardinality(Respawns(toBridge')) = Cardinality(Respawns(toBridge)) + 1
    BY <2>1, <2>2, RespawnsPrepended
  <2>5. Generation' = spawned' + Cardinality(Respawns(toBridge'))
    BY DEF Generation, Respawns
  <2>6. Cardinality(Respawns(toBridge)) \in Nat
    BY RespawnsFinite
  <2>7. spawned' = spawned /\ Generation < MaxSpawn
    BY <1>4 DEF OpenStep
  <2>8. Generation' \in spawned' .. MaxSpawn
    BY <2>4, <2>5, <2>6, <2>7, GenerationIs, SMTT(30)
  <2>9. hist' \in History
    BY <1>4 DEF OpenStep, History
  <2> QED BY <1>4, <2>3, <2>8, <2>9 DEF OpenStep
<1>5. CASE ReloadStep
  <2>1. toBridge' = <<>> /\ <<>> \in Seq(ToChild) /\ frames' = <<>> /\ <<>> \in Seq(FromChild)
    BY <1>5 DEF ReloadStep
  <2>2. Respawns(<<>>) = {} /\ Cardinality({}) = 0
    BY FS_EmptySet DEF Respawns
  <2>3. Generation' = spawned' + Cardinality(Respawns(toBridge'))
    BY DEF Generation, Respawns
  <2>4. Generation' \in spawned' .. MaxSpawn
    <3>1. Cardinality(Respawns(toBridge')) = 0
      BY <2>1, <2>2, Zenon
    <3>2. spawned' = spawned /\ spawned < MaxSpawn
      BY <1>5 DEF ReloadStep
    <3> QED BY <2>3, <3>1, <3>2
  <2>5. hist' \in History
    BY <1>5 DEF ReloadStep, History
  <2> QED BY <1>5, <2>1, <2>4, <2>5 DEF ReloadStep
<1>6. CASE FlushStep
  BY <1>6, SameWire DEF FlushStep
<1>7. CASE TimerStep
  <2>1. hist' \in History
    BY <1>7 DEF TimerStep, History
  <2> QED BY <1>7, <2>1, SameWire DEF TimerStep, Touched
<1>8. CASE ReceiveStep
  <2>1. frames # <<>> /\ frames' = Tail(frames)
    BY <1>8 DEF ReceiveStep, HeardStep, AnswerStep
  <2>2. frames' \in Seq(FromChild) /\ Len(frames') <= MaxWire
    BY <2>1, HeadAndTail
  <2>3. page' \in Page /\ Paired(page')
    BY <1>8, PagePaired DEF ReceiveStep, HeardStep, AnswerStep, Touched
  <2>4. hist' \in History
    <3>1. ASSUME NEW f, NoteFrame(f) PROVE hist' \in History
      BY <3>1 DEF NoteFrame, History
    <3>2. NoteGrant => hist' \in History
      BY DEF NoteGrant, History
    <3> QED BY <1>8, <3>1, <3>2 DEF ReceiveStep, HeardStep, AnswerStep
  <2> QED BY <1>8, <2>2, <2>3, <2>4, SameWire DEF ReceiveStep
<1>9. CASE SpawnStep
  <2>1. HowMany(Head(toBridge)) = 1
    BY <1>9, Kinds DEF SpawnStep, HowMany
  <2> QED BY <1>9, <2>1, Taken DEF SpawnStep
<1>10. CASE SpeakStep
  <2>1. HowMany(Head(toBridge)) = 0 /\ UNCHANGED spawned
    BY <1>10 DEF SpeakStep, HowMany
  <2>2. /\ toBridge' \in Seq(ToChild) /\ spawned' \in Nat
        /\ Generation' \in spawned' .. MaxSpawn
    BY <1>10, <2>1, Taken DEF SpeakStep
  <2>3. PICK f \in Told : frames' = Append(frames, f)
    BY <1>10 DEF SpeakStep
  <2>4. frames' \in Seq(FromChild) /\ Len(frames') <= MaxWire
    BY <1>10, <2>3 DEF SpeakStep, FromChild
  <2>5. child' \in Child
    BY <1>10 DEF SpeakStep, Child
  <2>6. disk' \in [count : 0 .. MaxSession, recent : 0 .. MaxSession]
    <3>1. child.session \in 0 .. MaxSession
      BY <1>10 DEF SpeakStep, Child, Session
    <3>2. disk' = [disk EXCEPT !.recent = child.session]
      BY <1>10 DEF SpeakStep
    <3> QED BY <3>1, <3>2
  <2> QED BY <1>10, <2>2, <2>4, <2>5, <2>6 DEF SpeakStep
<1>11. CASE DecideStep
  <2>1. HowMany(Head(toBridge)) = 0 /\ UNCHANGED spawned
    BY <1>11, Kinds DEF DecideStep, HowMany
  <2>2. /\ toBridge' \in Seq(ToChild) /\ spawned' \in Nat
        /\ Generation' \in spawned' .. MaxSpawn
    BY <1>11, <2>1, Taken DEF DecideStep
  <2>3. PICK f \in Answered :
            /\ frames' = Append(frames, f)
            /\ child' = IF f.ok THEN [child EXCEPT !.mode = Head(toBridge).mode] ELSE child
    BY <1>11 DEF DecideStep
  <2>4. frames' \in Seq(FromChild) /\ Len(frames') <= MaxWire
    BY <1>11, <2>3 DEF DecideStep, FromChild
  <2>5. child' \in Child
    BY <1>11, <2>3 DEF DecideStep, Child, Asked
  <2> QED BY <1>11, <2>2, <2>4, <2>5 DEF DecideStep
<1>12. CASE UNCHANGED vars
  BY <1>12, SameWire DEF vars
<1> QED
  BY <1>1, <1>2, <1>3, <1>4, <1>5, <1>6, <1>7, <1>8, <1>9, <1>10, <1>11, <1>12 DEF Step

(* Whatever pages, children and frames do, the state stays well typed, and *)
(* a request in flight is one for a mode.                                  *)
THEOREM TypeCorrect == Spec => []TypeOK
<1>1. TypeInv /\ [Next]_vars => TypeInv'
  BY StepCases, TypeKept
<1>2. TypeInv => TypeOK
  BY DEF TypeInv
<1> QED BY TypeInit, <1>1, <1>2, PTL DEF Spec

-----------------------------------------------------------------------------
(* What is saved, and the errors and the mode shown.                       *)
ErrInv  == Errs(page)
ToldInv == hist.told => InStep(page)

LEMMA SaveInit == Init => SaveScheduled
<1> SUFFICES ASSUME Init PROVE SaveScheduled
  OBVIOUS
<1>1. stored \in Saved \cup {None} /\ profile \in Profiles
  BY TypeInit DEF TypeInv, TypeOK
<1>2. page.saveTimer = TRUE
  BY <1>1, LoadedEffect DEF Init
<1> QED BY <1>2 DEF SaveScheduled

LEMMA SaveKept == ASSUME TypeInv, Step, SaveScheduled PROVE SaveScheduled'
<1>1. ASSUME Saves(page, page'), UNCHANGED stored, page' \in Page
      PROVE  SaveScheduled'
  <2>1. SaveWorthy(page') = SaveWorthy(page) => Payload(page') = Payload(page)
    BY DEF SaveWorthy, Payload
  <2> QED BY <1>1, <2>1 DEF SaveScheduled, Saves
<1>2. UNCHANGED <<page, stored>> => SaveScheduled'
  BY DEF SaveScheduled, Payload
<1>3. CASE RespawnStep
  <2>1. CASE IsReset(page')
    BY <2>1 DEF IsReset, SaveScheduled
  <2> QED BY <1>1, <1>3, <2>1 DEF RespawnStep
<1>4. CASE FlushStep
  <2>1. Payload(page') = Payload(page)
    BY <1>4 DEF FlushStep, SaveWorthy, Payload
  <2> QED BY <1>4, <2>1 DEF FlushStep, SaveScheduled
<1>5. CASE ReloadStep
  BY <1>5 DEF ReloadStep, SaveScheduled
<1>6. CASE AskStep \/ MessageStep \/ OpenStep \/ TimerStep
  BY <1>1, <1>6 DEF AskStep, MessageStep, OpenStep, TimerStep, Touched
<1>7. CASE ReceiveStep
  <2>1. UNCHANGED stored
    BY <1>7 DEF ReceiveStep
  <2>2. UNCHANGED page \/ (page' \in Page /\ Saves(page, page'))
    BY <1>7 DEF ReceiveStep, HeardStep, AnswerStep, Touched
  <2> QED BY <1>1, <1>2, <2>1, <2>2
<1>8. CASE SpawnStep \/ SpeakStep \/ DecideStep \/ UNCHANGED vars
  BY <1>2, <1>8 DEF SpawnStep, SpeakStep, DecideStep, vars
<1> QED BY <1>3, <1>4, <1>5, <1>6, <1>7, <1>8 DEF Step

LEMMA ErrKept == ASSUME TypeInv, Step, ErrInv PROVE ErrInv'
<1>1. CASE RespawnStep \/ AskStep \/ MessageStep \/ OpenStep \/ ReloadStep \/ FlushStep
           \/ TimerStep
  BY <1>1 DEF RespawnStep, AskStep, MessageStep, OpenStep, ReloadStep, FlushStep, TimerStep,
              Touched, ErrInv
<1>2. CASE ReceiveStep
  <2>1. UNCHANGED page \/ (Errs(page) => Errs(page'))
    BY <1>2 DEF ReceiveStep, HeardStep, AnswerStep, Touched
  <2>2. UNCHANGED page => ErrInv'
    BY DEF ErrInv, Errs
  <2> QED BY <2>1, <2>2 DEF ErrInv
<1>3. CASE SpawnStep \/ SpeakStep \/ DecideStep \/ UNCHANGED vars
  BY <1>3 DEF SpawnStep, SpeakStep, DecideStep, vars, ErrInv, Errs
<1> QED BY <1>1, <1>2, <1>3 DEF Step

LEMMA InStepKept ==
    ASSUME NEW p, NEW r, InStep(p), SameMode(p, r), r.permissionMode = p.permissionMode
    PROVE  InStep(r)
<1>1. (IF p.mode = None THEN "default" ELSE p.mode) = p.permissionMode
  BY DEF InStep
<1>2. r.activeMode = p.permissionMode
  BY <1>1 DEF SameMode, InStep
<1> QED BY <1>2 DEF SameMode, InStep

LEMMA ToldKept == ASSUME TypeInv, Step, ToldInv PROVE ToldInv'
<1>0. hist \in History
  BY DEF TypeInv
<1>1. ASSUME SameMode(page, page'), page'.permissionMode = page.permissionMode,
             hist'.told => hist.told
      PROVE  ToldInv'
  BY <1>1, InStepKept DEF ToldInv
<1>2. CASE RespawnStep \/ AskStep \/ MessageStep
  BY <1>1, <1>2 DEF RespawnStep, AskStep, MessageStep, Touched, SameArgs
<1>3. CASE OpenStep
  BY <1>0, <1>1, <1>3 DEF OpenStep, History
<1>4. CASE ReloadStep
  BY <1>0, <1>4 DEF ReloadStep, History, ToldInv
<1>5. CASE FlushStep
  BY <1>1, <1>5 DEF FlushStep, SameArgs
<1>6. CASE TimerStep
  BY <1>0, <1>1, <1>6 DEF TimerStep, Touched, SameArgs, History
<1>7. CASE HeardStep
  <2> DEFINE f == Head(frames)
  <2>1. f \in Told /\ NoteFrame(f) /\ page'.permissionMode = page.permissionMode
    BY <1>7 DEF HeardStep, SameArgs
  <2>2. CASE SameMode(page, page') /\ (page.initSeen \/ f.kind = "message")
    <3>1. hist'.told = hist.told
      BY <1>0, <2>1, <2>2 DEF NoteFrame, History
    <3> QED BY <1>1, <2>1, <2>2, <3>1
  <2>3. CASE page'.mode = f.mode /\ page'.activeMode = f.mode
             /\ ~page.initSeen /\ f.kind = "init"
    <3>1. hist'.told => f.mode = page.permissionMode
      BY <1>0, <2>1, <2>3 DEF NoteFrame, History
    <3>2. f.mode # None
      BY <2>1 DEF Told
    <3> QED BY <2>1, <2>3, <3>1, <3>2 DEF ToldInv, InStep
  <2> QED BY <1>7, <2>2, <2>3 DEF HeardStep
<1>8. CASE AnswerStep
  <2>1. CASE UNCHANGED <<page, hist>>
    BY <2>1 DEF ToldInv, InStep
  <2>2. CASE InStep(page')
    BY <2>2 DEF ToldInv
  <2>3. CASE Touched(page, page') /\ UNCHANGED hist
    BY <1>1, <2>3 DEF Touched, SameArgs
  <2> QED BY <1>8, <2>1, <2>2, <2>3 DEF AnswerStep
<1>9. CASE SpawnStep \/ SpeakStep \/ DecideStep \/ UNCHANGED vars
  BY <1>9 DEF SpawnStep, SpeakStep, DecideStep, vars, ToldInv, InStep
<1> QED BY <1>2, <1>3, <1>4, <1>5, <1>6, <1>7, <1>8, <1>9 DEF Step, ReceiveStep

-----------------------------------------------------------------------------
(* The mode of the child.  A respawn on its way carries the mode the page  *)
(* would give the next child, ...                                          *)
QueuedModes ==
    \A i \in DOMAIN toBridge :
        toBridge[i].kind = "respawn" => toBridge[i].mode = page.permissionMode

(* ... a request in flight is on its way, with nothing but messages behind *)
(* it and no answer of its number, ...                                     *)
OnItsWay(i) ==
    /\ toBridge[i].kind = "set" /\ toBridge[i].request = page.request
    /\ toBridge[i].mode = page.pendingMode
    /\ \A j \in DOMAIN toBridge :
          /\ j > i => toBridge[j].kind = "user"
          /\ j < i /\ toBridge[j].kind = "set" => toBridge[j].request # page.request
    /\ \A k \in DOMAIN frames :
          frames[k].kind = "answer" => frames[k].request # page.request

(* ... or decided: the answer is on its way back, the child in the mode if *)
(* it was granted, and nothing but messages on their way to it.            *)
Decided(k) ==
    /\ frames[k].kind = "answer" /\ frames[k].request = page.request
    /\ \A l \in DOMAIN frames :
          frames[l].kind = "answer" /\ frames[l].request = page.request => l = k
    /\ \A j \in DOMAIN toBridge : toBridge[j].kind = "user"
    /\ frames[k].ok => child.mode = page.pendingMode

InFlight ==
    page.request # 0 => (\E i \in DOMAIN toBridge : OnItsWay(i))
                        \/ (\E k \in DOMAIN frames : Decided(k))

(* Unless one was given up, requests on their way are the one in flight,   *)
(* or a respawn follows them, ...                                          *)
NoneStray ==
    ~hist.unsure =>
        \A i \in DOMAIN toBridge : toBridge[i].kind = "set" =>
            \/ toBridge[i].request = page.request
            \/ \E j \in DOMAIN toBridge : j > i /\ toBridge[j].kind = "respawn"

(* ... and a child that no respawn will replace is in the mode of the page *)
(* or has granted the one asked for.                                       *)
ChildMode ==
    ~hist.unsure /\ child # None /\ (\A j \in DOMAIN toBridge : toBridge[j].kind # "respawn") =>
        \/ child.mode = page.permissionMode
        \/ \E k \in DOMAIN frames : /\ frames[k].kind = "answer" /\ frames[k].ok
                                    /\ frames[k].request = page.request

ModeInv == QueuedModes /\ InFlight /\ NoneStray /\ ChildMode

LEMMA ModeInit == Init => ErrInv /\ ToldInv /\ ModeInv
<1> SUFFICES ASSUME Init PROVE ErrInv /\ ToldInv /\ ModeInv
  OBVIOUS
<1>1. stored \in Saved \cup {None} /\ profile \in Profiles
  BY TypeInit DEF TypeInv, TypeOK
<1>2. page = Loaded(stored) /\ toBridge = <<>> /\ frames = <<>> /\ child = None
      /\ hist.told = (profile.opt = None)
  BY DEF Init
<1>3. Errs(page) /\ page.request = 0 /\ (profile.opt = None => InStep(page))
  BY <1>1, <1>2, LoadedEffect
<1>4. DOMAIN toBridge = {} /\ DOMAIN frames = {}
  BY <1>2
<1>5. hist.told => InStep(page)
  <2>1. hist.told => profile.opt = None
    BY <1>2
  <2> QED BY <1>3, <2>1
<1>6. ErrInv /\ ToldInv
  BY <1>3, <1>5 DEF ErrInv, ToldInv
<1>7. QueuedModes /\ InFlight /\ NoneStray /\ ChildMode
  BY <1>2, <1>3, <1>4 DEF QueuedModes, InFlight, NoneStray, ChildMode
<1> QED BY <1>6, <1>7 DEF ModeInv

(* The page goes on with the same request and arguments, and nothing       *)
(* happens on the wire.                                                    *)
LEMMA ModeSame ==
    ASSUME ModeInv, UNCHANGED <<toBridge, frames, child>>,
           page'.permissionMode = page.permissionMode,
           page'.request = page.request, page'.pendingMode = page.pendingMode,
           hist'.unsure = hist.unsure
    PROVE  ModeInv'
BY DEF ModeInv, QueuedModes, InFlight, NoneStray, ChildMode, OnItsWay, Decided

LEMMA ModeRespawned == ASSUME TypeInv, RespawnStep, ModeInv PROVE ModeInv'
<1>1. PICK m \in Respawned :
         m.mode = page.permissionMode /\ toBridge' = Append(toBridge, m)
  BY DEF RespawnStep
<1>2. m.kind = "respawn" /\ toBridge \in Seq(ToChild)
  BY Kinds DEF TypeInv
<1> DEFINE n == Len(toBridge)
<1>3. /\ DOMAIN toBridge = 1 .. n /\ DOMAIN toBridge' = 1 .. n + 1 /\ n \in Nat
      /\ toBridge'[n + 1] = m
      /\ \A i \in 1 .. n : toBridge'[i] = toBridge[i]
  BY <1>1, <1>2
<1>4. page'.permissionMode = page.permissionMode /\ page'.request = 0
  BY DEF RespawnStep
<1> HIDE DEF n
<1>5. QueuedModes'
  BY <1>1, <1>3, <1>4 DEF ModeInv, QueuedModes
<1>6. InFlight'
  BY <1>4 DEF InFlight
<1>7. NoneStray'
  <2>1. ASSUME NEW i \in DOMAIN toBridge', toBridge'[i].kind = "set"
        PROVE  \E j \in DOMAIN toBridge' : j > i /\ toBridge'[j].kind = "respawn"
    <3>1. i \in 1 .. n
      BY <1>2, <1>3, <2>1
    <3> QED BY <1>2, <1>3, <3>1
  <2> QED BY <2>1 DEF NoneStray
<1>8. ChildMode'
  <2>1. n + 1 \in DOMAIN toBridge' /\ toBridge'[n + 1].kind = "respawn"
    BY <1>2, <1>3
  <2> QED BY <2>1 DEF ChildMode
<1> QED BY <1>5, <1>6, <1>7, <1>8 DEF ModeInv

(* Nothing on the wire carries a number that is free.                      *)
LEMMA FreeNumber ==
    ASSUME TypeInv, NEW n, n \notin OnWire
    PROVE  /\ \A i \in DOMAIN toBridge : toBridge[i].kind = "set" => toBridge[i].request # n
           /\ \A k \in DOMAIN frames : frames[k].kind = "answer" => frames[k].request # n
<1> DEFINE w == toBridge \o frames
<1>1. toBridge \in Seq(ToChild \cup FromChild) /\ frames \in Seq(ToChild \cup FromChild)
  BY SeqMonotonic DEF TypeInv
<1>2. /\ w \in Seq(ToChild \cup FromChild) /\ Len(w) = Len(toBridge) + Len(frames)
      /\ \A i \in 1 .. Len(toBridge) : w[i] = toBridge[i]
      /\ \A k \in 1 .. Len(frames) : w[Len(toBridge) + k] = frames[k]
      /\ Len(toBridge) \in Nat /\ Len(frames) \in Nat
  BY <1>1
<1> HIDE DEF w
<1>3. ASSUME NEW i \in DOMAIN w, w[i].kind \in {"set", "answer"} PROVE w[i].request \in OnWire
  BY <1>3 DEF OnWire, ToSet, w
<1>4. DOMAIN w = 1 .. Len(toBridge) + Len(frames)
  BY <1>2
<1>5. ASSUME NEW i \in DOMAIN toBridge, toBridge[i].kind = "set" PROVE toBridge[i].request # n
  <2>1. i \in 1 .. Len(toBridge) /\ i \in DOMAIN w
    BY <1>1, <1>2, <1>4
  <2> QED BY <1>2, <1>3, <1>5, <2>1
<1>6. ASSUME NEW k \in DOMAIN frames, frames[k].kind = "answer" PROVE frames[k].request # n
  <2>1. k \in 1 .. Len(frames) /\ Len(toBridge) + k \in DOMAIN w
    BY <1>1, <1>2, <1>4
  <2> QED BY <1>2, <1>3, <1>6, <2>1
<1> QED BY <1>5, <1>6

LEMMA ModeAsked == ASSUME TypeInv, AskStep, ModeInv PROVE ModeInv'
<1>1. /\ page'.permissionMode = page.permissionMode
      /\ UNCHANGED <<frames, child, hist>>
  BY DEF AskStep, Touched, SameArgs
<1>2. CASE UNCHANGED toBridge /\ page'.request = page.request
           /\ page'.pendingMode = page.pendingMode
  BY <1>1, <1>2, ModeSame
<1>3. CASE /\ page.request = 0
           /\ page'.request \in Request \ OnWire
           /\ page'.pendingMode \in Mode
           /\ toBridge' = Append(toBridge, [kind |-> "set", mode |-> page'.pendingMode,
                                            request |-> page'.request])
  <2> DEFINE m == [kind |-> "set", mode |-> page'.pendingMode, request |-> page'.request]
             n == Len(toBridge)
  <2>1. toBridge \in Seq(ToChild) /\ m \in ToChild
    BY <1>3, SetMessage DEF TypeInv
  <2>2. m.kind = "set" /\ m.request = page'.request /\ m.mode = page'.pendingMode
    OBVIOUS
  <2> HIDE DEF m
  <2>3. /\ DOMAIN toBridge = 1 .. n /\ DOMAIN toBridge' = 1 .. n + 1 /\ n \in Nat
        /\ toBridge'[n + 1] = m
        /\ \A i \in 1 .. n : toBridge'[i] = toBridge[i]
    BY <1>3, <2>1 DEF m
  <2>4. /\ \A i \in DOMAIN toBridge :
              toBridge[i].kind = "set" => toBridge[i].request # page'.request
        /\ \A k \in DOMAIN frames :
              frames[k].kind = "answer" => frames[k].request # page'.request
    BY <1>3, FreeNumber
  <2>5. /\ \A i \in DOMAIN toBridge :
              toBridge[i].kind = "set" => toBridge[i].request # page.request
        /\ \A k \in DOMAIN frames :
              frames[k].kind = "answer" => frames[k].request # page.request
    <3>1. ASSUME NEW i \in DOMAIN toBridge, toBridge[i].kind = "set"
          PROVE  toBridge[i].request # 0
      <4>1. toBridge[i] \in Asked
        BY <2>1, <3>1, Kinds
      <4> QED BY <4>1 DEF Asked, Request
    <3>2. ASSUME NEW k \in DOMAIN frames, frames[k].kind = "answer"
          PROVE  frames[k].request # 0
      <4>1. frames[k] \in FromChild
        BY DEF TypeInv
      <4>2. frames[k] \in Answered
        BY <3>2, <4>1, Kinds
      <4> QED BY <4>2 DEF Answered, Request
    <3> QED BY <1>3, <3>1, <3>2
  <2> HIDE DEF n
  <2>6. QueuedModes'
    BY <1>1, <2>2, <2>3 DEF ModeInv, QueuedModes
  <2>7. InFlight'
    <3>1. PICK i \in DOMAIN toBridge' : i = n + 1
      BY <2>3
    <3>2. toBridge'[i] = m /\ (\A j \in DOMAIN toBridge' : j <= i)
          /\ \A j \in DOMAIN toBridge' : j < i => j \in DOMAIN toBridge /\ toBridge'[j] = toBridge[j]
      BY <2>3, <3>1
    <3>3. OnItsWay(i)'
      BY <1>1, <2>2, <2>3, <2>4, <3>1, <3>2 DEF OnItsWay
    <3> QED BY <3>1, <3>3 DEF InFlight
  <2>8. NoneStray'
    BY <1>1, <2>2, <2>3, <2>5 DEF ModeInv, NoneStray
  <2>9. ChildMode'
    BY <1>1, <2>3, <2>5 DEF ModeInv, ChildMode
  <2> QED BY <2>6, <2>7, <2>8, <2>9 DEF ModeInv
<1> QED BY <1>2, <1>3 DEF AskStep

LEMMA ModeMessaged == ASSUME TypeInv, MessageStep, ModeInv PROVE ModeInv'
<1> DEFINE m == [kind |-> "user"]
           n == Len(toBridge)
<1>1. /\ page'.permissionMode = page.permissionMode /\ page'.request = page.request
      /\ page'.pendingMode = page.pendingMode /\ UNCHANGED <<frames, child, hist>>
      /\ toBridge' = Append(toBridge, m)
  BY DEF MessageStep, SameArgs
<1>2. toBridge \in Seq(ToChild) /\ m \in ToChild /\ m.kind = "user"
  BY Kinds DEF TypeInv
<1> HIDE DEF m
<1>3. /\ DOMAIN toBridge = 1 .. n /\ DOMAIN toBridge' = 1 .. n + 1 /\ n \in Nat
      /\ toBridge'[n + 1] = m
      /\ \A i \in 1 .. n : toBridge'[i] = toBridge[i]
  BY <1>1, <1>2
<1> HIDE DEF n
<1>4. QueuedModes'
  BY <1>1, <1>2, <1>3 DEF ModeInv, QueuedModes
<1>5. InFlight'
  <2>1. ASSUME NEW i \in DOMAIN toBridge, OnItsWay(i) PROVE OnItsWay(i)' /\ i \in DOMAIN toBridge'
    BY <1>1, <1>2, <1>3, <2>1 DEF OnItsWay
  <2>2. ASSUME NEW k \in DOMAIN frames, Decided(k) PROVE Decided(k)'
    BY <1>1, <1>2, <1>3, <2>2 DEF Decided
  <2> QED BY <1>1, <2>1, <2>2 DEF ModeInv, InFlight
<1>6. NoneStray'
  BY <1>1, <1>2, <1>3 DEF ModeInv, NoneStray
<1>7. ChildMode'
  BY <1>1, <1>2, <1>3 DEF ModeInv, ChildMode
<1> QED BY <1>4, <1>5, <1>6, <1>7 DEF ModeInv

LEMMA ModeOpened == ASSUME TypeInv, OpenStep, ModeInv PROVE ModeInv'
<1>1. PICK m \in Respawned :
         m.mode = page.permissionMode /\ toBridge' = <<m>> \o toBridge
  BY DEF OpenStep
<1>2. m.kind = "respawn" /\ toBridge \in Seq(ToChild) /\ <<m>> \in Seq(ToChild)
  BY Kinds DEF TypeInv, ToChild
<1> DEFINE n == Len(toBridge)
<1>3. /\ DOMAIN toBridge = 1 .. n /\ DOMAIN toBridge' = 1 .. n + 1 /\ n \in Nat
      /\ toBridge'[1] = m
      /\ \A i \in 1 .. n : toBridge'[i + 1] = toBridge[i]
  BY <1>1, <1>2
<1> HIDE DEF n
<1>4. \A i \in 2 .. n + 1 : i - 1 \in 1 .. n /\ toBridge'[i] = toBridge[i - 1]
  <2> SUFFICES ASSUME NEW i \in 2 .. n + 1
               PROVE  i - 1 \in 1 .. n /\ toBridge'[i] = toBridge[i - 1]
    OBVIOUS
  <2>1. i - 1 \in 1 .. n /\ (i - 1) + 1 = i
    BY <1>3
  <2> QED BY <1>3, <2>1
<1>5. page'.permissionMode = page.permissionMode /\ page'.request = 0
  BY DEF OpenStep
<1>6. \A i \in DOMAIN toBridge' : i = 1 \/ i \in 2 .. n + 1
  BY <1>3
<1>7. QueuedModes'
  BY <1>1, <1>3, <1>4, <1>5, <1>6 DEF ModeInv, QueuedModes
<1>8. InFlight'
  BY <1>5 DEF InFlight
<1>9. NoneStray'
  <2>1. hist'.unsure = \E k \in ToSet(toBridge) : k.kind = "set"
    BY DEF OpenStep, TypeInv, History
  <2>2. ASSUME NEW i \in DOMAIN toBridge', toBridge'[i].kind = "set" PROVE hist'.unsure
    <3>1. i - 1 \in DOMAIN toBridge /\ toBridge[i - 1].kind = "set"
      BY <1>2, <1>3, <1>4, <1>6, <2>2
    <3> QED BY <2>1, <3>1 DEF ToSet
  <2> QED BY <2>2 DEF NoneStray
<1>10. ChildMode'
  <2>1. 1 \in DOMAIN toBridge' /\ toBridge'[1].kind = "respawn"
    BY <1>2, <1>3
  <2> QED BY <2>1 DEF ChildMode
<1> QED BY <1>7, <1>8, <1>9, <1>10 DEF ModeInv

(* Taking the first message of a sequence and sending one more.            *)
LEMMA TailShifts ==
    ASSUME NEW S, NEW q \in Seq(S), q # <<>>
    PROVE  /\ 1 \in DOMAIN q /\ Head(q) = q[1] /\ q[1] \in S
           /\ \A i \in DOMAIN Tail(q) : i \in Nat /\ i + 1 \in DOMAIN q /\ Tail(q)[i] = q[i + 1]
           /\ \A i \in DOMAIN q : i \in Nat
           /\ \A i \in DOMAIN q : i # 1 => /\ i > 1 /\ i - 1 \in DOMAIN Tail(q)
                                           /\ Tail(q)[i - 1] = q[i]
OBVIOUS

LEMMA AppendKeeps ==
    ASSUME NEW S, NEW q \in Seq(S), NEW m \in S
    PROVE  LET r == Append(q, m) IN
           /\ Len(q) + 1 \in DOMAIN r /\ r[Len(q) + 1] = m
           /\ \A i \in DOMAIN q : i \in DOMAIN r /\ r[i] = q[i]
           /\ \A i \in DOMAIN r : i # Len(q) + 1 => i \in DOMAIN q
OBVIOUS

LEMMA ModeReloaded == ASSUME ReloadStep PROVE ModeInv'
<1>1. DOMAIN toBridge' = {} /\ DOMAIN frames' = {} /\ child' = None /\ page'.request = 0
  BY DEF ReloadStep
<1> QED BY <1>1 DEF ModeInv, QueuedModes, InFlight, NoneStray, ChildMode

LEMMA ModeTimed == ASSUME TypeInv, TimerStep, ModeInv PROVE ModeInv'
<1>1. UNCHANGED <<toBridge, frames, child>> /\ page'.permissionMode = page.permissionMode
  BY DEF TimerStep, Touched, SameArgs
<1>2. CASE UNCHANGED hist /\ page'.request = page.request /\ page'.pendingMode = page.pendingMode
  BY <1>1, <1>2, ModeSame
<1>3. CASE page'.request = 0 /\ hist' = [hist EXCEPT !.unsure = TRUE]
  <2>1. hist'.unsure = TRUE
    BY <1>3 DEF TypeInv, History
  <2> QED BY <1>1, <1>3, <2>1 DEF ModeInv, QueuedModes, InFlight, NoneStray, ChildMode
<1> QED BY <1>2, <1>3 DEF TimerStep

(* A frame that is not the answer waited for.                              *)
LEMMA ModePassed ==
    ASSUME TypeInv, ModeInv, frames # <<>>, frames' = Tail(frames),
           Head(frames).kind = "answer" => Head(frames).request # page.request,
           UNCHANGED <<toBridge, child>>,
           page'.permissionMode = page.permissionMode,
           page'.request = page.request, page'.pendingMode = page.pendingMode,
           hist'.unsure = hist.unsure
    PROVE  ModeInv'
<1>1. /\ 1 \in DOMAIN frames /\ Head(frames) = frames[1]
      /\ \A i \in DOMAIN frames' : i \in Nat /\ i + 1 \in DOMAIN frames /\ frames'[i] = frames[i + 1]
      /\ \A i \in DOMAIN frames : i # 1 => i - 1 \in DOMAIN frames' /\ frames'[i - 1] = frames[i]
  BY TailShifts DEF TypeInv
<1>2. QueuedModes' /\ NoneStray'
  BY DEF ModeInv, QueuedModes, NoneStray
<1>3. InFlight'
  <2>1. ASSUME NEW i \in DOMAIN toBridge, OnItsWay(i) PROVE OnItsWay(i)'
    BY <1>1, <2>1 DEF OnItsWay
  <2>2. ASSUME NEW k \in DOMAIN frames, Decided(k) PROVE \E l \in DOMAIN frames' : Decided(l)'
    <3>1. k # 1
      BY <1>1, <2>2 DEF Decided
    <3>2. PICK l \in DOMAIN frames' : l = k - 1
      BY <1>1, <3>1
    <3>3. frames'[l] = frames[k]
      BY <1>1, <3>1, <3>2
    <3>4. ASSUME NEW j \in DOMAIN frames',
                 frames'[j].kind = "answer" /\ frames'[j].request = page.request
          PROVE  j = l
      <4>1. j + 1 = k
        BY <1>1, <2>2, <3>4 DEF Decided
      <4> QED BY <1>1, <3>2, <4>1
    <3>5. Decided(l)'
      BY <2>2, <3>3, <3>4 DEF Decided
    <3> QED BY <3>5
  <2> QED BY <2>1, <2>2 DEF ModeInv, InFlight
<1>4. ChildMode'
  <2> SUFFICES ASSUME ~hist.unsure, child # None,
                      \A j \in DOMAIN toBridge : toBridge[j].kind # "respawn",
                      child.mode # page.permissionMode
               PROVE  \E k \in DOMAIN frames' : /\ frames'[k].kind = "answer" /\ frames'[k].ok
                                                /\ frames'[k].request = page.request
    BY DEF ChildMode
  <2>1. PICK k \in DOMAIN frames : /\ frames[k].kind = "answer" /\ frames[k].ok
                                   /\ frames[k].request = page.request
    BY DEF ModeInv, ChildMode
  <2>2. k # 1
    BY <1>1, <2>1
  <2>3. k - 1 \in DOMAIN frames' /\ frames'[k - 1] = frames[k]
    BY <1>1, <2>2
  <2> QED BY <2>1, <2>3
<1> QED BY <1>2, <1>3, <1>4 DEF ModeInv

LEMMA ModeReceived == ASSUME TypeInv, ReceiveStep, ModeInv PROVE ModeInv'
<1> DEFINE f == Head(frames)
<1>1. frames # <<>> /\ frames' = Tail(frames) /\ UNCHANGED <<toBridge, child>>
  BY DEF ReceiveStep, HeardStep, AnswerStep
<1>2. 1 \in DOMAIN frames /\ f = frames[1]
  BY <1>1, TailShifts DEF TypeInv
<1>3. CASE HeardStep
  <2>1. f.kind # "answer"
    BY <1>3, Kinds DEF HeardStep
  <2>2. hist'.unsure = hist.unsure
    BY <1>3 DEF HeardStep, NoteFrame, TypeInv, History
  <2>3. /\ page'.permissionMode = page.permissionMode
        /\ page'.request = page.request /\ page'.pendingMode = page.pendingMode
    BY <1>3 DEF HeardStep, SameArgs
  <2> QED BY <1>1, <2>1, <2>2, <2>3, ModePassed
<1>4. CASE AnswerStep
  <2>1. CASE f.request # page.request /\ UNCHANGED <<page, hist>>
    BY <1>1, <2>1, ModePassed
  <2>2. ASSUME f.request = page.request
        PROVE  Decided(1)
    <3>1. f.kind = "answer" /\ f.request # 0
      BY <1>4, Kinds DEF AnswerStep, Answered, Request
    <3>2. ~ \E i \in DOMAIN toBridge : OnItsWay(i)
      BY <1>2, <2>2, <3>1 DEF OnItsWay
    <3>3. PICK k \in DOMAIN frames : Decided(k)
      BY <2>2, <3>1, <3>2 DEF ModeInv, InFlight
    <3>4. k = 1
      BY <1>2, <2>2, <3>1, <3>3 DEF Decided
    <3> QED BY <3>3, <3>4
  <2>3. CASE /\ f.request = page.request /\ f.ok
             /\ page'.permissionMode = page.pendingMode /\ page'.request = 0
    <3>1. (\A j \in DOMAIN toBridge : toBridge[j].kind = "user")
          /\ child.mode = page.pendingMode
      BY <1>2, <2>2, <2>3 DEF Decided
    <3> QED
      BY <1>1, <2>3, <3>1 DEF ModeInv, QueuedModes, InFlight, NoneStray, ChildMode
  <2>4. CASE /\ f.request = page.request /\ ~f.ok
             /\ Touched(page, page') /\ page'.request = 0 /\ UNCHANGED hist
    <3>1. /\ \A j \in DOMAIN toBridge : toBridge[j].kind = "user"
          /\ \A k \in DOMAIN frames :
                frames[k].kind = "answer" /\ frames[k].request = page.request => k = 1
      BY <2>2, <2>4 DEF Decided
    <3>2. ~hist.unsure /\ child # None => child.mode = page.permissionMode
      BY <1>2, <2>4, <3>1 DEF ModeInv, ChildMode
    <3>3. page'.permissionMode = page.permissionMode
      BY <2>4 DEF Touched, SameArgs
    <3> QED
      BY <1>1, <2>4, <3>1, <3>2, <3>3 DEF ModeInv, QueuedModes, InFlight, NoneStray, ChildMode
  <2> QED BY <1>4, <2>1, <2>3, <2>4 DEF AnswerStep
<1> QED BY <1>3, <1>4 DEF ReceiveStep

(* A message is taken: the others move up.                                 *)
LEMMA MovedUp ==
    ASSUME TypeInv, toBridge # <<>>, toBridge' = Tail(toBridge)
    PROVE  /\ 1 \in DOMAIN toBridge /\ Head(toBridge) = toBridge[1]
           /\ \A i \in DOMAIN toBridge' :
                 i \in Nat /\ i + 1 \in DOMAIN toBridge /\ toBridge'[i] = toBridge[i + 1]
           /\ \A i \in DOMAIN toBridge : i \in Nat
           /\ \A i \in DOMAIN toBridge :
                 i # 1 => i > 1 /\ i - 1 \in DOMAIN toBridge' /\ toBridge'[i - 1] = toBridge[i]
BY TailShifts DEF TypeInv

LEMMA TakenKeeps ==
    ASSUME TypeInv, toBridge # <<>>, toBridge' = Tail(toBridge), UNCHANGED <<page, hist>>
    PROVE  /\ QueuedModes => QueuedModes'
           /\ NoneStray => NoneStray'
<1>1. /\ \A i \in DOMAIN toBridge' :
            i \in Nat /\ i + 1 \in DOMAIN toBridge /\ toBridge'[i] = toBridge[i + 1]
      /\ \A i \in DOMAIN toBridge : i \in Nat
      /\ \A i \in DOMAIN toBridge :
            i # 1 => i > 1 /\ i - 1 \in DOMAIN toBridge' /\ toBridge'[i - 1] = toBridge[i]
  BY MovedUp
<1>2. QueuedModes => QueuedModes'
  BY <1>1 DEF QueuedModes
<1>3. ASSUME NoneStray, ~hist.unsure, NEW i \in DOMAIN toBridge', toBridge'[i].kind = "set",
             toBridge'[i].request # page.request
      PROVE  \E j \in DOMAIN toBridge' : j > i /\ toBridge'[j].kind = "respawn"
  <2>1. PICK j \in DOMAIN toBridge : j > i + 1 /\ toBridge[j].kind = "respawn"
    BY <1>1, <1>3 DEF NoneStray
  <2>2. j - 1 \in DOMAIN toBridge' /\ toBridge'[j - 1] = toBridge[j] /\ j - 1 > i
    BY <1>1, <2>1
  <2> QED BY <2>1, <2>2
<1> QED BY <1>2, <1>3 DEF NoneStray

(* A request on its way stays on its way.                                  *)
LEMMA StillOnItsWay ==
    ASSUME TypeInv, toBridge # <<>>, toBridge' = Tail(toBridge), UNCHANGED page,
           NEW i \in DOMAIN toBridge, OnItsWay(i), i # 1,
           \A k \in DOMAIN frames' : frames'[k].kind = "answer" =>
               \/ k \in DOMAIN frames /\ frames'[k] = frames[k]
               \/ frames'[k].request # page.request
    PROVE  \E j \in DOMAIN toBridge' : OnItsWay(j)'
<1>1. /\ \A l \in DOMAIN toBridge' :
            l \in Nat /\ l + 1 \in DOMAIN toBridge /\ toBridge'[l] = toBridge[l + 1]
      /\ i \in Nat /\ i > 1 /\ i - 1 \in DOMAIN toBridge' /\ toBridge'[i - 1] = toBridge[i]
  BY MovedUp
<1>2. PICK j \in DOMAIN toBridge' : j = i - 1
  BY <1>1
<1>3. toBridge'[j] = toBridge[i]
  BY <1>1, <1>2
<1>4. \A l \in DOMAIN toBridge' : (l > j => l + 1 > i) /\ (l < j => l + 1 < i)
  BY <1>1, <1>2
<1>5. \A l \in DOMAIN toBridge' :
         /\ l > j => toBridge'[l].kind = "user"
         /\ l < j /\ toBridge'[l].kind = "set" => toBridge'[l].request # page.request
  BY <1>1, <1>4 DEF OnItsWay
<1>6. \A k \in DOMAIN frames' : frames'[k].kind = "answer" => frames'[k].request # page.request
  BY DEF OnItsWay
<1>7. OnItsWay(j)'
  BY <1>3, <1>5, <1>6 DEF OnItsWay
<1> QED BY <1>7

LEMMA ModeSpawned == ASSUME TypeInv, SpawnStep, ModeInv PROVE ModeInv'
<1>1. /\ toBridge # <<>> /\ toBridge' = Tail(toBridge) /\ UNCHANGED <<page, frames, hist>>
      /\ child'.mode = Head(toBridge).mode
  BY DEF SpawnStep
<1>2. 1 \in DOMAIN toBridge /\ Head(toBridge) = toBridge[1] /\ toBridge[1].kind = "respawn"
  BY <1>1, MovedUp, Kinds DEF SpawnStep
<1>3. QueuedModes' /\ NoneStray'
  BY <1>1, TakenKeeps DEF ModeInv
<1>4. InFlight'
  <2>1. ASSUME NEW i \in DOMAIN toBridge, OnItsWay(i)
        PROVE  \E j \in DOMAIN toBridge' : OnItsWay(j)'
    <3>1. i # 1
      BY <1>2, <2>1 DEF OnItsWay
    <3> QED BY <1>1, <2>1, <3>1, StillOnItsWay
  <2>2. \A k \in DOMAIN frames : ~ Decided(k)
    BY <1>2 DEF Decided
  <2> QED BY <1>1, <2>1, <2>2 DEF ModeInv, InFlight
<1>5. ChildMode'
  BY <1>1, <1>2 DEF ModeInv, QueuedModes, ChildMode
<1> QED BY <1>3, <1>4, <1>5 DEF ModeInv

(* One more frame.                                                         *)
LEMMA FrameAdded ==
    ASSUME TypeInv, NEW f \in FromChild, frames' = Append(frames, f)
    PROVE  \E n \in DOMAIN frames' :
              /\ frames'[n] = f
              /\ \A k \in DOMAIN frames :
                    k \in DOMAIN frames' /\ k < n /\ frames'[k] = frames[k]
              /\ \A k \in DOMAIN frames' : k # n => k \in DOMAIN frames
<1>1. frames \in Seq(FromChild)
  BY DEF TypeInv
<1> QED BY <1>1, AppendKeeps

LEMMA ModeSpoken == ASSUME TypeInv, SpeakStep, ModeInv PROVE ModeInv'
<1>1. /\ toBridge # <<>> /\ toBridge' = Tail(toBridge) /\ UNCHANGED <<page, hist>>
      /\ child \in Child /\ child # None /\ child' = [child EXCEPT !.announced = TRUE]
  BY DEF SpeakStep
<1>2. child'.mode = child.mode
  BY <1>1 DEF Child
<1>3. PICK f \in Told : frames' = Append(frames, f)
  BY DEF SpeakStep
<1>4. f \in FromChild /\ f.kind # "answer"
  BY Kinds DEF FromChild
<1>5. PICK n \in DOMAIN frames' :
         /\ frames'[n] = f
         /\ \A k \in DOMAIN frames : k \in DOMAIN frames' /\ frames'[k] = frames[k]
         /\ \A k \in DOMAIN frames' : k # n => k \in DOMAIN frames
  BY <1>3, <1>4, FrameAdded
<1>6. /\ 1 \in DOMAIN toBridge /\ toBridge[1].kind = "user"
      /\ \A i \in DOMAIN toBridge' :
            i \in Nat /\ i + 1 \in DOMAIN toBridge /\ toBridge'[i] = toBridge[i + 1]
      /\ \A i \in DOMAIN toBridge :
            i # 1 => i - 1 \in DOMAIN toBridge' /\ toBridge'[i - 1] = toBridge[i]
  BY <1>1, MovedUp DEF SpeakStep
<1>7. QueuedModes' /\ NoneStray'
  BY <1>1, TakenKeeps DEF ModeInv
<1>8. InFlight'
  <2>1. ASSUME NEW i \in DOMAIN toBridge, OnItsWay(i)
        PROVE  \E j \in DOMAIN toBridge' : OnItsWay(j)'
    <3>1. i # 1
      BY <1>6, <2>1 DEF OnItsWay
    <3>2. \A k \in DOMAIN frames' : frames'[k].kind = "answer" =>
             k \in DOMAIN frames /\ frames'[k] = frames[k]
      BY <1>4, <1>5
    <3> QED BY <1>1, <2>1, <3>1, <3>2, StillOnItsWay
  <2>2. ASSUME NEW k \in DOMAIN frames, Decided(k) PROVE k \in DOMAIN frames' /\ Decided(k)'
    BY <1>1, <1>2, <1>4, <1>5, <1>6, <2>2 DEF Decided
  <2> QED BY <1>1, <2>1, <2>2 DEF ModeInv, InFlight
<1>9. ChildMode'
  <2> SUFFICES ASSUME ~hist.unsure, \A j \in DOMAIN toBridge' : toBridge'[j].kind # "respawn"
               PROVE  \/ child.mode = page.permissionMode
                      \/ \E k \in DOMAIN frames' : /\ frames'[k].kind = "answer" /\ frames'[k].ok
                                                   /\ frames'[k].request = page.request
    BY <1>1, <1>2 DEF ChildMode
  <2>1. \A j \in DOMAIN toBridge : toBridge[j].kind # "respawn"
    BY <1>6
  <2> QED BY <1>1, <1>5, <2>1 DEF ModeInv, ChildMode
<1> QED BY <1>7, <1>8, <1>9 DEF ModeInv

LEMMA ModeDecided == ASSUME TypeInv, DecideStep, ModeInv PROVE ModeInv'
<1> DEFINE m == Head(toBridge)
<1>1. /\ toBridge # <<>> /\ toBridge' = Tail(toBridge) /\ UNCHANGED <<page, hist>>
      /\ child \in Child /\ child # None /\ m \in Asked
  BY DEF DecideStep
<1>2. PICK f \in Answered :
         /\ f.request = m.request /\ frames' = Append(frames, f)
         /\ child' = IF f.ok THEN [child EXCEPT !.mode = m.mode] ELSE child
  BY DEF DecideStep
<1>3. (f.ok => child'.mode = m.mode) /\ (~f.ok => child' = child)
  BY <1>1, <1>2 DEF Child
<1>4. f \in FromChild /\ f.kind = "answer" /\ m.kind = "set" /\ m.request # 0
  BY <1>1, Kinds DEF FromChild, Asked, Request
<1>5. PICK n \in DOMAIN frames' :
         /\ frames'[n] = f
         /\ \A k \in DOMAIN frames : k \in DOMAIN frames' /\ frames'[k] = frames[k]
         /\ \A k \in DOMAIN frames' : k # n => k \in DOMAIN frames
  BY <1>2, <1>4, FrameAdded
<1>6. /\ 1 \in DOMAIN toBridge /\ toBridge[1] = m
      /\ \A i \in DOMAIN toBridge' :
            i \in Nat /\ i + 1 \in DOMAIN toBridge /\ toBridge'[i] = toBridge[i + 1]
      /\ \A i \in DOMAIN toBridge :
            i # 1 => i > 1 /\ i - 1 \in DOMAIN toBridge' /\ toBridge'[i - 1] = toBridge[i]
  BY <1>1, MovedUp
<1> HIDE DEF m
<1>7. QueuedModes' /\ NoneStray'
  BY <1>1, TakenKeeps DEF ModeInv
<1>8. ASSUME page.request # 0
      PROVE  (\E i \in DOMAIN toBridge' : OnItsWay(i)') \/ (\E k \in DOMAIN frames' : Decided(k)')
  <2>1. \A k \in DOMAIN frames : ~ Decided(k)
    BY <1>4, <1>6 DEF Decided
  <2>2. PICK i \in DOMAIN toBridge : OnItsWay(i)
    BY <1>8, <2>1 DEF ModeInv, InFlight
  <2>3. CASE i = 1
    <3>1. m.request = page.request /\ m.mode = page.pendingMode
          /\ \A k \in DOMAIN frames : frames[k].kind = "answer" => frames[k].request # page.request
      BY <1>6, <2>2, <2>3 DEF OnItsWay
    <3>2. ASSUME NEW j \in DOMAIN toBridge' PROVE toBridge'[j].kind = "user"
      <4>1. j \in Nat /\ j + 1 \in DOMAIN toBridge /\ toBridge'[j] = toBridge[j + 1]
        BY <1>6
      <4>2. j + 1 > i
        <5>1. toBridge' \in Seq(ToChild)
          BY <1>1, HeadAndTail DEF TypeInv
        <5> QED BY <2>3, <5>1
      <4>3. toBridge[j + 1].kind = "user"
        BY <2>2, <4>1, <4>2 DEF OnItsWay
      <4> QED BY <4>1, <4>3
    <3>3. f.ok => child'.mode = page.pendingMode
      BY <1>3, <3>1
    <3>4. \A k \in DOMAIN frames' :
             frames'[k].kind = "answer" /\ frames'[k].request = page.request => k = n
      BY <1>5, <3>1
    <3>5. frames'[n].kind = "answer" /\ frames'[n].request = page.request
      BY <1>2, <1>4, <1>5, <3>1
    <3>6. Decided(n)'
      BY <1>1, <1>5, <3>2, <3>3, <3>4, <3>5 DEF Decided
    <3> QED BY <3>6
  <2>4. CASE i # 1
    <3>1. m.request # page.request
      BY <1>4, <1>6, <2>2, <2>4 DEF OnItsWay
    <3>2. \A k \in DOMAIN frames' : frames'[k].kind = "answer" =>
             \/ k \in DOMAIN frames /\ frames'[k] = frames[k]
             \/ frames'[k].request # page.request
      BY <1>2, <1>5, <3>1
    <3> QED BY <1>1, <2>2, <2>4, <3>2, StillOnItsWay
  <2> QED BY <2>3, <2>4
<1>9. InFlight'
  BY <1>1, <1>8 DEF InFlight
<1>10. ChildMode'
  <2> SUFFICES ASSUME ~hist.unsure, \A j \in DOMAIN toBridge' : toBridge'[j].kind # "respawn"
               PROVE  \/ child'.mode = page.permissionMode
                      \/ \E k \in DOMAIN frames' : /\ frames'[k].kind = "answer" /\ frames'[k].ok
                                                   /\ frames'[k].request = page.request
    BY <1>1 DEF ChildMode
  <2>1. \A j \in DOMAIN toBridge : toBridge[j].kind # "respawn"
    BY <1>4, <1>6
  <2>2. m.request = page.request
    BY <1>4, <1>6, <2>1 DEF ModeInv, NoneStray
  <2>3. CASE f.ok
    BY <1>2, <1>4, <1>5, <2>2, <2>3
  <2>4. CASE ~f.ok
    BY <1>1, <1>3, <1>5, <2>1, <2>4 DEF ModeInv, ChildMode
  <2> QED BY <2>3, <2>4
<1> QED BY <1>7, <1>9, <1>10 DEF ModeInv

LEMMA ModeKept == ASSUME TypeInv, Step, ModeInv PROVE ModeInv'
<1>1. CASE FlushStep
  BY <1>1, ModeSame DEF FlushStep, SameArgs
<1>2. CASE UNCHANGED vars
  BY <1>2, ModeSame DEF vars
<1> QED
  BY <1>1, <1>2, ModeRespawned, ModeAsked, ModeMessaged, ModeOpened, ModeReloaded, ModeTimed,
     ModeReceived, ModeSpawned, ModeSpoken, ModeDecided DEF Step

(* The mode shown is the child's and that of the next child, once all that *)
(* was sent is taken and answered: setPermissionMode and its refusals,     *)
(* timeouts and skips, and the respawns of createCcSession.                *)
THEOREM ModeIsShown == Spec => []ModeShown
<1>1. TypeInv /\ ErrInv /\ ToldInv /\ ModeInv => ModeShown
  <2> SUFFICES ASSUME TypeInv, ErrInv, ToldInv, ModeInv PROVE ModeShown
    OBVIOUS
  <2>1. page.shownError # None => page.errTimer
    BY DEF ErrInv, Errs
  <2>2. ASSUME Quiet, child # None, hist.told, ~hist.unsure
        PROVE  page.activeMode = child.mode /\ page.activeMode = page.permissionMode
    <3>1. DOMAIN toBridge = {} /\ DOMAIN frames = {}
      BY <2>2 DEF Quiet
    <3>2. child.mode = page.permissionMode
      BY <2>2, <3>1 DEF ModeInv, ChildMode
    <3>3. page.activeMode = page.permissionMode
      BY <2>2 DEF ToldInv, InStep
    <3> QED BY <3>2, <3>3
  <2> QED BY <2>1, <2>2 DEF ModeShown
<1>2. Init => TypeInv /\ ErrInv /\ ToldInv /\ ModeInv
  BY TypeInit, ModeInit
<1>3. TypeInv /\ ErrInv /\ ToldInv /\ ModeInv /\ [Next]_vars
         => (TypeInv /\ ErrInv /\ ToldInv /\ ModeInv)'
  BY StepCases, TypeKept, ErrKept, ToldKept, ModeKept
<1> QED BY <1>1, <1>2, <1>3, PTL DEF Spec

-----------------------------------------------------------------------------
(* The session.  Children are numbered as they are made, ...               *)
GenInv ==
    /\ child # None => child.gen <= spawned
    /\ \A k \in DOMAIN frames : frames[k].kind # "answer" => frames[k].gen <= spawned

(* ... so that a frame of a child made since the last reset is known; ...  *)
Fresh(f) == f.kind # "answer" /\ f.gen >= page.since

(* ... before such a child speaks to a page it announces itself.           *)
Announced ==
    ~page.initSeen =>
        /\ \A k \in DOMAIN frames : Fresh(frames[k]) /\ frames[k].kind = "message" =>
              \E l \in DOMAIN frames : l < k /\ Fresh(frames[l]) /\ frames[l].kind = "init"
        /\ child # None /\ child.announced /\ child.gen >= page.since =>
              \E l \in DOMAIN frames : Fresh(frames[l]) /\ frames[l].kind = "init"

(* The page knows the session of the child, or will read it.               *)
Known ==
    /\ page.initSeen => page.sessionId # None
    /\ child # None /\ child.announced /\ ~hist.strayed
       /\ (\A j \in DOMAIN toBridge : toBridge[j].kind # "respawn") =>
          \/ page.initSeen /\ page.sessionId = child.session
          \/ \E k \in DOMAIN frames : frames[k].kind = "init" /\ frames[k].session = child.session

(* The timeline shown and the one saved are of the session they name.      *)
OfOne(p) == \A i \in DOMAIN p.messages : p.messages[i] \in {0, p.sessionId}

Unmixed ==
    /\ hist.strayed => hist.mixed
    /\ ~hist.mixed => OfOne(page) /\ (stored # None => OfOne(stored))

SessionInv == GenInv /\ Announced /\ Known /\ Unmixed

LEMMA SessionInit == Init => SessionInv
<1> SUFFICES ASSUME Init PROVE SessionInv
  OBVIOUS
<1>1. /\ stored \in Saved \cup {None} /\ profile \in Profiles
      /\ stored \in {None} \cup {[sessionId |-> 1, messages |-> <<1>>,
                                  permissionMode |-> "default"]}
  BY TypeInit DEF TypeInv, TypeOK, Init
<1>2. page = Loaded(stored) /\ toBridge = <<>> /\ frames = <<>> /\ child = None
      /\ hist.strayed = FALSE
  BY DEF Init
<1>3. /\ page.initSeen = FALSE
      /\ page.sessionId = IF stored = None THEN None ELSE stored.sessionId
      /\ page.messages = IF stored = None THEN <<>> ELSE stored.messages
  BY <1>1, <1>2, LoadedEffect
<1>4. DOMAIN frames = {}
  BY <1>2
<1>5. OfOne(page) /\ (stored # None => OfOne(stored))
  <2>1. stored # None => stored.sessionId = 1 /\ stored.messages = <<1>>
    BY <1>1
  <2>2. \A i \in DOMAIN <<1>> : <<1>>[i] = 1
    OBVIOUS
  <2>3. DOMAIN <<>> = {}
    OBVIOUS
  <2> QED BY <1>3, <2>1, <2>2, <2>3 DEF OfOne
<1> QED BY <1>2, <1>3, <1>4, <1>5 DEF SessionInv, GenInv, Announced, Known, Unmixed

(* Nothing but the wire to the bridge changes, or what is not of the       *)
(* session.                                                                *)
LEMMA SessionSame ==
    ASSUME SessionInv, UNCHANGED <<stored, frames, child, spawned>>,
           page'.sessionId = page.sessionId, page'.initSeen = page.initSeen,
           page'.since = page.since, OfOne(page) => OfOne(page'),
           hist'.strayed = hist.strayed, hist'.mixed = hist.mixed,
           (\A j \in DOMAIN toBridge' : toBridge'[j].kind # "respawn")
              => (\A j \in DOMAIN toBridge : toBridge[j].kind # "respawn")
    PROVE  SessionInv'
<1>1. GenInv' /\ Announced'
  BY DEF SessionInv, GenInv, Announced, Fresh
<1>2. Known'
  BY DEF SessionInv, Known
<1>3. Unmixed'
  <2>1. OfOne(stored') = OfOne(stored)
    BY DEF OfOne
  <2> QED BY <2>1 DEF SessionInv, Unmixed
<1> QED BY <1>1, <1>2, <1>3 DEF SessionInv

LEMMA OfOneSame ==
    ASSUME NEW p, NEW r, r.messages = p.messages, r.sessionId = p.sessionId
    PROVE  OfOne(p) => OfOne(r)
BY DEF OfOne

LEMMA OfOneAppended ==
    ASSUME NEW p \in Page, NEW r, NEW e, r.messages = Append(p.messages, e),
           e \in {0, r.sessionId}, OfOne(p),
           \/ r.sessionId = p.sessionId
           \/ p.sessionId = None
    PROVE  OfOne(r)
<1>1. p.messages \in Seq(Entry)
  BY DEF Page
<1>2. \A i \in DOMAIN p.messages : p.messages[i] \in {0, r.sessionId}
  <2>1. ASSUME NEW i \in DOMAIN p.messages, p.sessionId = None PROVE p.messages[i] = 0
    <3>1. p.messages[i] \in Entry
      BY <1>1
    <3>2. p.messages[i] \in {0, None}
      BY <2>1 DEF OfOne
    <3> QED BY <3>1, <3>2 DEF Entry
  <2> QED BY <2>1 DEF OfOne
<1>3. \A i \in DOMAIN r.messages :
         r.messages[i] = e \/ (i \in DOMAIN p.messages /\ r.messages[i] = p.messages[i])
  <2>1. p.messages \in Seq(Entry \cup {e}) /\ e \in Entry \cup {e}
    BY <1>1, SeqMonotonic
  <2>2. \A i \in DOMAIN r.messages : i # Len(p.messages) + 1 => i \in DOMAIN p.messages
    BY <2>1, AppendKeeps
  <2>3. \A i \in DOMAIN p.messages : r.messages[i] = p.messages[i]
    BY <2>1, AppendKeeps
  <2>4. r.messages[Len(p.messages) + 1] = e
    BY <2>1, AppendKeeps
  <2> QED BY <2>2, <2>3, <2>4
<1> QED BY <1>2, <1>3 DEF OfOne

(* The wire to the bridge keeps its respawns.                              *)
LEMMA RespawnsStay ==
    ASSUME TypeInv, NEW m \in ToChild,
           \/ toBridge' = toBridge \/ toBridge' = Append(toBridge, m)
    PROVE  (\A j \in DOMAIN toBridge' : toBridge'[j].kind # "respawn")
              => (\A j \in DOMAIN toBridge : toBridge[j].kind # "respawn")
<1>1. CASE toBridge' = Append(toBridge, m)
  <2>1. \A j \in DOMAIN toBridge : j \in DOMAIN toBridge' /\ toBridge'[j] = toBridge[j]
    BY <1>1, AppendKeeps DEF TypeInv
  <2> QED BY <2>1
<1> QED BY <1>1

LEMMA SessionAsked ==
    ASSUME TypeInv, AskStep \/ MessageStep \/ TimerStep \/ UNCHANGED vars, SessionInv
    PROVE  SessionInv'
<1>0. page \in Page /\ [kind |-> "user"] \in ToChild
  BY Kinds DEF TypeInv, TypeOK
<1>1. CASE AskStep \/ TimerStep
  <2>1. UNCHANGED <<stored, frames, child, spawned>> /\ SameSession(page, page')
    BY <1>1 DEF AskStep, TimerStep, Touched
  <2>2. hist'.strayed = hist.strayed /\ hist'.mixed = hist.mixed
    BY <1>1 DEF AskStep, TimerStep, TypeInv, History
  <2>3. UNCHANGED toBridge \/ \E m \in ToChild : toBridge' = Append(toBridge, m)
    BY <1>1, SetMessage DEF AskStep, TimerStep
  <2>4. (\A j \in DOMAIN toBridge' : toBridge'[j].kind # "respawn")
           => (\A j \in DOMAIN toBridge : toBridge[j].kind # "respawn")
    BY <2>3, RespawnsStay
  <2>5. OfOne(page) => OfOne(page')
    BY <2>1, OfOneSame DEF SameSession
  <2> QED BY <2>1, <2>2, <2>4, <2>5, SessionSame DEF SameSession
<1>2. CASE MessageStep
  <2>1. /\ UNCHANGED <<stored, frames, child, spawned, hist>>
        /\ page'.sessionId = page.sessionId /\ page'.initSeen = page.initSeen
        /\ page'.since = page.since
        /\ page'.messages = Append(page.messages, 0)
        /\ toBridge' = Append(toBridge, [kind |-> "user"])
    BY <1>2 DEF MessageStep
  <2>2. OfOne(page) => OfOne(page')
    BY <1>0, <2>1, OfOneAppended
  <2> QED BY <1>0, <2>1, <2>2, RespawnsStay, SessionSame
<1>3. CASE UNCHANGED vars
  BY <1>3, SessionSame, OfOneSame DEF vars
<1> QED BY <1>1, <1>2, <1>3

LEMMA SessionRespawned ==
    ASSUME TypeInv, RespawnStep \/ OpenStep, SessionInv PROVE SessionInv'
<1>1. /\ UNCHANGED <<frames, child, spawned>>
      /\ \E j \in DOMAIN toBridge' : toBridge'[j].kind = "respawn"
  <2>1. CASE RespawnStep
    <3>1. PICK m \in Respawned : toBridge' = Append(toBridge, m)
      BY <2>1 DEF RespawnStep
    <3>2. m \in ToChild /\ m.kind = "respawn" /\ toBridge \in Seq(ToChild)
      BY Kinds DEF TypeInv, ToChild
    <3> QED BY <2>1, <3>1, <3>2, AppendKeeps DEF RespawnStep
  <2>2. CASE OpenStep
    <3>1. PICK m \in Respawned : toBridge' = <<m>> \o toBridge
      BY <2>2 DEF OpenStep
    <3>2. <<m>> \in Seq(ToChild) /\ m.kind = "respawn" /\ toBridge \in Seq(ToChild)
      BY Kinds DEF TypeInv, ToChild
    <3>3. 1 \in DOMAIN toBridge' /\ toBridge'[1] = m
      BY <3>1, <3>2
    <3> QED BY <2>2, <3>2, <3>3 DEF OpenStep
  <2> QED BY <2>1, <2>2
<1>2. CASE /\ SameSession(page, page') /\ UNCHANGED stored
           /\ hist'.strayed = hist.strayed /\ hist'.mixed = hist.mixed
  <2>1. OfOne(page) => OfOne(page')
    BY <1>2, OfOneSame DEF SameSession
  <2> QED BY <1>1, <1>2, <2>1, SessionSame DEF SameSession
<1>3. CASE /\ IsReset(page') /\ stored' = None
           /\ (hist.strayed => hist.mixed) => (hist'.strayed => hist'.mixed)
  <2>1. spawned \in Nat /\ page'.since \in Nat /\ spawned < page'.since
    <3>1. spawned \in Nat /\ Generation \in Nat /\ spawned <= Generation
      BY DEF TypeInv
    <3>2. page'.since = Generation + 1
      BY <1>3 DEF IsReset
    <3> QED BY <3>1, <3>2
  <2>2. GenInv'
    BY <1>1 DEF SessionInv, GenInv
  <2>3. child # None => ~(child.gen >= page'.since)
    <3> SUFFICES ASSUME child # None PROVE ~(child.gen >= page'.since)
      OBVIOUS
    <3>1. child.gen \in Nat
      BY DEF TypeInv, Child
    <3>2. child.gen <= spawned
      BY DEF SessionInv, GenInv
    <3> QED BY <2>1, <3>1, <3>2
  <2>4. ASSUME NEW k \in DOMAIN frames PROVE ~ Fresh(frames[k])'
    <3>1. CASE frames[k].kind = "answer"
      BY <1>1, <3>1 DEF Fresh
    <3>2. CASE frames[k].kind # "answer"
      <4>1. frames[k] \in FromChild
        BY DEF TypeInv
      <4>2. frames[k].gen \in Nat /\ frames[k].gen <= spawned
        BY <3>2, <4>1, Kinds DEF Told, SessionInv, GenInv
      <4>3. ~(frames[k].gen >= page'.since)
        BY <2>1, <4>2
      <4> QED BY <1>1, <4>3 DEF Fresh
    <3> QED BY <3>1, <3>2
  <2>5. Announced'
    <3>1. child' # None => ~(child'.gen >= page'.since)
      BY <1>1, <2>3
    <3> QED BY <1>1, <2>4, <3>1 DEF Announced
  <2>6. Known'
    BY <1>1, <1>3 DEF IsReset, Known
  <2>7. Unmixed'
    BY <1>3 DEF IsReset, SessionInv, Unmixed, OfOne
  <2> QED BY <2>2, <2>5, <2>6, <2>7 DEF SessionInv
<1>4. CASE OpenStep
  <2>1. hist'.strayed = hist.strayed /\ hist'.mixed = hist.mixed
    BY <1>4 DEF OpenStep, TypeInv, History
  <2> QED BY <1>2, <1>4, <2>1 DEF OpenStep
<1> QED BY <1>2, <1>3, <1>4 DEF RespawnStep

LEMMA SessionFlushed == ASSUME TypeInv, FlushStep, SessionInv PROVE SessionInv'
<1>1. /\ UNCHANGED <<toBridge, frames, child, spawned, hist>> /\ SameSession(page, page')
      /\ stored' = Payload(page)
  BY DEF FlushStep
<1>2. GenInv' /\ Announced' /\ Known'
  BY <1>1 DEF SameSession, SessionInv, GenInv, Announced, Fresh, Known
<1>3. OfOne(page) => OfOne(page') /\ OfOne(stored')
  <2>1. page \in Page
    BY DEF TypeInv, TypeOK
  <2>2. /\ stored'.sessionId = page.sessionId
        /\ \A i \in DOMAIN stored'.messages :
              \E j \in DOMAIN page.messages : stored'.messages[i] = page.messages[j]
    BY <1>1, <2>1, PayloadEffect
  <2>3. OfOne(page) => OfOne(page')
    BY <1>1, OfOneSame DEF SameSession
  <2> QED BY <2>2, <2>3 DEF OfOne
<1> QED BY <1>1, <1>2, <1>3 DEF SessionInv, Unmixed

LEMMA SessionReloaded == ASSUME TypeInv, ReloadStep, SessionInv PROVE SessionInv'
<1>1. /\ DOMAIN frames' = {} /\ child' = None /\ page'.initSeen = FALSE
      /\ page'.sessionId = IF stored = None THEN None ELSE stored.sessionId
      /\ page'.messages = IF stored = None THEN <<>> ELSE stored.messages
      /\ UNCHANGED stored
  BY DEF ReloadStep
<1>2. hist'.mixed = hist.mixed /\ hist'.strayed = FALSE
  BY DEF ReloadStep, TypeInv, History
<1>3. stored # None => (OfOne(stored) => OfOne(page') /\ OfOne(stored'))
  BY <1>1 DEF OfOne
<1>4. stored = None => OfOne(page')
  BY <1>1 DEF OfOne
<1>5. Unmixed'
  BY <1>1, <1>2, <1>3, <1>4 DEF SessionInv, Unmixed
<1> QED BY <1>1, <1>5 DEF SessionInv, GenInv, Announced, Known

LEMMA SessionHeard ==
    ASSUME TypeInv, HeardStep, frames' = Tail(frames), SessionInv,
           UNCHANGED <<stored, toBridge, child, spawned>>
    PROVE  SessionInv'
<1> DEFINE f == Head(frames)
<1>1. /\ f \in Told /\ page' \in Page
      /\ page'.messages = Append(page.messages, f.session)
      /\ page'.since = page.since
      /\ page'.initSeen = (page.initSeen \/ f.kind = "init")
      /\ page'.sessionId = IF f.kind = "init" /\ ~page.initSeen THEN f.session
                           ELSE page.sessionId
      /\ frames # <<>> /\ NoteFrame(f)
  BY DEF HeardStep
<1>2. /\ 1 \in DOMAIN frames /\ f = frames[1]
      /\ \A i \in DOMAIN frames' : i \in Nat /\ i + 1 \in DOMAIN frames /\ frames'[i] = frames[i + 1]
      /\ \A i \in DOMAIN frames : i \in Nat
      /\ \A i \in DOMAIN frames :
            i # 1 => i > 1 /\ i - 1 \in DOMAIN frames' /\ frames'[i - 1] = frames[i]
  <2>1. \E S : frames \in Seq(S)
    BY DEF TypeInv
  <2>2. frames # <<>> /\ frames' = Tail(frames)
    BY <1>1
  <2> QED BY <2>1, <2>2, TailShifts
<1>3. /\ f.kind \in {"init", "message"} /\ f.session \in Session /\ f.gen \in Nat
      /\ page \in Page /\ page.since \in Nat /\ page.initSeen \in BOOLEAN
  <2>1. f.kind \in {"init", "message"} /\ f.session \in Session /\ f.gen \in Nat
    BY <1>1 DEF Told
  <2>2. page \in Page
    BY DEF TypeInv, TypeOK
  <2>3. page.since \in 0 .. MaxSpawn + 1 /\ page.initSeen \in BOOLEAN
    BY <2>2 DEF Page
  <2> QED BY <2>1, <2>2, <2>3
<1>4. /\ hist'.strayed = (hist.strayed \/ (page.initSeen /\ page.sessionId \notin {None, f.session}))
      /\ hist'.mixed = (hist.mixed \/ f.gen < page.since \/ page.sessionId \notin {None, f.session})
  BY <1>1 DEF NoteFrame, TypeInv, History
<1> HIDE DEF f
<1>first. ~ \E l \in DOMAIN frames : l < 1
  <2>1. \A l \in DOMAIN frames : l \in Nat /\ (l # 1 => l > 1)
    BY <1>2
  <2>2. \A l \in Nat : (l # 1 => l > 1) => ~(l < 1)
    OBVIOUS
  <2> QED BY <2>1, <2>2
<1>5. GenInv'
  BY <1>2 DEF SessionInv, GenInv
<1>6. Announced'
  <2> SUFFICES ASSUME ~page.initSeen, f.kind = "message" PROVE Announced'
    BY <1>1, <1>3 DEF Announced
  <2>1. ~ Fresh(f)
    <3> QED BY <1>2, <1>first DEF SessionInv, Announced
  <2>2. \A g : Fresh(g)' <=> Fresh(g)
    BY <1>1 DEF Fresh
  <2>3. \A l \in DOMAIN frames : Fresh(frames[l]) => l # 1
    BY <1>2, <2>1
  <2>4. ASSUME NEW k \in DOMAIN frames', Fresh(frames'[k]), frames'[k].kind = "message"
        PROVE  \E l \in DOMAIN frames' : l < k /\ Fresh(frames'[l]) /\ frames'[l].kind = "init"
    <3>1. PICK l \in DOMAIN frames : l < k + 1 /\ Fresh(frames[l]) /\ frames[l].kind = "init"
      BY <1>2, <2>4 DEF SessionInv, Announced
    <3>2. l - 1 \in DOMAIN frames' /\ frames'[l - 1] = frames[l] /\ l - 1 < k
      BY <1>2, <2>3, <3>1
    <3> QED BY <3>1, <3>2
  <2>5. ASSUME child # None, child.announced, child.gen >= page.since
        PROVE  \E l \in DOMAIN frames' : Fresh(frames'[l]) /\ frames'[l].kind = "init"
    <3>1. PICK l \in DOMAIN frames : Fresh(frames[l]) /\ frames[l].kind = "init"
      BY <2>5 DEF SessionInv, Announced
    <3>2. l - 1 \in DOMAIN frames' /\ frames'[l - 1] = frames[l]
      BY <1>2, <2>3, <3>1
    <3> QED BY <3>1, <3>2
  <2> QED BY <1>1, <2>2, <2>4, <2>5 DEF Announced, Fresh
<1>7. Known'
  <2>1. page'.initSeen => page'.sessionId # None
    BY <1>1, <1>3 DEF SessionInv, Known
  <2>2. ASSUME child # None, child.announced, ~hist'.strayed,
               \A j \in DOMAIN toBridge : toBridge[j].kind # "respawn"
        PROVE  \/ page'.initSeen /\ page'.sessionId = child.session
               \/ \E k \in DOMAIN frames' :
                     frames'[k].kind = "init" /\ frames'[k].session = child.session
    <3>1. ~hist.strayed /\ (page.initSeen => page.sessionId = f.session)
      BY <1>4, <2>2 DEF SessionInv, Known
    <3>2. CASE page.initSeen /\ page.sessionId = child.session
      BY <1>1, <3>2
    <3>3. ASSUME NEW k \in DOMAIN frames, frames[k].kind = "init",
                 frames[k].session = child.session
          PROVE  \/ page'.initSeen /\ page'.sessionId = child.session
                 \/ \E l \in DOMAIN frames' :
                       frames'[l].kind = "init" /\ frames'[l].session = child.session
      <4>1. CASE k = 1
        BY <1>1, <1>2, <3>1, <3>3, <4>1
      <4>2. CASE k # 1
        <5>1. k - 1 \in DOMAIN frames' /\ frames'[k - 1] = frames[k]
          BY <1>2, <4>2
        <5> QED BY <3>3, <5>1
      <4> QED BY <4>1, <4>2
    <3> QED BY <2>2, <3>1, <3>2, <3>3 DEF SessionInv, Known
  <2> QED BY <2>1, <2>2 DEF Known
<1>8. Unmixed'
  <2>1. hist'.strayed => hist'.mixed
    BY <1>4 DEF SessionInv, Unmixed
  <2>2. ASSUME ~hist'.mixed PROVE OfOne(page')
    <3>1. OfOne(page) /\ page.sessionId \in {None, f.session} /\ ~(f.gen < page.since)
      BY <1>4, <2>2 DEF SessionInv, Unmixed
    <3>2. CASE f.kind = "init" /\ ~page.initSeen
      BY <1>1, <1>3, <3>1, <3>2, OfOneAppended
    <3>3. CASE page.initSeen
      <4>1. page'.sessionId = f.session /\ page.sessionId = f.session
        BY <1>1, <3>1, <3>3 DEF SessionInv, Known
      <4> QED BY <1>1, <1>3, <3>1, <4>1, OfOneAppended
    <3>4. CASE f.kind = "message" /\ ~page.initSeen
      <4>1. Fresh(f)
        BY <1>3, <3>1, <3>4 DEF Fresh
      <4> QED BY <1>2, <1>first, <3>4, <4>1 DEF SessionInv, Announced
    <3> QED BY <1>3, <3>2, <3>3, <3>4
  <2>3. ASSUME ~hist'.mixed, stored # None PROVE OfOne(stored')
    BY <1>4, <2>3 DEF SessionInv, Unmixed, OfOne
  <2> QED BY <2>1, <2>2, <2>3 DEF Unmixed
<1> QED BY <1>5, <1>6, <1>7, <1>8 DEF SessionInv

LEMMA SessionAnswered ==
    ASSUME TypeInv, AnswerStep, frames' = Tail(frames), SessionInv,
           UNCHANGED <<stored, toBridge, child, spawned>>
    PROVE  SessionInv'
<1>1. frames # <<>> /\ Head(frames).kind = "answer"
  BY Kinds DEF AnswerStep
<1>2. /\ 1 \in DOMAIN frames /\ frames[1].kind = "answer"
      /\ \A i \in DOMAIN frames' : i \in Nat /\ i + 1 \in DOMAIN frames /\ frames'[i] = frames[i + 1]
      /\ \A i \in DOMAIN frames : i \in Nat
      /\ \A i \in DOMAIN frames :
            i # 1 => i > 1 /\ i - 1 \in DOMAIN frames' /\ frames'[i - 1] = frames[i]
  BY <1>1, TailShifts DEF TypeInv
<1>3. SameSession(page, page')
  BY DEF AnswerStep, Touched, SameSession
<1>4. hist'.strayed = hist.strayed /\ hist'.mixed = hist.mixed
  BY DEF AnswerStep, NoteGrant, TypeInv, History
<1>5. GenInv'
  BY <1>2 DEF SessionInv, GenInv
<1>6. /\ \A g : Fresh(g)' <=> Fresh(g)
      /\ \A l \in DOMAIN frames : frames[l].kind # "answer" => l # 1
  BY <1>2, <1>3 DEF Fresh, SameSession
<1>7. Announced'
  <2>1. ASSUME ~page.initSeen,
               NEW k \in DOMAIN frames', Fresh(frames'[k]), frames'[k].kind = "message"
        PROVE  \E l \in DOMAIN frames' : l < k /\ Fresh(frames'[l]) /\ frames'[l].kind = "init"
    <3>1. PICK l \in DOMAIN frames : l < k + 1 /\ Fresh(frames[l]) /\ frames[l].kind = "init"
      BY <1>2, <2>1 DEF SessionInv, Announced
    <3>2. l - 1 \in DOMAIN frames' /\ frames'[l - 1] = frames[l] /\ l - 1 < k
      BY <1>2, <1>6, <3>1
    <3> QED BY <3>1, <3>2
  <2>2. ASSUME ~page.initSeen, child # None, child.announced, child.gen >= page.since
        PROVE  \E l \in DOMAIN frames' : Fresh(frames'[l]) /\ frames'[l].kind = "init"
    <3>1. PICK l \in DOMAIN frames : Fresh(frames[l]) /\ frames[l].kind = "init"
      BY <2>2 DEF SessionInv, Announced
    <3>2. l - 1 \in DOMAIN frames' /\ frames'[l - 1] = frames[l]
      BY <1>2, <1>6, <3>1
    <3> QED BY <3>1, <3>2
  <2> QED BY <1>3, <1>6, <2>1, <2>2 DEF Announced, Fresh, SameSession
<1>8. Known'
  <2>1. ASSUME NEW k \in DOMAIN frames, frames[k].kind = "init"
        PROVE  k - 1 \in DOMAIN frames' /\ frames'[k - 1] = frames[k]
    BY <1>2, <1>6, <2>1
  <2> QED BY <1>3, <1>4, <2>1 DEF SessionInv, Known, SameSession
<1>9. Unmixed'
  <2>1. OfOne(page) => OfOne(page')
    BY <1>3, OfOneSame DEF SameSession
  <2> QED BY <1>4, <2>1 DEF SessionInv, Unmixed, OfOne
<1> QED BY <1>5, <1>7, <1>8, <1>9 DEF SessionInv

LEMMA SessionSpawned == ASSUME TypeInv, SpawnStep, SessionInv PROVE SessionInv'
<1>1. /\ UNCHANGED <<page, stored, frames, hist>> /\ spawned' = spawned + 1 /\ spawned \in Nat
      /\ child'.gen = spawned + 1 /\ child'.announced = FALSE
  BY DEF SpawnStep, TypeInv
<1>2. GenInv'
  <2>1. ASSUME NEW k \in DOMAIN frames, frames[k].kind # "answer"
        PROVE  frames[k].gen <= spawned'
    <3>1. frames[k] \in FromChild
      BY DEF TypeInv
    <3>2. frames[k].gen \in Nat /\ frames[k].gen <= spawned
      BY <2>1, <3>1, Kinds DEF Told, SessionInv, GenInv
    <3> QED BY <1>1, <3>2
  <2>2. child'.gen <= spawned'
    BY <1>1
  <2> QED BY <1>1, <2>1, <2>2 DEF GenInv
<1>3. Announced' /\ Known' /\ Unmixed'
  BY <1>1 DEF SessionInv, Announced, Known, Unmixed, Fresh, OfOne
<1> QED BY <1>2, <1>3 DEF SessionInv

LEMMA SessionSpoken == ASSUME TypeInv, SpeakStep, SessionInv PROVE SessionInv'
<1>1. /\ toBridge # <<>> /\ toBridge' = Tail(toBridge) /\ Head(toBridge).kind = "user"
      /\ child \in Child /\ child # None /\ child' = [child EXCEPT !.announced = TRUE]
      /\ UNCHANGED <<page, stored, spawned, hist>>
  BY DEF SpeakStep
<1>2. child'.gen = child.gen /\ child'.session = child.session
  BY <1>1 DEF Child
<1>3. PICK f \in Told :
         /\ f.kind = IF child.announced THEN "message" ELSE "init"
         /\ f.gen = child.gen /\ f.session = child.session
         /\ frames' = Append(frames, f)
  BY DEF SpeakStep
<1>4. f \in FromChild
  BY DEF FromChild
<1>5. PICK n \in DOMAIN frames' :
         /\ frames'[n] = f
         /\ \A k \in DOMAIN frames : k \in DOMAIN frames' /\ k < n /\ frames'[k] = frames[k]
         /\ \A k \in DOMAIN frames' : k # n => k \in DOMAIN frames
  BY <1>3, <1>4, FrameAdded
<1>6. (\A j \in DOMAIN toBridge' : toBridge'[j].kind # "respawn")
         => (\A j \in DOMAIN toBridge : toBridge[j].kind # "respawn")
  BY <1>1, MovedUp
<1>7. GenInv'
  BY <1>1, <1>2, <1>3, <1>5 DEF SessionInv, GenInv
<1>8. Announced'
  <2> SUFFICES ASSUME ~page.initSeen PROVE Announced'
    BY <1>1 DEF Announced
  <2>1. /\ \A g : Fresh(g)' <=> Fresh(g)
        /\ Fresh(f) <=> child.gen >= page.since
    BY <1>1, <1>3 DEF Fresh, Told
  <2>2. ASSUME NEW k \in DOMAIN frames', Fresh(frames'[k]), frames'[k].kind = "message"
        PROVE  \E l \in DOMAIN frames' : l < k /\ Fresh(frames'[l]) /\ frames'[l].kind = "init"
    <3>1. CASE k = n
      <4>1. child.announced /\ child.gen >= page.since
        BY <1>3, <1>5, <2>1, <2>2, <3>1
      <4>2. PICK l \in DOMAIN frames : Fresh(frames[l]) /\ frames[l].kind = "init"
        BY <1>1, <4>1 DEF SessionInv, Announced
      <4> QED BY <1>5, <3>1, <4>2
    <3>2. CASE k # n
      <4>1. k \in DOMAIN frames /\ frames'[k] = frames[k]
        BY <1>5, <3>2
      <4>2. PICK l \in DOMAIN frames : l < k /\ Fresh(frames[l]) /\ frames[l].kind = "init"
        BY <2>2, <4>1 DEF SessionInv, Announced
      <4> QED BY <1>5, <4>2
    <3> QED BY <3>1, <3>2
  <2>3. ASSUME child.gen >= page.since
        PROVE  \E l \in DOMAIN frames' : Fresh(frames'[l]) /\ frames'[l].kind = "init"
    <3>1. CASE child.announced
      <4>1. PICK l \in DOMAIN frames : Fresh(frames[l]) /\ frames[l].kind = "init"
        BY <1>1, <2>3, <3>1 DEF SessionInv, Announced
      <4> QED BY <1>5, <4>1
    <3>2. CASE ~child.announced
      BY <1>3, <1>5, <2>1, <2>3, <3>2
    <3> QED BY <3>1, <3>2
  <2> QED BY <1>1, <1>2, <2>1, <2>2, <2>3 DEF Announced
<1>9. Known'
  <2>1. page.initSeen => page.sessionId # None
    BY DEF SessionInv, Known
  <2>2. ASSUME ~hist.strayed, \A j \in DOMAIN toBridge : toBridge[j].kind # "respawn"
        PROVE  \/ page.initSeen /\ page.sessionId = child.session
               \/ \E k \in DOMAIN frames' :
                     frames'[k].kind = "init" /\ frames'[k].session = child.session
    <3>1. CASE child.announced
      BY <1>1, <1>5, <2>2, <3>1 DEF SessionInv, Known
    <3>2. CASE ~child.announced
      BY <1>3, <1>5, <3>2
    <3> QED BY <3>1, <3>2
  <2> QED BY <1>1, <1>2, <1>6, <2>1, <2>2 DEF Known
<1>10. Unmixed'
  BY <1>1 DEF SessionInv, Unmixed, OfOne
<1> QED BY <1>7, <1>8, <1>9, <1>10 DEF SessionInv

LEMMA SessionDecided == ASSUME TypeInv, DecideStep, SessionInv PROVE SessionInv'
<1>1. /\ toBridge # <<>> /\ toBridge' = Tail(toBridge) /\ Head(toBridge) \in Asked
      /\ child \in Child /\ child # None /\ UNCHANGED <<page, stored, spawned, hist>>
  BY DEF DecideStep
<1>2. PICK f \in Answered :
         /\ frames' = Append(frames, f)
         /\ child' = IF f.ok THEN [child EXCEPT !.mode = Head(toBridge).mode] ELSE child
  BY DEF DecideStep
<1>3. /\ child'.gen = child.gen /\ child'.session = child.session
      /\ child'.announced = child.announced
  BY <1>1, <1>2 DEF Child
<1>4. f \in FromChild /\ f.kind = "answer" /\ Head(toBridge).kind = "set"
  BY <1>1, Kinds DEF FromChild
<1>5. PICK n \in DOMAIN frames' :
         /\ frames'[n] = f
         /\ \A k \in DOMAIN frames : k \in DOMAIN frames' /\ k < n /\ frames'[k] = frames[k]
         /\ \A k \in DOMAIN frames' : k # n => k \in DOMAIN frames
  BY <1>2, <1>4, FrameAdded
<1>6. (\A j \in DOMAIN toBridge' : toBridge'[j].kind # "respawn")
         => (\A j \in DOMAIN toBridge : toBridge[j].kind # "respawn")
  BY <1>1, <1>4, MovedUp
<1>7. \A k \in DOMAIN frames' :
         frames'[k].kind # "answer" => k \in DOMAIN frames /\ frames'[k] = frames[k]
  BY <1>4, <1>5
<1>8. GenInv'
  BY <1>1, <1>3, <1>7 DEF SessionInv, GenInv
<1>9. Announced'
  <2> SUFFICES ASSUME ~page.initSeen PROVE Announced'
    BY <1>1 DEF Announced
  <2>1. \A g : Fresh(g)' <=> Fresh(g)
    BY <1>1 DEF Fresh
  <2>2. ASSUME NEW k \in DOMAIN frames', Fresh(frames'[k]), frames'[k].kind = "message"
        PROVE  \E l \in DOMAIN frames' : l < k /\ Fresh(frames'[l]) /\ frames'[l].kind = "init"
    BY <1>5, <1>7, <2>2 DEF SessionInv, Announced
  <2>3. ASSUME child.announced, child.gen >= page.since
        PROVE  \E l \in DOMAIN frames' : Fresh(frames'[l]) /\ frames'[l].kind = "init"
    BY <1>1, <1>5, <2>3 DEF SessionInv, Announced
  <2> QED BY <1>1, <1>3, <2>1, <2>2, <2>3 DEF Announced
<1>10. Known'
  BY <1>1, <1>3, <1>5, <1>6 DEF SessionInv, Known
<1>11. Unmixed'
  BY <1>1 DEF SessionInv, Unmixed, OfOne
<1> QED BY <1>8, <1>9, <1>10, <1>11 DEF SessionInv

LEMMA SessionKept == ASSUME TypeInv, Step, SessionInv PROVE SessionInv'
<1>1. CASE ReceiveStep
  BY <1>1, SessionHeard, SessionAnswered DEF ReceiveStep
<1> QED
  BY <1>1, SessionAsked, SessionRespawned, SessionReloaded, SessionFlushed, SessionSpawned,
     SessionSpoken, SessionDecided DEF Step

(* What the record of savePersisted holds is what is shown, or is about to *)
(* be; and a reload goes back to the session in use with its own timeline. *)
THEOREM StorageIsSafe == Spec => []StorageSafe
<1> DEFINE Inv == TypeInv /\ SaveScheduled /\ SessionInv
<1>1. Inv => StorageSafe
  <2> SUFFICES ASSUME Inv PROVE StorageSafe
    OBVIOUS
  <2>1. ASSUME Quiet, ~page.saveTimer, child # None, child.announced
        PROVE  /\ ~hist.strayed => Loaded(stored).session = child.session
               /\ ~hist.mixed => ToSet(stored.messages) \subseteq {child.session, 0}
    <3>1. page \in Page /\ stored = Payload(page) /\ child \in Child
      BY <2>1 DEF SaveScheduled, TypeInv, TypeOK
    <3>2. stored \in Saved /\ stored # None /\ stored.sessionId = page.sessionId
      BY <3>1, PayloadEffect
    <3>3. DOMAIN toBridge = {} /\ DOMAIN frames = {}
      BY <2>1 DEF Quiet
    <3>4. ~hist.strayed => page.sessionId = child.session
      BY <2>1, <3>3 DEF SessionInv, Known
    <3>5. ~hist.strayed => Loaded(stored).session = child.session
      <4>1. child.session # None
        BY <3>1 DEF Child
      <4>2. Loaded(stored).session = CurrentArgs(stored).session
        BY DEF Loaded
      <4>3. stored.sessionId # None => CurrentArgs(stored).session = stored.sessionId
        BY <3>2 DEF CurrentArgs
      <4> QED BY <3>2, <3>4, <4>1, <4>2, <4>3
    <3>6. ~hist.mixed => ToSet(stored.messages) \subseteq {child.session, 0}
      BY <3>2, <3>4 DEF SessionInv, Unmixed, OfOne, ToSet
    <3> QED BY <3>5, <3>6
  <2> QED BY <2>1 DEF StorageSafe, ReloadReturns, TypeInv
<1>2. Init => Inv
  BY TypeInit, SaveInit, SessionInit
<1>3. Inv /\ [Next]_vars => Inv'
  BY StepCases, TypeKept, SaveKept, SessionKept
<1> QED BY <1>1, <1>2, <1>3, PTL DEF Spec
=============================================================================

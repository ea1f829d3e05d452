------------------------------ MODULE WebProofs ------------------------------
(***************************************************************************)
(* Theorems about what runs for a page, and for any pages, words, sessions *)
(* and bounds.  AppSafe of MCApp: each of its four modules keeps an        *)
(* invariant of its own, and a step of MCNext moves one of them.  And of   *)
(* WsClient, for any number of sockets, reconnect attempts and calls: its  *)
(* types, a promise that can still be settled, the hook's frame first on   *)
(* its socket, one socket at a time, and silence after close().            *)
(***************************************************************************)
EXTENDS MCApp, WsClient, SubsequencesProofs, FunctionTheorems

-----------------------------------------------------------------------------
(* SetupFlow                                                               *)

Stage == Calls \cup {"ok", "failed"}
Cwd == {"/workspace", REPO_DIR}
Repo == Setups \cup {Nothing, "partial"}
Saw == [repo : Repo, cwd : Cwd, maker : Nat] \cup {Nothing}
Posted == [setup : Setups, at : Stage, reused : BOOLEAN, saw : Saw]

SetupTyped ==
  /\ stored \in Setups \cup {NoSetup}
  /\ setupStore \in [Pages -> Setups \cup {NoSetup}]
  /\ initStatus \in [Pages -> {"idle", "running", "ready", "failed"}]
  /\ requests \in Seq(Posted)
  /\ waits \in [Pages -> SUBSET Ids]
  /\ session \in Ids \cup {0} /\ repo \in Repo /\ bridge \in Cwd \cup {Nothing}

(* A page awaits one answer while init runs, and none otherwise.           *)
WaitInv ==
  \A p \in Pages : IF initStatus[p] = "running" THEN \E r : waits[p] = {r} ELSE waits[p] = {}

(* A request that works on the session has one; the one that made it did   *)
(* not join it, ...                                                        *)
MakerInv ==
  /\ session # 0 => ~requests[session].reused /\ requests[session].at \notin {"create", "attach"}
  /\ \A r \in Busy : IF requests[r].at \in {"create", "attach"} THEN ~requests[r].reused
                                                              ELSE session # 0
(* ... and no other clones; nor does one that joined, or has no repository.*)
  /\ \A r \in Busy : ~requests[r].reused /\ requests[r].at \notin {"create", "attach"} =>
       (HasRepo(r) => r = session)
  /\ \A r \in Ids : /\ requests[r].at \in {"outbound", "clone", "cloning", "config"} => HasRepo(r)
                    /\ requests[r].at \in {"clone", "cloning", "config"} => ~requests[r].reused

(* What the repository holds is the maker's, whole once it goes on.        *)
RepoInv ==
  /\ repo # Nothing => session # 0 /\ repo \in {"partial", requests[session].setup}
  /\ repo = "partial" => On(session, "cloning") \/ On(session, "failed")
  /\ session # 0 /\ HasRepo(session) /\ requests[session].at \in {"config", "start", "wait"} =>
       repo = requests[session].setup

(* A bridge runs where some request wanted it.                             *)
BridgeInv == bridge # Nothing => \E q \in Ids : bridge = cwdOf(requests[q].setup)

(* What an init that answered ok had seen was of a session some request made. *)
SawInv == \A r \in Ids : requests[r].at = "ok" => requests[r].saw \in [repo : Repo, cwd : Cwd, maker : Ids]

SetupInv == SawInv /\ SetupTyped /\ WaitInv /\ MakerInv /\ RepoInv /\ BridgeInv /\ ReadyIsSetUp

LEMMA SetupImplies == SetupInv => SetupSafe
<1> SUFFICES ASSUME SetupInv PROVE OneInit /\ OneClone
  BY DEF SetupInv, SetupSafe
<1>1. OneInit
  <2> SUFFICES ASSUME NEW p \in Pages
               PROVE  /\ (initStatus[p] = "running") <=> (waits[p] # {})
                      /\ Cardinality(waits[p]) <= 1
    BY DEF OneInit
  <2>1. CASE initStatus[p] = "running"
    <3>1. PICK r : waits[p] = {r}
      BY <2>1 DEF SetupInv, WaitInv
    <3>2. Cardinality({r}) = 1
      BY FS_Singleton
    <3> QED BY <2>1, <3>1, <3>2
  <2>2. CASE initStatus[p] # "running"
    BY <2>2, FS_EmptySet DEF SetupInv, WaitInv
  <2> QED BY <2>1, <2>2
<1>2. OneClone
  <2>1. ASSUME NEW r \in Ids, requests[r].at \in {"clone", "cloning", "config"} PROVE r = session
    BY <2>1 DEF SetupInv, MakerInv, Busy, Calls
  <2> QED BY <2>1 DEF OneClone, SetupInv, RepoInv
<1> QED BY <1>1, <1>2

LEMMA SetupInit == SInit => SetupInv
<1> SUFFICES ASSUME SInit PROVE SetupInv
  OBVIOUS
<1>1. Ids = {} /\ Busy = {}
  BY DEF SInit, Ids, Busy
<1>2. SetupTyped
  BY DEF SInit, SetupTyped, Repo
<1>3. WaitInv
  BY DEF SInit, WaitInv
<1>4. MakerInv /\ RepoInv /\ BridgeInv
  BY <1>1 DEF SInit, MakerInv, RepoInv, BridgeInv, Nothing
<1>5. ReadyIsSetUp /\ SawInv
  BY <1>1 DEF ReadyIsSetUp, SawInv
<1> QED BY <1>2, <1>3, <1>4, <1>5 DEF SetupInv

(* A step of a page: a request is added at most, the sandbox stays.        *)
Added == /\ requests' \in Seq(Posted)
         /\ Ids \subseteq Ids' /\ \A r \in Ids : requests'[r] = requests[r]
         /\ \A r \in Ids' \ Ids : requests'[r].at = "create" /\ ~requests'[r].reused

LEMMA AddedKeeps ==
  ASSUME SetupInv, Added, UNCHANGED sandbox
  PROVE  MakerInv' /\ RepoInv' /\ BridgeInv' /\ ReadyIsSetUp' /\ SawInv'
<1> USE DEF Added, SetupInv, SetupTyped, sandbox
<1>1. MakerInv'
  BY DEF MakerInv, Busy, Calls, HasRepo
<1>2. RepoInv'
  BY DEF RepoInv, On, HasRepo
<1>3. BridgeInv'
  BY DEF BridgeInv
<1>4. ReadyIsSetUp'
  <2> SUFFICES ASSUME NEW r \in Ids', requests'[r].at = "ok"
               PROVE  LET saw == requests'[r].saw
                          setup == requests'[r].setup
                          maker == requests'[saw.maker]
                      IN  /\ \/ setup \in {NoRepo, saw.repo}
                             \/ /\ requests'[r].reused /\ saw.maker # r
                                /\ maker.setup # setup \/ saw.repo \in {Nothing, "partial"}
                          /\ saw.cwd # cwdOf(setup) =>
                               \E q \in Ids' : cwdOf(requests'[q].setup) # cwdOf(setup)
    BY DEF ReadyIsSetUp
  <2>1. r \in Ids /\ requests'[r] = requests[r]
    OBVIOUS
  <2>2. requests[r].saw.maker \in Ids
    BY <2>1 DEF SawInv
  <2> QED BY <2>1, <2>2 DEF ReadyIsSetUp
<1>5. SawInv'
  BY DEF SawInv
<1> QED BY <1>1, <1>2, <1>3, <1>4, <1>5

(* runInit posts one request; its page awaits what it awaited before and   *)
(* the answer to this one.                                                 *)
LEMMA Posts ==
  ASSUME SetupTyped, NEW p \in Pages, NEW setup \in Setups, NEW before \in SUBSET Ids,
         runInit(p, setup, before)
  PROVE  /\ Added /\ Len(requests) + 1 \in Ids'
         /\ waits' = [waits EXCEPT ![p] = before \cup {Len(requests) + 1}]
         /\ initStatus' = [initStatus EXCEPT ![p] = "running"]
<1>1. /\ Ids = 1 .. Len(requests) /\ Len(requests) \in Nat
      /\ \A r \in Ids : requests[r] \in Posted
  BY DEF SetupTyped, Ids
<1>2. Cardinality(Ids) = Len(requests)
  <2>1. 1 \in Int /\ Len(requests) \in Int
    BY <1>1
  <2>2. Cardinality(1 .. Len(requests)) = IF 1 > Len(requests) THEN 0 ELSE Len(requests) - 1 + 1
    BY <2>1, FS_Interval
  <2> QED BY <1>1, <2>2
<1>3. Request(setup) \in Posted
  BY DEF Request, Posted, Stage, Calls, Saw
<1>4. requests' = [r \in 1 .. Len(requests) + 1 |-> IF r \in Ids THEN requests[r] ELSE Request(setup)]
  BY <1>2 DEF runInit
<1>5. \A r \in 1 .. Len(requests) + 1 : requests'[r] \in Posted
  BY <1>1, <1>3, <1>4
<1>6. requests' \in Seq(Posted) /\ Ids' = 1 .. Len(requests) + 1
  BY <1>1, <1>4, <1>5 DEF Ids
<1>7. \A r \in Ids' \ Ids : requests'[r].at = "create" /\ ~requests'[r].reused
  BY <1>4, <1>6 DEF Request
<1>8. Added
  BY <1>1, <1>4, <1>6, <1>7 DEF Added
<1>9. /\ waits' = [waits EXCEPT ![p] = before \cup {Cardinality(Ids) + 1}]
      /\ initStatus' = [initStatus EXCEPT ![p] = "running"]
  BY DEF runInit
<1>10. Len(requests) + 1 \in Ids'
  BY <1>1, <1>6
<1> QED BY <1>2, <1>8, <1>9, <1>10

(* A page that no longer awaits anything before, or is not idle            *)
LEMMA MountedKeeps ==
  ASSUME SetupTyped, WaitInv, NEW p \in Pages, NEW setup \in Setups \cup {NoSetup},
         NEW status \in {"idle", "running", "ready", "failed"}, NEW before \in SUBSET Ids,
         IF status = "running" THEN \E r : before = {r} ELSE before = {},
         Mounted(p, setup, status, before)
  PROVE  /\ Added /\ WaitInv' /\ waits' \in [Pages -> SUBSET Ids']
         /\ initStatus' \in [Pages -> {"idle", "running", "ready", "failed"}]
<1>1. CASE setup # NoSetup /\ status = "idle"
  <2>1. setup \in Setups /\ runInit(p, setup, before)
    BY <1>1 DEF Mounted
  <2>2. /\ Added /\ Len(requests) + 1 \in Ids'
        /\ waits' = [waits EXCEPT ![p] = before \cup {Len(requests) + 1}]
        /\ initStatus' = [initStatus EXCEPT ![p] = "running"]
    BY <2>1, Posts
  <2>3. waits'[p] = {Len(requests) + 1}
    BY <1>1, <2>2 DEF SetupTyped
  <2> QED BY <2>2, <2>3 DEF SetupTyped, WaitInv, Added
<1>2. CASE ~(setup # NoSetup /\ status = "idle")
  <2>1. /\ initStatus' = [initStatus EXCEPT ![p] = status]
        /\ waits' = [waits EXCEPT ![p] = before] /\ UNCHANGED requests
    BY <1>2 DEF Mounted
  <2>2. Added
    BY <2>1 DEF SetupTyped, Added, Ids
  <2>3. WaitInv'
    <3> SUFFICES ASSUME NEW q \in Pages
                 PROVE  IF initStatus'[q] = "running" THEN \E r : waits'[q] = {r} ELSE waits'[q] = {}
      BY DEF WaitInv
    <3> QED BY <2>1 DEF SetupTyped, WaitInv
  <2> QED BY <2>1, <2>2, <2>3 DEF SetupTyped, Ids
<1> QED BY <1>1, <1>2

LEMMA PageKeeps ==
  ASSUME SetupInv, NEW p \in Pages, PageStep(p)
  PROVE  SetupInv'
<1>t. SetupTyped /\ WaitInv
  BY DEF SetupInv
<1>k. ASSUME Added, UNCHANGED sandbox, WaitInv', waits' \in [Pages -> SUBSET Ids'],
             initStatus' \in [Pages -> {"idle", "running", "ready", "failed"}],
             stored' \in Setups \cup {NoSetup}, setupStore' \in [Pages -> Setups \cup {NoSetup}]
      PROVE  SetupInv'
  <2>1. MakerInv' /\ RepoInv' /\ BridgeInv' /\ ReadyIsSetUp' /\ SawInv'
    BY <1>k, AddedKeeps
  <2>2. SetupTyped'
    BY <1>k, <1>t DEF SetupTyped, Added, sandbox
  <2> QED BY <1>k, <2>1, <2>2 DEF SetupInv
<1>s. ASSUME UNCHANGED requests PROVE Added
  BY <1>s, <1>t DEF Added, SetupTyped, Ids
<1>1. CASE Load(p)
  <2>1. Mounted(p, stored, "idle", {}) /\ UNCHANGED <<stored, sandbox>>
        /\ setupStore' = [setupStore EXCEPT ![p] = stored]
    BY <1>1 DEF Load
  <2>2. stored \in Setups \cup {NoSetup} /\ {} \in SUBSET Ids
    BY <1>t DEF SetupTyped
  <2>3. /\ Added /\ WaitInv' /\ waits' \in [Pages -> SUBSET Ids']
        /\ initStatus' \in [Pages -> {"idle", "running", "ready", "failed"}]
    BY <1>t, <2>1, <2>2, MountedKeeps
  <2> QED BY <1>k, <1>t, <2>1, <2>3 DEF SetupTyped
<1>2. ASSUME NEW setup \in Setups, submit(p, setup) PROVE SetupInv'
  <2>1. Mounted(p, setup, initStatus[p], waits[p]) /\ UNCHANGED sandbox
        /\ stored' = setup /\ setupStore' = [setupStore EXCEPT ![p] = setup]
    BY <1>2 DEF submit, saveSetup
  <2>2. /\ initStatus[p] \in {"idle", "running", "ready", "failed"} /\ waits[p] \in SUBSET Ids
        /\ IF initStatus[p] = "running" THEN \E r : waits[p] = {r} ELSE waits[p] = {}
    BY <1>t DEF SetupTyped, WaitInv
  <2>3. /\ Added /\ WaitInv' /\ waits' \in [Pages -> SUBSET Ids']
        /\ initStatus' \in [Pages -> {"idle", "running", "ready", "failed"}]
    BY <1>t, <2>1, <2>2, MountedKeeps
  <2> QED BY <1>k, <1>t, <2>1, <2>3 DEF SetupTyped
<1>3. CASE clearSetup(p)
  <2>1. /\ stored' = NoSetup /\ setupStore' = [setupStore EXCEPT ![p] = NoSetup]
        /\ UNCHANGED <<initStatus, waits, requests, sandbox>>
    BY <1>3 DEF clearSetup
  <2>2. WaitInv'
    BY <1>t, <2>1 DEF WaitInv
  <2> QED BY <1>k, <1>s, <1>t, <2>1, <2>2 DEF SetupTyped, Ids
<1>4. CASE retry(p)
  <2>1. /\ setupStore[p] \in Setups /\ initStatus[p] = "failed" /\ UNCHANGED <<stored, setupStore, sandbox>>
        /\ runInit(p, setupStore[p], waits[p])
    BY <1>4, <1>t DEF retry, RetryShown, SetupTyped
  <2>2. waits[p] = {} /\ waits[p] \in SUBSET Ids
    BY <1>t, <2>1 DEF WaitInv
  <2>3. /\ Added /\ Len(requests) + 1 \in Ids'
        /\ waits' = [waits EXCEPT ![p] = waits[p] \cup {Len(requests) + 1}]
        /\ initStatus' = [initStatus EXCEPT ![p] = "running"]
    BY <1>t, <2>1, <2>2, Posts
  <2>4. waits'[p] = {Len(requests) + 1} /\ \A q \in Pages : q # p => waits'[q] = waits[q]
    BY <1>t, <2>2, <2>3 DEF SetupTyped
  <2>5. WaitInv'
    BY <1>t, <2>3, <2>4 DEF WaitInv, SetupTyped
  <2>6. waits' \in [Pages -> SUBSET Ids']
    BY <1>t, <2>2, <2>3 DEF SetupTyped, Added
  <2> QED BY <1>k, <1>t, <2>1, <2>3, <2>5, <2>6 DEF SetupTyped
<1>5. ASSUME NEW r \in Ids, NEW status \in {"ready", "failed"}, Answered(p, r, status) PROVE SetupInv'
  <2>1. /\ initStatus' = [initStatus EXCEPT ![p] = status]
        /\ waits' = [waits EXCEPT ![p] = waits[p] \ {r}] /\ r \in waits[p]
        /\ UNCHANGED <<stored, setupStore, requests, sandbox>>
    BY <1>5 DEF Answered
  <2>2. waits[p] \ {r} = {}
    BY <1>t, <2>1 DEF WaitInv
  <2>3. WaitInv'
    BY <1>t, <2>1, <2>2 DEF WaitInv, SetupTyped
  <2> QED BY <1>k, <1>s, <1>t, <2>1, <2>3 DEF SetupTyped, Ids
<1> QED BY <1>1, <1>2, <1>3, <1>4, <1>5 DEF PageStep

(* A step of the worker moves one request on.                              *)
Moves(r, at) ==
  /\ r \in Ids /\ Ids' = Ids /\ requests' \in Seq(Posted)
  /\ \A q \in Ids \ {r} : requests'[q] = requests[q]
  /\ requests'[r].setup = requests[r].setup /\ requests'[r].at = at
  /\ UNCHANGED browser

LEMMA GoesMoves ==
  ASSUME SetupTyped, NEW r \in Ids, NEW at \in Stage, Goes(r, at), UNCHANGED browser
  PROVE  Moves(r, at) /\ requests'[r].reused = requests[r].reused
<1>1. requests[r] \in Posted /\ requests' = [requests EXCEPT ![r].at = at]
  BY DEF SetupTyped, Ids, Goes
<1>2. requests' = [requests EXCEPT ![r] = [requests[r] EXCEPT !.at = at]]
  BY <1>1
<1>3. [requests[r] EXCEPT !.at = at] \in Posted
  BY <1>1 DEF Posted
<1>4. requests' \in Seq(Posted) /\ Ids' = Ids
  BY <1>2, <1>3 DEF SetupTyped, Ids
<1>5. requests'[r] = [requests[r] EXCEPT !.at = at]
  BY <1>2 DEF Ids
<1>6. \A q \in Ids \ {r} : requests'[q] = requests[q]
  BY <1>2 DEF Ids
<1>7. requests'[r].setup = requests[r].setup /\ requests'[r].at = at
      /\ requests'[r].reused = requests[r].reused
  BY <1>1, <1>5 DEF Posted
<1> QED BY <1>4, <1>6, <1>7 DEF Moves

LEMMA MovesKeeps ==
  ASSUME SetupInv, NEW r, NEW at, at # "ok", Moves(r, at)
  PROVE  /\ WaitInv' /\ ReadyIsSetUp' /\ SawInv' /\ (UNCHANGED bridge => BridgeInv')
         /\ (session' \in Ids \cup {0} /\ repo' \in Repo /\ bridge' \in Cwd \cup {Nothing} => SetupTyped')
<1>1. WaitInv'
  BY DEF SetupInv, WaitInv, Moves, browser
<1>2. \A q \in Ids' : requests'[q].at = "ok" => q # r /\ q \in Ids /\ requests'[q] = requests[q]
  BY DEF Moves
<1>3. SawInv'
  BY <1>2 DEF SetupInv, SawInv, Moves
<1>4. \A q \in Ids : requests'[q].setup = requests[q].setup
  BY DEF Moves
<1>5. ReadyIsSetUp'
  <2> SUFFICES ASSUME NEW q \in Ids', requests'[q].at = "ok"
               PROVE  LET saw == requests'[q].saw
                          setup == requests'[q].setup
                          maker == requests'[saw.maker]
                      IN  /\ \/ setup \in {NoRepo, saw.repo}
                             \/ /\ requests'[q].reused /\ saw.maker # q
                                /\ maker.setup # setup \/ saw.repo \in {Nothing, "partial"}
                          /\ saw.cwd # cwdOf(setup) =>
                               \E o \in Ids' : cwdOf(requests'[o].setup) # cwdOf(setup)
    BY DEF ReadyIsSetUp
  <2>1. q \in Ids /\ requests'[q] = requests[q] /\ requests[q].saw.maker \in Ids
    BY <1>2 DEF SetupInv, SawInv
  <2>2. Ids' = Ids
    BY DEF Moves
  <2> QED BY <1>4, <2>1, <2>2 DEF SetupInv, ReadyIsSetUp
<1>6. UNCHANGED bridge => BridgeInv'
  BY <1>4 DEF SetupInv, BridgeInv, Moves
<1>7. session' \in Ids \cup {0} /\ repo' \in Repo /\ bridge' \in Cwd \cup {Nothing} => SetupTyped'
  BY DEF SetupInv, SetupTyped, Moves, browser
<1> QED BY <1>1, <1>3, <1>5, <1>6, <1>7

LEMMA WorkerKeeps ==
  ASSUME SetupInv, NEW r \in Ids, WorkerStep(r)
  PROVE  SetupInv'
<1>t. /\ SetupTyped /\ MakerInv /\ RepoInv /\ BridgeInv
      /\ session \in Ids \cup {0} /\ repo \in Repo /\ bridge \in Cwd \cup {Nothing}
      /\ Ids = 1 .. Len(requests) /\ \A q \in Ids : requests[q] \in Posted
      /\ 0 \notin Ids
  BY DEF SetupInv, SetupTyped, Ids
<1>b. \A at \in Stage : (at \in Calls) <=> at \notin {"ok", "failed"}
  BY DEF Stage, Calls
<1>k. ASSUME NEW at \in Stage, at # "ok", Moves(r, at), MakerInv', RepoInv',
             UNCHANGED bridge, session' \in Ids \cup {0}, repo' \in Repo
      PROVE  SetupInv'
  BY <1>k, <1>t, MovesKeeps DEF SetupInv
(* The steps that only move the request                                    *)
<1>g. ASSUME NEW at \in Stage, at # "ok", Goes(r, at), UNCHANGED browser
      PROVE  /\ Moves(r, at) /\ requests'[r].reused = requests[r].reused
             /\ HasRepo(r)' = HasRepo(r) /\ \A q \in Ids : HasRepo(q)' = HasRepo(q)
  BY <1>g, <1>t, GoesMoves DEF HasRepo, Moves
<1>1. CASE createSession(r)
  <2> DEFINE next == IF HasRepo(r) THEN "outbound" ELSE "start"
  <2>0. requests[r].at = "create" /\ UNCHANGED <<browser, repo, bridge>>
    BY <1>1 DEF createSession, On
  <2>1. CASE session = 0
    <3>1. session' = r /\ Goes(r, next) /\ next \in Stage /\ next # "ok"
      BY <1>1, <2>1 DEF createSession, Stage, Calls
    <3>2. Moves(r, next) /\ requests'[r].reused = requests[r].reused
          /\ \A q \in Ids : HasRepo(q)' = HasRepo(q)
      BY <1>g, <2>0, <3>1
    <3>3. MakerInv'
      BY <1>t, <2>0, <2>1, <3>1, <3>2 DEF MakerInv, Moves, Busy, Calls
    <3>4. RepoInv'
      BY <1>t, <2>0, <2>1, <3>1, <3>2 DEF RepoInv, Moves, On
    <3> QED BY <1>k, <1>t, <2>0, <3>1, <3>2, <3>3, <3>4
  <2>2. CASE session # 0
    <3>1. UNCHANGED session /\ Goes(r, "attach") /\ "attach" \in Stage
      BY <1>1, <2>2 DEF createSession, Stage, Calls
    <3>2. Moves(r, "attach") /\ requests'[r].reused = requests[r].reused
          /\ \A q \in Ids : HasRepo(q)' = HasRepo(q)
      BY <1>g, <2>0, <3>1
    <3>3. MakerInv'
      BY <1>t, <2>0, <2>2, <3>1, <3>2 DEF MakerInv, Moves, Busy, Calls
    <3>4. RepoInv'
      BY <1>t, <2>0, <2>2, <3>1, <3>2 DEF RepoInv, MakerInv, Moves, On
    <3> QED BY <1>k, <1>t, <2>0, <3>1, <3>2, <3>3, <3>4
  <2> QED BY <2>1, <2>2
<1>2. CASE getSession(r)
  <2> DEFINE next == IF HasRepo(r) THEN "outbound" ELSE "start"
             made == [requests[r] EXCEPT !.at = next, !.reused = TRUE]
  <2>1. /\ requests[r].at = "attach" /\ session # 0 /\ UNCHANGED <<browser, sandbox>>
        /\ requests' = [requests EXCEPT ![r].at = next, ![r].reused = TRUE]
    BY <1>2 DEF getSession, On
  <2>2. next \in Stage /\ made \in Posted /\ requests[r] \in Posted
    BY <1>t DEF Posted, Stage, Calls
  <2>3. requests' = [requests EXCEPT ![r] = made]
    BY <2>1, <2>2
  <2>4. requests' \in Seq(Posted) /\ Ids' = Ids /\ requests'[r] = made
        /\ \A q \in Ids \ {r} : requests'[q] = requests[q]
    BY <1>t, <2>2, <2>3 DEF SetupTyped, Ids
  <2>5. made.at = next /\ made.reused /\ made.setup = requests[r].setup
    BY <2>2 DEF Posted
  <2>6. Moves(r, next) /\ \A q \in Ids : HasRepo(q)' = HasRepo(q)
    BY <2>1, <2>4, <2>5 DEF Moves, HasRepo
  <2>7. r # session
    BY <1>t, <2>1 DEF MakerInv
  <2>8. MakerInv'
    BY <1>t, <2>1, <2>4, <2>5, <2>6, <2>7 DEF MakerInv, Moves, Busy, Calls, sandbox
  <2>9. RepoInv'
    BY <1>t, <2>1, <2>4, <2>5, <2>6, <2>7 DEF RepoInv, Moves, On, sandbox
  <2> QED BY <1>k, <1>t, <2>1, <2>2, <2>6, <2>8, <2>9 DEF sandbox
<1>3. CASE setOutboundByHost(r)
  <2> DEFINE next == IF requests[r].reused THEN "start" ELSE "clone"
  <2>1. requests[r].at = "outbound" /\ UNCHANGED <<browser, sandbox>> /\ Goes(r, next) /\ next \in Stage
    BY <1>3 DEF setOutboundByHost, On, Stage, Calls
  <2>2. Moves(r, next) /\ requests'[r].reused = requests[r].reused
        /\ \A q \in Ids : HasRepo(q)' = HasRepo(q)
    BY <1>g, <2>1
  <2>3. MakerInv'
    BY <1>t, <2>1, <2>2 DEF MakerInv, Moves, Busy, Calls, sandbox
  <2>4. RepoInv'
    BY <1>t, <2>1, <2>2 DEF RepoInv, MakerInv, Moves, On, sandbox
  <2> QED BY <1>k, <1>t, <2>1, <2>2, <2>3, <2>4 DEF sandbox
<1>4. CASE Clone(r)
  <2>1. /\ requests[r].at = "clone" /\ repo = Nothing /\ repo' = "partial"
        /\ UNCHANGED <<browser, session, bridge>> /\ Goes(r, "cloning") /\ "cloning" \in Stage
    BY <1>4 DEF Clone, On, Stage, Calls
  <2>2. Moves(r, "cloning") /\ requests'[r].reused = requests[r].reused
        /\ \A q \in Ids : HasRepo(q)' = HasRepo(q)
    BY <1>g, <2>1
  <2>3. MakerInv'
    BY <1>t, <2>1, <2>2 DEF MakerInv, Moves, Busy, Calls
  <2>4. r = session /\ HasRepo(r)
    BY <1>t, <2>1 DEF MakerInv, Busy, Calls
  <2>5. RepoInv'
    BY <1>t, <2>1, <2>2, <2>4 DEF RepoInv, Moves, On
  <2> QED BY <1>k, <1>t, <2>1, <2>2, <2>3, <2>5 DEF Repo
<1>5. ASSUME NEW done \in BOOLEAN, CloneEnds(r, done) PROVE SetupInv'
  <2> DEFINE next == IF done THEN "config" ELSE "failed"
  <2>1. /\ requests[r].at = "cloning" /\ repo' = (IF done THEN requests[r].setup ELSE Nothing)
        /\ UNCHANGED <<browser, session, bridge>> /\ Goes(r, next) /\ next \in Stage /\ next # "ok"
    BY <1>5 DEF CloneEnds, On, Stage, Calls
  <2>2. Moves(r, next) /\ requests'[r].reused = requests[r].reused
        /\ \A q \in Ids : HasRepo(q)' = HasRepo(q)
    BY <1>g, <2>1
  <2>3. MakerInv'
    BY <1>t, <2>1, <2>2 DEF MakerInv, Moves, Busy, Calls
  <2>4. r = session /\ HasRepo(r)
    BY <1>t, <2>1 DEF MakerInv, Busy, Calls
  <2>5. requests[r].setup # "partial" /\ requests[r].setup \in Repo
    BY <1>t, SetupAssumption DEF Posted, Repo
  <2>6. RepoInv'
    BY <1>t, <2>1, <2>2, <2>4, <2>5 DEF RepoInv, Moves, On, Nothing
  <2> QED BY <1>k, <1>t, <2>1, <2>2, <2>3, <2>5, <2>6 DEF Repo
<1>6. CASE GitConfig(r)
  <2>1. requests[r].at = "config" /\ UNCHANGED <<browser, sandbox>> /\ Goes(r, "start") /\ "start" \in Stage
    BY <1>6 DEF GitConfig, On, Stage, Calls
  <2>2. Moves(r, "start") /\ requests'[r].reused = requests[r].reused
        /\ \A q \in Ids : HasRepo(q)' = HasRepo(q)
    BY <1>g, <2>1
  <2>3. MakerInv'
    BY <1>t, <2>1, <2>2 DEF MakerInv, Moves, Busy, Calls, sandbox
  <2>4. RepoInv'
    BY <1>t, <2>1, <2>2 DEF RepoInv, Moves, On, sandbox
  <2> QED BY <1>k, <1>t, <2>1, <2>2, <2>3, <2>4 DEF sandbox
<1>7. CASE startProcess(r)
  <2>1. /\ requests[r].at = "start" /\ UNCHANGED <<browser, session, repo>>
        /\ Goes(r, "wait") /\ "wait" \in Stage
        /\ bridge' = IF bridge = Nothing THEN cwdOf(requests[r].setup) ELSE bridge
    BY <1>7 DEF startProcess, On, Stage, Calls
  <2>2. Moves(r, "wait") /\ requests'[r].reused = requests[r].reused
        /\ \A q \in Ids : HasRepo(q)' = HasRepo(q)
    BY <1>g, <2>1
  <2>3. MakerInv'
    BY <1>t, <2>1, <2>2 DEF MakerInv, Moves, Busy, Calls
  <2>4. RepoInv'
    BY <1>t, <2>1, <2>2 DEF RepoInv, Moves, On
  <2>5. \A q \in Ids : requests'[q].setup = requests[q].setup
    BY <2>2 DEF Moves
  <2>6. BridgeInv'
    BY <1>t, <2>1, <2>2, <2>5 DEF BridgeInv, Moves
  <2>7. bridge' \in Cwd \cup {Nothing}
    BY <1>t, <2>1 DEF Cwd, cwdOf
  <2> QED BY <1>t, <2>1, <2>2, <2>3, <2>4, <2>6, <2>7, MovesKeeps DEF SetupInv
<1>8. CASE CallFails(r)
  <2>1. requests[r].at \in Calls /\ UNCHANGED <<browser, sandbox>> /\ Goes(r, "failed")
        /\ "failed" \in Stage
    BY <1>8 DEF CallFails, Fails, Busy, Stage
  <2>2. Moves(r, "failed") /\ requests'[r].reused = requests[r].reused
        /\ \A q \in Ids : HasRepo(q)' = HasRepo(q)
    BY <1>g, <2>1
  <2>3. MakerInv'
    BY <1>t, <2>1, <2>2 DEF MakerInv, Moves, Busy, Calls, sandbox
  <2>4. RepoInv'
    BY <1>t, <2>1, <2>2 DEF RepoInv, Moves, On, sandbox
  <2> QED BY <1>k, <1>t, <2>1, <2>2, <2>3, <2>4 DEF sandbox
<1>9. CASE waitForPort(r)
  <2> DEFINE saw == [repo |-> repo, cwd |-> bridge, maker |-> session]
             made == [requests[r] EXCEPT !.at = "ok", !.saw = saw]
  <2>1. /\ requests[r].at = "wait" /\ bridge # Nothing /\ UNCHANGED <<browser, sandbox>>
        /\ requests' = [requests EXCEPT ![r].at = "ok", ![r].saw = saw]
    BY <1>9 DEF waitForPort, On
  <2>2. session # 0 /\ session \in Ids /\ bridge \in Cwd
    BY <1>t, <2>1 DEF MakerInv, Busy, Calls
  <2>3. saw \in [repo : Repo, cwd : Cwd, maker : Ids] /\ saw \in Saw
    BY <1>t, <2>2 DEF Saw
  <2>4. made \in Posted /\ requests[r] \in Posted
    BY <1>t, <2>3 DEF Posted, Stage
  <2>5. requests' = [requests EXCEPT ![r] = made]
    BY <2>1, <2>4
  <2>6. requests' \in Seq(Posted) /\ Ids' = Ids /\ requests'[r] = made
        /\ \A q \in Ids \ {r} : requests'[q] = requests[q]
    BY <1>t, <2>4, <2>5 DEF SetupTyped, Ids
  <2>7. /\ made.at = "ok" /\ made.reused = requests[r].reused /\ made.setup = requests[r].setup
        /\ made.saw = saw
    BY <2>4 DEF Posted
  <2>8. /\ \A q \in Ids : requests'[q].setup = requests[q].setup /\ HasRepo(q)' = HasRepo(q)
        /\ \A q \in Ids : q # r => requests'[q] = requests[q]
    BY <2>6, <2>7 DEF HasRepo
  <2>9. MakerInv'
    BY <1>t, <2>1, <2>6, <2>7, <2>8 DEF MakerInv, Busy, Calls, sandbox
  <2>10. RepoInv'
    BY <1>t, <2>1, <2>6, <2>7, <2>8 DEF RepoInv, On, sandbox
  <2>11. BridgeInv'
    BY <1>t, <2>1, <2>6, <2>8 DEF BridgeInv, sandbox
  <2>12. SawInv'
    BY <2>3, <2>6, <2>7 DEF SetupInv, SawInv
  <2>13. WaitInv' /\ SetupTyped'
    BY <1>t, <2>1, <2>6 DEF SetupInv, WaitInv, SetupTyped, browser, sandbox
  <2>14. ReadyIsSetUp'
    <3> SUFFICES ASSUME NEW q \in Ids', requests'[q].at = "ok"
                 PROVE  LET seen == requests'[q].saw
                            setup == requests'[q].setup
                            maker == requests'[seen.maker]
                        IN  /\ \/ setup \in {NoRepo, seen.repo}
                               \/ /\ requests'[q].reused /\ seen.maker # q
                                  /\ maker.setup # setup \/ seen.repo \in {Nothing, "partial"}
                            /\ seen.cwd # cwdOf(setup) =>
                                 \E o \in Ids' : cwdOf(requests'[o].setup) # cwdOf(setup)
      BY DEF ReadyIsSetUp
    <3>1. CASE q # r
      <4>1. q \in Ids /\ requests'[q] = requests[q] /\ requests[q].saw.maker \in Ids
        BY <2>6, <2>8, <3>1 DEF SetupInv, SawInv
      <4> QED BY <2>6, <2>8, <4>1 DEF SetupInv, ReadyIsSetUp
    <3>2. CASE q = r
      <4>0. saw.repo = repo /\ saw.cwd = bridge /\ saw.maker = session
        OBVIOUS
      <4> HIDE DEF saw
      <4>1. requests'[q].saw.repo = repo /\ requests'[q].saw.cwd = bridge /\ requests'[q].saw.maker = session
            /\ requests'[q].setup = requests[r].setup /\ requests'[q].reused = requests[r].reused
        <5> HIDE DEF made
        <5> QED BY <2>6, <2>7, <3>2, <4>0
      <4>2. bridge # cwdOf(requests[r].setup) =>
              \E o \in Ids : cwdOf(requests'[o].setup) # cwdOf(requests[r].setup)
        BY <1>t, <2>1, <2>8 DEF BridgeInv
      <4>3. ASSUME HasRepo(r), repo # requests[r].setup
            PROVE  /\ requests[r].reused /\ session # r
                   /\ requests'[session].setup # requests[r].setup \/ repo \in {Nothing, "partial"}
        <5>1. requests[r].reused
          BY <1>t, <2>1, <4>3 DEF MakerInv, RepoInv, Busy, Calls
        <5>2. session # r
          BY <1>t, <2>2, <5>1 DEF MakerInv
        <5>3. repo \in {Nothing, "partial", requests[session].setup}
          BY <1>t DEF RepoInv
        <5> QED BY <2>2, <2>8, <4>3, <5>1, <5>2, <5>3
      <4>4. \/ requests[r].setup \in {NoRepo, repo}
            \/ /\ requests[r].reused /\ session # r
               /\ requests'[session].setup # requests[r].setup \/ repo \in {Nothing, "partial"}
        BY <4>3 DEF HasRepo
      <4> QED BY <2>6, <3>2, <4>1, <4>2, <4>4
    <3> QED BY <3>1, <3>2
  <2> QED BY <2>9, <2>10, <2>11, <2>12, <2>13, <2>14 DEF SetupInv
<1> QED BY <1>1, <1>2, <1>3, <1>4, <1>5, <1>6, <1>7, <1>8, <1>9 DEF WorkerStep

LEMMA FaultKeeps ==
  ASSUME SetupInv, BridgeDies \/ ContainerSleeps \/ \E done \in BOOLEAN : CloneOutlives(done)
  PROVE  SetupInv'
<1> USE DEF SetupInv
<1>1. CASE BridgeDies
  <2> USE <1>1 DEF BridgeDies, browser
  <2>1. SetupTyped' /\ WaitInv' /\ SawInv'
    BY DEF SetupTyped, Ids, WaitInv, SawInv
  <2>2. MakerInv' /\ RepoInv' /\ BridgeInv'
    BY DEF MakerInv, RepoInv, BridgeInv, Ids, Busy, On, HasRepo
  <2>3. ReadyIsSetUp'
    BY DEF ReadyIsSetUp, Ids
  <2> QED BY <2>1, <2>2, <2>3
<1>2. CASE ContainerSleeps
  <2> USE <1>2 DEF ContainerSleeps, browser
  <2>1. SetupTyped' /\ WaitInv' /\ SawInv'
    BY DEF SetupTyped, Ids, WaitInv, SawInv, Repo
  <2>2. MakerInv' /\ RepoInv' /\ BridgeInv'
    BY SetupAssumption DEF MakerInv, RepoInv, BridgeInv, Ids, Busy, On, HasRepo, Nothing, Calls
  <2>3. ReadyIsSetUp'
    BY DEF ReadyIsSetUp, Ids
  <2> QED BY <2>1, <2>2, <2>3
<1>3. ASSUME NEW done \in BOOLEAN, CloneOutlives(done) PROVE SetupInv'
  <2>1. /\ On(session, "failed") /\ UNCHANGED <<browser, requests, session, bridge>>
        /\ repo' = IF done THEN requests[session].setup ELSE Nothing
    BY <1>3 DEF CloneOutlives
  <2>2. requests[session].setup \in Setups /\ requests[session].setup # "partial"
    <3>1. session \in DOMAIN requests /\ requests[session] \in Posted
      BY <2>1 DEF SetupTyped, Ids, On
    <3>2. requests[session].setup \in Setups
      BY <3>1 DEF Posted
    <3> QED BY <3>2, SetupAssumption
  <2>3. SetupTyped' /\ WaitInv' /\ SawInv'
    BY <2>1, <2>2 DEF SetupTyped, Ids, WaitInv, SawInv, browser, Repo
  <2>4. MakerInv' /\ BridgeInv' /\ ReadyIsSetUp'
    BY <2>1 DEF MakerInv, BridgeInv, Ids, Busy, HasRepo, ReadyIsSetUp
  <2>5. RepoInv'
    BY <2>1, <2>2 DEF RepoInv, SetupTyped, On, HasRepo, Ids, Nothing
  <2> QED BY <2>3, <2>4, <2>5
<1> QED BY <1>1, <1>2, <1>3

LEMMA SetupStep == SetupInv /\ [SNext]_svars => SetupInv'
<1> SUFFICES ASSUME SetupInv, [SNext]_svars PROVE SetupInv'
  OBVIOUS
<1>1. ASSUME NEW p \in Pages, PageStep(p) PROVE SetupInv'
  BY <1>1, PageKeeps
<1>2. ASSUME NEW r \in Ids, WorkerStep(r) PROVE SetupInv'
  BY <1>2, WorkerKeeps
<1>3. CASE BridgeDies \/ ContainerSleeps \/ \E done \in BOOLEAN : CloneOutlives(done)
  BY <1>3, FaultKeeps
<1>4. CASE UNCHANGED svars
  <2> USE <1>4 DEF svars, browser, sandbox, SetupInv
  <2>1. SetupTyped' /\ WaitInv' /\ SawInv'
    BY DEF SetupTyped, Ids, WaitInv, SawInv
  <2>2. MakerInv' /\ RepoInv' /\ BridgeInv'
    BY DEF MakerInv, RepoInv, BridgeInv, Ids, Busy, On, HasRepo
  <2>3. ReadyIsSetUp'
    BY DEF ReadyIsSetUp, Ids
  <2> QED BY <2>1, <2>2, <2>3
<1> QED BY <1>1, <1>2, <1>3, <1>4 DEF SNext

-----------------------------------------------------------------------------
(* Rows                                                                    *)

(* What was made of the i-th entry of a timeline: rows of its own, no two  *)
(* the same; and what it paired the entry with, it consumed.               *)
Fits(a, list, i, bound) ==
  /\ a.consumed \in Nat
  /\ \A m \in DOMAIN a.rows :
       /\ a.rows[m].id[1] = list[i].id
       /\ \A o \in DOMAIN a.rows : a.rows[m].id = a.rows[o].id => m = o
       /\ a.rows[m].pair \in Nat /\ a.rows[m].pair < bound
       /\ \A l \in DOMAIN list : list[l].id = a.rows[m].pair => i < l /\ l <= i + a.consumed

Kinds == Frames \cup {"local", "streaming", "note"}
Timeline(list, bound) ==
  /\ list \in Seq([id : Nat \ {0}, what : Kinds])
  /\ \A i \in DOMAIN list : list[i].id < bound
  /\ \A i, j \in DOMAIN list : i < j => list[i].id < list[j].id

(* What is remembered fits its entry, was final, and is what would be made *)
(* of it now unless a distance slipped.                                    *)
CacheInv ==
  /\ \A id \in DOMAIN cache : id \in Nat /\ id < nextId
  /\ \A i \in DOMAIN messages : messages[i].id \in DOMAIN cache =>
       LET a == cache[messages[i].id]
       IN  /\ ~a.shellsDependent /\ Fits(a, messages, i, nextId)
           /\ slipped = {} => a = analyzeEntry(i)

RowsInv ==
  /\ nextId \in Nat \ {0} /\ Timeline(messages, nextId) /\ CacheInv
  /\ RowsSafe

(* p is the next user frame after i.                                       *)
IsNext(list, i, p) ==
  /\ p \in i + 1 .. Len(list) /\ list[p].what \in UserFrames
  /\ \A l \in i + 1 .. p - 1 : list[l].what \notin UserFrames
NextIn(list, from) ==
  LET I == {l \in from .. Len(list) : list[l].what \in UserFrames}
  IN  IF I # {} THEN Min(I) ELSE 0

LEMMA Nexts ==
  \A i : nextUserFrameAt(i) = NextIn(messages, i) /\ nextUserFrameAt(i)' = NextIn(messages', i)
BY DEF nextUserFrameAt, NextIn, SelectInSubSeq

LEMMA LeastExists ==
  ASSUME NEW n \in Nat, NEW I \in SUBSET (0 .. n), I # {}
  PROVE  Min(I) \in I /\ \A x \in I : Min(I) <= x
<1> SUFFICES ASSUME \A x \in I : \E y \in I : ~(x <= y) PROVE FALSE
  <2>1. \E x \in I : \A y \in I : x <= y
    OBVIOUS
  <2> QED BY <2>1 DEF Min
<1> DEFINE S == {m \in Nat : \A x \in I : x > m}
<1>1. 0 \in S
  <2>1. ASSUME NEW x \in I, x = 0 PROVE FALSE
    BY <2>1
  <2> QED BY <2>1
<1>2. ASSUME NEW m \in S PROVE m + 1 \in S
  <2>1. ASSUME NEW x \in I PROVE x > m + 1
    <3>1. PICK y \in I : ~(x <= y)
      OBVIOUS
    <3>2. x \in Nat /\ y \in Nat /\ y > m
      BY <1>2
    <3> QED BY <1>2, <3>1, <3>2
  <2> QED BY <1>2, <2>1
<1>3. S \in SUBSET Nat
  OBVIOUS
<1> HIDE DEF S
<1>4. S = Nat
  BY <1>1, <1>2, <1>3, SetInduction
<1>5. PICK x : x \in I
  OBVIOUS
<1>6. x \in Nat
  BY <1>5
<1>7. x \in S
  BY <1>4, <1>6
<1> QED BY <1>5, <1>6, <1>7 DEF S

LEMMA NextFound ==
  ASSUME NEW T, NEW list \in Seq(T), NEW i \in Nat, i >= 1
  PROVE  /\ NextIn(list, i + 1) # 0 => IsNext(list, i, NextIn(list, i + 1))
         /\ \A p : IsNext(list, i, p) => NextIn(list, i + 1) = p
<1> DEFINE I == {l \in i + 1 .. Len(list) : list[l].what \in UserFrames}
<1>1. Len(list) \in Nat /\ I \in SUBSET (0 .. Len(list))
  OBVIOUS
<1>2. NextIn(list, i + 1) = IF I # {} THEN Min(I) ELSE 0
  BY DEF NextIn
<1>3. I # {} => Min(I) \in I /\ \A x \in I : Min(I) <= x
  <2> HIDE DEF I
  <2> QED BY <1>1, LeastExists
<1>4. I # {} => IsNext(list, i, Min(I))
  <2> SUFFICES ASSUME I # {}, NEW l \in i + 1 .. Min(I) - 1, list[l].what \in UserFrames PROVE FALSE
    BY <1>3 DEF IsNext
  <2>1. l \in I
    BY <1>1, <1>3
  <2> QED BY <1>3, <2>1
<1>5. ASSUME NEW p, IsNext(list, i, p) PROVE I # {} /\ Min(I) = p
  <2>1. p \in I
    BY <1>5 DEF IsNext
  <2>2. Min(I) \in I /\ Min(I) <= p
    BY <1>3, <2>1
  <2>3. Min(I) \in i + 1 .. Len(list) /\ list[Min(I)].what \in UserFrames
    BY <2>2
  <2> HIDE DEF I
  <2>4. ~(Min(I) < p)
    BY <1>1, <1>5, <2>3 DEF IsNext
  <2>5. p \in Nat /\ Min(I) \in Nat
    BY <1>1, <1>5, <2>3 DEF IsNext
  <2> QED BY <2>1, <2>2, <2>4, <2>5
<1> HIDE DEF I
<1> QED BY <1>2, <1>4, <1>5

(* The stops of the loop exist, and so the loop stops at them.             *)
LEMMA VisitedEffect ==
  ASSUME NEW T, messages \in Seq(T), NEW a, \A i \in DOMAIN messages : a[i].consumed \in Nat
  PROVE  /\ Visited(a) \in SUBSET DOMAIN messages
         /\ \A i \in DOMAIN messages :
              i \in Visited(a) <=> \A j \in Visited(a) : j < i => j + a[j].consumed < i
<1> DEFINE n == Len(messages)
           Stops(V, m) == /\ V \in SUBSET (1 .. m)
                          /\ \A i \in 1 .. m : i \in V <=> \A j \in V : j < i => j + a[j].consumed < i
           S == {m \in Nat : \E V : Stops(V, m)}
<1>1. n \in Nat /\ DOMAIN messages = 1 .. n
  OBVIOUS
<1>2. 0 \in S
  <2>1. Stops({}, 0)
    OBVIOUS
  <2> QED BY <2>1
<1>3. ASSUME NEW m \in S PROVE m + 1 \in S
  <2>1. PICK V : Stops(V, m)
    OBVIOUS
  <2>2. m \in Nat
    OBVIOUS
  <2> DEFINE stops == \A j \in V : j < m + 1 => j + a[j].consumed < m + 1
             W == IF stops THEN V \cup {m + 1} ELSE V
  <2>3. W \in SUBSET (1 .. m + 1)
    BY <2>1, <2>2
  <2>4. ASSUME NEW i \in 1 .. m + 1
        PROVE  i \in W <=> \A j \in W : j < i => j + a[j].consumed < i
    <3>1. \A j : j < i => (j \in W <=> j \in V)
      BY <2>1, <2>2
    <3>2. CASE i = m + 1
      <4>1. i \in W <=> stops
        BY <2>1, <2>2, <3>2
      <4> QED BY <2>2, <3>1, <3>2, <4>1
    <3>3. CASE i # m + 1
      <4>1. i \in 1 .. m /\ (i \in W <=> i \in V)
        BY <2>2, <3>3
      <4>2. i \in V <=> \A j \in V : j < i => j + a[j].consumed < i
        BY <2>1, <4>1
      <4> HIDE DEF W, Stops
      <4> QED BY <3>1, <4>1, <4>2
    <3> QED BY <3>2, <3>3
  <2>5. Stops(W, m + 1)
    BY <2>3, <2>4
  <2> HIDE DEF Stops, W
  <2>6. \E X : Stops(X, m + 1)
    BY <2>5
  <2> QED BY <2>2, <2>6
<1>4. S \in SUBSET Nat
  OBVIOUS
<1>5. S = Nat
  <2> HIDE DEF S
  <2> QED BY <1>2, <1>3, <1>4, SetInduction
<1>6. PICK V : Stops(V, n)
  BY <1>1, <1>5
<1>7. V \in SUBSET DOMAIN messages
      /\ \A i \in DOMAIN messages : i \in V <=> \A j \in V : j < i => j + a[j].consumed < i
  BY <1>1, <1>6
<1> QED BY <1>7 DEF Visited

LEMMA TimelineIds ==
  ASSUME NEW list, NEW bound, Timeline(list, bound)
  PROVE  /\ Len(list) \in Nat /\ DOMAIN list = 1 .. Len(list)
         /\ \A l \in DOMAIN list : /\ l \in Nat /\ l >= 1 /\ l <= Len(list)
                                   /\ list[l].id \in Nat \ {0} /\ list[l].id < bound
         /\ \A l, m \in DOMAIN list : list[l].id = list[m].id => l = m
<1>1. list \in Seq([id : Nat \ {0}, what : Kinds])
  BY DEF Timeline
<1>2. /\ Len(list) \in Nat /\ DOMAIN list = 1 .. Len(list)
      /\ \A l \in DOMAIN list : /\ l \in Nat /\ l >= 1 /\ l <= Len(list)
                                /\ list[l] \in [id : Nat \ {0}, what : Kinds]
  BY <1>1, Elements
<1>3. \A l \in DOMAIN list : list[l].id \in Nat \ {0} /\ list[l].id < bound
  BY <1>2 DEF Timeline
<1>4. ASSUME NEW l \in DOMAIN list, NEW m \in DOMAIN list, list[l].id = list[m].id, l # m PROVE FALSE
  <2>1. l < m \/ m < l
    BY <1>2, <1>4
  <2>2. list[l].id < list[m].id \/ list[m].id < list[l].id
    BY <1>4, <2>1 DEF Timeline
  <2> QED BY <1>3, <1>4, <2>2
<1> QED BY <1>2, <1>3, <1>4

Paired(i, p) == IsNext(messages, i, p) /\ messages[p].what = "output"
Joined(i, p) == [rows |-> <<[Row(messages[i].id, "", "bash") EXCEPT !.pair = messages[p].id]>>,
                 consumed |-> p - i, shellsDependent |-> FALSE]

LEMMA InputAnalysis ==
  ASSUME NEW T, messages \in Seq(T), NEW i \in DOMAIN messages, messages[i].what = "input"
  PROVE  /\ \A p : Paired(i, p) => analyzeEntry(i) = Joined(i, p)
         /\ (\A p : ~Paired(i, p)) =>
              \E r : /\ r.id = <<messages[i].id, "">> /\ r.pair = 0
                     /\ analyzeEntry(i).rows = <<r>> /\ analyzeEntry(i).consumed = 0
                     /\ analyzeEntry(i).shellsDependent
<1>1. i \in Nat /\ i >= 1
  BY Elements
<1>2. analyzeEntry(i) = analyzeInput(i)
  BY DEF analyzeEntry
<1>3. ASSUME NEW p, Paired(i, p) PROVE analyzeEntry(i) = Joined(i, p)
  <2>1. nextUserFrameAt(i + 1) = p /\ p # 0 /\ messages[p].what = "output"
    BY <1>1, <1>3, Nexts, NextFound DEF Paired, IsNext
  <2> QED BY <1>2, <2>1 DEF analyzeInput, Joined
<1>4. ASSUME \A p : ~Paired(i, p)
      PROVE  \E r : /\ r.id = <<messages[i].id, "">> /\ r.pair = 0
                    /\ analyzeEntry(i).rows = <<r>> /\ analyzeEntry(i).consumed = 0
                    /\ analyzeEntry(i).shellsDependent
  <2> DEFINE r == [Row(messages[i].id, "", "live") EXCEPT
                     !.chunks = IF shells = <<>> THEN 0 ELSE Last(shells)]
             q == nextUserFrameAt(i + 1)
  <2>1. ~(q # 0 /\ messages[q].what = "output")
    BY <1>1, <1>4, Nexts, NextFound DEF Paired
  <2>2. analyzeEntry(i) = [rows |-> <<r>>, consumed |-> 0, shellsDependent |-> TRUE]
    BY <1>2, <2>1 DEF analyzeInput
  <2>3. r.id = <<messages[i].id, "">> /\ r.pair = 0
    BY DEF Row
  <2> HIDE DEF r
  <2>4. /\ analyzeEntry(i).rows = <<r>> /\ analyzeEntry(i).consumed = 0
        /\ analyzeEntry(i).shellsDependent
    BY <2>2
  <2> QED BY <2>3, <2>4
<1> QED BY <1>3, <1>4

LEMMA JoinedAnalysis ==
  ASSUME Timeline(messages, nextId), NEW i \in DOMAIN messages, messages[i].what = "input",
         NEW p, Paired(i, p)
  PROVE  analyzeEntry(i) = Joined(i, p)
<1>1. messages \in Seq([id : Nat \ {0}, what : Kinds])
  BY DEF Timeline
<1> QED BY <1>1, InputAnalysis

(* What is made of an entry fits it; only an input and its output are ever *)
(* joined.                                                                 *)
LEMMA Analyses ==
  ASSUME nextId \in Nat \ {0}, Timeline(messages, nextId), NEW i \in DOMAIN messages,
         NEW a, a = analyzeEntry(i)
  PROVE  /\ Fits(a, messages, i, nextId)
         /\ messages[i].what \notin {"hidden", "blank"} =>
              1 \in DOMAIN a.rows /\ a.rows[1].id[1] = messages[i].id
         /\ messages[i].what # "input" => a.consumed = 0
         /\ messages[i].what = "input" =>
              \/ a.shellsDependent /\ a.consumed = 0
              \/ \E p : Paired(i, p) /\ a.consumed = p - i /\ a.rows[1].pair = messages[p].id
<1> DEFINE id == messages[i].id
           what == messages[i].what
<1>1. /\ messages \in Seq([id : Nat \ {0}, what : Kinds]) /\ id \in Nat \ {0}
      /\ i \in Nat /\ i >= 1 /\ \A l \in DOMAIN messages : messages[l].id # 0
  BY TimelineIds DEF Timeline
<1>f. ASSUME NEW b, b.consumed = 0,
             \A m \in DOMAIN b.rows :
               /\ b.rows[m].id[1] = id /\ b.rows[m].pair = 0
               /\ \A o \in DOMAIN b.rows : b.rows[m].id = b.rows[o].id => m = o
      PROVE  Fits(b, messages, i, nextId)
  BY <1>1, <1>f DEF Fits
<1>o. \A x, y : <<x, y>>[1] = x
  OBVIOUS
<1>r. \A part, w : Row(id, part, w).id = <<id, part>> /\ Row(id, part, w).pair = 0
  BY DEF Row
<1>2. CASE what = "input"
  <2>1. CASE \E p : Paired(i, p)
    <3>1. PICK p : Paired(i, p)
      BY <2>1
    <3> DEFINE r == [Row(id, "", "bash") EXCEPT !.pair = messages[p].id]
    <3>2. a = [rows |-> <<r>>, consumed |-> p - i, shellsDependent |-> FALSE]
      BY <1>1, <1>2, <3>1, InputAnalysis DEF Joined
    <3>3. r.id = <<id, "">> /\ r.pair = messages[p].id
      BY DEF Row
    <3> HIDE DEF r
    <3>4. a.rows = <<r>> /\ DOMAIN a.rows = {1} /\ a.rows[1] = r /\ a.consumed = p - i
      BY <3>2
    <3>5. p \in DOMAIN messages /\ p \in Nat /\ i < p
      BY <1>1, <3>1 DEF Paired, IsNext
    <3>6. messages[p].id \in Nat /\ messages[p].id < nextId
      BY <3>5, TimelineIds
    <3>7. \A l \in DOMAIN messages : messages[l].id = messages[p].id => l = p
      BY <3>5, TimelineIds
    <3>8. a.rows[1].id[1] = id /\ a.rows[1].pair = messages[p].id
      BY <1>o, <3>3, <3>4
    <3>9. Fits(a, messages, i, nextId)
      <4>1. a.consumed \in Nat /\ i + a.consumed = p
        BY <1>1, <3>4, <3>5
      <4>2. \A l \in DOMAIN messages : messages[l].id = a.rows[1].pair => i < l /\ l <= i + a.consumed
        BY <1>1, <3>5, <3>7, <3>8, <4>1
      <4> QED BY <3>4, <3>6, <3>8, <4>1, <4>2 DEF Fits
    <3> QED BY <1>2, <3>1, <3>4, <3>8, <3>9
  <2>2. CASE \A p : ~Paired(i, p)
    <3>1. PICK r : /\ r.id = <<id, "">> /\ r.pair = 0
                   /\ a.rows = <<r>> /\ a.consumed = 0 /\ a.shellsDependent
      BY <1>1, <1>2, <2>2, InputAnalysis
    <3>2. DOMAIN <<r>> = {1} /\ <<r>>[1] = r
      OBVIOUS
    <3>3. DOMAIN a.rows = {1} /\ a.rows[1] = r /\ a.rows[1].id[1] = id
      <4>1. r.id[1] = id
        BY <1>o, <3>1
      <4>2. a.rows = <<r>>
        BY <3>1
      <4>3. DOMAIN a.rows = {1}
        BY <3>2, <4>2
      <4>4. a.rows[1] = r
        BY <3>2, <4>2
      <4> QED BY <4>1, <4>3, <4>4
    <3>4. Fits(a, messages, i, nextId)
      BY <1>f, <3>1, <3>3
    <3> QED BY <1>2, <3>1, <3>3, <3>4
  <2> QED BY <2>1, <2>2
<1>3. CASE what = "mergedText"
  <2> DEFINE r == Row(id, "bash", "bash")
             q == Row(id, "text", "text")
  <2>1. a = Analysis(<<r, q>>)
    BY <1>3 DEF analyzeEntry
  <2>2. r.id = <<id, "bash">> /\ q.id = <<id, "text">> /\ r.pair = 0 /\ q.pair = 0
    BY <1>r
  <2> HIDE DEF r, q
  <2>3. /\ a.rows = <<r, q>> /\ DOMAIN a.rows = {1, 2} /\ a.rows[1] = r /\ a.rows[2] = q
        /\ a.consumed = 0
    BY <2>1 DEF Analysis
  <2>4. Fits(a, messages, i, nextId)
    BY <1>f, <2>2, <2>3
  <2> QED BY <1>3, <2>2, <2>3, <2>4
<1>4. CASE what \in {"blank", "hidden"}
  <2>1. a = Analysis(<<>>)
    BY <1>4 DEF analyzeEntry
  <2>2. DOMAIN a.rows = {} /\ a.consumed = 0
    BY <2>1 DEF Analysis
  <2>3. Fits(a, messages, i, nextId)
    BY <1>f, <2>2
  <2> QED BY <1>4, <2>2, <2>3
<1>5. CASE what \notin {"input", "mergedText", "blank", "hidden"}
  <2>1. \E part, w : a = Analysis(<<Row(id, part, w)>>)
    <3>1. CASE what = "output"
      BY <3>1 DEF analyzeEntry
    <3>2. CASE what = "merged"
      BY <3>2 DEF analyzeEntry
    <3>3. CASE what \notin {"output", "merged"}
      BY <1>5, <3>3 DEF analyzeEntry
    <3> QED BY <3>1, <3>2, <3>3
  <2>2. PICK r : a = Analysis(<<r>>) /\ r.id[1] = id /\ r.pair = 0
    BY <1>r, <2>1
  <2>3. a.rows = <<r>> /\ DOMAIN a.rows = {1} /\ a.rows[1] = r /\ a.consumed = 0
    BY <2>2 DEF Analysis
  <2>4. Fits(a, messages, i, nextId)
    BY <1>f, <2>2, <2>3
  <2> QED BY <1>5, <2>2, <2>3, <2>4
<1> QED BY <1>2, <1>3, <1>4, <1>5

(* An entry is made the same of wherever it comes to stand, if its output  *)
(* stays as far from it.                                                   *)
LEMMA SameAnalysis ==
  ASSUME NEW T, messages \in Seq(T), messages' \in Seq(T),
         NEW i \in DOMAIN messages, NEW k \in DOMAIN messages', messages'[k] = messages[i],
         messages[i].what = "input" =>
           \E p : /\ Paired(i, p) /\ IsNext(messages', k, p + k - i)
                  /\ messages'[p + k - i] = messages[p]
  PROVE  analyzeEntry(k)' = analyzeEntry(i)
<1>1. CASE messages[i].what # "input"
  BY <1>1 DEF analyzeEntry
<1>2. CASE messages[i].what = "input"
  <2>1. PICK p : /\ Paired(i, p) /\ IsNext(messages', k, p + k - i)
                 /\ messages'[p + k - i] = messages[p]
    BY <1>2
  <2>2. i \in Nat /\ k \in Nat /\ k >= 1 /\ p \in Nat
    BY <2>1, Elements DEF Paired, IsNext
  <2> DEFINE q == p + k - i
  <2>3. q - k = p - i
    BY <2>2
  <2>4. messages'[q] = messages[p] /\ messages[p].what = "output"
    BY <2>1 DEF Paired
  <2>5. (nextUserFrameAt(k + 1))' = q /\ q # 0
    <3>1. NextIn(messages', k + 1) = q
      BY <2>1, <2>2, NextFound
    <3>2. (nextUserFrameAt(k + 1))' = NextIn(messages', k + 1)
      BY Nexts
    <3>3. q # 0
      BY <2>1, <2>2 DEF IsNext
    <3> QED BY <3>1, <3>2, <3>3
  <2> HIDE DEF q
  <2>6. analyzeEntry(k)' = [rows |-> <<[Row(messages'[k].id, "", "bash") EXCEPT !.pair = messages'[q].id]>>,
                            consumed |-> q - k, shellsDependent |-> FALSE]
    BY <1>2, <2>4, <2>5 DEF analyzeEntry, analyzeInput
  <2>7. analyzeEntry(i) = Joined(i, p)
    BY <1>2, <2>1, InputAnalysis
  <2> QED BY <2>3, <2>4, <2>6, <2>7 DEF Joined
<1> QED BY <1>1, <1>2

LEMMA Between ==
  \A k, l, i, j, c \in Nat :
    /\ i < j /\ j <= i + c
    /\ k < l => l - k <= j - i
    /\ l < k => k - l <= i - j
    /\ l = k => j = i
    => k < l /\ l <= k + c
OBVIOUS

(* The timeline goes from what it was by entries left out and one added:   *)
(* what is remembered still fits; it is what would be made now where the   *)
(* output of an input is still as far from it.                             *)
Carried(n, f) ==
  /\ DOMAIN messages' = 1 .. n + 1 /\ messages'[n + 1].id = nextId
  /\ \A k \in 1 .. n : f[k] \in DOMAIN messages /\ messages'[k] = messages[f[k]]
  /\ \A k, l \in 1 .. n : k < l => l - k <= f[l] - f[k]
  /\ \A k \in 1 .. n : slipped' = {} /\ messages[f[k]].id \in DOMAIN cache =>
       \A p : Paired(f[k], p) /\ cache[messages[f[k]].id] = Joined(f[k], p) =>
         IsNext(messages', k, p + k - f[k]) /\ messages'[p + k - f[k]] = messages[p]

LEMMA CacheMoves ==
  ASSUME nextId \in Nat \ {0}, Timeline(messages, nextId), CacheInv,
         nextId' = nextId + 1, Timeline(messages', nextId'), UNCHANGED cache,
         slipped' = {} => slipped = {}, NEW n \in Nat, NEW f, Carried(n, f)
  PROVE  CacheInv'
<1> USE DEF Carried
<1>1. \A id \in DOMAIN cache' : id \in Nat /\ id < nextId'
  BY DEF CacheInv
<1>2. ASSUME NEW k \in DOMAIN messages', messages'[k].id \in DOMAIN cache,
             NEW a, a = cache[messages'[k].id]
      PROVE  /\ ~a.shellsDependent /\ Fits(a, messages', k, nextId')
             /\ slipped' = {} => a = analyzeEntry(k)'
  <2> DEFINE i == f[k]
  <2>0. messages \in Seq([id : Nat \ {0}, what : Kinds]) /\ messages' \in Seq([id : Nat \ {0}, what : Kinds])
    BY DEF Timeline
  <2>1. k \in 1 .. n
    <3>1. nextId \notin DOMAIN cache
      BY DEF CacheInv
    <3> QED BY <1>2, <3>1
  <2>2. i \in DOMAIN messages /\ messages'[k] = messages[i]
    BY <2>1
  <2>3. i \in Nat /\ \A l \in 1 .. n : f[l] \in Nat
    BY <2>2, TimelineIds
  <2>4. ~a.shellsDependent /\ Fits(a, messages, i, nextId) /\ (slipped = {} => a = analyzeEntry(i))
    BY <1>2, <2>2 DEF CacheInv
  <2>5. ASSUME NEW m \in DOMAIN a.rows, NEW l \in DOMAIN messages',
               messages'[l].id = a.rows[m].pair
        PROVE  k < l /\ l <= k + a.consumed
    <3>1. a.rows[m].pair < nextId /\ a.rows[m].pair \in Nat /\ a.consumed \in Nat
      BY <2>4 DEF Fits
    <3>2. l \in 1 .. n
      BY <2>5, <3>1
    <3>3. i < f[l] /\ f[l] <= i + a.consumed
      BY <2>4, <2>5, <3>2 DEF Fits
    <3>4. k < l => l - k <= f[l] - i
      BY <2>1, <3>2
    <3>5. l < k => k - l <= i - f[l]
      BY <2>1, <3>2
    <3>6. f[l] \in Nat /\ (l = k => f[l] = i)
      BY <2>3, <3>2
    <3>7. k \in Nat /\ l \in Nat /\ i \in Nat
      BY <2>1, <2>3, <3>2
    <3> HIDE DEF i
    <3> QED BY <3>1, <3>3, <3>4, <3>5, <3>6, <3>7, Between
  <2>6. Fits(a, messages', k, nextId')
    <3>1. \A m \in DOMAIN a.rows : a.rows[m].pair < nextId'
      BY <2>4 DEF Fits
    <3> QED BY <2>2, <2>4, <2>5, <3>1 DEF Fits
  <2>7. ASSUME slipped' = {} PROVE a = analyzeEntry(k)'
    <3>1. a = analyzeEntry(i)
      BY <2>4, <2>7
    <3>2. ASSUME messages[i].what = "input"
          PROVE  \E p : /\ Paired(i, p) /\ IsNext(messages', k, p + k - i)
                        /\ messages'[p + k - i] = messages[p]
      <4>1. PICK p : Paired(i, p)
        BY <2>2, <2>4, <3>1, <3>2, Analyses
      <4>2. a = Joined(i, p)
        <5> HIDE DEF i
        <5>1. analyzeEntry(i) = Joined(i, p)
          BY <2>2, <3>2, <4>1, JoinedAnalysis
        <5> QED BY <3>1, <5>1
      <4> QED BY <1>2, <2>1, <2>2, <2>7, <4>1, <4>2
    <3> HIDE DEF i
    <3>3. analyzeEntry(k)' = analyzeEntry(i)
      BY <1>2, <2>0, <2>2, <3>2, SameAnalysis
    <3> QED BY <3>1, <3>3
  <2> QED BY <2>4, <2>6, <2>7
<1> QED BY <1>1, <1>2 DEF CacheInv

(* The shells print, and nothing moves: only what waits for them changes.  *)
LEMMA CacheStays ==
  ASSUME nextId \in Nat \ {0}, Timeline(messages, nextId), CacheInv,
         UNCHANGED <<messages, nextId, cache, slipped>>
  PROVE  CacheInv'
<1>1. ASSUME NEW i \in DOMAIN messages, messages[i].id \in DOMAIN cache, slipped = {}
      PROVE  analyzeEntry(i)' = analyzeEntry(i)
  <2>1. analyzeEntry(i) = cache[messages[i].id] /\ ~analyzeEntry(i).shellsDependent
    BY <1>1 DEF CacheInv
  <2>2. ASSUME messages[i].what = "input"
        PROVE  \E p : /\ Paired(i, p) /\ IsNext(messages', i, p + i - i)
                      /\ messages'[p + i - i] = messages[p]
    <3>1. PICK p : Paired(i, p)
      BY <2>1, <2>2, Analyses
    <3>2. p + i - i = p
      BY <3>1, TimelineIds DEF Paired, IsNext
    <3> QED BY <3>1, <3>2 DEF Paired
  <2> QED BY <2>2, SameAnalysis DEF Timeline
<1> QED BY <1>1 DEF CacheInv, Fits

LEMMA PushKeeps ==
  ASSUME RowsInv, NEW what \in Kinds, Push(what)
  PROVE  RowsInv'
<1> DEFINE n == Len(messages)
           new == Entry(what)
           f == [k \in 1 .. n |-> k]
<1>1. /\ messages' = Append(messages, new) /\ nextId' = nextId + 1 /\ dirty' = TRUE
      /\ UNCHANGED <<cache, rows, slipped>> /\ nextId \in Nat \ {0} /\ Timeline(messages, nextId)
  BY DEF Push, Changed, RowsInv
<1>2. new \in [id : Nat \ {0}, what : Kinds] /\ new.id = nextId
  BY <1>1 DEF Entry
<1> HIDE DEF new
<1>3. /\ n \in Nat /\ messages' \in Seq([id : Nat \ {0}, what : Kinds])
      /\ DOMAIN messages = 1 .. n /\ DOMAIN messages' = 1 .. n + 1
      /\ messages'[n + 1] = new /\ \A i \in 1 .. n : messages'[i] = messages[i]
  BY <1>1, <1>2 DEF Timeline
<1>4. Timeline(messages', nextId')
  <2>1. \A i \in 1 .. n : messages[i].id < nextId /\ messages[i].id \in Nat
    BY <1>1, <1>3, TimelineIds
  <2> QED BY <1>1, <1>2, <1>3, <2>1 DEF Timeline
<1>5. ASSUME NEW i \in 1 .. n, NEW p, Paired(i, p)
      PROVE  IsNext(messages', i, p) /\ messages'[p] = messages[p]
  <2>1. p \in i + 1 .. n /\ messages[p].what \in UserFrames
        /\ \A l \in i + 1 .. p - 1 : messages[l].what \notin UserFrames
    BY <1>5 DEF Paired, IsNext
  <2>2. p \in 1 .. n /\ \A l \in i + 1 .. p - 1 : l \in 1 .. n
    BY <1>3, <2>1
  <2>3. Len(messages') = n + 1 /\ p \in i + 1 .. n + 1
    BY <1>3, <2>1
  <2> HIDE DEF n
  <2> QED BY <1>3, <2>1, <2>2, <2>3 DEF IsNext
<1>6. ASSUME NEW i \in 1 .. n, NEW p, Paired(i, p) PROVE p + i - i = p
  BY <1>3, <1>6 DEF Paired, IsNext
<1>7. CacheInv'
  <2>1. \A k \in 1 .. n : f[k] = k
    OBVIOUS
  <2> HIDE DEF n, f
  <2>2. \A k, l \in 1 .. n : k < l => l - k <= f[l] - f[k]
    BY <1>3, <2>1
  <2>3. \A k \in 1 .. n : f[k] \in DOMAIN messages /\ messages'[k] = messages[f[k]]
    BY <1>3, <2>1
  <2>4. \A k \in 1 .. n : slipped' = {} /\ messages[f[k]].id \in DOMAIN cache =>
          \A p : Paired(f[k], p) /\ cache[messages[f[k]].id] = Joined(f[k], p) =>
             IsNext(messages', k, p + k - f[k]) /\ messages'[p + k - f[k]] = messages[p]
    BY <1>5, <1>6, <2>1
  <2>5. messages'[n + 1].id = nextId /\ (slipped' = {} => slipped = {}) /\ CacheInv
    BY <1>1, <1>2, <1>3 DEF RowsInv
  <2>6. Carried(n, f)
    BY <1>3, <2>2, <2>3, <2>4, <2>5 DEF Carried
  <2> QED BY <1>1, <1>3, <1>4, <2>5, <2>6, CacheMoves
<1> QED
  BY <1>1, <1>4, <1>7 DEF RowsInv, RowsSafe, MemoIsUnseen, ShownOnce, EntriesShown

LEMMA Shifts ==
  ASSUME NEW n \in Nat, NEW s \in 1 .. n + 1, NEW k \in 1 .. n,
         NEW i, i = IF k < s THEN k ELSE k + 1,
         NEW p \in i + 1 .. n + 1, p # s, ~(i < s /\ s < p), NEW q, q = p + k - i
  PROVE  /\ q \in 1 .. n /\ k < q /\ p = IF q < s THEN q ELSE q + 1
         /\ \A l \in k + 1 .. q - 1 : l \in 1 .. n /\ (IF l < s THEN l ELSE l + 1) \in i + 1 .. p - 1
<1>1. CASE k < s
  <2>1. i = k /\ p < s /\ q = p
    BY <1>1
  <2> QED BY <1>1, <2>1
<1>2. CASE ~(k < s)
  <2>1. i = k + 1 /\ p > s /\ q = p - 1
    BY <1>2
  <2> QED BY <1>2, <2>1
<1> QED BY <1>1, <1>2

LEMMA Left ==
  ASSUME NEW n \in Nat, NEW s \in 1 .. n + 1, NEW f, f = [k \in 1 .. n |-> IF k < s THEN k ELSE k + 1]
  PROVE  /\ \A k \in 1 .. n : f[k] = IF k < s THEN k ELSE k + 1
         /\ \A k \in 1 .. n : f[k] \in 1 .. n + 1 /\ f[k] # s
         /\ \A k, l \in 1 .. n : k < l => l - k <= f[l] - f[k] /\ f[k] < f[l]
<1>1. \A k \in 1 .. n : f[k] = IF k < s THEN k ELSE k + 1
  OBVIOUS
<1>2. \A k \in 1 .. n : f[k] \in 1 .. n + 1 /\ f[k] # s
  BY <1>1
<1>3. \A k, l \in 1 .. n : k < l => l - k <= f[l] - f[k] /\ f[k] < f[l]
  BY <1>1
<1> QED BY <1>1, <1>2, <1>3

RemovedAt(T, q, s, r, n, f, x) ==
  /\ n \in Nat /\ s \in 1 .. n + 1
  /\ r \in Seq(T) /\ Len(r) = n + 1 /\ DOMAIN r = 1 .. n + 1 /\ r[n + 1] = x
  /\ Len(q) = n + 1 /\ DOMAIN q = 1 .. n + 1
  /\ \A k \in 1 .. n : r[k] = q[f[k]]

LEMMA Removed ==
  ASSUME NEW T, NEW q \in Seq(T), NEW s \in DOMAIN q, NEW x \in T, NEW r,
         r = Append(RemoveAt(q, s), x), NEW n, n = Len(q) - 1,
         NEW f, f = [k \in 1 .. n |-> IF k < s THEN k ELSE k + 1]
  PROVE  RemovedAt(T, q, s, r, n, f, x)
<1>1. Len(q) \in Nat /\ DOMAIN q = 1 .. Len(q) /\ s \in 1 .. Len(q) /\ n \in Nat /\ Len(q) = n + 1
  BY Elements
<1> DEFINE a == SubSeq(q, 1, s - 1)
           b == SubSeq(q, s + 1, Len(q))
<1>s. \A k \in 1 .. Len(q) : q[k] \in T
  BY Elements
<1>2. /\ a \in Seq(T) /\ Len(a) = s - 1 /\ \A k \in 1 .. s - 1 : a[k] = q[k]
  <2>1. /\ s - 1 \in Int /\ 1 \in Int /\ s - 1 - 1 + 1 = s - 1 /\ (~(1 <= s - 1) => s - 1 = 0)
        /\ \A k \in 1 .. s - 1 : q[k] \in T /\ 1 + k - 1 = k
    BY <1>1, <1>s
  <2>2. /\ a \in Seq(T) /\ Len(a) = IF 1 <= s - 1 THEN s - 1 - 1 + 1 ELSE 0
        /\ \A k \in 1 .. s - 1 - 1 + 1 : a[k] = q[1 + k - 1]
    BY <2>1, SubSeqProperties
  <2> QED BY <2>1, <2>2
<1>3. /\ b \in Seq(T) /\ Len(b) = n + 1 - s /\ \A k \in 1 .. n + 1 - s : b[k] = q[k + s]
  <2>1. /\ s + 1 \in Int /\ Len(q) \in Int /\ Len(q) - (s + 1) + 1 = n + 1 - s
        /\ (~(s + 1 <= Len(q)) => n + 1 - s = 0)
        /\ \A k \in s + 1 .. Len(q) : q[k] \in T
    BY <1>1, <1>s
  <2>2. /\ b \in Seq(T) /\ Len(b) = IF s + 1 <= Len(q) THEN Len(q) - (s + 1) + 1 ELSE 0
        /\ \A k \in 1 .. Len(q) - (s + 1) + 1 : b[k] = q[s + 1 + k - 1]
    BY <2>1, SubSeqProperties
  <2>3. \A k \in 1 .. n + 1 - s : s + 1 + k - 1 = k + s
    BY <1>1
  <2> QED BY <2>1, <2>2, <2>3
<1> HIDE DEF a, b
<1>l. Len(a) \in Nat /\ Len(b) \in Nat /\ Len(a) + Len(b) = n
  BY <1>1, <1>2, <1>3
<1>4. /\ a \o b \in Seq(T) /\ Len(a \o b) = n
      /\ \A k \in 1 .. n : (a \o b)[k] = IF k <= Len(a) THEN a[k] ELSE b[k - Len(a)]
  <2>1. /\ a \o b \in Seq(T) /\ Len(a \o b) = Len(a) + Len(b)
        /\ \A k \in 1 .. Len(a) + Len(b) : (a \o b)[k] = IF k <= Len(a) THEN a[k] ELSE b[k - Len(a)]
    BY <1>2, <1>3, ConcatProperties
  <2> QED BY <1>l, <2>1
<1>5. ASSUME NEW k \in 1 .. n PROVE (a \o b)[k] = q[f[k]]
  <2>1. f[k] = IF k < s THEN k ELSE k + 1
    OBVIOUS
  <2>2. CASE k < s
    <3>1. k <= Len(a) /\ k \in 1 .. s - 1
      BY <1>1, <1>2, <2>2
    <3>2. (a \o b)[k] = a[k]
      BY <1>4, <3>1
    <3> QED BY <1>2, <2>1, <2>2, <3>1, <3>2
  <2>3. CASE ~(k < s)
    <3> DEFINE m == k - Len(a)
    <3>1. ~(k <= Len(a)) /\ m \in 1 .. n + 1 - s /\ m + s = k + 1
      BY <1>1, <1>2, <2>3
    <3>2. (a \o b)[k] = b[m]
      BY <1>4, <3>1
    <3> HIDE DEF m
    <3> QED BY <1>3, <2>1, <2>3, <3>1, <3>2
  <2> QED BY <2>2, <2>3
<1>6. r = Append(a \o b, x)
  BY DEF RemoveAt, a, b
<1> DEFINE c == a \o b
<1>c. c \in Seq(T) /\ Len(c) = n /\ DOMAIN c = 1 .. n
  BY <1>1, <1>4, Elements
<1> HIDE DEF c
<1>7. /\ r \in Seq(T) /\ Len(r) = n + 1 /\ r[n + 1] = x /\ \A k \in DOMAIN c : r[k] = c[k]
  BY <1>6, <1>c, Appended DEF c
<1>8. DOMAIN r = 1 .. n + 1
  BY <1>7, Elements
<1>9. \A k \in 1 .. n : r[k] = q[f[k]]
  BY <1>5, <1>7, <1>c DEF c
<1> QED BY <1>1, <1>7, <1>8, <1>9 DEF RemovedAt

(* An input and the output it is remembered with have both moved, or none, *)
(* when the message between them and nothing is left out has.              *)
LEMMA EnvelopeKeeps ==
  ASSUME RowsInv, NEW s, AssistantEnvelope(s)
  PROVE  RowsInv'
<1> DEFINE n == Len(messages) - 1
           new == Entry("note")
           f == [k \in 1 .. n |-> IF k < s THEN k ELSE k + 1]
<1>1. /\ s \in DOMAIN messages /\ messages[s].what = "streaming"
      /\ messages' = Append(RemoveAt(messages, s), new) /\ nextId' = nextId + 1
      /\ dirty' = TRUE /\ slipped' = slipped \cup Slips(s)
      /\ UNCHANGED <<cache, rows>> /\ nextId \in Nat \ {0} /\ Timeline(messages, nextId)
  BY DEF AssistantEnvelope, Changed, RowsInv
<1>2. new \in [id : Nat \ {0}, what : Kinds] /\ new.id = nextId
  BY <1>1 DEF Entry, Kinds
<1> HIDE DEF new
<1>r. n = Len(messages) - 1
  OBVIOUS
<1>g. f = [k \in 1 .. n |-> IF k < s THEN k ELSE k + 1]
  OBVIOUS
<1> HIDE DEF n, f
<1>t. messages \in Seq([id : Nat \ {0}, what : Kinds])
  BY <1>1 DEF Timeline
<1>v. /\ n \in Nat /\ s \in 1 .. n + 1
      /\ messages' \in Seq([id : Nat \ {0}, what : Kinds])
      /\ Len(messages') = n + 1 /\ DOMAIN messages' = 1 .. n + 1 /\ messages'[n + 1] = new
      /\ Len(messages) = n + 1 /\ DOMAIN messages = 1 .. n + 1
      /\ \A k \in 1 .. n : messages'[k] = messages[f[k]]
  <2> DEFINE E == [id : Nat \ {0}, what : Kinds]
  <2>1. messages \in Seq(E) /\ s \in DOMAIN messages /\ new \in E
    BY <1>1, <1>2, <1>t
  <2>2. messages' = Append(RemoveAt(messages, s), new)
    BY <1>1
  <2> HIDE DEF E
  <2>4. RemovedAt(E, messages, s, messages', n, f, new)
    BY <2>1, <2>2, <1>r, <1>g, Removed
  <2>3. /\ n \in Nat /\ s \in 1 .. n + 1
        /\ messages' \in Seq(E) /\ Len(messages') = n + 1 /\ DOMAIN messages' = 1 .. n + 1
        /\ messages'[n + 1] = new
        /\ Len(messages) = n + 1 /\ DOMAIN messages = 1 .. n + 1
        /\ \A k \in 1 .. n : messages'[k] = messages[f[k]]
    BY <2>4 DEF RemovedAt
  <2> QED BY <2>3 DEF E
<1>n. n \in Nat /\ s \in 1 .. n + 1
  BY <1>v
<1>3. /\ messages' \in Seq([id : Nat \ {0}, what : Kinds])
      /\ Len(messages) = n + 1 /\ Len(messages') = n + 1
      /\ DOMAIN messages = 1 .. n + 1 /\ DOMAIN messages' = 1 .. n + 1
      /\ messages'[n + 1] = new
  BY <1>v
<1>m. \A k \in 1 .. n : messages'[k] = messages[f[k]]
  BY <1>v
<1>f. \A k \in 1 .. n : f[k] = IF k < s THEN k ELSE k + 1
  BY <1>n, <1>g, Left
<1>4. \A k \in 1 .. n : f[k] \in 1 .. n + 1 /\ f[k] # s
  BY <1>n, <1>g, Left
<1>5. \A k, l \in 1 .. n : k < l => l - k <= f[l] - f[k] /\ f[k] < f[l]
  BY <1>n, <1>g, Left
<1>6. Timeline(messages', nextId')
  <2>1. \A k \in 1 .. n : messages'[k].id < nextId /\ messages'[k].id \in Nat
    BY <1>1, <1>3, <1>4, <1>m, TimelineIds
  <2>2. \A k, l \in 1 .. n : k < l => messages'[k].id < messages'[l].id
    <3> SUFFICES ASSUME NEW k \in 1 .. n, NEW l \in 1 .. n, k < l
                 PROVE  messages'[k].id < messages'[l].id
      OBVIOUS
    <3>1. f[k] < f[l] /\ f[k] \in DOMAIN messages /\ f[l] \in DOMAIN messages
      BY <1>3, <1>4, <1>5
    <3>2. messages[f[k]].id < messages[f[l]].id
      BY <1>1, <3>1 DEF Timeline
    <3> QED BY <1>m, <3>2
  <2>3. \A k \in 1 .. n + 1 : k \in 1 .. n \/ k = n + 1
    BY <1>n
  <2>4. \A k, l \in 1 .. n + 1 : k < l => k \in 1 .. n
    BY <1>n
  <2>5. messages'[n + 1].id = nextId /\ nextId' = nextId + 1 /\ nextId \in Nat
    BY <1>1, <1>2, <1>3
  <2>6. \A i \in DOMAIN messages' : messages'[i].id < nextId'
    BY <1>3, <2>1, <2>3, <2>5
  <2>7. \A i, j \in DOMAIN messages' : i < j => messages'[i].id < messages'[j].id
    <3> SUFFICES ASSUME NEW i \in 1 .. n + 1, NEW j \in 1 .. n + 1, i < j
                 PROVE  messages'[i].id < messages'[j].id
      BY <1>3
    <3>1. i \in 1 .. n
      BY <2>4
    <3>2. CASE j \in 1 .. n
      BY <2>2, <3>1, <3>2
    <3>3. CASE j = n + 1
      BY <2>1, <2>5, <3>1, <3>3
    <3> QED BY <2>3, <3>2, <3>3
  <2> QED BY <1>3, <2>6, <2>7 DEF Timeline
<1>7. ASSUME slipped' = {}, NEW k \in 1 .. n, NEW p, messages[f[k]].id \in DOMAIN cache,
             Paired(f[k], p), cache[messages[f[k]].id] = Joined(f[k], p)
      PROVE  IsNext(messages', k, p + k - f[k]) /\ messages'[p + k - f[k]] = messages[p]
  <2> DEFINE i == f[k]
  <2>0. k \in Nat /\ i \in Nat /\ i \in 1 .. n + 1 /\ i # s /\ (i = IF k < s THEN k ELSE k + 1)
    BY <1>n, <1>4, <1>f
  <2>1. p \in i + 1 .. n + 1 /\ messages[p].what = "output"
        /\ messages[p].what \in UserFrames /\ \A l \in i + 1 .. p - 1 : messages[l].what \notin UserFrames
    BY <1>3, <1>7 DEF Paired, IsNext
  <2>2. p # s /\ p \in Nat /\ p \in 1 .. n + 1
    BY <1>1, <1>3, <2>0, <2>1
  <2>3. ~(i < s /\ s < p)
    <3> SUFFICES ASSUME i < s, s < p PROVE Slips(s) # {}
      BY <1>1, <1>7
    <3>0. messages[i].id \in DOMAIN cache
      BY <1>7
    <3>1. i \in 1 .. s - 1 /\ p \in s + 1 .. Len(messages)
      <4> HIDE DEF i
      <4>1. i >= 1 /\ s \in Nat /\ Len(messages) = n + 1 /\ p <= n + 1
        BY <1>n, <1>3, <2>0, <2>2
      <4> QED BY <1>n, <2>0, <2>2, <4>1
    <3>2. cache[messages[i].id].rows = <<[Row(messages[i].id, "", "bash") EXCEPT !.pair = messages[p].id]>>
      <4> HIDE DEF i
      <4>1. cache[messages[i].id] = Joined(i, p)
        BY <1>7 DEF i
      <4> DEFINE r == [Row(messages[i].id, "", "bash") EXCEPT !.pair = messages[p].id]
      <4>2. Joined(i, p) = [rows |-> <<r>>, consumed |-> p - i, shellsDependent |-> FALSE]
        BY DEF Joined
      <4> HIDE DEF r
      <4>3. Joined(i, p).rows = <<r>>
        BY <4>2
      <4> QED BY <4>1, <4>3 DEF r
    <3>3. 1 \in DOMAIN cache[messages[i].id].rows /\ cache[messages[i].id].rows[1].pair = messages[p].id
      <4> DEFINE r == [Row(messages[i].id, "", "bash") EXCEPT !.pair = messages[p].id]
      <4>1. r.pair = messages[p].id
        BY DEF Row
      <4> HIDE DEF r
      <4>2. 1 \in DOMAIN <<r>> /\ <<r>>[1] = r
        OBVIOUS
      <4> QED BY <3>2, <4>1, <4>2 DEF r
    <3>4. messages[i].id \in Slips(s)
      BY <3>0, <3>1, <3>3 DEF Slips
    <3> QED BY <3>4
  <2> DEFINE q == p + k - i
  <2>s. /\ q \in 1 .. n /\ k < q /\ p = IF q < s THEN q ELSE q + 1
        /\ \A l \in k + 1 .. q - 1 : l \in 1 .. n /\ (IF l < s THEN l ELSE l + 1) \in i + 1 .. p - 1
    <3> HIDE DEF i
    <3>1. q = p + k - i
      OBVIOUS
    <3> HIDE DEF q
    <3>2. p \in i + 1 .. n + 1 /\ i = IF k < s THEN k ELSE k + 1
      BY <2>0, <2>1
    <3> QED BY <1>n, <2>2, <2>3, <3>1, <3>2, Shifts
  <2>4. q \in 1 .. n /\ f[q] = p /\ k < q /\ q \in Nat
    BY <1>n, <1>f, <2>s
  <2>5. messages'[q] = messages[p]
    BY <1>m, <2>4
  <2>6. ASSUME NEW l \in k + 1 .. q - 1 PROVE messages'[l].what \notin UserFrames
    <3>1. l \in 1 .. n /\ f[l] \in i + 1 .. p - 1
      BY <1>f, <2>s
    <3> QED BY <1>m, <2>1, <3>1
  <2> HIDE DEF q
  <2>7. q \in k + 1 .. n + 1
    BY <1>n, <2>0, <2>4
  <2>8. IsNext(messages', k, q)
    BY <1>3, <2>1, <2>5, <2>6, <2>7 DEF IsNext
  <2> QED BY <2>5, <2>8 DEF q
<1>8. CacheInv'
  <2>1. Carried(n, f)
    BY <1>2, <1>3, <1>4, <1>5, <1>7, <1>m DEF Carried
  <2>2. CacheInv /\ (slipped' = {} => slipped = {})
    BY <1>1 DEF RowsInv
  <2> QED BY <1>1, <1>n, <1>6, <2>1, <2>2, CacheMoves
<1> QED
  BY <1>1, <1>6, <1>8 DEF RowsInv, RowsSafe, MemoIsUnseen, ShownOnce, EntriesShown

LEMMA ResetKeeps == ASSUME RowsInv, Reset PROVE RowsInv'
<1>1. /\ messages' = <<>> /\ dirty' = TRUE /\ UNCHANGED <<cache, rows, nextId>>
  BY DEF Reset, Changed
<1>2. Timeline(messages', nextId')
  BY <1>1 DEF Timeline
<1>3. CacheInv'
  BY <1>1 DEF RowsInv, CacheInv
<1> QED BY <1>1, <1>2, <1>3 DEF RowsInv, RowsSafe, MemoIsUnseen, ShownOnce, EntriesShown

LEMMA ShellKeeps ==
  ASSUME RowsInv, UNCHANGED <<messages, nextId, cache, rows, slipped>>, dirty' = TRUE
  PROVE  RowsInv'
<1>1. CacheInv'
  BY CacheStays DEF RowsInv
<1> QED BY <1>1 DEF RowsInv, RowsSafe, MemoIsUnseen, ShownOnce, EntriesShown

VisitedIn(list, a) ==
  CHOOSE stops \in SUBSET DOMAIN list :
    \A i \in DOMAIN list :
      i \in stops <=> \A j \in stops : j < i => j + a[j].consumed < i
RowsIn(list, a) == Kept([i \in DOMAIN list |-> a[i].rows], VisitedIn(list, a))

LEMMA Classified ==
  /\ \A a : RowsOf(a) = RowsIn(messages, a) /\ RowsOf(a)' = RowsIn(messages', a)
  /\ classifyMessages = RowsIn(messages, [i \in DOMAIN messages |-> analyzeEntry(i)])
  /\ classifyMessages' = RowsIn(messages', [i \in DOMAIN messages' |-> analyzeEntry(i)'])
BY DEF classifyMessages, RowsOf, RowsIn, Visited, VisitedIn

(* While nothing is written, nothing else would be made of an entry.       *)
LEMMA ReadAgain ==
  ASSUME UNCHANGED <<messages, shells>>
  PROVE  \A i : analyzeEntry(i)' = analyzeEntry(i)
<1>1. \A i : nextUserFrameAt(i)' = nextUserFrameAt(i)
  BY Nexts
<1>2. \A i : analyzeInput(i)' = analyzeInput(i)
  BY <1>1 DEF analyzeInput
<1> QED BY <1>2 DEF analyzeEntry

(* What the loop works with: of each entry, what fits it, and what would   *)
(* be made of it now unless a distance slipped.                            *)
LEMMA RecallFits ==
  ASSUME RowsInv, NEW i \in DOMAIN messages
  PROVE  /\ RecalledAll[i] = Recalled(i)
         /\ Fits(RecalledAll[i], messages, i, nextId)
         /\ slipped = {} => RecalledAll[i] = analyzeEntry(i)
<1>1. RecalledAll[i] = Recalled(i)
  BY DEF RecalledAll
<1>2. Fits(analyzeEntry(i), messages, i, nextId)
  BY Analyses DEF RowsInv
<1>3. messages[i].id \in DOMAIN cache =>
        /\ Fits(cache[messages[i].id], messages, i, nextId)
        /\ slipped = {} => cache[messages[i].id] = analyzeEntry(i)
  BY DEF RowsInv, CacheInv
<1> QED BY <1>1, <1>2, <1>3 DEF Recalled

LEMMA GcKeeps ==
  ASSUME NEW held
  PROVE  \A id \in DOMAIN gc(held) : id \in DOMAIN held /\ gc(held)[id] = held[id]
BY DEF gc

LEMMA Learns ==
  ASSUME RowsInv, Render
  PROVE  CacheInv'
<1> DEFINE A == RecalledAll
           learnt == {i \in Seen : Remembered(A[i])}
           at(id) == CHOOSE i \in learnt : messages[i].id = id
           held == [id \in DOMAIN cache \cup {messages[i].id : i \in learnt} |->
                      IF id \in DOMAIN cache THEN cache[id] ELSE A[at(id)]]
<1>1. /\ cache' = gc(held) /\ UNCHANGED <<messages, nextId, shells, slipped>>
      /\ Timeline(messages, nextId) /\ CacheInv
  BY DEF Render, classify, RowsInv
<1>2. \A i \in DOMAIN messages : A[i].consumed \in Nat
  BY RecallFits DEF Fits
<1>3. \A i \in learnt : i \in DOMAIN messages /\ ~A[i].shellsDependent
  <2>1. messages \in Seq([id : Nat \ {0}, what : Kinds])
    BY <1>1 DEF Timeline
  <2>2. Visited(A) \in SUBSET DOMAIN messages
    <3> HIDE DEF A
    <3> QED BY <1>2, <2>1, VisitedEffect
  <2> QED BY <2>2 DEF Seen, Remembered
<1>4. \A i \in learnt : at(messages[i].id) = i
  <2> SUFFICES ASSUME NEW i \in learnt PROVE at(messages[i].id) = i
    OBVIOUS
  <2> HIDE DEF learnt
  <2>1. at(messages[i].id) \in learnt /\ messages[at(messages[i].id)].id = messages[i].id
    OBVIOUS
  <2> HIDE DEF at
  <2> QED BY <1>1, <1>3, <2>1, TimelineIds
<1>5. \A id \in DOMAIN held :
        \/ id \in DOMAIN cache /\ held[id] = cache[id]
        \/ \E i \in learnt : id = messages[i].id /\ held[id] = A[i]
  <2> SUFFICES ASSUME NEW id \in DOMAIN held, id \notin DOMAIN cache
               PROVE  \E i \in learnt : id = messages[i].id /\ held[id] = A[i]
    BY DEF held
  <2>1. PICK i \in learnt : id = messages[i].id
    OBVIOUS
  <2>2. held[id] = A[at(id)]
    OBVIOUS
  <2> HIDE DEF held, at, A, learnt
  <2> QED BY <1>4, <2>1, <2>2
<1> HIDE DEF held, at, A, learnt
<1>6. \A id \in DOMAIN cache' :
        \/ id \in DOMAIN cache /\ cache'[id] = cache[id]
        \/ \E i \in learnt : id = messages[i].id /\ cache'[id] = A[i]
  BY <1>1, <1>5, GcKeeps
<1>7. \A id \in DOMAIN cache' : id \in Nat /\ id < nextId'
  <2>1. \A i \in learnt : messages[i].id \in Nat /\ messages[i].id < nextId
    BY <1>1, <1>3, TimelineIds
  <2> QED BY <1>1, <1>6, <2>1 DEF CacheInv
<1>8. ASSUME NEW i \in DOMAIN messages, messages[i].id \in DOMAIN cache',
             NEW a, a = cache'[messages[i].id]
      PROVE  /\ ~a.shellsDependent /\ Fits(a, messages, i, nextId)
             /\ slipped = {} => a = analyzeEntry(i)
  <2>1. CASE messages[i].id \in DOMAIN cache /\ a = cache[messages[i].id]
    BY <1>1, <2>1 DEF CacheInv
  <2>2. CASE \E j \in learnt : messages[i].id = messages[j].id /\ a = A[j]
    <3>1. i \in learnt /\ a = A[i]
      BY <1>1, <1>3, <2>2, TimelineIds
    <3> QED BY <1>3, <3>1, RecallFits DEF A
  <2> QED BY <1>6, <1>8, <2>1, <2>2
<1>9. \A i : analyzeEntry(i)' = analyzeEntry(i)
  BY <1>1, ReadAgain
<1> QED BY <1>1, <1>7, <1>8, <1>9 DEF CacheInv

LEMMA Shown ==
  ASSUME RowsInv, Render
  PROVE  ShownOnce' /\ MemoIsUnseen' /\ EntriesShown'
<1> DEFINE A == RecalledAll
           V == Visited(A)
           q == [i \in DOMAIN messages |-> A[i].rows]
<1>1. /\ UNCHANGED <<messages, nextId, shells, slipped>>
      /\ nextId \in Nat \ {0} /\ Timeline(messages, nextId) /\ CacheInv
  BY DEF Render, RowsInv
<1>2. \A i \in DOMAIN messages :
        /\ Fits(A[i], messages, i, nextId)
        /\ slipped = {} => A[i] = analyzeEntry(i)
  BY RecallFits
<1>3. A = [i \in DOMAIN messages |-> A[i]]
  BY DEF RecalledAll
<1>r. rows' = Kept(q, V)
  BY DEF Render, classify, RowsOf
<1> HIDE DEF A
<1>4. /\ V \in SUBSET DOMAIN messages
      /\ \A i \in DOMAIN messages : i \in V <=> \A j \in V : j < i => j + A[j].consumed < i
  <2>1. \A i \in DOMAIN messages : A[i].consumed \in Nat
    BY <1>2 DEF Fits
  <2> QED BY <1>1, <2>1, VisitedEffect DEF Timeline
<1> HIDE DEF V
<1>5. PICK e : Embeds(e, q, V, rows')
  <2> DEFINE R == {A[i].rows : i \in DOMAIN messages}
  <2>1. DOMAIN messages = 1 .. Len(messages) /\ Len(messages) \in Nat
    BY <1>1, TimelineIds
  <2>2. q \in Seq(R) /\ DOMAIN q = DOMAIN messages
    BY <2>1
  <2> HIDE DEF R, q
  <2> QED BY <1>4, <1>r, <2>2, KeptEffect
<1>s. /\ DOMAIN rows' = 1 .. Len(rows') /\ Len(rows') \in Nat
  <2> DEFINE R == {A[i].rows : i \in DOMAIN messages}
  <2>1. DOMAIN messages = 1 .. Len(messages) /\ Len(messages) \in Nat
    BY <1>1, TimelineIds
  <2>2. q \in Seq(R) /\ DOMAIN q = DOMAIN messages
    BY <2>1
  <2> HIDE DEF R, q
  <2>3. rows' \in Seq(R)
    BY <1>4, <1>r, <2>2, KeptEffect
  <2> QED BY <2>3, Elements
<1>6. \A k \in DOMAIN rows' : e[k] \in V /\ e[k] \in DOMAIN messages /\ rows'[k] = A[e[k]].rows
  BY <1>4, <1>5 DEF Embeds
<1>7. \A k, l \in DOMAIN rows' : e[k] = e[l] => k = l
  <2> SUFFICES ASSUME NEW k \in DOMAIN rows', NEW l \in DOMAIN rows', e[k] = e[l], k # l PROVE FALSE
    OBVIOUS
  <2>1. k < l \/ l < k
    BY <1>s
  <2>2. e[k] < e[l] \/ e[l] < e[k]
    BY <1>5, <2>1 DEF Embeds
  <2>3. e[k] \in Nat /\ e[l] \in Nat
    BY <1>1, <1>6, TimelineIds
  <2> QED BY <2>2, <2>3
<1>8. \A i \in V : \E k \in DOMAIN rows' : rows'[k] = A[i].rows
  BY <1>5, <1>6 DEF Embeds
<1> HIDE DEF q
<1>9. ShownOnce'
  <2> SUFFICES ASSUME NEW k \in DOMAIN rows', NEW l \in DOMAIN rows',
                      NEW m \in DOMAIN rows'[k], NEW o \in DOMAIN rows'[l]
               PROVE  /\ rows'[k][m].id = rows'[l][o].id => k = l /\ m = o
                      /\ rows'[k][m].pair # rows'[l][o].id[1]
    BY DEF ShownOnce
  <2> DEFINE i == e[k]
             j == e[l]
  <2>1. i \in V /\ i \in DOMAIN messages /\ rows'[k] = A[i].rows
    BY <1>6
  <2>2. j \in V /\ j \in DOMAIN messages /\ rows'[l] = A[j].rows
    BY <1>6
  <2>3. rows'[k][m].id[1] = messages[i].id /\ rows'[l][o].id[1] = messages[j].id
    BY <1>2, <2>1, <2>2 DEF Fits
  <2>4. ASSUME rows'[k][m].id = rows'[l][o].id PROVE k = l /\ m = o
    <3>1. i = j
      BY <1>1, <2>1, <2>2, <2>3, <2>4, TimelineIds
    <3>2. k = l
      BY <1>7, <3>1
    <3>3. m = o
      BY <1>2, <2>1, <2>4, <3>2 DEF Fits
    <3> QED BY <3>2, <3>3
  <2>5. rows'[k][m].pair # rows'[l][o].id[1]
    <3> SUFFICES ASSUME messages[j].id = A[i].rows[m].pair PROVE FALSE
      BY <2>1, <2>3
    <3>1. i < j /\ j <= i + A[i].consumed /\ A[i].consumed \in Nat
      BY <1>2, <2>1, <2>2 DEF Fits
    <3>2. i + A[i].consumed < j
      BY <1>4, <2>1, <2>2, <3>1
    <3>3. i \in Nat /\ j \in Nat
      BY <1>1, <2>1, <2>2, TimelineIds
    <3> HIDE DEF i, j
    <3> QED BY <3>1, <3>2, <3>3
  <2> QED BY <2>4, <2>5
<1>10. MemoIsUnseen'
  <2> SUFFICES ASSUME slipped = {} PROVE rows' = classifyMessages'
    BY <1>1 DEF MemoIsUnseen
  <2>1. \A i : analyzeEntry(i)' = analyzeEntry(i)
    BY <1>1, ReadAgain
  <2>2. A = [i \in DOMAIN messages |-> analyzeEntry(i)]
    <3> DEFINE B == [i \in DOMAIN messages |-> analyzeEntry(i)]
    <3>1. \A i \in DOMAIN messages : A[i] = analyzeEntry(i)
      BY <1>2
    <3>2. \A i \in DOMAIN messages : B[i] = A[i]
      BY <3>1
    <3>3. B = [i \in DOMAIN messages |-> B[i]]
      OBVIOUS
    <3> HIDE DEF B
    <3>4. [i \in DOMAIN messages |-> A[i]] = [i \in DOMAIN messages |-> B[i]]
      BY <3>2
    <3>5. A = B
      BY <1>3, <3>3, <3>4
    <3> QED BY <3>5 DEF B
  <2>3. rows' = RowsIn(messages, A)
    <3>1. rows' = RowsOf(RecalledAll)
      BY DEF Render, classify
    <3> QED BY <3>1, Classified DEF A
  <2>4. classifyMessages' = RowsIn(messages, [i \in DOMAIN messages |-> analyzeEntry(i)])
    BY <1>1, <2>1, Classified
  <2> QED BY <2>2, <2>3, <2>4
<1>11. EntriesShown'
  <2> SUFFICES ASSUME slipped = {}, NEW i \in DOMAIN messages,
                      messages[i].what \notin {"hidden", "blank"}
               PROVE  \/ \E k \in DOMAIN rows' : \E m \in DOMAIN rows'[k] :
                           messages[i].id \in {rows'[k][m].id[1], rows'[k][m].pair}
                      \/ \E j, l \in DOMAIN messages :
                           /\ j < i /\ i < l /\ messages[j].what = "input"
                           /\ messages[l].what = "output" /\ messages[i].what \notin UserFrames
    BY <1>1 DEF EntriesShown
  <2>1. CASE i \in V
    <3>1. PICK k \in DOMAIN rows' : rows'[k] = A[i].rows
      BY <1>8, <2>1
    <3>2. A[i] = analyzeEntry(i)
      BY <1>2
    <3>3. 1 \in DOMAIN A[i].rows /\ A[i].rows[1].id[1] = messages[i].id
      BY <1>1, <3>2, Analyses
    <3> QED BY <3>1, <3>3
  <2>2. CASE i \notin V
    <3>1. PICK j \in V : j < i /\ ~(j + A[j].consumed < i)
      BY <1>4, <2>2
    <3>2. j \in DOMAIN messages /\ A[j] = analyzeEntry(j)
      BY <1>2, <1>4
    <3>3. i \in Nat /\ j \in Nat /\ A[j].consumed \in Nat
      BY <1>1, <1>2, <3>2, TimelineIds DEF Fits
    <3>4. A[j].consumed # 0
      BY <3>1, <3>3
    <3>5. messages[j].what = "input"
      BY <1>1, <3>2, <3>4, Analyses
    <3>6. PICK p : Paired(j, p) /\ A[j].consumed = p - j /\ A[j].rows[1].pair = messages[p].id
      BY <1>1, <3>2, <3>4, <3>5, Analyses
    <3>7. /\ p \in j + 1 .. Len(messages) /\ messages[p].what = "output"
          /\ \A l \in j + 1 .. p - 1 : messages[l].what \notin UserFrames
      BY <3>6 DEF Paired, IsNext
    <3>8. DOMAIN messages = 1 .. Len(messages) /\ Len(messages) \in Nat
      BY <1>1, TimelineIds
    <3>9. p \in DOMAIN messages /\ i <= p /\ p \in Nat
      BY <3>1, <3>3, <3>6, <3>7, <3>8
    <3>10. CASE i = p
      <4>1. PICK k \in DOMAIN rows' : rows'[k] = A[j].rows
        BY <1>8
      <4>2. 1 \in DOMAIN A[j].rows
        BY <1>1, <3>2, <3>5, Analyses
      <4> QED BY <3>6, <3>10, <4>1, <4>2
    <3>11. CASE i # p
      <4>1. i < p /\ i \in j + 1 .. p - 1
        BY <3>1, <3>3, <3>9, <3>11
      <4> QED BY <3>1, <3>2, <3>5, <3>7, <3>9, <4>1
    <3> QED BY <3>10, <3>11
  <2> QED BY <2>1, <2>2
<1> QED BY <1>9, <1>10, <1>11

LEMMA RenderKeeps == ASSUME RowsInv, Render PROVE RowsInv'
<1>1. UNCHANGED <<messages, nextId>>
  BY DEF Render
<1> QED BY <1>1, Learns, Shown DEF RowsInv, RowsSafe

LEMMA RowsImplies == RowsInv => RowsSafe
BY DEF RowsInv

LEMMA RowsInit == RInit => RowsInv
<1> SUFFICES ASSUME RInit PROVE RowsInv
  OBVIOUS
<1>1. messages = <<>> /\ nextId = 1 /\ cache = NoCache /\ rows = <<>>
  BY DEF RInit
<1>2. Timeline(messages, nextId)
  BY <1>1 DEF Timeline
<1>3. CacheInv
  BY <1>1 DEF CacheInv, NoCache
<1>4. rows = classifyMessages
  <2> DEFINE q == [i \in DOMAIN messages |-> analyzeEntry(i)]
             r == [i \in DOMAIN messages |-> q[i].rows]
             V == VisitedIn(messages, q)
  <2>1. DOMAIN messages = {} /\ r = <<>>
    BY <1>1
  <2>2. V \in SUBSET DOMAIN messages
    <3>1. \E stops \in SUBSET DOMAIN messages :
            \A i \in DOMAIN messages :
              i \in stops <=> \A j \in stops : j < i => j + q[j].consumed < i
      BY <2>1
    <3> HIDE DEF q
    <3> QED BY <3>1 DEF VisitedIn
  <2> HIDE DEF V, r
  <2>3. Kept(r, V) = <<>>
    <3>1. V = {}
      BY <2>1, <2>2
    <3> QED BY <3>1, FS_EmptySet DEF Kept
  <2>4. classifyMessages = Kept(r, V)
    BY Classified DEF RowsIn, r, V
  <2> QED BY <1>1, <2>3, <2>4
<1>5. ShownOnce /\ MemoIsUnseen /\ EntriesShown
  BY <1>1, <1>4 DEF ShownOnce, MemoIsUnseen, EntriesShown
<1> QED BY <1>1, <1>2, <1>3, <1>5 DEF RowsInv, RowsSafe

LEMMA RowsStep == RowsInv /\ [RNext]_rvars => RowsInv'
<1> SUFFICES ASSUME RowsInv, [RNext]_rvars PROVE RowsInv'
  OBVIOUS
<1>1. CASE \E what \in Frames \cup {"local", "streaming"} : Push(what)
  BY <1>1, PushKeeps DEF Kinds
<1>2. CASE \E i \in 1 .. MaxEntries : AssistantEnvelope(i)
  BY <1>2, EnvelopeKeeps
<1>3. CASE \E i \in 1 .. MaxEntries : ShellPrints(i)
  BY <1>3, ShellKeeps DEF ShellPrints, Changed
<1>4. CASE ShellRuns
  BY <1>4, ShellKeeps DEF ShellRuns, Changed
<1>5. CASE Reset
  BY <1>5, ResetKeeps
<1>6. CASE Render
  BY <1>6, RenderKeeps
<1>7. CASE UNCHANGED rvars
  <2>1. UNCHANGED <<messages, nextId, shells, cache, rows, dirty, slipped>>
    BY <1>7 DEF rvars
  <2>2. CacheInv'
    BY <2>1, CacheStays DEF RowsInv
  <2>3. classifyMessages' = classifyMessages
    <3>1. \A i : analyzeEntry(i)' = analyzeEntry(i)
      BY <2>1, ReadAgain
    <3> QED BY <2>1, <3>1, Classified
  <2> QED BY <2>1, <2>2, <2>3 DEF RowsInv, RowsSafe, MemoIsUnseen, ShownOnce, EntriesShown
<1> QED BY <1>1, <1>2, <1>3, <1>4, <1>5, <1>6, <1>7 DEF RNext

-----------------------------------------------------------------------------
(* Composer                                                                *)

IsList(s) == Len(s) \in Nat /\ DOMAIN s = 1 .. Len(s) /\ (Len(s) = 0 => s = <<>>)

(* An answer still awaited, if no other was asked for since, is one to     *)
(* what the mention says; so is what waits to be asked.                    *)
ComposerInv ==
  /\ active \in Nat /\ mentionToken \in Nat
  /\ IsFiniteSet(slashCommands) /\ IsList(mentionItems.ids)
  /\ mode.kind = "mention" => timer \subseteq {mode.query}
  /\ \A f \in fetches :
       /\ f.token \in Nat /\ f.token <= mentionToken
       /\ mode.kind = "mention" /\ IsCurrent(f) => f.query = mode.query
  /\ MentionsAnswered /\ HighlightIsAnItem

LEMMA ComposerImplies == ComposerInv => ComposerSafe
BY DEF ComposerInv, ComposerSafe

LEMMA Listed ==
  ASSUME NEW S, IsFiniteSet(S)
  PROVE  SetToSeq(S) \in Seq(S) /\ Len(SetToSeq(S)) = Cardinality(S) /\ IsList(SetToSeq(S))
<1> DEFINE n == Cardinality(S)
<1>1. n \in Nat /\ ExistsBijection(1 .. n, S)
  BY FS_CardinalityType
<1>2. PICK g : g \in Bijection(1 .. n, S)
  BY <1>1 DEF ExistsBijection
<1>3. g \in [1 .. n -> S] /\ IsInjective(g)
  BY <1>2 DEF Bijection, Injection, IsInjective
<1>4. SetToSeq(S) \in [1 .. n -> S]
  BY <1>3 DEF SetToSeq
<1> HIDE DEF n
<1>5. SetToSeq(S) \in Seq(S) /\ Len(SetToSeq(S)) = n
  BY <1>1, <1>4
<1> QED BY <1>1, <1>5 DEF IsList, n

LEMMA ListsAre == \A T : \A s \in Seq(T) : IsList(s)
BY DEF IsList

LEMMA AnswersAreLists == \A ids \in Answers : IsList(ids)
<1> SUFFICES ASSUME NEW n \in 1 .. MaxResults PROVE IsList(SubSeq(SetToSeq(Words), 1, n))
  BY DEF Answers, IsList
<1> DEFINE s == SetToSeq(Words)
<1>1. s \in Seq(Words) /\ Len(s) = Cardinality(Words) /\ Cardinality(Words) \in Nat
  BY ComposerAssumption, Listed, FS_CardinalityType
<1> HIDE DEF s
<1>2. SubSeq(s, 1, n) \in Seq(Words)
  BY <1>1, ComposerAssumption
<1> QED BY <1>2, ListsAre DEF s

LEMMA ItemsAreList ==
  ASSUME IsFiniteSet(slashCommands), IsList(mentionItems.ids)
  PROVE  IsList(items)
<1>1. IsList(slashItems)
  <2>1. IsFiniteSet(Matching(slashCommands, mode.query))
    BY FS_Subset DEF Matching
  <2> QED BY <2>1, Listed DEF slashItems
<1>2. IsList(<<>>)
  BY DEF IsList
<1> QED BY <1>1, <1>2 DEF items

(* The same of the next state *)
LEMMA PrimedItems ==
  (IsFiniteSet(slashCommands') /\ IsList(mentionItems'.ids)) => IsList(items')
<1> SUFFICES ASSUME IsFiniteSet(slashCommands'), IsList(mentionItems'.ids) PROVE IsList(items')
  OBVIOUS
<1>1. IsList(slashItems')
  <2>1. IsFiniteSet(Matching(slashCommands', mode'.query))
    BY FS_Subset DEF Matching
  <2> QED BY <2>1, Listed DEF slashItems
<1>2. IsList(<<>>)
  BY DEF IsList
<1> QED BY <1>1, <1>2 DEF items

LEMMA ComposerInit == CInit => ComposerInv
<1> SUFFICES ASSUME CInit PROVE ComposerInv
  OBVIOUS
<1>1. cursor = 0 /\ value = <<>>
  BY DEF CInit, cursor
<1>2. detect(<<>>, 0).kind = NoPopup
  <2>1. SelectLastInSubSeq(<<>>, 1, 0, LAMBDA c : c \in {"@", " "}) = 0
    BY DEF SelectLastInSubSeq
  <2> QED BY <2>1 DEF detect, NoPopup
<1>3. mode.kind = NoPopup
  BY <1>1, <1>2 DEF mode
<1>4. IsFiniteSet(slashCommands) /\ IsList(mentionItems.ids)
  BY FS_EmptySet DEF CInit, NoItems, IsList
<1> QED BY <1>3, <1>4 DEF CInit, ComposerInv, MentionsAnswered, HighlightIsAnItem, items, popupVisible, NoPopup

(* The effects see to what they are run for.                               *)
LEMMA EffectsKeep ==
  ASSUME ComposerInv, NEW text, NEW pos, Effects(text, pos),
         value' = text, cursor' = pos, UNCHANGED slashCommands
  PROVE  ComposerInv'
<1>m. mode' = detect(text, pos)
  BY DEF mode
<1>1. CASE <<text, pos>> = <<value, cursor>>
  <2>1. UNCHANGED <<active, mention>>
    BY <1>1 DEF Effects
  <2>2. mode' = mode
    BY <1>1, <1>m DEF mode
  <2>3. items' = items
    BY <2>1, <2>2 DEF items, slashItems, mention
  <2>4. \A f : IsCurrent(f)' = IsCurrent(f)
    BY <2>1 DEF IsCurrent, mention
  <2> QED
    BY <2>1, <2>2, <2>3, <2>4
    DEF ComposerInv, MentionsAnswered, HighlightIsAnItem, popupVisible, mention
<1>2. CASE <<text, pos>> # <<value, cursor>>
  <2>1. active' = 0
    BY <1>2 DEF Effects
  <2>2. CASE mode'.kind = "mention"
    <3>1. /\ timer' = {mode'.query} /\ mentionToken' = mentionToken + 1
          /\ UNCHANGED <<fetches, mentionItems>>
      BY <1>2, <1>m, <2>2 DEF Effects
    <3>2. \A f \in fetches : f.token \in Nat /\ f.token <= mentionToken
      BY DEF ComposerInv
    <3>3. \A f \in fetches' : f.token \in Nat /\ f.token <= mentionToken' /\ ~IsCurrent(f)'
      BY <3>1, <3>2 DEF IsCurrent, ComposerInv
    <3>4. items' = mentionItems.ids
      BY <2>2, <3>1 DEF items
    <3>5. MentionsAnswered' /\ HighlightIsAnItem'
      BY <2>1, <2>2, <3>1, <3>4
      DEF MentionsAnswered, HighlightIsAnItem, popupVisible, ComposerInv, IsList
    <3> QED BY <2>1, <2>2, <3>1, <3>3, <3>5 DEF ComposerInv
  <2>3. CASE mode'.kind # "mention"
    <3>1. timer' = {} /\ mentionItems' = NoItems /\ UNCHANGED <<fetches, mentionToken>>
      BY <1>2, <1>m, <2>3 DEF Effects
    <3>2. IsList(mentionItems'.ids) /\ IsFiniteSet(slashCommands')
      BY <3>1 DEF NoItems, IsList, ComposerInv
    <3>3. IsList(items')
      BY <3>2, PrimedItems
    <3>4. MentionsAnswered' /\ HighlightIsAnItem'
      BY <2>1, <2>3, <3>1, <3>3 DEF MentionsAnswered, HighlightIsAnItem, popupVisible, IsList
    <3> QED BY <2>1, <2>3, <3>1, <3>2, <3>4 DEF ComposerInv
  <2> QED BY <2>2, <2>3
<1> QED BY <1>1, <1>2

(* The highlight moves on the same list, or nothing here moves.            *)
LEMMA HighlightKeeps ==
  ASSUME ComposerInv, UNCHANGED <<value, head, parked, slashCommands, mention>>,
         active' = active \/ (active' \in Nat /\ active' < Len(items))
  PROVE  ComposerInv'
<1>1. mode' = mode
  BY DEF mode, cursor
<1>2. items' = items
  BY <1>1 DEF items, slashItems, mention
<1>3. \A f : IsCurrent(f)' = IsCurrent(f)
  BY DEF IsCurrent, mention
<1> QED
  BY <1>1, <1>2, <1>3
  DEF ComposerInv, MentionsAnswered, HighlightIsAnItem, popupVisible, mention

LEMMA ClampedIn ==
  ASSUME NEW list, IsList(list), NEW at \in Nat
  PROVE  /\ Clamped(at, list) \in Nat
         /\ Clamped(at, list) < Len(list) \/ (list = <<>> /\ Clamped(at, list) = 0)
BY DEF Clamped, IsList

LEMMA FetchKeeps == ASSUME ComposerInv, Fetch PROVE ComposerInv'
<1>1. /\ UNCHANGED <<value, head, parked, slashCommands, active, mentionToken, mentionItems>>
      /\ timer' = {} /\ timer # {}
      /\ fetches' = fetches \cup {[token |-> mentionToken, query |-> q] : q \in timer}
  BY DEF Fetch
<1>2. mode' = mode
  BY <1>1 DEF mode, cursor
<1>3. items' = items
  BY <1>1, <1>2 DEF items, slashItems
<1>4. mode.kind = "mention" /\ timer = {mode.query}
  BY <1>1 DEF ComposerInv, MentionsAnswered
<1> DEFINE g == [token |-> mentionToken, query |-> mode.query]
<1>5. fetches' = fetches \cup {g} /\ g.token = mentionToken /\ g.query = mode.query
  BY <1>1, <1>4
<1> HIDE DEF g
<1>6. \A f : IsCurrent(f)' <=> f.token = mentionToken
  BY <1>1 DEF IsCurrent
<1>7. \A f \in fetches' :
        /\ f.token \in Nat /\ f.token <= mentionToken
        /\ IsCurrent(f)' => f.query = mode.query
  BY <1>4, <1>5, <1>6 DEF ComposerInv, IsCurrent
<1>8. MentionsAnswered'
  BY <1>2, <1>4, <1>5, <1>6 DEF MentionsAnswered
<1> QED BY <1>1, <1>2, <1>3, <1>7, <1>8 DEF ComposerInv, HighlightIsAnItem, popupVisible

LEMMA AnswerKeeps ==
  ASSUME ComposerInv, NEW f \in fetches, NEW ids \in Answers, Answer(f, ids)
  PROVE  ComposerInv'
<1>1. /\ UNCHANGED <<value, head, parked, slashCommands, timer, mentionToken>>
      /\ fetches' = fetches \ {f}
      /\ active' = IF mode.kind = "mention" THEN Clamped(active, mentionItems'.ids) ELSE active
  BY DEF Answer
<1>2. mode' = mode
  BY <1>1 DEF mode, cursor
<1>3. \A g : IsCurrent(g)' = IsCurrent(g)
  BY <1>1 DEF IsCurrent
<1>4. mentionItems' = IF ~IsCurrent(f) THEN mentionItems
                      ELSE IF mode.kind # "mention" THEN NoItems
                      ELSE [query |-> f.query, ids |-> ids]
  BY DEF Answer
<1>5. IsList(mentionItems'.ids)
  BY <1>4, AnswersAreLists DEF ComposerInv, NoItems, IsList
<1>6. active' \in Nat
  BY <1>1, <1>5, ClampedIn DEF ComposerInv
<1>7. MentionsAnswered'
  <2>1. CASE mode.kind # "mention"
    BY <1>1, <1>2, <1>4, <2>1 DEF ComposerInv, MentionsAnswered
  <2>2. CASE mode.kind = "mention" /\ IsCurrent(f)
    <3>1. mentionItems'.query = mode.query
      BY <1>4, <2>2 DEF ComposerInv
    <3> QED BY <1>2, <2>2, <3>1 DEF MentionsAnswered
  <2>3. CASE mode.kind = "mention" /\ ~IsCurrent(f)
    BY <1>1, <1>2, <1>3, <1>4, <2>3 DEF ComposerInv, MentionsAnswered
  <2> QED BY <2>1, <2>2, <2>3
<1>8. HighlightIsAnItem'
  <2>1. CASE mode.kind = "mention"
    <3>1. items' = mentionItems'.ids
      BY <1>2, <2>1 DEF items
    <3> QED
      BY <1>1, <1>5, <2>1, <3>1, ClampedIn DEF ComposerInv, HighlightIsAnItem, popupVisible
  <2>2. CASE mode.kind # "mention"
    <3>1. items' = items
      BY <1>1, <1>2, <2>2 DEF items, slashItems
    <3> QED BY <1>1, <2>2, <3>1 DEF ComposerInv, HighlightIsAnItem, popupVisible
  <2> QED BY <2>1, <2>2
<1> QED BY <1>1, <1>2, <1>3, <1>5, <1>6, <1>7, <1>8 DEF ComposerInv

LEMMA InitFrameKeeps ==
  ASSUME ComposerInv, NEW commands \in CommandSets, InitFrame(commands)
  PROVE  ComposerInv'
<1>1. /\ UNCHANGED <<value, head, parked, mention>> /\ slashCommands' = commands
      /\ active' = IF mode.kind = "slash"
                   THEN Clamped(active, SetToSeq(Matching(commands, mode.query))) ELSE active
  BY DEF InitFrame
<1>2. mode' = mode
  BY <1>1 DEF mode, cursor
<1>3. \A g : IsCurrent(g)' = IsCurrent(g)
  BY <1>1 DEF IsCurrent, mention
<1>4. IsFiniteSet(slashCommands')
  BY <1>1, ComposerAssumption
<1> DEFINE list == SetToSeq(Matching(commands, mode.query))
<1>5. IsList(list)
  <2>1. IsFiniteSet(Matching(commands, mode.query))
    BY <1>1, <1>4, FS_Subset DEF Matching
  <2> QED BY <2>1, Listed
<1>6. active' \in Nat
  BY <1>1, <1>5, ClampedIn DEF ComposerInv
<1>7. HighlightIsAnItem'
  <2>1. CASE mode.kind = "slash"
    <3>1. items' = list
      BY <1>1, <1>2, <2>1 DEF items, slashItems
    <3> HIDE DEF list
    <3> QED BY <1>1, <1>5, <2>1, <3>1, ClampedIn DEF ComposerInv, HighlightIsAnItem, popupVisible, list
  <2>2. CASE mode.kind # "slash"
    <3>1. items' = items
      BY <1>1, <1>2, <2>2 DEF items, mention
    <3> QED BY <1>1, <2>2, <3>1 DEF ComposerInv, HighlightIsAnItem, popupVisible
  <2> QED BY <2>1, <2>2
<1>8. MentionsAnswered'
  BY <1>1, <1>2, <1>3 DEF ComposerInv, MentionsAnswered, mention
<1> QED BY <1>1, <1>2, <1>3, <1>4, <1>6, <1>7, <1>8 DEF ComposerInv, mention

LEMMA ArrowKeeps == ASSUME ComposerInv, NEW to, Arrow(to) PROVE ComposerInv'
<1>1. /\ UNCHANGED <<value, head, parked, slashCommands, mention>> /\ active' = to
      /\ items # <<>> /\ to \in {Min({Len(items) - 1, active + 1}), Max({0, active - 1})}
  BY DEF Arrow, popupVisible
<1>2. IsList(items) /\ Len(items) \in Nat \ {0} /\ active \in Nat /\ active < Len(items)
  BY <1>1, ItemsAreList DEF ComposerInv, HighlightIsAnItem, popupVisible, IsList
<1>3. ASSUME to = Min({Len(items) - 1, active + 1}) PROVE to \in Nat /\ to < Len(items)
  <2> DEFINE S == {Len(items) - 1, active + 1}
  <2>1. \E x \in S : \A y \in S : x <= y
    BY <1>2
  <2>2. to \in S /\ \A y \in S : to <= y
    BY <1>3, <2>1 DEF Min
  <2> QED BY <1>2, <2>2
<1>4. ASSUME to = Max({0, active - 1}) PROVE to \in Nat /\ to < Len(items)
  <2> DEFINE S == {0, active - 1}
  <2>1. \E x \in S : \A y \in S : x >= y
    BY <1>2
  <2>2. to \in S /\ \A y \in S : to >= y
    BY <1>4, <2>1 DEF Max
  <2> QED BY <1>2, <2>2
<1> QED BY <1>1, <1>3, <1>4, HighlightKeeps

LEMMA DispatchKeeps ==
  ASSUME ComposerInv, NEW text, NEW at, Dispatch(text, at), UNCHANGED slashCommands
  PROVE  ComposerInv'
<1>1. value' = text /\ cursor' = at /\ Effects(text, at)
  BY DEF Dispatch, cursor
<1> QED BY <1>1, EffectsKeep

LEMMA ComposerStep == ComposerInv /\ [CNext]_cvars => ComposerInv'
<1> SUFFICES ASSUME ComposerInv, [CNext]_cvars PROVE ComposerInv'
  OBVIOUS
<1>1. ASSUME NEW text, NEW at, Edit(text, at) PROVE ComposerInv'
  BY <1>1, DispatchKeeps DEF Edit
<1>2. ASSUME NEW item, applySelection(item) PROVE ComposerInv'
  <2>1. \E text, at : Dispatch(text, at)
    BY <1>2 DEF applySelection
  <2>2. UNCHANGED slashCommands
    BY <1>2 DEF applySelection
  <2> QED BY <2>1, <2>2, DispatchKeeps
<1>3. CASE send
  BY <1>3, DispatchKeeps DEF send
<1>4. ASSUME NEW k, Hover(k) PROVE ComposerInv'
  <2>1. IsList(items)
    BY ItemsAreList DEF ComposerInv
  <2>2. /\ UNCHANGED <<value, head, parked, slashCommands, mention>>
        /\ k \in 1 .. Len(items) /\ active' = k - 1 /\ Len(items) \in Nat
    BY <1>4, <2>1 DEF Hover, IsList
  <2> QED BY <2>2, HighlightKeeps
<1>5. CASE Escape
  <2>1. Effects(value, -1) /\ value' = value /\ cursor' = -1 /\ UNCHANGED slashCommands
    BY <1>5 DEF Escape, cursor
  <2> QED BY <2>1, EffectsKeep
<1>6. ASSUME UNCHANGED <<value, head, parked, slashCommands, active, mention>> PROVE ComposerInv'
  BY <1>6, HighlightKeeps
<1>7. CASE Bang \/ Backspace \/ UNCHANGED cvars
  BY <1>6, <1>7 DEF Bang, Backspace, cvars, mention
<1>8. ASSUME NEW to, toggleVim(to) PROVE ComposerInv'
  BY <1>6, <1>8 DEF toggleVim
<1> QED
  BY <1>1, <1>2, <1>3, <1>4, <1>5, <1>7, <1>8, FetchKeeps, AnswerKeeps, InitFrameKeeps, ArrowKeeps
  DEF CNext, Click, Enter, Choose

-----------------------------------------------------------------------------
(* Roster                                                                  *)

SeenRecord == [id : SessionIds, firstSeen : Nat, lastSeen : Nat]
Distinct(list) == \A i, j \in DOMAIN list : i # j => list[i].id # list[j].id
Descends(list) == \A i, j \in DOMAIN list : i < j => list[i].lastSeen >= list[j].lastSeen
Dated(list, at) == \A i \in DOMAIN list :
                     list[i].firstSeen <= list[i].lastSeen /\ list[i].lastSeen <= at
InOrder(list, at) ==
  /\ list \in Seq(SeenRecord) /\ Len(list) <= CAP
  /\ Distinct(list) /\ Descends(list) /\ Dated(list, at)

RosterInv ==
  /\ now \in Nat
  /\ records \in [Tabs -> Seq(SeenRecord)] /\ kept \in [Tabs -> Seq(SeenRecord)]
  /\ lastId \in [Tabs -> SessionIds \cup {NoId}] /\ forgot \in [Tabs -> SessionIds \cup {NoId}]
  /\ \A t \in Tabs : InOrder(records[t], now) /\ InOrder(kept[t], now)
  /\ \A t \in Tabs : lastId[t] \in IdsOf(records[t]) \cup {NoId, forgot[t]}
  /\ \A t \in Tabs : Sharers(t) = Tabs =>
       (\A u \in Tabs : kept[u] = kept[t]) /\ \E v \in Tabs : kept[t] = records[v]
  /\ \A t \in Tabs : Sharers(t) = {t} => kept[t] = records[t]

LEMMA Sharing == \/ \A t : Sharers(t) = Tabs
                 \/ \A t : Sharers(t) = {t}
                 \/ \A t : Sharers(t) = {}
<1> DEFINE how == resolveStorage(config)
<1>1. CASE how \in {"custom", "local"}
  BY <1>1 DEF Sharers
<1>2. CASE how = "session"
  BY <1>2 DEF Sharers
<1>3. CASE how \notin {"custom", "local", "session"}
  BY <1>3 DEF Sharers
<1> QED BY <1>1, <1>2, <1>3

LEMMA LenInterval ==
  ASSUME NEW n \in Nat
  PROVE  IsFiniteSet(1 .. n) /\ Cardinality(1 .. n) = n
<1>1. 1 \in Int /\ n \in Int
  OBVIOUS
<1> QED BY <1>1, FS_Interval

LEMMA DistinctCounts ==
  ASSUME NEW T, NEW list \in Seq(T), Distinct(list)
  PROVE  Cardinality(IdsOf(list)) = Len(list)
<1> DEFINE f == [i \in 1 .. Len(list) |-> list[i].id]
<1>1. Len(list) \in Nat /\ DOMAIN list = 1 .. Len(list)
  OBVIOUS
<1>2. f \in Bijection(1 .. Len(list), IdsOf(list))
  <2>1. f \in [1 .. Len(list) -> IdsOf(list)]
    BY <1>1 DEF IdsOf
  <2>2. f \in Injection(1 .. Len(list), IdsOf(list))
    BY <1>1, <2>1, Fun_IsInj DEF Distinct
  <2>3. f \in Surjection(1 .. Len(list), IdsOf(list))
    BY <1>1, <2>1, Fun_IsSurj DEF IdsOf
  <2> QED BY <2>2, <2>3, Fun_IsBij
<1>3. IsFiniteSet(1 .. Len(list)) /\ Cardinality(1 .. Len(list)) = Len(list)
  BY <1>1, FS_Interval
<1> QED BY <1>2, <1>3, FS_Bijection DEF ExistsBijection

LEMMA RosterImplies == RosterInv => RosterSafe
<1> SUFFICES ASSUME RosterInv PROVE ListsInOrder /\ CurrentListed
  BY DEF RosterSafe
<1>1. ListsInOrder
  <2>1. ASSUME NEW list \in Range(records) \cup Range(kept) PROVE InOrder(list, now)
    BY <2>1 DEF RosterInv, Range
  <2>2. ASSUME NEW list, InOrder(list, now) PROVE Cardinality(IdsOf(list)) = Len(list)
    BY <2>2, DistinctCounts DEF InOrder
  <2> QED BY <2>1, <2>2 DEF ListsInOrder, InOrder, Descends, Dated
<1>2. CurrentListed
  <2>1. ASSUME NEW t \in Tabs, Sharers(t) # {} PROVE kept[t] \in Range(records)
    <3>1. Sharers(t) = Tabs \/ Sharers(t) = {t}
      BY <2>1, Sharing
    <3>2. \A v \in Tabs : records[v] \in Range(records)
      BY DEF RosterInv, Range
    <3> QED BY <3>1, <3>2 DEF RosterInv
  <2> QED BY <2>1 DEF CurrentListed, RosterInv
<1> QED BY <1>1, <1>2

(* A stable sort moves each element to the place its rank names.           *)
LEMMA Ranks ==
  ASSUME NEW list \in Seq(SeenRecord), NEW e,
         e = [k \in DOMAIN list |-> CHOOSE i \in DOMAIN list : Cardinality(UpToHere(list, i)) = k]
  PROVE  /\ \A k \in DOMAIN list : e[k] \in DOMAIN list
         /\ \A i \in DOMAIN list : \E k \in DOMAIN list : e[k] = i
         /\ \A k, l \in DOMAIN list : k # l => e[k] # e[l]
         /\ \A k, l \in DOMAIN list : k < l => list[e[k]].lastSeen >= list[e[l]].lastSeen
<1> DEFINE n == Len(list)
           rank == [i \in 1 .. n |-> Cardinality(UpToHere(list, i))]
           first(i, j) == \/ list[i].lastSeen > list[j].lastSeen
                          \/ list[i].lastSeen = list[j].lastSeen /\ i <= j
<1>1. n \in Nat /\ DOMAIN list = 1 .. n /\ \A i \in 1 .. n : list[i].lastSeen \in Nat
  <2>1. n \in Nat /\ DOMAIN list = 1 .. n /\ \A i \in 1 .. n : list[i] \in SeenRecord
    BY Elements
  <2> QED BY <2>1 DEF SeenRecord
<1>2. IsFiniteSet(1 .. n) /\ Cardinality(1 .. n) = n
  <2>1. 1 \in Int /\ n \in Int /\ n - 1 + 1 = n /\ (1 > n => n = 0)
    BY <1>1
  <2> HIDE DEF n
  <2> QED BY <2>1, FS_Interval
<1>3. \A i \in 1 .. n : /\ UpToHere(list, i) \in SUBSET (1 .. n) /\ i \in UpToHere(list, i)
                       /\ IsFiniteSet(UpToHere(list, i))
                       /\ \A j : j \in UpToHere(list, i) <=> j \in 1 .. n /\ first(j, i)
  <2> SUFFICES ASSUME NEW i \in 1 .. n
               PROVE  /\ UpToHere(list, i) \in SUBSET (1 .. n) /\ i \in UpToHere(list, i)
                      /\ IsFiniteSet(UpToHere(list, i))
                      /\ \A j : j \in UpToHere(list, i) <=> j \in 1 .. n /\ first(j, i)
    OBVIOUS
  <2>1. \A j : j \in UpToHere(list, i) <=> j \in 1 .. n /\ first(j, i)
    BY <1>1 DEF UpToHere
  <2>2. i \in UpToHere(list, i) /\ UpToHere(list, i) \in SUBSET (1 .. n)
    BY <1>1, <2>1
  <2> QED BY <1>2, <2>1, <2>2, FS_Subset
<1>4. rank \in [1 .. n -> 1 .. n]
  <2> SUFFICES ASSUME NEW i \in 1 .. n PROVE Cardinality(UpToHere(list, i)) \in 1 .. n
    OBVIOUS
  <2>1. Cardinality(UpToHere(list, i)) \in Nat /\ Cardinality(UpToHere(list, i)) <= n
    BY <1>2, <1>3, FS_Subset, FS_CardinalityType
  <2>2. Cardinality(UpToHere(list, i)) # 0
    BY <1>3, FS_EmptySet
  <2> QED BY <1>1, <2>1, <2>2
<1>5. ASSUME NEW i \in 1 .. n, NEW j \in 1 .. n, i # j, first(i, j) PROVE rank[i] < rank[j]
  <2> DEFINE A == UpToHere(list, i)
             B == UpToHere(list, j)
  <2>1. ASSUME NEW l \in A PROVE l \in B
    <3>1. l \in 1 .. n /\ first(l, i)
      BY <1>3, <2>1
    <3>2. first(l, j)
      BY <1>1, <1>5, <3>1
    <3> QED BY <1>3, <3>1, <3>2
  <2>2. ~first(j, i)
    BY <1>1, <1>5
  <2>3. j \in B /\ j \notin A
    BY <1>3, <2>2
  <2>4. A \in SUBSET B /\ A # B /\ IsFiniteSet(B) /\ IsFiniteSet(A)
    BY <1>3, <2>1, <2>3
  <2>5. Cardinality(A) <= Cardinality(B) /\ Cardinality(A) # Cardinality(B)
    BY <2>4, FS_Subset
  <2>6. Cardinality(A) \in Nat /\ Cardinality(B) \in Nat
    BY <2>4, FS_CardinalityType
  <2> QED BY <2>5, <2>6
<1>6. \A i, j \in 1 .. n : i # j => rank[i] # rank[j]
  <2> SUFFICES ASSUME NEW i \in 1 .. n, NEW j \in 1 .. n, i # j PROVE rank[i] # rank[j]
    OBVIOUS
  <2>1. first(i, j) \/ first(j, i)
    BY <1>1
  <2>2. rank[i] \in Nat /\ rank[j] \in Nat
    BY <1>4
  <2> HIDE DEF rank, first
  <2> QED BY <1>5, <2>1, <2>2
<1>7. rank \in Surjection(1 .. n, 1 .. n)
  <2>1. rank \in Injection(1 .. n, 1 .. n)
    BY <1>4, <1>6, Fun_IsInj
  <2> QED BY <1>2, <2>1, FS_Injection
<1>8. \A k \in 1 .. n : \E i \in 1 .. n : rank[i] = k
  BY <1>7 DEF Surjection
<1>9. \A k \in 1 .. n : e[k] \in 1 .. n /\ rank[e[k]] = k
  <2> SUFFICES ASSUME NEW k \in 1 .. n PROVE e[k] \in 1 .. n /\ rank[e[k]] = k
    OBVIOUS
  <2>1. e[k] = CHOOSE i \in 1 .. n : Cardinality(UpToHere(list, i)) = k
    BY <1>1
  <2>2. \E i \in 1 .. n : Cardinality(UpToHere(list, i)) = k
    BY <1>8
  <2>3. e[k] \in 1 .. n /\ Cardinality(UpToHere(list, e[k])) = k
    BY <2>1, <2>2
  <2> QED BY <2>3
<1> HIDE DEF rank
<1>10. \A i \in 1 .. n : rank[i] \in 1 .. n /\ e[rank[i]] = i
  BY <1>4, <1>6, <1>9
<1>11. ASSUME NEW k \in 1 .. n, NEW l \in 1 .. n, k < l
       PROVE  list[e[k]].lastSeen >= list[e[l]].lastSeen
  <2>1. e[k] \in 1 .. n /\ e[l] \in 1 .. n /\ rank[e[k]] = k /\ rank[e[l]] = l
    BY <1>9
  <2>2. CASE first(e[k], e[l])
    BY <1>1, <2>1, <2>2
  <2>3. CASE ~first(e[k], e[l])
    <3>1. \A i, j \in 1 .. n : ~first(i, j) => first(j, i) /\ i # j
      BY <1>1
    <3> HIDE DEF first
    <3>2. rank[e[l]] < rank[e[k]]
      BY <1>5, <2>1, <2>3, <3>1
    <3> QED BY <1>1, <1>11, <2>1, <3>2
  <2> QED BY <2>2, <2>3
<1>12. \A k, l \in 1 .. n : k # l => e[k] # e[l]
  BY <1>9
<1> QED BY <1>1, <1>9, <1>10, <1>11, <1>12

LEMMA NewestInOrder ==
  ASSUME NEW list \in Seq(SeenRecord), NEW at, Len(list) <= CAP, Distinct(list), Dated(list, at)
  PROVE  InOrder(Newest(list), at) /\ IdsOf(Newest(list)) = IdsOf(list)
<1> DEFINE e == [k \in DOMAIN list |-> CHOOSE i \in DOMAIN list : Cardinality(UpToHere(list, i)) = k]
           s == Newest(list)
<1>1. /\ \A k \in DOMAIN list : e[k] \in DOMAIN list
      /\ \A i \in DOMAIN list : \E k \in DOMAIN list : e[k] = i
      /\ \A k, l \in DOMAIN list : k # l => e[k] # e[l]
      /\ \A k, l \in DOMAIN list : k < l => list[e[k]].lastSeen >= list[e[l]].lastSeen
  BY Ranks
<1>2. DOMAIN s = DOMAIN list /\ \A k \in DOMAIN list : s[k] = list[e[k]]
  BY DEF Newest
<1> HIDE DEF e
<1>3. s \in Seq(SeenRecord) /\ Len(s) = Len(list)
  <2>1. /\ Len(list) \in Nat /\ DOMAIN list = 1 .. Len(list)
        /\ \A i \in 1 .. Len(list) : list[i] \in SeenRecord
    BY Elements
  <2>2. s = [k \in 1 .. Len(list) |-> s[k]]
    BY <2>1 DEF Newest
  <2>3. \A k \in 1 .. Len(list) : s[k] \in SeenRecord
    BY <1>1, <1>2, <2>1
  <2> QED BY <2>1, <2>2, <2>3
<1> HIDE DEF s
<1>4. Distinct(s) /\ Descends(s) /\ Dated(s, at)
  <2>1. ASSUME NEW k \in DOMAIN s, NEW l \in DOMAIN s, k # l PROVE s[k].id # s[l].id
    <3>1. /\ k \in DOMAIN list /\ l \in DOMAIN list /\ s[k] = list[e[k]] /\ s[l] = list[e[l]]
          /\ e[k] \in DOMAIN list /\ e[l] \in DOMAIN list
      BY <1>1, <1>2
    <3>2. e[k] # e[l]
      BY <1>1, <2>1, <3>1
    <3> QED BY <3>1, <3>2 DEF Distinct
  <2>2. ASSUME NEW k \in DOMAIN s, NEW l \in DOMAIN s, k < l PROVE s[k].lastSeen >= s[l].lastSeen
    <3>1. k \in DOMAIN list /\ l \in DOMAIN list /\ s[k] = list[e[k]] /\ s[l] = list[e[l]]
      BY <1>1, <1>2
    <3>2. list[e[k]].lastSeen >= list[e[l]].lastSeen
      BY <1>1, <2>2, <3>1
    <3> QED BY <3>1, <3>2
  <2>3. Dated(s, at)
    BY <1>1, <1>2 DEF Dated
  <2> QED BY <2>1, <2>2, <2>3 DEF Distinct, Descends
<1>5. IdsOf(s) = IdsOf(list)
  <2>1. ASSUME NEW i \in DOMAIN list PROVE \E k \in DOMAIN s : s[k] = list[i]
    <3>1. PICK k \in DOMAIN list : e[k] = i
      BY <1>1
    <3> QED BY <1>2, <3>1
  <2>2. \A k \in DOMAIN s : \E i \in DOMAIN list : s[k] = list[i]
    BY <1>1, <1>2
  <2> QED BY <2>1, <2>2 DEF IdsOf
<1>6. InOrder(s, at)
  BY <1>3, <1>4 DEF InOrder
<1> QED BY <1>5, <1>6 DEF s

LEMMA TouchedInOrder ==
  ASSUME NEW list, NEW m \in Nat, InOrder(list, m), NEW id \in SessionIds,
         NEW at \in Nat, at >= m
  PROVE  InOrder(Touched(list, id, at), at) /\ id \in IdsOf(Touched(list, id, at))
<1>1. /\ list \in Seq(SeenRecord) /\ Len(list) \in Nat /\ DOMAIN list = 1 .. Len(list)
      /\ \A i \in 1 .. Len(list) : /\ list[i] \in SeenRecord
                                    /\ list[i].lastSeen \in Nat /\ list[i].firstSeen \in Nat
  <2>1. list \in Seq(SeenRecord)
    BY DEF InOrder
  <2>2. \A i \in DOMAIN list : list[i] \in SeenRecord
    BY <2>1, Elements
  <2> QED BY <2>1, <2>2, Elements DEF SeenRecord
<1>2. CASE id \in IdsOf(list)
  <2> DEFINE raised == [i \in DOMAIN list |->
                          IF list[i].id = id THEN [list[i] EXCEPT !.lastSeen = at] ELSE list[i]]
  <2>1. Touched(list, id, at) = Newest(raised)
    BY <1>2 DEF Touched
  <2>2. \A i \in 1 .. Len(list) :
          /\ raised[i] \in SeenRecord /\ raised[i].id = list[i].id
          /\ raised[i].firstSeen = list[i].firstSeen /\ raised[i].lastSeen \in {list[i].lastSeen, at}
    BY <1>1 DEF SeenRecord
  <2>3. raised \in Seq(SeenRecord) /\ Len(raised) = Len(list) /\ DOMAIN raised = 1 .. Len(list)
    BY <1>1, <2>2
  <2> HIDE DEF raised
  <2>4. Distinct(raised)
    BY <1>1, <2>2, <2>3 DEF InOrder, Distinct
  <2>5. Dated(raised, at)
    BY <1>1, <2>2, <2>3 DEF InOrder, Dated
  <2>6. id \in IdsOf(raised)
    BY <1>1, <1>2, <2>2, <2>3 DEF IdsOf
  <2> QED BY <2>1, <2>3, <2>4, <2>5, <2>6, NewestInOrder DEF InOrder
<1>3. CASE id \notin IdsOf(list)
  <2> DEFINE new == [id |-> id, firstSeen |-> at, lastSeen |-> at]
             s == <<new>> \o list
             n == Min({CAP, Len(s)})
  <2>1. new \in SeenRecord
    BY DEF SeenRecord
  <2>2. /\ s \in Seq(SeenRecord) /\ Len(s) = Len(list) + 1 /\ s[1] = new
        /\ \A i \in 2 .. Len(s) : i - 1 \in 1 .. Len(list) /\ s[i] = list[i - 1]
    BY <1>1, <2>1
  <2>3. n \in Nat \ {0} /\ n <= CAP /\ n <= Len(s)
    <3>1. \E x \in {CAP, Len(s)} : \A y \in {CAP, Len(s)} : x <= y
      BY <1>1, <2>2, RosterAssumption
    <3>2. n \in {CAP, Len(s)} /\ \A y \in {CAP, Len(s)} : n <= y
      BY <3>1 DEF Min
    <3> QED BY <1>1, <2>2, <3>2, RosterAssumption
  <2>4. Touched(list, id, at) = SubSeq(s, 1, n)
    BY <1>3 DEF Touched, Capped
  <2> DEFINE c == SubSeq(s, 1, n)
  <2> HIDE DEF s, n
  <2>5. /\ c \in Seq(SeenRecord) /\ Len(c) = n /\ DOMAIN c = 1 .. n
        /\ \A i \in 1 .. n : i \in 1 .. Len(s) /\ c[i] = s[i]
    BY <2>2, <2>3
  <2> HIDE DEF c
  <2>6. \A i \in DOMAIN c : /\ i = 1 => c[i] = new
                            /\ i # 1 => i > 1 /\ i - 1 \in 1 .. Len(list) /\ c[i] = list[i - 1]
    BY <2>2, <2>3, <2>5
  <2>7. new.id = id /\ new.firstSeen = at /\ new.lastSeen = at
    OBVIOUS
  <2> HIDE DEF new
  <2>8. \A i \in DOMAIN list : list[i].id # id /\ list[i].lastSeen <= at
    BY <1>1, <1>3 DEF InOrder, Dated, IdsOf
  <2>9. Distinct(c)
    <3> SUFFICES ASSUME NEW i \in DOMAIN c, NEW j \in DOMAIN c, i # j PROVE c[i].id # c[j].id
      BY DEF Distinct
    <3>1. CASE i = 1 \/ j = 1
      BY <1>1, <2>5, <2>6, <2>7, <2>8, <3>1
    <3>2. CASE i # 1 /\ j # 1
      <4>1. /\ i - 1 \in DOMAIN list /\ j - 1 \in DOMAIN list /\ i - 1 # j - 1
            /\ c[i] = list[i - 1] /\ c[j] = list[j - 1]
        BY <1>1, <2>5, <2>6, <3>2
      <4> QED BY <4>1 DEF InOrder, Distinct
    <3> QED BY <3>1, <3>2
  <2>10. Descends(c)
    <3> SUFFICES ASSUME NEW i \in DOMAIN c, NEW j \in DOMAIN c, i < j
                 PROVE  c[i].lastSeen >= c[j].lastSeen
      BY DEF Descends
    <3>1. j - 1 \in 1 .. Len(list) /\ c[j] = list[j - 1] /\ i \in Nat /\ j \in Nat /\ j > 1
      BY <2>5, <2>6
    <3>2. CASE i = 1
      BY <1>1, <2>6, <2>7, <2>8, <3>1, <3>2
    <3>3. CASE i # 1
      BY <1>1, <2>6, <3>1, <3>3 DEF InOrder, Descends
    <3> QED BY <3>2, <3>3
  <2>11. Dated(c, at)
    BY <1>1, <2>5, <2>6, <2>7, <2>8 DEF InOrder, Dated
  <2>12. id \in IdsOf(c)
    BY <2>3, <2>5, <2>6, <2>7 DEF IdsOf
  <2> QED BY <2>3, <2>4, <2>5, <2>9, <2>10, <2>11, <2>12 DEF InOrder, c
<1> QED BY <1>2, <1>3

LEMMA ForgetInOrder ==
  ASSUME NEW list, NEW at, InOrder(list, at), NEW id,
         NEW I \in SUBSET DOMAIN list, \A i \in DOMAIN list : i \in I <=> list[i].id # id,
         NEW s, s = Kept(list, I)
  PROVE  InOrder(s, at) /\ IdsOf(list) \ {id} \subseteq IdsOf(s)
<1>1. list \in Seq(SeenRecord) /\ I \in SUBSET DOMAIN list
  BY DEF InOrder
<1>2. PICK e : Embeds(e, list, I, s)
  BY <1>1, KeptEffect
<1>3. s \in Seq(SeenRecord) /\ Len(s) = Cardinality(I)
  BY <1>1, KeptEffect
<1>4. Len(s) <= Len(list)
  <2>1. IsFiniteSet(DOMAIN list) /\ Cardinality(DOMAIN list) = Len(list)
    BY <1>1, Elements, LenInterval
  <2> QED BY <1>1, <1>3, <2>1, FS_Subset
<1>5. Distinct(s) /\ Descends(s) /\ Dated(s, at)
  <2>1. /\ \A k \in DOMAIN s : e[k] \in DOMAIN list /\ e[k] \in Nat /\ k \in Nat /\ s[k] = list[e[k]]
        /\ \A k, l \in DOMAIN s : k < l => e[k] < e[l]
    BY <1>1, <1>2, <1>3, Elements DEF Embeds
  <2>2. Distinct(s)
    <3>1. \A k, l \in DOMAIN s : k # l => e[k] # e[l]
      BY <2>1
    <3> QED BY <2>1, <3>1 DEF InOrder, Distinct
  <2>3. Descends(s)
    BY <2>1 DEF InOrder, Descends
  <2>4. Dated(s, at)
    BY <2>1 DEF InOrder, Dated
  <2> QED BY <2>2, <2>3, <2>4
<1>6. IdsOf(list) \ {id} \subseteq IdsOf(s)
  BY <1>2 DEF IdsOf, Embeds
<1> QED BY <1>1, <1>3, <1>4, <1>5, <1>6, RosterAssumption DEF InOrder

LEMMA LaterInOrder ==
  ASSUME NEW list, NEW m \in Nat, InOrder(list, m), NEW at \in Nat, at >= m
  PROVE  InOrder(list, at)
<1>1. \A i \in DOMAIN list : list[i] \in SeenRecord
  BY Elements DEF InOrder
<1>2. Dated(list, at)
  BY <1>1 DEF InOrder, Dated, SeenRecord
<1> QED BY <1>2 DEF InOrder

LEMMA EmptyInOrder == ASSUME NEW at PROVE InOrder(<<>>, at)
BY RosterAssumption DEF InOrder, Distinct, Descends, Dated

LEMMA RosterInit == OInit => RosterInv
<1> SUFFICES ASSUME OInit PROVE RosterInv
  OBVIOUS
<1>1. \A t \in Tabs : records[t] = <<>> /\ kept[t] = <<>> /\ lastId[t] = NoId
  BY DEF OInit
<1>2. InOrder(<<>>, now)
  BY EmptyInOrder
<1>3. /\ now \in Nat
      /\ records \in [Tabs -> Seq(SeenRecord)] /\ kept \in [Tabs -> Seq(SeenRecord)]
      /\ lastId \in [Tabs -> SessionIds \cup {NoId}] /\ forgot \in [Tabs -> SessionIds \cup {NoId}]
  BY DEF OInit
<1> QED BY <1>1, <1>2, <1>3 DEF RosterInv

(* A tab saves a list: the others keep theirs.                             *)
LEMMA Saves ==
  ASSUME RosterInv, NEW t \in Tabs, NEW list, saveTo(t, list), UNCHANGED config,
         now' \in Nat, now' >= now, InOrder(list, now'),
         lastId' \in [Tabs -> SessionIds \cup {NoId}], forgot' \in [Tabs -> SessionIds \cup {NoId}],
         \A u \in Tabs \ {t} : lastId'[u] = lastId[u] /\ forgot'[u] = forgot[u],
         lastId'[t] \in IdsOf(list) \cup {NoId, forgot'[t]}
  PROVE  RosterInv'
<1>1. list \in Seq(SeenRecord)
  BY DEF InOrder
<1>2. /\ records' \in [Tabs -> Seq(SeenRecord)] /\ kept' \in [Tabs -> Seq(SeenRecord)]
      /\ records'[t] = list /\ \A u \in Tabs \ {t} : records'[u] = records[u]
      /\ \A u \in Tabs : kept'[u] = IF u \in Sharers(t) THEN list ELSE kept[u]
  BY <1>1 DEF saveTo, RosterInv
<1>3. \A u : Sharers(u)' = Sharers(u)
  BY DEF Sharers, resolveStorage
<1>4. \A u \in Tabs : InOrder(records'[u], now') /\ InOrder(kept'[u], now')
  BY <1>2, LaterInOrder DEF RosterInv
<1>5. \A u \in Tabs : lastId'[u] \in IdsOf(records'[u]) \cup {NoId, forgot'[u]}
  BY <1>2 DEF RosterInv
<1>6. \A u \in Tabs : Sharers(u) = Tabs =>
        (\A v \in Tabs : kept'[v] = kept'[u]) /\ \E v \in Tabs : kept'[u] = records'[v]
  BY <1>2, Sharing DEF RosterInv
<1>7. ASSUME NEW u \in Tabs, Sharers(u) = {u} PROVE kept'[u] = records'[u]
  <2>1. \/ Sharers(t) = Tabs /\ Tabs = {u}
        \/ Sharers(t) = {t}
    BY <1>7, Sharing
  <2> QED BY <1>2, <1>7, <2>1 DEF RosterInv
<1> QED BY <1>2, <1>3, <1>4, <1>5, <1>6, <1>7 DEF RosterInv

LEMMA RosterStep == RosterInv /\ [ONext]_ovars => RosterInv'
<1> SUFFICES ASSUME RosterInv, [ONext]_ovars PROVE RosterInv'
  OBVIOUS
<1>1. ASSUME NEW t \in Tabs, NEW id \in SessionIds, touch(t, id) PROVE RosterInv'
  <2>1. PICK at \in {now, now + 1} : now' = at /\ saveTo(t, Touched(records[t], id, at))
    BY <1>1 DEF touch
  <2>2. now \in Nat /\ at \in Nat /\ at >= now /\ now' = at /\ InOrder(records[t], now)
    BY <2>1 DEF RosterInv
  <2>3. /\ InOrder(Touched(records[t], id, at), at)
        /\ id \in IdsOf(Touched(records[t], id, at))
    BY <2>2, TouchedInOrder
  <2>4. /\ lastId' \in [Tabs -> SessionIds \cup {NoId}] /\ forgot' \in [Tabs -> SessionIds \cup {NoId}]
        /\ \A u \in Tabs \ {t} : lastId'[u] = lastId[u] /\ forgot'[u] = forgot[u]
        /\ lastId'[t] = id /\ UNCHANGED config
    BY <1>1 DEF touch, RosterInv
  <2> QED BY <2>1, <2>2, <2>3, <2>4, Saves
<1>2. ASSUME NEW t \in Tabs, NEW id \in SessionIds, forget(t, id) PROVE RosterInv'
  <2> DEFINE I == {i \in DOMAIN records[t] : records[t][i].id # id}
             list == Kept(records[t], I)
  <2>1. saveTo(t, list) /\ UNCHANGED <<config, lastId, now>> /\ now \in Nat
    BY <1>2 DEF forget, RosterInv
  <2>2. InOrder(list, now) /\ IdsOf(records[t]) \ {id} \subseteq IdsOf(list)
    <3>1. InOrder(records[t], now)
      BY DEF RosterInv
    <3>2. /\ I \in SUBSET DOMAIN records[t] /\ list = Kept(records[t], I)
          /\ \A i \in DOMAIN records[t] : i \in I <=> records[t][i].id # id
      OBVIOUS
    <3> HIDE DEF I, list
    <3> QED BY <3>1, <3>2, ForgetInOrder
  <2> HIDE DEF list
  <2>3. /\ forgot' \in [Tabs -> SessionIds \cup {NoId}]
        /\ \A u \in Tabs \ {t} : forgot'[u] = forgot[u]
        /\ forgot'[t] = IF id = lastId[t] THEN id ELSE forgot[t]
    BY <1>2 DEF forget, RosterInv
  <2>4. lastId[t] \in IdsOf(list) \cup {NoId, forgot'[t]}
    BY <2>2, <2>3 DEF RosterInv
  <2>5. lastId' \in [Tabs -> SessionIds \cup {NoId}]
    BY <2>1 DEF RosterInv
  <2> QED BY <2>1, <2>2, <2>3, <2>4, <2>5, Saves
<1>3. ASSUME NEW t \in Tabs, loadFrom(t) PROVE RosterInv'
  <2> DEFINE list == IF Sharers(t) = {} THEN <<>> ELSE kept[t]
  <2>1. /\ UNCHANGED <<config, kept, now>> /\ records' = [records EXCEPT ![t] = list]
        /\ lastId' = [lastId EXCEPT ![t] = NoId] /\ forgot' = [forgot EXCEPT ![t] = NoId]
    BY <1>3 DEF loadFrom
  <2>2. list \in Seq(SeenRecord) /\ InOrder(list, now)
    BY EmptyInOrder DEF RosterInv
  <2>3. \A u : Sharers(u)' = Sharers(u)
    BY <2>1 DEF Sharers, resolveStorage
  <2>4. Sharers(t) # {} => list = kept[t]
    OBVIOUS
  <2> HIDE DEF list
  <2>5. /\ records' \in [Tabs -> Seq(SeenRecord)] /\ records'[t] = list
        /\ \A u \in Tabs \ {t} : records'[u] = records[u]
        /\ lastId' \in [Tabs -> SessionIds \cup {NoId}] /\ forgot' \in [Tabs -> SessionIds \cup {NoId}]
        /\ lastId'[t] = NoId /\ \A u \in Tabs \ {t} : lastId'[u] = lastId[u] /\ forgot'[u] = forgot[u]
    BY <2>1, <2>2 DEF RosterInv
  <2>6. \A u \in Tabs : InOrder(records'[u], now)
    BY <2>2, <2>5 DEF RosterInv
  <2>7. \A u \in Tabs : lastId'[u] \in IdsOf(records'[u]) \cup {NoId, forgot'[u]}
    BY <2>5 DEF RosterInv
  <2>8. ASSUME NEW u \in Tabs, Sharers(u) = Tabs
        PROVE  (\A v \in Tabs : kept[v] = kept[u]) /\ \E v \in Tabs : kept[u] = records'[v]
    <3>1. Sharers(t) # {}
      BY <2>8, Sharing
    <3>2. \A v \in Tabs : kept[v] = kept[u]
      BY <2>8 DEF RosterInv
    <3> QED BY <2>4, <2>5, <3>1, <3>2
  <2>9. ASSUME NEW u \in Tabs, Sharers(u) = {u} PROVE kept[u] = records'[u]
    <3>1. Sharers(t) # {}
      BY <2>9, Sharing
    <3>2. kept[u] = records[u]
      BY <2>9 DEF RosterInv
    <3>3. CASE u = t
      BY <2>4, <2>5, <3>1, <3>2, <3>3
    <3>4. CASE u # t
      BY <2>5, <3>2, <3>4
    <3> QED BY <3>3, <3>4
  <2>10. \A u \in Tabs : Sharers(u)' = Tabs =>
           (\A v \in Tabs : kept'[v] = kept'[u]) /\ \E v \in Tabs : kept'[u] = records'[v]
    BY <2>1, <2>3, <2>8
  <2>11. \A u \in Tabs : Sharers(u)' = {u} => kept'[u] = records'[u]
    BY <2>1, <2>3, <2>9
  <2>12. \A u \in Tabs : InOrder(records'[u], now') /\ InOrder(kept'[u], now')
    BY <2>1, <2>6 DEF RosterInv
  <2>13. now' \in Nat /\ kept' \in [Tabs -> Seq(SeenRecord)]
    BY <2>1 DEF RosterInv
  <2> QED BY <2>5, <2>7, <2>10, <2>11, <2>12, <2>13 DEF RosterInv
<1>4. CASE UNCHANGED ovars
  BY <1>4 DEF ovars, RosterInv, Sharers, resolveStorage
<1> QED BY <1>1, <1>2, <1>3, <1>4 DEF ONext

-----------------------------------------------------------------------------
(* The four profiles                                                       *)

AppInv == SetupInv /\ RowsInv /\ ComposerInv /\ RosterInv

LEMMA AppInit == MCInit => AppInv
BY SetupInit, RowsInit, ComposerInit, RosterInit DEF MCInit, AppInv

LEMMA AppStep == AppInv /\ [MCNext]_<<svars, rvars, cvars, ovars, profile>> => AppInv'
<1> SUFFICES ASSUME AppInv, [MCNext]_<<svars, rvars, cvars, ovars, profile>> PROVE AppInv'
  OBVIOUS
<1>1. [SNext]_svars /\ [RNext]_rvars /\ [CNext]_cvars /\ [ONext]_ovars
  <2> HIDE DEF SNext, RNext, CNext, ONext, svars, rvars, cvars, ovars
  <2> QED BY DEF MCNext, Step
<1> QED BY <1>1, SetupStep, RowsStep, ComposerStep, RosterStep DEF AppInv

(* What the user interface and the container application promise holds of  *)
(* every behaviour: the rows shown by classify.ts, the suggestions of      *)
(* Composer.svelte, the roster that sessionHistory.svelte.ts keeps, and    *)
(* what initSession of setup-flow.ts sets up for the pages that ask.       *)
THEOREM AppIsSafe == MCSpec => []AppSafe
<1>1. AppInv => AppSafe
  BY SetupImplies, RowsImplies, ComposerImplies, RosterImplies DEF AppInv, AppSafe
<1> QED BY <1>1, AppInit, AppStep, PTL DEF MCSpec

-----------------------------------------------------------------------------
(* WsClient                                                                *)
USE SocketAssumption, AttemptAssumption, CallAssumption

-----------------------------------------------------------------------------
(* The invariants.                                                         *)
Live(s) == ready[s] \in {"connecting", "open"}

(* A closed transport has no socket and no promise, so that nothing that   *)
(* comes late finds one to send on.                                        *)
ClosedInv == closedByUser => sock = 0 /\ openWait = 0

(* A current socket that is open and has sent nothing yet is about to send *)
(* the frame of its hook: no other continuation is ahead of it.            *)
HookInv ==
    IsOpen /\ wire[sock] = <<>> =>
        jobs # <<>> /\ Head(jobs).opened /\ Head(jobs).frame \in Socket

(* Without overlap: the current socket is the only one alive, none is      *)
(* alive while one has its close event to come, and a promise stands for   *)
(* the current socket as long as it connects, so that no call dials again. *)
LiveInv ==
    ~overlap => /\ \A s \in Socket : Live(s) => s = sock
                /\ \A s, t \in Socket : ready[s] \in {"closing", "failed"} => ~Live(t)
                /\ sock # 0 /\ ready[sock] = "connecting" => openWait = sock

-----------------------------------------------------------------------------
(* The types.                                                              *)
Job == [frame : Frame, opened : BOOLEAN]

LEMMA HeadTail ==
    ASSUME NEW S, NEW q \in Seq(S), q # <<>>
    PROVE  Head(q) \in S /\ Tail(q) \in Seq(S)
OBVIOUS

LEMMA Single ==
    ASSUME NEW S, NEW x \in S
    PROVE  <<x>> \in Seq(S)
OBVIOUS

LEMMA ContinuationsType ==
    ASSUME TypeOK, NEW s \in Socket, NEW opened \in BOOLEAN
    PROVE  Continuations(s, opened) \in Seq(Job)
<1>1. waiters[s] \in Seq(Frame)
  BY DEF TypeOK
<1>2. Len(waiters[s]) \in Nat /\ \A i \in 1 .. Len(waiters[s]) : waiters[s][i] \in Frame
  BY <1>1
<1>3. \A i \in 1 .. Len(waiters[s]) : [frame |-> waiters[s][i], opened |-> opened] \in Job
  BY <1>2 DEF Job
<1> QED BY <1>2, <1>3 DEF Continuations

LEMMA AwaitType ==
    ASSUME TypeOK, NEW queue \in Seq(Frame), Await(queue)
    PROVE  /\ overlap' \in BOOLEAN
           /\ sock' \in {0} \cup Socket /\ openWait' \in {0} \cup Socket
           /\ ready' \in [Socket -> {"none", "connecting", "open", "closing", "failed", "closed"}]
           /\ waiters' \in [Socket -> Seq(Frame)]
<1>1. CASE openWait # 0
  <2>1. waiters[openWait] \o queue \in Seq(Frame)
    BY <1>1, ConcatProperties DEF TypeOK
  <2> QED BY <1>1, <2>1 DEF Await, TypeOK
<1>2. CASE openWait = 0
  <2>1. PICK s \in Socket : Dial(s, queue)
    BY <1>2 DEF Await
  <2>2. waiters' \in [Socket -> Seq(Frame)]
    BY <2>1 DEF Dial, TypeOK
  <2>3. ready' \in [Socket -> {"none", "connecting", "open", "closing", "failed", "closed"}]
    BY <2>1 DEF Dial, TypeOK
  <2>4. overlap' \in BOOLEAN
    BY <2>1 DEF Dial, TypeOK
  <2> QED BY <2>1, <2>2, <2>3, <2>4 DEF Dial
<1> QED BY <1>1, <1>2

LEMMA InitTypeOK == Init => TypeOK
<1> SUFFICES ASSUME Init PROVE TypeOK
  OBVIOUS
<1>1. <<>> \in Seq(Frame) /\ <<>> \in Seq(Job)
  OBVIOUS
<1>2. waiters \in [Socket -> Seq(Frame)] /\ wire \in [Socket -> Seq(Frame)]
  BY <1>1 DEF Init
<1>3. jobs \in Seq([frame : Frame, opened : BOOLEAN])
  BY <1>1 DEF Init, Job
<1>4. ready \in [Socket -> {"none", "connecting", "open", "closing", "failed", "closed"}]
  BY DEF Init
<1>5. sends \in [Frame -> {"idle", "waiting", "sent", "refused", "rejected", "notOpen"}]
  BY DEF Init
<1>6. attempt \in 0 .. MaxAttempts - 1 /\ timers \in Nat
  BY DEF Init
<1> QED BY <1>2, <1>3, <1>4, <1>5, <1>6 DEF Init, TypeOK

LEMMA NextTypeOK == TypeOK /\ [Next]_vars => TypeOK'
<1> SUFFICES ASSUME TypeOK, [Next]_vars PROVE TypeOK'
  OBVIOUS
<1>j. jobs \in Seq(Job)
  BY DEF TypeOK, Job
<1>f. Call \subseteq Frame /\ Socket \subseteq Frame
  BY DEF Frame
<1>e. <<>> \in Seq(Frame)
  OBVIOUS
<1>1. ASSUME NEW f \in Call, SendRefused(f) PROVE TypeOK'
  BY <1>1, <1>f DEF SendRefused, TypeOK
<1>2. ASSUME NEW f \in Call, SendOpen(f) PROVE TypeOK'
  <2>1. [frame |-> f, opened |-> TRUE] \in Job
    BY <1>f DEF Job
  <2>2. jobs' \in Seq(Job)
    BY <1>2, <1>j, <2>1, AppendProperties DEF SendOpen
  <2> QED BY <1>2, <1>f, <2>2 DEF SendOpen, TypeOK, Job
<1>3. ASSUME NEW f \in Call, SendAwaits(f) PROVE TypeOK'
  <2>1. <<f>> \in Seq(Frame)
    BY <1>f
  <2>2. Await(<<f>>)
    BY <1>3 DEF SendAwaits
  <2> QED BY <1>3, <1>f, <2>1, <2>2, AwaitType DEF SendAwaits, TypeOK
<1>4. CASE OnFrame
  <2>1. Await(<<>>)
    BY <1>4 DEF OnFrame
  <2> QED BY <1>4, <1>e, <2>1, AwaitType DEF OnFrame, TypeOK
<1>5. CASE Close
  BY <1>5 DEF Close, Drop, TypeOK
<1>6. CASE Continue
  <2>1. Head(jobs) \in Job /\ jobs' \in Seq(Job)
    BY <1>6, <1>j, HeadTail DEF Continue
  <2>2. Head(jobs).frame \in Frame
    BY <2>1 DEF Job
  <2>3. wire' \in [Socket -> Seq(Frame)]
    <3>1. CASE IsOpen
      <4>1. Append(wire[sock], Head(jobs).frame) \in Seq(Frame)
        BY <2>2, <3>1, AppendProperties DEF IsOpen, TypeOK
      <4> QED BY <1>6, <3>1, <4>1 DEF Continue, TypeOK
    <3>2. CASE ~IsOpen
      BY <1>6, <3>2 DEF Continue, TypeOK
    <3> QED BY <3>1, <3>2
  <2>4. sends' \in [Frame -> {"idle", "waiting", "sent", "refused", "rejected", "notOpen"}]
    BY <1>6, <2>2 DEF Continue, TypeOK
  <2> QED BY <1>6, <2>1, <2>3, <2>4 DEF Continue, TypeOK, Job
<1>7. ASSUME NEW s \in Socket, Opened(s) PROVE TypeOK'
  <2>1. [frame |-> s, opened |-> TRUE] \in Job
    BY <1>f DEF Job
  <2>a. <<[frame |-> s, opened |-> TRUE]>> \in Seq(Job) /\ Continuations(s, TRUE) \in Seq(Job)
    BY <2>1, Single, ContinuationsType
  <2>2. jobs' \in Seq(Job)
    BY <1>7, <2>a, ConcatProperties DEF Opened
  <2> QED BY <1>7, <1>f, <1>e, <2>2 DEF Opened, Drop, TypeOK, Job
<1>8. ASSUME NEW s \in Socket, OpenedBesideWait(s) PROVE TypeOK'
  <2>1. jobs' \in Seq(Job)
    BY <1>8, ContinuationsType DEF OpenedBesideWait
  <2>2. <<s>> \in Seq(Frame)
    BY <1>f
  <2>3. openWait # 0 => Append(waiters[openWait], s) \in Seq(Frame)
    BY <1>f, AppendProperties DEF TypeOK
  <2>4. waiters' \in [Socket -> Seq(Frame)]
    <3>1. CASE openWait # 0
      BY <1>8, <1>e, <2>3, <3>1, ZenonT(60) DEF OpenedBesideWait, TypeOK
    <3>2. CASE openWait = 0
      BY <1>8, <1>e, <2>2, <3>2, ZenonT(60) DEF OpenedBesideWait, TypeOK
    <3> QED BY <3>1, <3>2
  <2>5. ready' \in [Socket -> {"none", "connecting", "open", "closing", "failed", "closed"}]
    BY <1>8 DEF OpenedBesideWait, TypeOK
  <2>6. sock' \in {0} \cup Socket /\ cut' \subseteq Socket
    BY <1>8 DEF OpenedBesideWait, TypeOK
  <2>7. sends' \in [Frame -> {"idle", "waiting", "sent", "refused", "rejected", "notOpen"}]
    BY <1>8, <1>f DEF OpenedBesideWait, TypeOK
  <2> QED BY <1>8, <2>1, <2>4, <2>5, <2>6, <2>7 DEF OpenedBesideWait, TypeOK, Job
<1>9. ASSUME NEW s \in Socket, OpenedAfterClose(s) PROVE TypeOK'
  <2>1. jobs' \in Seq(Job)
    BY <1>9, ContinuationsType DEF OpenedAfterClose
  <2> QED BY <1>9, <1>f, <1>e, <2>1 DEF OpenedAfterClose, Drop, TypeOK, Job
<1>10. ASSUME NEW s \in Socket, Error(s) PROVE TypeOK'
  <2>1. Continuations(s, FALSE) \in Seq(Job)
    BY ContinuationsType
  <2> QED BY <1>10, <1>e, <2>1 DEF Error, Drop, TypeOK, Job
<1>11. ASSUME NEW s \in Socket, PeerCloses(s) PROVE TypeOK'
  BY <1>11 DEF PeerCloses, TypeOK
<1>12. ASSUME NEW s \in Socket, SocketClosed(s) PROVE TypeOK'
  BY <1>12 DEF SocketClosed, Drop, TypeOK
<1>13. CASE Reconnect
  <2>1. \/ UNCHANGED <<ready, sock, openWait, waiters, overlap>>
        \/ Await(<<>>)
    BY <1>13 DEF Reconnect
  <2>2. timers' \in Nat
    BY <1>13 DEF Reconnect, TypeOK
  <2>3. CASE UNCHANGED <<ready, sock, openWait, waiters, overlap>>
    BY <1>13, <2>2, <2>3 DEF Reconnect, TypeOK
  <2>4. CASE Await(<<>>)
    BY <1>13, <1>e, <2>2, <2>4, AwaitType DEF Reconnect, TypeOK
  <2> QED BY <2>1, <2>3, <2>4
<1>14. CASE UNCHANGED vars
  BY <1>14 DEF vars, TypeOK
<1> QED BY <1>1, <1>2, <1>3, <1>4, <1>5, <1>6, <1>7, <1>8, <1>9, <1>10, <1>11, <1>12,
           <1>13, <1>14 DEF Next, OpenEvent

(* TypeOK: ready states, queues of frames and a number of attempts below   *)
(* the maximum, for every bound.                                           *)
THEOREM TypeCorrect == Spec => []TypeOK
BY InitTypeOK, NextTypeOK, PTL DEF Spec
-----------------------------------------------------------------------------
(* After close().                                                          *)
LEMMA ClosedStep == ClosedInv /\ [Next]_vars => ClosedInv'
<1> SUFFICES ASSUME ClosedInv, [Next]_vars PROVE ClosedInv'
  OBVIOUS
<1>1. ASSUME NEW f \in Call, SendRefused(f) PROVE ClosedInv'
  BY <1>1 DEF SendRefused, ClosedInv
<1>2. ASSUME NEW f \in Call, SendOpen(f) PROVE ClosedInv'
  BY <1>2 DEF SendOpen, ClosedInv
<1>3. ASSUME NEW f \in Call, SendAwaits(f) PROVE ClosedInv'
  BY <1>3 DEF SendAwaits, ClosedInv
<1>4. CASE OnFrame
  BY <1>4 DEF OnFrame, ClosedInv
<1>5. CASE Close
  BY <1>5 DEF Close, Drop, ClosedInv
<1>6. CASE Continue
  BY <1>6 DEF Continue, ClosedInv
<1>7. ASSUME NEW s \in Socket, Opened(s) PROVE ClosedInv'
  BY <1>7 DEF Opened, Drop, ClosedInv
<1>8. ASSUME NEW s \in Socket, OpenedBesideWait(s) PROVE ClosedInv'
  BY <1>8 DEF OpenedBesideWait, ClosedInv
<1>9. ASSUME NEW s \in Socket, OpenedAfterClose(s) PROVE ClosedInv'
  BY <1>9 DEF OpenedAfterClose, Drop, ClosedInv
<1>10. ASSUME NEW s \in Socket, Error(s) PROVE ClosedInv'
  BY <1>10 DEF Error, Drop, ClosedInv
<1>11. ASSUME NEW s \in Socket, PeerCloses(s) PROVE ClosedInv'
  BY <1>11 DEF PeerCloses, ClosedInv
<1>12. ASSUME NEW s \in Socket, SocketClosed(s) PROVE ClosedInv'
  BY <1>12 DEF SocketClosed, Drop, ClosedInv
<1>13. CASE Reconnect
  BY <1>13 DEF Reconnect, ClosedInv
<1>14. CASE UNCHANGED vars
  BY <1>14 DEF vars, ClosedInv
<1> QED BY <1>1, <1>2, <1>3, <1>4, <1>5, <1>6, <1>7, <1>8, <1>9, <1>10, <1>11, <1>12,
           <1>13, <1>14 DEF Next, OpenEvent

(* ClosedInv holds: after disconnect nothing is open or retried.           *)
THEOREM ClosedHolds == Spec => []ClosedInv
<1>1. Init => ClosedInv
  BY DEF Init, ClosedInv
<1> QED BY <1>1, ClosedStep, PTL DEF Spec

(* QuietAfterClose: whatever a timer, a microtask or a socket that opens   *)
(* late does after close(), no frame is sent and no socket is made.        *)
THEOREM QuietAfterCloseHolds == Spec => QuietAfterClose
<1> DEFINE Quiet == /\ wire' = wire
                    /\ \A s \in Socket : ready[s] = "none" => ready'[s] = "none"
<1>1. ASSUME TypeOK, ClosedInv, closedByUser, [Next]_vars PROVE Quiet
  <2>c. sock = 0 /\ ~IsOpen
    BY <1>1 DEF ClosedInv, IsOpen
  <2>1. ASSUME NEW f \in Call, SendRefused(f) \/ SendOpen(f) \/ SendAwaits(f) PROVE Quiet
    BY <1>1, <2>1 DEF SendRefused, SendOpen, SendAwaits
  <2>2. CASE OnFrame \/ Close \/ Reconnect
    BY <1>1, <2>2 DEF OnFrame, Close, Reconnect
  <2>3. CASE Continue
    BY <2>c, <2>3 DEF Continue
  <2>4. ASSUME NEW s \in Socket, OpenEvent(s) PROVE Quiet
    BY <1>1, <2>4 DEF OpenEvent, Opened, OpenedBesideWait, OpenedAfterClose, TypeOK
  <2>5. ASSUME NEW s \in Socket, Error(s) \/ PeerCloses(s) \/ SocketClosed(s) PROVE Quiet
    BY <1>1, <2>5 DEF Error, PeerCloses, SocketClosed, TypeOK
  <2>6. CASE UNCHANGED vars
    BY <2>6 DEF vars
  <2> QED BY <1>1, <2>1, <2>2, <2>3, <2>4, <2>5, <2>6 DEF Next
<1>2. TypeOK /\ ClosedInv /\ [Next]_vars => [closedByUser => Quiet]_vars
  BY <1>1
<1> QED BY <1>2, TypeCorrect, ClosedHolds, PTL DEF Spec, QuietAfterClose

-----------------------------------------------------------------------------
(* The promise.                                                            *)
LEMMA AwaitWait ==
    ASSUME TypeOK, WaitIsLive, NEW queue, Await(queue)
    PROVE  WaitIsLive'
<1>1. CASE openWait # 0
  BY <1>1 DEF Await, WaitIsLive
<1>2. CASE openWait = 0
  <2>1. PICK s \in Socket : Dial(s, queue)
    BY <1>2 DEF Await
  <2> QED BY <2>1 DEF Dial, TypeOK, WaitIsLive
<1> QED BY <1>1, <1>2

LEMMA WaitStep == TypeOK /\ WaitIsLive /\ [Next]_vars => WaitIsLive'
<1> SUFFICES ASSUME TypeOK, WaitIsLive, [Next]_vars PROVE WaitIsLive'
  OBVIOUS
<1>1. ASSUME NEW f \in Call, SendRefused(f) PROVE WaitIsLive'
  BY <1>1 DEF SendRefused, WaitIsLive
<1>2. ASSUME NEW f \in Call, SendOpen(f) PROVE WaitIsLive'
  BY <1>2 DEF SendOpen, WaitIsLive
<1>3. ASSUME NEW f \in Call, SendAwaits(f) PROVE WaitIsLive'
  BY <1>3, AwaitWait DEF SendAwaits
<1>4. CASE OnFrame
  BY <1>4, AwaitWait DEF OnFrame
<1>5. CASE Close
  BY <1>5 DEF Close, Drop, WaitIsLive
<1>6. CASE Continue
  BY <1>6 DEF Continue, WaitIsLive
<1>7. ASSUME NEW s \in Socket, Opened(s) PROVE WaitIsLive'
  BY <1>7 DEF Opened, Drop, WaitIsLive
<1>8. ASSUME NEW s \in Socket, OpenedBesideWait(s) PROVE WaitIsLive'
  BY <1>8 DEF OpenedBesideWait, WaitIsLive
<1>9. ASSUME NEW s \in Socket, OpenedAfterClose(s) PROVE WaitIsLive'
  BY <1>9 DEF OpenedAfterClose, Drop, WaitIsLive
<1>10. ASSUME NEW s \in Socket, Error(s) PROVE WaitIsLive'
  BY <1>10 DEF Error, Drop, WaitIsLive, TypeOK
<1>11. ASSUME NEW s \in Socket, PeerCloses(s) PROVE WaitIsLive'
  BY <1>11 DEF PeerCloses, WaitIsLive, TypeOK
<1>12. ASSUME NEW s \in Socket, SocketClosed(s) PROVE WaitIsLive'
  BY <1>12 DEF SocketClosed, Drop, WaitIsLive
<1>13. CASE Reconnect
  <2>1. CASE UNCHANGED <<ready, sock, openWait, waiters, overlap>>
    BY <2>1 DEF WaitIsLive
  <2>2. CASE Await(<<>>)
    BY <2>2, AwaitWait
  <2> QED BY <1>13, <2>1, <2>2 DEF Reconnect
<1>14. CASE UNCHANGED vars
  BY <1>14 DEF vars, WaitIsLive
<1> QED BY <1>1, <1>2, <1>3, <1>4, <1>5, <1>6, <1>7, <1>8, <1>9, <1>10, <1>11, <1>12,
           <1>13, <1>14 DEF Next, OpenEvent

(* WaitIsLive: a promise that a call may still join is that of the current *)
(* socket, connecting, for any number of sockets.                          *)
THEOREM WaitIsLiveHolds == Spec => []WaitIsLive
<1>1. Init => WaitIsLive
  BY DEF Init, WaitIsLive
<1> QED BY <1>1, WaitStep, TypeCorrect, PTL DEF Spec

-----------------------------------------------------------------------------
(* The hook's frame.                                                       *)
LEMMA AwaitHook ==
    ASSUME TypeOK, HookInv, NEW queue, Await(queue), UNCHANGED <<jobs, wire>>
    PROVE  HookInv'
<1>1. CASE openWait # 0
  BY <1>1 DEF Await, HookInv, IsOpen
<1>2. CASE openWait = 0
  <2>1. PICK s \in Socket : Dial(s, queue)
    BY <1>2 DEF Await
  <2> QED BY <2>1 DEF Dial, TypeOK, HookInv, IsOpen
<1> QED BY <1>1, <1>2

LEMMA HookStep == TypeOK /\ ClosedInv /\ HookInv /\ [Next]_vars => HookInv'
<1> SUFFICES ASSUME TypeOK, ClosedInv, HookInv, [Next]_vars PROVE HookInv'
  OBVIOUS
<1>j. jobs \in Seq(Job)
  BY DEF TypeOK, Job
<1>f. Call \subseteq Frame /\ Socket \subseteq Frame
  BY DEF Frame
<1>e. NextEvent => ~(IsOpen /\ wire[sock] = <<>>)
  BY DEF NextEvent, Idle, HookInv
<1>1. ASSUME NEW f \in Call, SendRefused(f) PROVE HookInv'
  BY <1>1 DEF SendRefused, HookInv, IsOpen
<1>2. ASSUME NEW f \in Call, SendOpen(f) PROVE HookInv'
  <2>1. [frame |-> f, opened |-> TRUE] \in Job
    BY <1>f DEF Job
  <2>2. jobs' # <<>> /\ (jobs # <<>> => Head(jobs') = Head(jobs))
    BY <1>2, <1>j, <2>1, AppendProperties, HeadTailAppend DEF SendOpen
  <2> QED BY <1>2, <2>2 DEF SendOpen, HookInv, IsOpen
<1>3. ASSUME NEW f \in Call, SendAwaits(f) PROVE HookInv'
  BY <1>3, AwaitHook DEF SendAwaits
<1>4. CASE OnFrame
  BY <1>4, AwaitHook DEF OnFrame
<1>5. CASE Close
  BY <1>5 DEF Close, HookInv, IsOpen
<1>6. CASE Continue
  <2>1. Head(jobs) \in Job
    BY <1>6, <1>j, HeadTail DEF Continue
  <2>2. CASE IsOpen /\ Head(jobs).opened
    <3>a. wire[sock] \in Seq(Frame) /\ Head(jobs).frame \in Frame
      BY <2>1, <2>2 DEF IsOpen, TypeOK, Job
    <3>1. Append(wire[sock], Head(jobs).frame) # <<>>
      BY <3>a, AppendProperties
    <3>2. wire'[sock'] # <<>>
      BY <1>6, <2>2, <3>1 DEF Continue, IsOpen, TypeOK
    <3> QED BY <3>2 DEF HookInv
  <2>3. CASE ~IsOpen
    BY <1>6, <2>3 DEF Continue, HookInv, IsOpen
  <2>4. CASE IsOpen /\ ~Head(jobs).opened
    BY <1>6, <2>4 DEF Continue, HookInv, IsOpen
  <2> QED BY <2>2, <2>3, <2>4
<1>7. ASSUME NEW s \in Socket, Opened(s) PROVE HookInv'
  <2>1. [frame |-> s, opened |-> TRUE] \in Job
    BY <1>f DEF Job
  <2>2. <<[frame |-> s, opened |-> TRUE]>> \in Seq(Job) /\ Continuations(s, TRUE) \in Seq(Job)
    BY <2>1, Single, ContinuationsType
  <2>3. jobs' # <<>> /\ Head(jobs') = [frame |-> s, opened |-> TRUE]
    BY <1>7, <2>2, ConcatProperties DEF Opened
  <2> QED BY <2>3 DEF HookInv
<1>8. ASSUME NEW s \in Socket, OpenedBesideWait(s) PROVE HookInv'
  <2>1. ~IsOpen'
    <3>1. CASE openWait # 0
      BY <1>8, <3>1 DEF OpenedBesideWait, TypeOK, IsOpen
    <3>2. CASE openWait = 0
      BY <1>8, <3>2 DEF OpenedBesideWait, TypeOK, IsOpen
    <3> QED BY <3>1, <3>2
  <2> QED BY <2>1 DEF HookInv
<1>9. ASSUME NEW s \in Socket, OpenedAfterClose(s) PROVE HookInv'
  BY <1>9 DEF OpenedAfterClose, ClosedInv, HookInv, IsOpen
<1>10. ASSUME NEW s \in Socket, Error(s) PROVE HookInv'
  BY <1>10, <1>e DEF Error, HookInv, IsOpen, TypeOK
<1>11. ASSUME NEW s \in Socket, PeerCloses(s) PROVE HookInv'
  BY <1>11, <1>e DEF PeerCloses, HookInv, IsOpen, TypeOK
<1>12. ASSUME NEW s \in Socket, SocketClosed(s) PROVE HookInv'
  BY <1>12 DEF SocketClosed, HookInv, IsOpen
<1>13. CASE Reconnect
  <2>1. CASE UNCHANGED <<ready, sock, openWait, waiters, overlap>>
    BY <1>13, <2>1 DEF Reconnect, HookInv, IsOpen
  <2>2. CASE Await(<<>>)
    BY <1>13, <2>2, AwaitHook DEF Reconnect
  <2> QED BY <1>13, <2>1, <2>2 DEF Reconnect
<1>14. CASE UNCHANGED vars
  BY <1>14 DEF vars, HookInv, IsOpen
<1> QED BY <1>1, <1>2, <1>3, <1>4, <1>5, <1>6, <1>7, <1>8, <1>9, <1>10, <1>11, <1>12,
           <1>13, <1>14 DEF Next, OpenEvent

(* HookInv holds: what was sent on a socket came after its reconnect hook. *)
THEOREM HookHolds == Spec => []HookInv
<1>1. Init => HookInv
  BY DEF Init, HookInv, IsOpen
<1> QED BY <1>1, HookStep, TypeCorrect, ClosedHolds, PTL DEF Spec

(* HookFirst: whatever waited for a socket, or was sent the moment it      *)
(* opened, the hook's frame is the first on it.                            *)
THEOREM HookFirstHolds == Spec => []HookFirst
<1>1. Init => HookFirst
  BY DEF Init, HookFirst
<1>2. TypeOK /\ HookInv /\ HookFirst /\ [Next]_vars => HookFirst'
  <2> SUFFICES ASSUME TypeOK, HookInv, HookFirst, [Next]_vars PROVE HookFirst'
    OBVIOUS
  <2>j. jobs \in Seq(Job)
    BY DEF TypeOK, Job
  <2>1. CASE wire' = wire
    BY <2>1 DEF HookFirst
  <2>2. CASE Continue /\ IsOpen /\ Head(jobs).opened
    <3> DEFINE f == Head(jobs).frame
    <3>a. Head(jobs) \in Job
      BY <2>2, <2>j, HeadTail DEF Continue
    <3>1. f \in Frame
      BY <3>a DEF Job
    <3>2. wire[sock] \in Seq(Frame)
      BY <2>2 DEF IsOpen, TypeOK
    <3>3. wire' = [wire EXCEPT ![sock] = Append(@, f)]
      BY <2>2 DEF Continue
    <3>4. wire[sock] = <<>> => f \in Socket
      BY <2>2 DEF HookInv
    <3>5. Append(wire[sock], f)[1] = IF wire[sock] = <<>> THEN f ELSE wire[sock][1]
      BY <3>1, <3>2, AppendProperties
    <3> HIDE DEF f
    <3>6. Append(wire[sock], f)[1] \in Socket
      BY <2>2, <3>4, <3>5 DEF IsOpen, TypeOK, HookFirst
    <3> QED BY <3>3, <3>6 DEF TypeOK, HookFirst
  <2>3. wire' = wire \/ (Continue /\ IsOpen /\ Head(jobs).opened)
    BY DEF Next, OpenEvent, SendRefused, SendOpen, SendAwaits, OnFrame, Close, Continue, Opened,
           OpenedBesideWait, OpenedAfterClose, Error, PeerCloses, SocketClosed, Reconnect, vars
  <2> QED BY <2>1, <2>2, <2>3
<1> QED BY <1>1, <1>2, TypeCorrect, HookHolds, PTL DEF Spec

-----------------------------------------------------------------------------
(* One socket.                                                             *)
LEMMA AwaitLives ==
    ASSUME TypeOK, LiveInv, ~IsOpen, NEW queue, Await(queue)
    PROVE  LiveInv'
<1>1. CASE openWait # 0
  BY <1>1 DEF Await, LiveInv, Live
<1>2. CASE openWait = 0
  <2>1. PICK s \in Socket : Dial(s, queue)
    BY <1>2 DEF Await
  <2> SUFFICES ASSUME ~overlap' PROVE LiveInv'
    BY DEF LiveInv
  <2>2. ~overlap /\ \A t \in Socket : ready[t] \notin {"closing", "failed"}
    BY <2>1 DEF Dial
  <2>3. \A t \in Socket : ~Live(t)
    BY <1>2, <2>2 DEF LiveInv, Live, IsOpen, Socket
  <2>4. ready' = [ready EXCEPT ![s] = "connecting"] /\ sock' = s /\ openWait' = s
    BY <2>1 DEF Dial
  <2> QED BY <2>2, <2>3, <2>4 DEF LiveInv, Live, TypeOK
<1> QED BY <1>1, <1>2

LEMMA LiveStep == TypeOK /\ ClosedInv /\ LiveInv /\ [Next]_vars => LiveInv'
<1> SUFFICES ASSUME TypeOK, ClosedInv, LiveInv, [Next]_vars PROVE LiveInv'
  OBVIOUS
<1>1. ASSUME NEW f \in Call, SendRefused(f) PROVE LiveInv'
  BY <1>1 DEF SendRefused, LiveInv, Live
<1>2. ASSUME NEW f \in Call, SendOpen(f) PROVE LiveInv'
  BY <1>2 DEF SendOpen, LiveInv, Live
<1>3. ASSUME NEW f \in Call, SendAwaits(f) PROVE LiveInv'
  BY <1>3, AwaitLives DEF SendAwaits
<1>4. CASE OnFrame
  BY <1>4, AwaitLives DEF OnFrame
<1>5. CASE Close
  <2> SUFFICES ASSUME ~overlap PROVE \A t \in Socket : ~Live(t)'
    BY <1>5 DEF Close, LiveInv
  <2>1. \A t \in Socket : Live(t) => t = sock /\ sock # 0
    BY DEF LiveInv, Socket
  <2> QED BY <1>5, <2>1 DEF Close, Live, TypeOK
<1>6. CASE Continue
  BY <1>6 DEF Continue, LiveInv, Live
<1>7. ASSUME NEW s \in Socket, Opened(s) PROVE LiveInv'
  BY <1>7 DEF Opened, LiveInv, Live, TypeOK
<1>8. ASSUME NEW s \in Socket, OpenedBesideWait(s) PROVE LiveInv'
  BY <1>8 DEF OpenedBesideWait, LiveInv, Live
<1>9. ASSUME NEW s \in Socket, OpenedAfterClose(s) PROVE LiveInv'
  BY <1>9 DEF OpenedAfterClose, ClosedInv, LiveInv, Live, Socket
<1>10. ASSUME NEW s \in Socket, Error(s) PROVE LiveInv'
  <2> SUFFICES ASSUME ~overlap PROVE \A t \in Socket : ~Live(t)'
    BY <1>10 DEF Error, LiveInv, Live, TypeOK
  <2> QED BY <1>10 DEF Error, LiveInv, Live, TypeOK
<1>11. ASSUME NEW s \in Socket, PeerCloses(s) PROVE LiveInv'
  <2> SUFFICES ASSUME ~overlap PROVE \A t \in Socket : ~Live(t)'
    BY <1>11 DEF PeerCloses, LiveInv, Live, TypeOK
  <2> QED BY <1>11 DEF PeerCloses, LiveInv, Live, TypeOK
<1>12. ASSUME NEW s \in Socket, SocketClosed(s) PROVE LiveInv'
  <2> SUFFICES ASSUME ~overlap PROVE \A t \in Socket : ~Live(t)'
    BY <1>12 DEF SocketClosed, LiveInv, Live, TypeOK
  <2> QED BY <1>12 DEF SocketClosed, LiveInv, Live, TypeOK
<1>13. CASE Reconnect
  <2>1. CASE UNCHANGED <<ready, sock, openWait, waiters, overlap>>
    BY <2>1 DEF LiveInv, Live
  <2>2. CASE ~IsOpen /\ Await(<<>>)
    BY <2>2, AwaitLives
  <2> QED BY <1>13, <2>1, <2>2 DEF Reconnect
<1>14. CASE UNCHANGED vars
  BY <1>14 DEF vars, LiveInv, Live
<1> QED BY <1>1, <1>2, <1>3, <1>4, <1>5, <1>6, <1>7, <1>8, <1>9, <1>10, <1>11, <1>12,
           <1>13, <1>14 DEF Next, OpenEvent

(* OneSocket: as long as no socket was made beside one still to close, the *)
(* current socket is the only one that connects or is open.                *)
THEOREM OneSocketHolds == Spec => []OneSocket
<1>1. Init => LiveInv
  BY DEF Init, LiveInv, Live
<1>2. LiveInv => OneSocket
  BY DEF LiveInv, Live, OneSocket
<1> QED BY <1>1, <1>2, LiveStep, TypeCorrect, ClosedHolds, PTL DEF Spec
=============================================================================

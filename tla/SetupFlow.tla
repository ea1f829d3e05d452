------------------------------ MODULE SetupFlow ------------------------------
(***************************************************************************)
(* apps/web-container: the pages of one browser, which share the stored    *)
(* setup and the session id; the worker's POST /init/:id, each await of    *)
(* which another request may run in; and the sandbox that the id names.    *)
(* A call to the sandbox may fail at any of its steps.  A clone takes its  *)
(* time, and fails where something is already; a call that is lost while   *)
(* it waits for one leaves git running.                                    *)
(***************************************************************************)
EXTENDS Naturals, FiniteSets

CONSTANTS
  Pages,
  Setups,     \* what the form may save, told apart by the repository
  NoRepo,     \* the setup without one
  MaxInits,   \* POSTs in a behaviour
  MaxFaults   \* deaths of the bridge, and of the whole container

NoSetup == "no setup"
Nothing == "none"
REPO_DIR == "/workspace/repo"
ASSUME SetupAssumption == {NoSetup, Nothing, "partial"} \cap (Setups \cup {NoRepo}) = {}

cwdOf(setup) == IF setup = NoRepo THEN "/workspace" ELSE REPO_DIR

VARIABLES
  stored,     \* the setup in local storage
  setupStore, \* the setup each page holds
  initStatus, \* idle, running, ready or failed
  waits,      \* the requests whose answers a page awaits
  requests,   \* the POSTs so far, in order
  session,    \* the sandbox's session: the request that created it, 0 if none
  repo,       \* what REPO_DIR holds: Nothing, the repository cloned, "partial"
  bridge,     \* the directory the bridge process runs in, Nothing if it does not
  faults

browser == <<stored, setupStore, initStatus, waits>>
sandbox == <<session, repo, bridge>>
svars == <<browser, requests, sandbox, faults>>

Calls == {"create", "attach", "outbound", "clone", "cloning", "config", "start", "wait"}
Request(setup) ==
  [setup |-> setup, at |-> "create", reused |-> FALSE, saw |-> Nothing]
Ids == DOMAIN requests
Busy == {r \in Ids : requests[r].at \in Calls}

SInit ==
  /\ stored \in Setups \cup {NoSetup}
  /\ setupStore = [p \in Pages |-> NoSetup]
  /\ initStatus = [p \in Pages |-> "idle"]
  /\ waits = [p \in Pages |-> {}]
  /\ requests = <<>>
  /\ session = 0 /\ repo = Nothing /\ bridge = Nothing
  /\ faults = 0

(***************************************************************************)
(* A page                                                                  *)
(***************************************************************************)

(* runInit(setup), of a page that awaits the requests of "before"          *)
runInit(p, setup, before) ==
  /\ Cardinality(Ids) < MaxInits
  /\ requests' = [r \in 1 .. Cardinality(Ids) + 1 |->
                    IF r \in Ids THEN requests[r] ELSE Request(setup)]
  /\ waits' = [waits EXCEPT ![p] = before \cup {Cardinality(Ids) + 1}]
  /\ initStatus' = [initStatus EXCEPT ![p] = "running"]

(* SessionPanel is mounted when the page holds a setup: it runs init only  *)
(* if the page has not run it yet.                                         *)
Mounted(p, setup, status, before) ==
  IF setup # NoSetup /\ status = "idle"
  THEN runInit(p, setup, before)
  ELSE /\ initStatus' = [initStatus EXCEPT ![p] = status]
       /\ waits' = [waits EXCEPT ![p] = before]
       /\ UNCHANGED requests

(* The page is loaded: what it awaited before is answered to nobody.       *)
Load(p) ==
  /\ setupStore' = [setupStore EXCEPT ![p] = stored]
  /\ Mounted(p, stored, "idle", {})
  /\ UNCHANGED <<stored, sandbox, faults>>
saveSetup(p, setup) ==
  /\ stored' = setup /\ setupStore' = [setupStore EXCEPT ![p] = setup]
  /\ Mounted(p, setup, initStatus[p], waits[p])
  /\ UNCHANGED <<sandbox, faults>>
(* The form, which a page without a setup shows, with valid fields         *)
submit(p, setup) == setupStore[p] = NoSetup /\ saveSetup(p, setup)
clearSetup(p) ==
  /\ setupStore[p] # NoSetup
  /\ stored' = NoSetup /\ setupStore' = [setupStore EXCEPT ![p] = NoSetup]
  /\ UNCHANGED <<initStatus, waits, requests, sandbox, faults>>
RetryAlways(p) == initStatus[p] # "idle"   \* mutant: while one runs, too
RetryShown(p) == initStatus[p] = "failed"
retry(p) ==
  /\ setupStore[p] # NoSetup /\ RetryShown(p)
  /\ runInit(p, setupStore[p], waits[p])
  /\ UNCHANGED <<stored, setupStore, sandbox, faults>>
(* The answer of the worker, or a network error in its place               *)
Answered(p, r, status) ==
  /\ r \in waits[p]
  /\ status = "ready" => requests[r].at = "ok"
  /\ initStatus' = [initStatus EXCEPT ![p] = status]
  /\ waits' = [waits EXCEPT ![p] = @ \ {r}]
  /\ UNCHANGED <<stored, setupStore, requests, sandbox, faults>>

(***************************************************************************)
(* The worker: initSession, call by call                                   *)
(***************************************************************************)
On(r, at) == r \in Ids /\ requests[r].at = at
Goes(r, at) == requests' = [requests EXCEPT ![r].at = at]
Fails(r) == Goes(r, "failed") /\ UNCHANGED <<browser, sandbox, faults>>
HasRepo(r) == requests[r].setup # NoRepo

createSession(r) ==
  /\ On(r, "create")
  /\ IF session = 0
     THEN session' = r /\ Goes(r, IF HasRepo(r) THEN "outbound" ELSE "start")
     ELSE Goes(r, "attach") /\ UNCHANGED session
  /\ UNCHANGED <<browser, repo, bridge, faults>>
getSession(r) ==
  /\ On(r, "attach") /\ session # 0
  /\ requests' = [requests EXCEPT ![r].at = IF HasRepo(r) THEN "outbound" ELSE "start",
                                  ![r].reused = TRUE]
  /\ UNCHANGED <<browser, sandbox, faults>>
setOutboundByHost(r) ==
  /\ On(r, "outbound")
  /\ Goes(r, IF requests[r].reused THEN "start" ELSE "clone")
  /\ UNCHANGED <<browser, sandbox, faults>>
Clone(r) ==
  /\ On(r, "clone") /\ repo = Nothing
  /\ repo' = "partial" /\ Goes(r, "cloning")
  /\ UNCHANGED <<browser, session, bridge, faults>>
CloneEnds(r, done) ==
  /\ On(r, "cloning")
  /\ repo' = IF done THEN requests[r].setup ELSE Nothing
  /\ Goes(r, IF done THEN "config" ELSE "failed")
  /\ UNCHANGED <<browser, session, bridge, faults>>
GitConfig(r) ==
  /\ On(r, "config") /\ Goes(r, "start")
  /\ UNCHANGED <<browser, sandbox, faults>>
(* startProcess: a bridge that runs is left running, in its directory.     *)
startProcess(r) ==
  /\ On(r, "start")
  /\ bridge' = IF bridge = Nothing THEN cwdOf(requests[r].setup) ELSE bridge
  /\ Goes(r, "wait")
  /\ UNCHANGED <<browser, session, repo, faults>>
waitForPort(r) ==
  /\ On(r, "wait") /\ bridge # Nothing
  /\ requests' = [requests EXCEPT ![r].at = "ok",
                    ![r].saw = [repo |-> repo, cwd |-> bridge, maker |-> session]]
  /\ UNCHANGED <<browser, sandbox, faults>>
CallFails(r) == r \in Busy /\ Fails(r)
\* The git of an exec that threw ends, or not, with nobody to hear of it.
CloneOutlives(done) ==
  /\ repo = "partial" /\ On(session, "failed")
  /\ repo' = IF done THEN requests[session].setup ELSE Nothing
  /\ UNCHANGED <<browser, requests, session, bridge, faults>>

(* The bridge dies; or the container sleeps, when nothing calls it.        *)
BridgeDies ==
  /\ faults < MaxFaults /\ bridge # Nothing
  /\ bridge' = Nothing /\ faults' = faults + 1
  /\ UNCHANGED <<browser, requests, session, repo>>
ContainerSleeps ==
  /\ faults < MaxFaults /\ Busy = {} /\ session # 0
  /\ session' = 0 /\ repo' = Nothing /\ bridge' = Nothing /\ faults' = faults + 1
  /\ UNCHANGED <<browser, requests>>

PageStep(p) ==
  \/ Load(p) \/ clearSetup(p) \/ retry(p)
  \/ \E setup \in Setups : submit(p, setup)
  \/ \E r \in Ids, status \in {"ready", "failed"} : Answered(p, r, status)
WorkerStep(r) ==
  \/ createSession(r) \/ getSession(r) \/ setOutboundByHost(r) \/ Clone(r)
  \/ (\E done \in BOOLEAN : CloneEnds(r, done))
  \/ GitConfig(r) \/ startProcess(r) \/ waitForPort(r) \/ CallFails(r)
SNext ==
  \/ \E p \in Pages : PageStep(p)
  \/ \E r \in Ids : WorkerStep(r)
  \/ (\E done \in BOOLEAN : CloneOutlives(done))
  \/ BridgeDies \/ ContainerSleeps

(***************************************************************************)
(* Properties                                                              *)
(***************************************************************************)

(* A page awaits an answer exactly while it says that init runs, and never *)
(* two, so that no older answer overwrites a newer status.                 *)
OneInit ==
  \A p \in Pages :
    /\ (initStatus[p] = "running") <=> (waits[p] # {})
    /\ Cardinality(waits[p]) <= 1

(* However requests of several pages interleave: the one that created the  *)
(* session is the only one that clones, and nothing but its clone, which   *)
(* runs or whose call was lost, leaves the repository half there.          *)
OneClone ==
  LET cloning == {r \in Ids : requests[r].at \in {"clone", "cloning", "config"}}
  IN  /\ cloning \subseteq {session}
      /\ repo = "partial" => On(session, "cloning") \/ On(session, "failed")

(* An init that answers ok found a bridge, and its own repository if it    *)
(* made the session.  If it joined one, it may find what an init for       *)
(* another repository left, or nothing where a clone had failed or had not *)
(* ended: the code takes a session that exists for one that is set up.     *)
(* And the bridge may run where another setup had wanted it.               *)
ReadyIsSetUp ==
  \A r \in Ids : requests[r].at = "ok" =>
    LET saw == requests[r].saw
        setup == requests[r].setup
        maker == requests[saw.maker]
    IN  /\ \/ setup \in {NoRepo, saw.repo}
           \/ /\ requests[r].reused /\ saw.maker # r
              /\ maker.setup # setup \/ saw.repo \in {Nothing, "partial"}
        /\ saw.cwd # cwdOf(setup) =>
             \E q \in Ids : cwdOf(requests[q].setup) # cwdOf(setup)

SetupSafe == OneInit /\ OneClone /\ ReadyIsSetUp
=============================================================================

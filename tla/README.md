# cc-ws: TLA+ specifications

Specifications of this repository: a browser chat client, a WebSocket bridge and the
`claude` command-line program it drives, the container application built on them, and
the code generator that makes the client's schemas. The code is TypeScript: one thread
per process, so all concurrency comes from `await`, microtasks, timers, socket events
and the exit of child processes. A step of every module here is one callback run to its
next `await`. The generator's translations are operators, checked against definitions of
what they should yield.

Source paths are relative to `packages/` unless they start with `apps/` or `codegen/`.

## The system

```
 UI (element, react, svelte)
   | calls, atoms
 createCcSession ---- Persistence (localStorage)
   |  forwarding transport
 ClaudeClient: correlator, StateHolder {messages, tasks, shell, hooks, permissions}
   |  send / onFrame
 wsClientTransport  ==WebSocket==  bridge (server.ts)
                                     |  spawnTransport, one child at a time
                                   claude (external)
```

| Component | State | Operations | Interacts by | Hard behaviour | What makes it correct |
|---|---|---|---|---|---|
| Bridge `server/src/server.ts` | `WsData.childT`, `unsubChild` per connection | `message` (respawn or forward), `close`, child frame, child exit | WebSocket texts, child stdio | the `message` handler awaits the old child's death while other callbacks run | no child is left running; frames belong to the child last answered ok; every wait ends |
| spawnTransport, gracefulKill `server/src/transport` | `closed`, pump, handlers | `send`, `close`, exit, SIGTERM, timeout, SIGKILL | pipes, signals | a child that ignores stdin and SIGTERM; output read after death | `close()` ends, and the child with it |
| wsServerTransport | handlers, `closed` | `deliver`, `shutdown` | called by hosts | none (the bridge bypasses it) | |
| wsClientTransport `protocol/src/transport/ws-client.ts` | `sock`, `openWait`, `attempt`, `closedByUser` | `send`, `onFrame`, `close`, socket listeners, reconnect timer | WebSocket events, shared promise | listeners of an old socket against the state of a new one | a send settles, one socket at a time, order, silence after close |
| Correlator and intents `protocol/src/client/{correlate,index}.ts` | `pending` map with timers | intents, `tryResolve`, timeout, `rejectAll`, abort, dispose | promises, continuations | late answers, overlap, a failed send that rejects all | promises settle and agree with the map; the setting shown is the binary's |
| StateHolder `protocol/src/client/state.ts` | `ClientState`, `initSeen` | `applyInbound`, mode and model round trip, verdicts, reset, seed | frames | frames of two children; frames after the end | the state is that of the current child |
| Permissions `client/permissions.ts` | queue | `ingest`, `respond`, `clearQueue` | UI verdicts | duplicate ids, verdict after clear | one reply per request still asked |
| Messages `client/messages.ts` | timeline, streaming map, `activeStreamId` | stream events, canonical frames, hydrate, reset | frames | interleaved streams, lost canonical frame | every block in its message, no leftovers |
| Tasks `client/tasks.ts` | tasks, orphan buffer | life-cycle events, sub-agent frames, TTL, cap | frames | frames before their task; eviction | transcripts in order; no running task evicted |
| Shell `client/shell.ts` | capture queue, pending exchanges, follow-ups | send, replay frames, drain, dismiss, reset | frames, `sendUserMessage` | outputs matched to commands by position only | each output with its command |
| Hooks `client/hooks.ts` | ring of entries | `ingest` | frames | none | |
| ClaudeProcess `protocol/src/process` | life cycle, pending acks | `start`, `end`, `send`, inbound | transport | `end` during `start`, timeouts | life cycle never goes back; no ack rejected with nobody waiting |
| createCcSession `client/src/reactive.ts` | status, `currentArgs`, `pendingRespawns`, atoms | connect, disconnect, respawn, settings, change of session | client, transport, timers | aborts taken for refusals; late results; a stale socket's events | status and settings are those of the connection and child in use |
| Persistence `client/src/persistence.ts` | save timer, storage | save, load, remove | atoms, localStorage | debounce against removal and reload | a reload returns to the session in use |
| Container app `apps/web-container` | sandbox session, init status | `/init`, clone, start bridge; `runInit` | HTTP, sandbox API | partial failure and retry; overlapping runs | ready means usable |
| Chat element `element/src` | draft, suggestions, remembered rows, stored roster | edit, pick, send; classify; touch, forget | atoms, timers, promises, storage shared by tabs | late suggestions, memory of entries that moved, two tabs saving | rows and suggestions are those of what is there now |
| Code generation `codegen/{extract,apply-patches,generate}.ts` | files of `protocol/generated` | extract, patch, generate, checkpoint, ci-checks | files | text scanners that disagree, names that move, a kill between two files | a schema accepts what the binary's does; a green check means what it says |
| Integration harness `codegen/integration` | child, timers, captured frames | run a test, capture, replay | pipes, signals | a binary that is silent, dies or ignores signals | a test is concluded, leaves no child, and a fixture is what was said |
| React and Svelte adapters, panels, demo page | | | | rendering, no state of their own that callbacks share | |

`PROJECT.json` lists the components with what is modelled of each, and the hazards
of the code line by line with the properties that cover them.

## Modules

| Module | Role |
|---|---|
| `Bridge` | one connection of the bridge, its children and their shutdown |
| `ConsumerView` | what a consumer of the bridge may rely on (abstract); `Bridge` implements it |
| `Intents` | requests of `ClaudeClient`, their correlation, and the round trip of a setting |
| `WsClient` | `wsClientTransport`: sockets, the shared open promise, sends, reconnect |
| `Session` | `createCcSession`: connections, respawns, changes of session and of effort |
| `Settings` | `createCcSession`: modes and their cycle, saving, reload, change of session |
| `Frames` | the wire frames the client's state depends on |
| `Tasks`, `Timeline`, `Shell`, `Permissions` | the aggregators of the client's state |
| `ClientState` | `StateHolder` over these, hooks, and the binary that feeds it |
| `Schemas` | the generated schemas and dispatch tables that validation reaches |
| `Process` | `ClaudeProcess`: start, end, acks, life cycle, validation, transport |
| `Framing` | JSON lines cut anywhere, and the pump of a pipe |
| `Scan` | the text scanners of the code generator |
| `Translate` | zod text to arktype text, one field |
| `Meaning` | the values zod and arktype accept (external), to judge `Translate` by |
| `Extract`, `Patches`, `Generate` | the three stages of the generator |
| `Codegen` | the generator's commands, the files they share, kills between steps |
| `Harness` | the integration harness and its runner |
| `SetupFlow` | pages, worker and sandbox of the container application |
| `Rows` | the rows of the timeline and the classifier that remembers them |
| `Composer` | what is typed, its suggestions and keys |
| `Roster` | the stored list of sessions, saved by several tabs |
| `Subsequences` | what `filter` leaves of a list, by the positions kept |
| `BridgeProofs`, `SessionProofs`, `SettingsProofs`, `ClientStateProofs` | theorems about the module each is named after |
| `RequestProofs` | theorems about `Intents` and `Harness`: who sends a request and waits for its answer |
| `WebProofs` | theorems about `WsClient` and the four modules of `MCApp`: what runs for a page |
| `ProcessProofs` | theorems about `Process` and `Framing` |
| `SubsequencesProofs` | the lemmas about lists that the others cite |
| `MCBridge`, `MCIntents`, `MCWsClient`, `MCSession`, `MCSettings`, `MCClientState`, `MCProcess`, `MCCodegen`, `MCApp` | instances for TLC |

Composition. `ClientState` extends the four aggregators: a frame is one step of all that claim
it. They filter lists with `Kept` of `Subsequences`, which names the positions kept, as do
`Rows`, `Roster` and `Framing`; `MCClientState` assumes it equal to `SelectSeq` over small
lists, which TLC evaluates, and `SubsequencesProofs` says what it keeps of any list. `Process` uses `Schemas` for what
validation lets through. `Session` contains the bridge reduced to what a session sees of it,
`Settings` a bridge whose respawns do not overtake each other. The stages of the generator are
composed by the files that `Codegen` keeps. `MCCodegen` and `MCApp` put modules that share no
state side by side: one of them moves, the others stand still, so their runs explore a sum and
not a product.

Profiles. Where a module handles many kinds of input that do not meet, its run explores
them one profile at a time: the initial state picks one, and it stays. A profile is a set of
inputs that do meet; each one is listed in the MC module.

Histories. Some variables record what happened and are read by properties only. Where the
code fails in a corner, the property excludes the corner by such a variable and the text
here says which line fails; no action's guard reads one.

### Bridge

A respawn message starts at most one child, so `Request` names both the message and
the child. `childT` is `WsData.childT`; `handler[r]` is where the asynchronous
`message` handler of request r stands, `prev[r]` its local variable; `proc` and
`closing` are a child and the progress of `spawnTransport.close()` on it;
`listening` is the subscription (`unsubChild`); `out` is what was sent on the socket.

`RespawnFirst` is the handler that finds no child and runs to its end;
`RespawnReplace` and `RespawnResume` are the two halves around `await prev.close()`.
Both attach a child (`Attach`) or report that the spawn threw (`AttachFails`).
`ChildFrame` is a line dispatched by the pump, also after the child's death as long
as the pump is open. `StdinEnded`, `TermTimeout` and `Killed` are the steps of
`close()` and `gracefulKill`. `WsClose` is the close event.

`stale` and `raced` are history variables: the children that were alive when a later
respawn was received, and whether a respawn was overtaken (by another one or by the
close) while it awaited. `NoOrphan` and `CloseReapsChildren` are stated for
connections that were not raced, because the code does not keep them otherwise: see
`bridge_close`. The other properties hold for raced connections too.

Fairness: promises resolve, timers fire, a process sent SIGKILL dies and its exit is
reported, a socket the bridge closed gets its close event. Nothing is assumed of a
child that was not killed, nor of the consumer.

### Intents

Requests are numbered in order of use. `pending` is the correlator's map (each entry
with its timer), `promise` what the caller holds, `jobs` the microtasks queued by
settled promises. Answers, timers and the end of the link are handled when `jobs` is
empty, calls at any time. `link` is "up", "broken" (send rejects, as a WebSocket
transport does) or "detached" (send does nothing and reports success, as
`makeForwardingTransport` does). The binary takes requests in order and may grant or
refuse each, or never answer. The mode's round trip stands for the model's too: the
code of both is the same with other names. The first `init` frame, which also sets
`activeMode`, is in `ClientState` and `Settings`.

Fairness: microtasks run and timers fire. The binary need not answer.

### WsClient

`sock` and `openWait` are the transport's variables (0 is `null`); `openWait` is
named by the socket whose opening it stands for. `ready` is `readyState`, with
"failed" between the error and close events, which a WebSocket fires in one task:
only microtasks run in between. `waiters` holds the calls that await a socket's
promise, `jobs` their continuations. `Opened`, `OpenedBesideWait` and
`OpenedAfterClose` are one listener, told apart by what the send in the `onOpen` hook
finds. `cut` records sockets whose unsettled promise was dropped from `openWait` by
`close()` or by another socket's listener, `overlap` that a socket was made while
an earlier one had its close event still to come. `SendSettles` and `OneSocket`
exclude just these, since the code fails in them.

Fairness: microtasks run, a connection attempt ends one way or the other, a closing
socket gets its close event. Reconnect timers need no fairness.

### Session

`args` is `currentArgs` reduced to the session mode and the effort, `asked[r]` the
arguments respawn r was sent with, `pending` is `pendingRespawns`. `SetEffort` is
`setEffort` up to its `await`, `setter` its respawn, `prev` its local variable,
`EffortSet` and `EffortFailed` what follows; `outcome` says which of the two is
queued. `Probe`, `Probed` and `ProbeFails` are the one `get_settings` that asks for an
effort nobody chose; any respawn aborts it.

A transport is named by its number and has one socket at a time (`ready`). It does not
reconnect by itself, but its next send dials again (`Dialled`), and whatever opens
calls the `onOpen` hook (`Opened`), whose respawn precedes the frames in `queue`. What
happens when a socket is made before the close event of the one before it is the
subject of `WsClient` and left out here. The bridge is `Bridge` with each child reduced
to "attached" or "being closed" (`child`, `awaiting`); a spawn may fail.

`raced`, `doubtful` and `late` are history variables: a respawn reached the bridge
while another awaited; the respawns sent before a `setEffort` last gave up (their child
may run at the effort that was taken back); the status was last set by the close event
of a transport that `disconnect()` had closed. `EffortShown`, `SessionIsLast` and
`StatusTruth` exclude these, since the code fails in them.

Fairness: continuations run and the timers of respawns fire. Sockets need not open and
the bridge need not answer.

### Settings

What a page keeps of its session is one record, `page`: the id, the mode shown, the mode
asked for and its request, the timeline, the error shown and the timers. `stored` is the
storage record, `child` the child attached, `toBridge` and `frames` the two directions of the
socket, `disk` the sessions the binary has written. `UserSetsMode` and
`CyclePermissionMode` are the two ways to ask for a mode; the answer, its timeout
(`IntentTimeout`) or a respawn ends the wait, and a refusal goes on to the next mode of the
cycle after a timer (`Skip`). `Flush` is the debounced save, `Reload` a page that goes away
with the save pending and the one that reads what was stored.

Excluded by histories: after New or Resume a late frame of the former child puts its message
into the fresh timeline (`mixed`), as does a page that continues, after a reload, with another
session than the one its timeline is restored from; a child started without a session, by an
effort change after New say, is in a session of its own (`strayed`); a request that was given up
may have been granted (`unsure`); before the first answer a page shows what its options say
(`told` is false). An error whose timer ran is still in the client's state and is shown again
at the next change (`reactive.ts:352`). A mode asked for before the socket opens is aborted
by the first respawn and its frame goes out all the same.

Fairness: timers fire, the socket opens and is read. Users need not call.

### ClientState

`Receive(f)` is `handleInbound`: each aggregator handles the frame or ignores it, in the
order of the code. `Respawn` is the client's part of a respawn, with or without a reset of
the timeline; `Swap`, later, is the bridge replacing the child, so that frames of the old
child come after the client turned to the new one.

* `Tasks`: `tasks` and the orphan buffer `pendingByParent`, with TTL and cap. `agentFrames`
  records what arrived, `expired`, `evicted` and `unannounced` where a frame may rightly be
  missing. A task that finishes while more than the cap run is evicted by the frame that
  finishes it; running ones never are.
* `Timeline`: `messages`, `streaming` and the stream in progress. A delta names no message:
  the properties say each text is that of its own message as long as the main thread streams one
  at a time, which is how the binary is modelled.
* `Shell`: the capture queue, exchanges kept for the next message, follow-ups. Outputs are
  matched by position: `OwnOutput` excludes a child replaced with a command outstanding and
  a command lost on its way (`disturbed`); the queue outlives both.
* `Permissions`: the queue, the two callbacks and the verdicts with the child that reads
  them. `late` are requests of a child already being replaced.

Left as the code has it: clearing the queue leaves `requires_action`; an answer to an unknown
id turns `requires_action` into `running`; a `session_state_changed` after `end_session`
leaves `ended`.

No fairness: no liveness is stated here.

### Process

A call of `start()` or `end()` is identified with its request id, `calls[c]` says at which
await it stands, `acks[c]` its entry in the table of acks. Every await is a step of its own,
and the steps of the two calls of each kind interleave with answers, timeouts, frames and
the wire closing. `throwsOn` lets a subscriber of the owner throw at a state change.
`Schemas` has the schemas by the literals and keys they require, and `last` the verdict on the
frame that passed last, in each of the three validation modes. `Framing` cuts two frames and
some noise into chunks at any place. A line is where it ends (`LineEnds`) and where it begins
(`From`), in the buffer as in the whole text; `LinesWhole` says that what `push` made of the
chunks is what it would make of the text at once, and that no line it yields is empty or two.

What the code does and the properties state: strict mode refuses every successful `result`,
the client's `end_session` and its user message; discriminator mode refuses new types and
subtypes (`Refused` lists them). An `end()` that finds the process idle leaves the metrics
timers running. A subscriber that throws at `ending` makes later `end()` calls watch for a
change that does not come (excepted in `CallsSettle`). An ack is rejected with nobody
listening when its send was refused or was still awaited. The race timer in `end()` never
wins: the ack's own is due first.

Fairness: each call's continuations and timers run. The peer need not answer.

### Code generation

`Scan` has the four scanners, each with the strings and comments it knows. `Translate` is
the rule list of `generate.ts`; `Meaning` gives a tree of zod calls its text and its values, so
that `TranslationFaithful` can compare the values before and after. `Extract` turns the call
sites of a bundle into keyed entries and compares two canonicals: each ident of a schema's body
is there with how it is written, since a zod alias before a dot and a call without arguments are
replaced before the body is hashed, while an ident that is applied or an argument, one that looks
like a method, and a leading `$` are not. `RenamingStable` says which choices of the minifier are
then no difference, and which are one. `Patches` applies authored
patches, `Generate` orders and emits declarations, dispatch tables and coverage. These are
operators over every input of a bounded set, a profile each.

`Codegen` runs the commands over files that are known by what they were made from (the canonical
also by its stray last newlines, as its hash is of the bytes); a kill between two steps runs no
`finally`, and the author may edit patches meanwhile. `Harness`
runs a test against a binary that may say or do anything.

What the code does, and the properties therefore exclude or state:

* an array of a union whose first alternative starts with a parenthesis is mistranslated
  (`generate.ts:404`, `Ambiguous`); calls chained inside arrays, unions and records are not
  read, and become `unknown`; a type that is found is exact;
* the innermost of `X = Y = Z` names a schema, the comment at `extract.ts:299` says the
  outermost; the first binding of a reused minified name wins; keys in quotes are not
  extracted;
* rename chains and swaps are applied to the wrong entry without an error; `#n` keys are
  never dispatched to;
* `generate` overwrites the coverage file without the field the 10 % check reads, so that
  check does not fire after it; `verify` looks at the canonical's hash only; a kill can leave files
  of different patches under one hash; gate 9 of the checkpoint mutates committed files, and a
  kill leaves them so; a newline left of it in the canonical is found by the gate that extracts,
  and kept by a checkpoint that is green without a binary, once `generate` ran
  (`GreenIsHonest`);
* "minified-id refs are mangled out" (`codegen/README.md:137`) is not so of an ident that is an
  argument: in `can_use_tool`, `v.enum(XI6)` of 2.1.137 is `y.enum(ub6)` in 2.1.139, and
  `snapshots/drift/2.1.137-to-2.1.139.md:172` reports "body changed (structural)".
  `RenamingStable` states both sides: no difference while such idents stay, one when they do not;
* "via a temporary scratch directory; the user's working tree is left untouched"
  (`codegen/checkpoint.ts:7`) is not so of gate 2, which runs `generate.ts` in place: stale files
  are written over while the gate fails, and the next checkpoint passes it;
* a zod alias with a leading `$` loses every name and discriminant of its schemas, which the
  comparison of counts reports (`extract.ts:580`);
* the harness marks the child killed before it would send `end_session`, so that frame is never
  sent (`stdio-harness.ts:142`); the answer to `initialize` satisfies every later wait for an
  answer; a frame the secret scan stops throws where nobody catches, and leaves the child;
  fixtures accept lines that replay refuses.

Fairness: a command's next step runs; the harness's timers fire and a child sent SIGKILL
dies.

### The container application and the chat element

`SetupFlow`: `initStatus` and `waits` are a page's, `requests[r]` the worker's handling of one
`/init`, at the await it stands at, `session`, `repo` and `bridge` the sandbox. Pages of one
browser share the id, so their inits meet in one sandbox. `saw` records what an init that answered
ok had found. A call that is lost while it awaits `git clone` fails the init and leaves git
running (`CloneOutlives`). The init that creates the session clones, the others take the
repository for there: after a clone that failed, a retry answers ok without one
(`setup-flow.ts:90`), and the bridge may run in the directory another setup wanted.
`ReadyIsSetUp` says exactly this. "Clear credentials" and a new submit do not run `/init`
unless the status is idle (`SessionPanel.svelte:13`, against its comment at 28).

`Rows`: `messages` is the timeline reduced to what the classifier tells apart, `cache` what it
remembers by entry, `rows` what was rendered last. `classifyMessages` is the stateless
classifier: it stops at the entries of `Visited` and makes the rows of each (`RowsOf`), and
the one that remembers is shown to agree with it at each render. `slipped`
excludes a streaming message between a command and its remembered output that was replaced.
An input stays pending for good when another user frame comes before its output. Row ids of
streaming messages are taken as unique.

`Composer`: Svelte's effects run when a handler ends, so they are part of its action.
Requests for files are made after a timer and answered late; the token check drops an answer
that is no longer wanted. Escape does not close the slash popup and does not leave shell mode,
whatever the comment (`Composer.svelte:317`) and the hint (445) say.

`Roster`: each tab holds a list and saves it whole, so a tab's save drops what others added and
undoes their forgets. The properties state what is left: each list is in order and bounded, a tab's
own session is on its list, and what is kept is one tab's list. The clock does not go back.

No fairness: no liveness is stated here.

## Runs

| Run | Checks | Instance | Result |
|---|---|---|---|
| `bridge` | `TypeOK`, `NoOrphan`, `SupersededIsCutOff`, `ImplementsConsumerView`, `RespawnAnswered`, `NoHangOnDeadChild`, `CloseReapsChildren` | 3 respawns, 1 frame each way per child | pass |
| `bridge_close` | `OnCloseKillTheChild` | same | violated |
| `intents` | `TypeOK`, `EntryPerPromise`, `NoStuckSpinner`, `LastGrantShown`, `IntentSettles` | 3 requests, 2 modes | pass |
| `ws_client` | `TypeOK`, `WaitIsLive`, `HookFirst`, `OneSocket`, `QuietAfterClose`, `SendSettles` | 3 sockets, 3 attempts, 2 sends and 3 hook sends | pass |
| `ws_client_queued` | `PendingSendResolves` | same | violated |
| `session` | `TypeOK`, `StatusTruth`, `OneConnection`, `NextAsShown`, `EffortShown`, `SessionIsLast`, `EffortSettles` | 2 transports, 3 respawns, 2 modes, 2 efforts | pass |
| `session_effort` | `EffortIsCurrent` | same | violated |
| `settings` | `StorageSafe`, `ModeShown`, `SkipSettles` | 4 sessions, 3 spawns, 2 messages, 2 frames on the wire; 3 profiles | pass |
| `client_state` | `TypeOK`, `SubAgentFramesSafe`, `TimelineSafe`, `PermissionsSafe`, `ShellSafe`, `StepsSafe` | 2 tasks and a cap of 1, 2 messages, 2 commands, 2 requests, 2 children; 9 profiles | pass |
| `process` | `ProcessSafe`, `FramesKept`, `CallsSettle` | 2 `start()` and 2 `end()` calls; every frame of `Schemas` in 3 modes; 3 profiles | pass |
| `codegen` | `CodegenFaithful`, `CodegenSettles` | 2 binaries, 3 commands, 1 kill; bounded inputs of each stage; 8 profiles | pass |
| `app` | `AppSafe` | 2 pages, 2 inits, 1 fault; 4 entries; 2 file requests; 2 tabs, 3 sessions, cap 2; 4 profiles | pass |

Bounds. Three respawns are one that is attached, one that awaits its death and one
that overtakes; a fourth repeats a role. One frame a child is enough for a frame
before and after each respawn, since frames of different children are what is told
apart. Three requests are one that times out, one that overlaps it and one aborted
with either. Three sockets are one being lost, one made too early and one made by the
hook or the timer. Two transports are one in use and one that closes late; three
respawns are the hook's, one of `setEffort` and one that changes the session, in any
order and on either connection. Four sessions and three spawns are one resumed, one new,
and a reload into either. Two tasks under a cap of one make eviction happen at the second; two
children are enough for a frame of the one after the respawn for the other. Two calls of
each kind in `process` are one that acts and one that finds it under way. In `codegen` an
expression has two levels of nesting and a canonical three schemas, which is
enough for a cycle beside a schema that refers to it. Two inits in `app` are one that creates and one
that joins or retries, and one fault can strike either; four timeline entries are an input, its
output, and one between and one after; four touches of three sessions overflow a cap of two.

No run checks deadlock: a connection that is closed, a client that has used its requests, a
process that ended, a test that is concluded and a page whose bounds are used up stop.

### Disagreements found

* `bridge_close`: "On WS close, kill the child" (`server/src/server.ts:20`). A close
  that comes while a respawn awaits the old child finds `childT` null; the handler then
  resumes and starts a child that is never killed.
* `ws_client_queued`: "pending `send()`s queued during a disconnect resolve once the
  new socket opens" (`ws-client.ts:16`). The close listener of an old socket clears
  `sock` and `openWait` of the new one; the send is rejected when its socket opens.
* `session_effort`: "`activeEffort`: Current effort tier" (`client/README.md:164`). A
  `setEffort` sent while the bridge still awaits the old child for the respawn before it
  is answered first; the earlier respawn then replaces its child by one at the old
  effort. Everything was answered ok and the new effort is shown.

Those met while modelling and stated as exclusions, not as runs of their own, are in the
sections on the modules above.

## Proofs

TLAPS proves what follows for every value of the constants the assumptions allow, so for
any number of requests, children, connections, pages, messages and tasks.

* `BridgeProofs`: `TypeCorrect`, `NoOrphanHolds`, `CutOffHolds`, `Refinement`.
  `NoOrphan` alone is not inductive: a handler that resumes would start a second child
  beside the first. `OrphanInv` adds where handlers and children can be: a request's
  child is unborn until its handler is done, the current child has not been told to
  close, and unless respawns overtook each other at most one handler awaits, with no
  current child and the socket not closed. `StaleInv` says that a superseded child was
  started and is not the current one, so no later step attaches it again. The
  refinement (`StreamInv`) needs that on an open socket the last ok reply names the
  current child (`IsCurrent`), and that a request is unanswered while its handler has
  not finished; each step then maps to an answer, a frame or a stutter.
* `RequestProofs`, of `Intents`: `TypeCorrect`, `EntryPerPromiseHolds`, `NoStuckSpinnerHolds`,
  `LastGrantShownHolds`. `SpinnerInv` says a pending mode belongs to a mode request
  that waits or whose continuation is queued (`UnderWay`). `GrantInv` follows the
  requests: each is on its way once, as a request or as an answer, and is not resolved
  before it arrives (`Travelling`); the answer of an earlier grant is ahead of the last
  grant's (`InOrder`); once the last grant is resolved, the mode is shown or its
  continuation is the only mode continuation queued (`Shown`).
* `RequestProofs`, of `Harness`: `HarnessHolds`, for whatever the binary says and does, at any
  length. `StreamInv` has what was captured and what the pipe still holds make up what was said,
  until the scan throws; `EndInv` has the runner leave `kill()` only once it heard of the exit;
  `StepInv` has the waits of the steps passed met by captured frames, and all of them unless
  the test threw; `VerdictInv` has the fixture a beginning of the captured frames, which only
  grow, and the verdict one of frames without an odd one. Replaying succeeds from the last two.
* `WebProofs`, of `WsClient`: `TypeCorrect`, `WaitIsLiveHolds`, `HookFirstHolds`,
  `OneSocketHolds`, `QuietAfterCloseHolds`. `ClosedInv` leaves a closed transport no socket and no promise
  to send on. `HookInv` says that an open socket on which nothing went out yet has the
  frame of its hook at the head of the queued jobs. `LiveInv` holds without overlap: only
  the current socket is alive, none is alive while another has its close event to come,
  and a connecting socket has its promise, so that no call dials a second time.
* `WebProofs`, of `MCApp`: `AppIsSafe`, that is `AppSafe` for any number of pages, inits,
  faults, entries, words, tabs and sessions. Each module keeps its invariant, and a step of
  `MCNext` moves one of them and leaves the variables of the others alone.
  - `SetupInv`: a page awaits one answer while init runs (`WaitInv`); only the request that made
    the session goes the way of the clone (`MakerInv`), so that the repository is
    nothing, half there while it clones, or what its maker wanted (`RepoInv`); a bridge runs
    where some request wanted it (`BridgeInv`).
  - `RowsInv`: entries are numbered in the order of the timeline; what the classifier remembers
    of an entry fits it and what follows it, and is what the stateless one would make of it
    unless an entry slipped out (`CacheInv`). The rest is about the stateless classifier: its
    stops are the entries not taken by an input before them, an input takes the output that
    follows it and no other does, so that each entry is in one row or none.
  - `ComposerInv`: no answer awaited has a later token than the last asked for, and the one that
    has it answers what the mention says; a timer waits for that too; the highlight is on
    the list.
  - `RosterInv`: each list in memory and each list kept is bounded, distinct and sorted by dates
    up to now (`InOrder`), and backends shared by the tabs hold one list. That `Newest`
    sorts, and loses and doubles nothing, is by counting what comes before each record, as in
    `SubsequencesProofs`.
* `SessionProofs`: `TypeCorrect`, `OneConnectionHolds`, `StatusTruthHolds`,
  `NextAsShownHolds`, `EffortShownHolds`, `SessionIsLastHolds`. The types need that a
  respawn on its way, awaited or attached was asked for (`Known`), or the probe would
  read the effort of nothing. `ConnInv` adds that `connectStarted` says whether there is a
  transport. `EffortInv` adds that a change under way falls back to the effort shown and
  that the probe is out only while no effort is pending or known. The last two follow one
  respawn: the newest the connection holds, in the client's queue, on the wire, awaiting
  in the bridge or attached (`Newest`), asks for the session chosen last and for the
  effort the next would ask for (`NewestInv`). That needs that a connection that is not
  open holds nothing (`PipeInv`), that the bridge has a child or one respawn that awaits
  (`AloneInv`), and that the respawn `setEffort` waits for is pending until it is settled
  (`SetterInv`).
* `SettingsProofs`: `TypeCorrect`, `ModeIsShown`, `StorageIsSafe`. The mode shown is the
  child's by following the one request in flight: it is on its way with nothing but messages
  behind it, or decided with its answer coming back (`InFlight`); unless one was given up, any
  other request on its way has a respawn behind it (`NoneStray`); respawns carry the mode
  shown (`QueuedModes`); and a child that no respawn will replace is in that mode or granted
  the one asked for (`ChildMode`). `SessionInv` numbers the children (`GenInv`), has each
  announce its session before it speaks (`Announced`), so that the page knows the session or
  will read it (`Known`), and keeps timeline and saved record of one session (`Unmixed`).
* `ClientStateProofs`: `TypeCorrect`, `PermissionsAreSafe`, `ShellIsSafe`,
  `TimelineIsSafe`, `SubAgentFramesAreSafe`, `StepsAreSafe`: every property of the run.
  - `PermissionsInv`: a request is queued, with a callback or answered, in one place only,
    and without callbacks what is queued was asked by the child that will read its
    verdict, unless it came from a child already being replaced.
  - `ShellInv`: a command is at one place of its way (capture queue, outputs kept, message
    sent), in order, and unless the order was disturbed the capture queue lines up with the
    commands the child still has to answer, so that each output is paired with its own.
  - `TimelineInv`: keys are below the counter, a stream in progress is shown, and its text
    is what arrived for it, in order.
  - `TasksInv`: tasks have one entry each; a transcript holds frames of its task's tool
    use, once and in order, none of which still waits or was given up
    (`TranscriptsKept`); orphans wait in order under their tool use (`OrphansKept`); every
    frame is shown, waits or was given up (`FramesPlaced`); a task announced with its tool
    use left no orphans behind (`AnnouncedTakesOrphans`); the list is within the cap or
    all of it runs (`Capped`).
  - The types need that a child is swapped only while a number is left for it
    (`HolderTyped`).
* `SubsequencesProofs`: what `Kept` keeps (`KeptEffect`): the elements at the positions
  and no others, in their order. It is by counting positions (`NthEffect`), whose induction
  is `SetInduction`: a set of naturals closed under successor misses none, or its part
  below the missing one would map into itself one-to-one and not onto. What embeds in a list
  like what is kept of it is what is kept (`KeptIs`), so that what is kept of a piece of the
  list goes after what was kept before it (`KeptGrows`).
* `ProcessProofs`: `ProcessIsSafe`, for any set of frames the peer may send. `AckInv` says
  at which awaits a call can have an ack, `EnderInv` that an `end()` with an ack left
  "ready" behind; with them `ReadyAcked`, `EndsOnce`, `StartsHonest` and `UnheardExplained`
  are inductive together (`CallsInv`). `EndInv` does the same for what the end leaves
  behind: an ended process has its wire closed and its handlers detached, or an `end()`
  is still to do it, or failed (`CleanInv`).
* `ProcessProofs`, of `Framing`: `LinesAreWhole`, for any text and any cuts. `FramingInv` has the
  frames and raw lines kept so far be those of the text read so far, and the buffer its last
  line. What a read adds to the buffer is a stretch of the text that begins a line
  (`ReadIsStretch`), a place in it ends the line in the text that it ends in the stretch
  (`LineMoves`, from `FromMoves`), and those lines come after the lines before (`ReadGrows`).

Looking for these invariants changed two modules. In `Settings` a property of reloads held
within the run's bounds only: a longer sequence of calls made it false, and it is now stated
with the histories `mixed` and `strayed`. In the aggregators, the timeline's rows, the roster and
the framing, `SelectSeq`, sorting and the splitting of lines were recursive, which says nothing
to the provers; they are now stated by the positions kept, and `LinesWhole` says of each line
what it said of their number and order.

The assumptions are the named ASSUMEs of the modules, and TLC evaluates them on the runs.
`NoneAssumption`, `TokensAssumption`, `CallersApart`, `CallAssumption`, `FramesAssumption`:
`null`, "new" and "continue" are no request, session or mode, a `start()` is not an `end()`,
a call is not a socket, and the names of the binary's messages, tools and ids are apart.
`MaxReqAssumption`, `MaxFramesAssumption`, `BoundsAssumption`, `SocketAssumption`,
`AttemptAssumption`, `HolderAssumption`, `TasksAssumption`: bounds and caps are naturals, and
there is at least one session, attempt and child. `EffortAssumption`, `FirstAssumption`,
`ModesAssumption`: the defaults are among the efforts and modes there are. `SetupAssumption`:
"no repository", "nothing there" and "half there" are no setup of a user. `ComposerAssumption`:
commands and words are finitely many and the server returns at most what there is.
`RosterAssumption`: the roster's cap, 25 in the code, is positive. `TextsAssumption`: a child
writes characters.

Only model-checked: liveness (`RespawnAnswered`, `NoHangOnDeadChild`,
`CloseReapsChildren`, `IntentSettles`, `SendSettles`, `EffortSettles`, `SkipSettles`,
`CallsSettle`, `CodegenSettles`), which needs ENABLED; of `FramesKept` what it says of
validation, a statement about the frames of one binary and one client, which are finitely many
and which TLC judges one by one; and of `CodegenFaithful` all but `HarnessSafe`: it speaks of scanners and of a
translation that recurse over their input, and what they compute for every input needs
induction over data, which the provers do not do.

## Plan

In order of importance:

1. A composition of `Session`'s respawns with `Bridge` (refining `ConsumerView`).
2. `wsServerTransport`, if a host of this repository comes to use it.

## Not modelled

* `wsServerTransport`, the worker's proxy of `/ws` and `sandbox.ts`: one call handed on, no state.
* React and Svelte adapters, panels, row components, markdown, keymaps, the demo page: they
  render atoms and hand calls on.
* Latency samples and percentiles: no other state depends on them.
* The text of the generated types; the in-memory test transports, but for what `Process`
  says of answers that come before a send returns.
* Contents of frames, texts and arguments, reduced to what the properties tell apart.

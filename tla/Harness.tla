------------------------------- MODULE Harness -------------------------------
(***************************************************************************)
(* stdio-harness.ts and the test of run-tests.ts that drives it: a live    *)
(* binary on pipes, the steps of a test sent and waited for, the frames    *)
(* captured, three timers, two signals, and the verdict with its fixture.  *)
(* The binary may say anything, stay silent, ignore SIGTERM, or exit at    *)
(* any time; the last frames it wrote are read before or after its exit    *)
(* is heard.                                                               *)
(***************************************************************************)
EXTENDS Naturals, Sequences, SequencesExt

CONSTANT MaxSaid     \* frames of the binary in a behaviour

(* A frame of the binary: an answer with the number of its request, any    *)
(* other frame, one the schema of its type rejects, a line that is not     *)
(* JSON or has a type no schema has, one the secret scan stops.            *)
Answers == {"success", "error"}
Kinds == Answers \cup {"other", "odd", "strange", "leak"}
FrameOf(kind, to) == [kind |-> kind, to |-> to]

(* tests.ts: fourteen tests of two shapes, one probing a request and one   *)
(* not, that end with an end_session nobody waits for.                     *)
Request(subtype) == [kind |-> "control_request", subtype |-> subtype]
waitSuccess == [kind |-> "wait_for", predicate |-> "control_response_success"]
Test(steps) == [steps |-> steps, expected |-> {"control_response", "success"}]
InitThenEnd == Test(<<Request("initialize"), waitSuccess, Request("end_session")>>)
Probe == Test(<<Request("initialize"), waitSuccess, Request("probe"), waitSuccess,
                Request("end_session")>>)
TESTS == {InitThenEnd, Probe}

VARIABLES
  test, step,    \* the test, the step it is at
  at,            \* the runner: step, wait, grace, term, exit, ended, assert,
                 \* concluded, crashed
  child,         \* running, exited
  signal,        \* none, TERM, KILL
  stdin,         \* requests the binary has not answered
  pipe, said,    \* frames written: not read yet, all of them
  frames,        \* frames captured
  idleTimer, idleFired,
  exitHeard, killed, threw,
  written,       \* the frames written to the fixture
  pass           \* the verdict

hvars == <<test, step, at, child, signal, stdin, pipe, said, frames,
           idleTimer, idleFired, exitHeard, killed, threw, written, pass>>
runner == <<test, step, at, killed, threw, written, pass>>
NoFixture == "none"

HInit ==
  /\ test \in TESTS /\ step = 1 /\ at = "step"
  /\ child = "running" /\ signal = "none"
  /\ stdin = {} /\ pipe = <<>> /\ said = <<>> /\ frames = <<>>
  /\ idleTimer = TRUE /\ idleFired = FALSE
  /\ exitHeard = FALSE /\ killed = FALSE /\ threw = FALSE
  /\ written = NoFixture /\ pass = FALSE

(* The binary                                                              *)
ChildSays(f) ==
  /\ child = "running" /\ Len(said) < MaxSaid
  /\ f.kind \in Answers => f.to \in stdin
  /\ stdin' = stdin \ {f.to}
  /\ pipe' = Append(pipe, f) /\ said' = Append(said, f)
  /\ UNCHANGED <<runner, child, signal, frames, idleTimer, idleFired, exitHeard>>
ChildExits ==
  /\ child = "running" /\ child' = "exited"
  /\ UNCHANGED <<runner, signal, stdin, pipe, said, frames, idleTimer, idleFired, exitHeard>>
KillDelivered == signal = "KILL" /\ ChildExits

(* child.on("exit"): the idle timer is cleared.                            *)
ExitHeard ==
  /\ child = "exited" /\ ~exitHeard /\ at # "crashed"
  /\ exitHeard' = TRUE /\ idleTimer' = FALSE
  /\ UNCHANGED <<runner, child, signal, stdin, pipe, said, frames, idleFired>>

(* child.kill(sig) on a process that is gone does nothing.                 *)
SignalChild(sig) == signal' = IF child = "running" THEN sig ELSE signal

(* The predicates of waitFor: an error answers a request as a success      *)
(* does, and no predicate knows which request it waits for.                *)
pred(predicate, f) ==
  predicate = "control_response_success" /\ f.kind \in Answers
Waiting == test.steps[step]

(* kill(): killed comes first, so that the end_session sent next is        *)
(* refused, and only the grace period is left of it.                       *)
Shut(failed) ==
  /\ at' = IF exitHeard THEN "ended" ELSE "grace"
  /\ killed' = TRUE /\ threw' = failed

(* child.stdout.on("data"): one line; the idle timer is armed again, after *)
(* the exit too.  A throw in the handler is caught by nobody.              *)
Data ==
  /\ pipe # <<>> /\ at \notin {"ended", "concluded", "crashed"}
  /\ pipe' = Tail(pipe) /\ idleTimer' = TRUE
  /\ LET f == Head(pipe)
         awaited == at = "wait" /\ pred(Waiting.predicate, f)
     IN  IF f.kind = "leak"
         THEN at' = "crashed" /\ UNCHANGED <<frames, step>>
         ELSE /\ frames' = Append(frames, f)
              /\ at' = IF awaited THEN "step" ELSE at
              /\ step' = IF awaited THEN step + 1 ELSE step
  /\ UNCHANGED <<test, killed, threw, written, pass, child, signal, stdin, said, idleFired, exitHeard>>
IdleFires ==
  /\ idleTimer /\ at # "crashed"
  /\ idleTimer' = FALSE /\ idleFired' = TRUE
  /\ SignalChild("KILL")
  /\ UNCHANGED <<runner, child, stdin, pipe, said, frames, exitHeard>>

(* A step of the test.  A write to a pipe nobody reads fails the test; its *)
(* error event, which nobody listens to, may end the runner.               *)
SendStep ==
  /\ at = "step" /\ step <= Len(test.steps) /\ Waiting.kind = "control_request"
  /\ \/ /\ stdin' = stdin \cup {step} /\ step' = step + 1
        /\ UNCHANGED <<at, killed, threw>>
     \/ /\ child = "exited"
        /\ Shut(TRUE) \/ (at' = "crashed" /\ UNCHANGED <<killed, threw>>)
        /\ UNCHANGED <<stdin, step>>
  /\ UNCHANGED <<test, written, pass, child, signal, pipe, said, frames, idleTimer, idleFired, exitHeard>>
WaitFor ==
  /\ at = "step" /\ step <= Len(test.steps) /\ Waiting.kind = "wait_for"
  /\ IF \E i \in DOMAIN frames : pred(Waiting.predicate, frames[i])
     THEN step' = step + 1 /\ at' = at
     ELSE step' = step /\ at' = "wait"
  /\ UNCHANGED <<test, killed, threw, written, pass, child, signal, stdin, pipe, said, frames, idleTimer, idleFired, exitHeard>>
WaitTimesOut ==
  /\ at = "wait" /\ Shut(TRUE)
  /\ UNCHANGED <<test, step, written, pass, child, signal, stdin, pipe, said, frames, idleTimer, idleFired, exitHeard>>
StepsDone ==
  /\ at = "step" /\ step > Len(test.steps) /\ Shut(FALSE)
  /\ UNCHANGED <<test, step, written, pass, child, signal, stdin, pipe, said, frames, idleTimer, idleFired, exitHeard>>

(* The rest of kill(): the exit, or the end of the grace period; the exit, *)
(* or half a second after SIGTERM; the exit.                               *)
NeverKill == [grace |-> "TERM", term |-> "TERM"]   \* mutant
NextSignal == [grace |-> "TERM", term |-> "KILL"]
AfterSignal == [grace |-> "term", term |-> "exit"]
KillWaits ==
  /\ at \in {"grace", "term", "exit"} /\ exitHeard
  /\ at' = "ended"
  /\ UNCHANGED <<test, step, killed, threw, written, pass, child, signal, stdin, pipe, said, frames, idleTimer, idleFired, exitHeard>>
KillTimesOut ==
  /\ at \in DOMAIN NextSignal
  /\ SignalChild(NextSignal[at]) /\ at' = AfterSignal[at]
  /\ UNCHANGED <<test, step, killed, threw, written, pass, child, stdin, pipe, said, frames, idleTimer, idleFired, exitHeard>>

(* main, after runOne: a test that threw has failed and leaves no fixture. *)
(* Of the others the fixture is written at once; the verdict waits for the *)
(* schemas to be imported, and looks at what was read meanwhile as well.   *)
Discriminants1(f) == IF f.kind \in Answers THEN {"control_response", f.kind} ELSE {f.kind}
ObservedIn(fs) == UNION {Discriminants1(fs[i]) : i \in DOMAIN fs}
Observed == ObservedIn(frames)
writeFixture(updateFixtures) ==
  /\ at = "ended"
  /\ at' = IF threw THEN "concluded" ELSE "assert"
  /\ written' = IF ~threw /\ updateFixtures THEN frames ELSE written
  /\ pass' = (~threw /\ ~idleFired)
  /\ UNCHANGED <<test, step, killed, threw, child, signal, stdin, pipe, said, frames, idleTimer, idleFired, exitHeard>>
assertFixture ==
  /\ at = "assert" /\ at' = "concluded"
  /\ pass' = (pass /\ "odd" \notin Observed /\ test.expected \subseteq Observed)
  /\ UNCHANGED <<test, step, killed, threw, written, child, signal, stdin, pipe, said, frames, idleTimer, idleFired, exitHeard>>

RunnerStep ==
  \/ Data \/ ExitHeard \/ SendStep \/ WaitFor \/ StepsDone \/ KillWaits
  \/ assertFixture \/ \E updateFixtures \in BOOLEAN : writeFixture(updateFixtures)
TimerStep == IdleFires \/ WaitTimesOut \/ KillTimesOut
HNext ==
  \/ \E kind \in Kinds, to \in 0 .. 5 :
        ((to = 0) <=> (kind \notin Answers)) /\ ChildSays(FrameOf(kind, to))
  \/ ChildExits \/ KillDelivered
  \/ RunnerStep \/ TimerStep

(* The event loop runs what is ready, a timer that is armed fires, SIGKILL *)
(* is obeyed.  Nothing is assumed of the binary.                           *)
HFairness == WF_hvars(RunnerStep) /\ WF_hvars(TimerStep) /\ WF_hvars(KillDelivered)

(* replay-fixtures.ts: every frame is JSON, of a type some schema has, and *)
(* that schema accepts it.                                                 *)
Replays(fs) == ObservedIn(fs) \cap {"odd", "strange"} = {}

(***************************************************************************)
(* Properties                                                              *)
(***************************************************************************)

(* Whatever the binary does: what is captured is the beginning of what it  *)
(* said, in order, nothing twice and nothing the scan stops; a test that   *)
(* is concluded has left no process behind; one that passes saw each wait  *)
(* of its steps met and every kind it expects; a fixture holds what was    *)
(* captured before it, and replays when its test passes, but for lines     *)
(* that are not JSON or of an unknown type, which only a replay refuses.   *)
(* (Not: that a probed request succeeded, or was answered: the answer to   *)
(* initialize meets every later wait and has every kind expected.)         *)
HarnessSafe ==
  /\ IsPrefix(frames, said)
  /\ at # "crashed" => frames \o pipe = said
  /\ "leak" \notin Observed
  /\ at \in {"ended", "assert", "concluded"} => child = "exited" /\ killed
  /\ at = "concluded" /\ pass =>
       /\ step > Len(test.steps) /\ test.expected \subseteq Observed
       /\ \A i \in DOMAIN test.steps :
            test.steps[i].kind = "wait_for" =>
              \E j \in DOMAIN frames : pred(test.steps[i].predicate, frames[j])
  /\ written # NoFixture => IsPrefix(written, frames) /\ ~threw
  /\ at = "concluded" /\ written # NoFixture /\ pass =>
       Replays(written) \/ "strange" \in ObservedIn(written)

(* Every test is concluded, or has stopped the runner, even one whose      *)
(* binary is silent, or never ends and ignores SIGTERM.                    *)
HarnessSettles == <>(at \in {"concluded", "crashed"})
=============================================================================

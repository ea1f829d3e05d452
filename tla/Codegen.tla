------------------------------- MODULE Codegen -------------------------------
(***************************************************************************)
(* The commands of the code generator and the files they share: extract,   *)
(* generate, checkpoint with its fifteen gates, and ci-checks.  A file is  *)
(* known by what it was made from.  One command runs at a time; a kill may *)
(* end it between any two of its steps, with no finally block run, and the *)
(* author may edit the patches while it runs.                              *)
(***************************************************************************)
EXTENDS Naturals, Sequences, FiniteSets

CONSTANTS
  Binaries,     \* the contents an installed binary may have
  MaxEdits,     \* edits of patches.ts in a behaviour
  MaxCommands,  \* commands started in a behaviour
  MaxUpdates,   \* updates of the binary
  MaxKills      \* commands killed

ASSUME BinariesAssumption == Binaries \subseteq Nat /\ 1 \in Binaries

WrittenAfter == [schemas |-> "types", types |-> "dispatch", dispatch |-> "coverage"]

VARIABLES
  binary,     \* the installed binary; 0: none
  canonical,  \* canonical.json: the binary it is of, stray last newlines
  patches,    \* patches.ts: the edit, a bogus entry inserted
  generated,  \* per artefact, the canonical and the patches it was made from
  coverage,   \* coverage.json: who wrote it
  fixture,    \* the first fixture: the binary it is of, corrupted or not
  job,        \* the running command: its name, step, and what it keeps
  sub,        \* the generate.ts that runs, its own or the job's child
  green,      \* the last command to end well with no edit made meanwhile, and
              \* whether it skipped the gate that extracts
  edits, commands, updates, kills

files == <<canonical, patches, generated, coverage, fixture>>
bounds == <<edits, commands, updates, kills>>
cvars == <<binary, files, job, sub, green, bounds>>

Canonical0(b) == [of |-> b, newlines |-> 0]
Source == [canonical |-> canonical, patches |-> patches]

(* The bundle of a later binary has a discriminant more than the one       *)
(* before it.  Its new schema stays without a typed field until the        *)
(* patches were edited for it.                                             *)
Discriminants(b) == 1 .. b
ZeroField(c, p) == c.of > p.edit

NoJob == [cmd |-> "none", at |-> "idle"]
NoSub == [at |-> "none"]
Busy == job # NoJob

CInit ==
  /\ binary \in Binaries \cup {0}
  /\ canonical = Canonical0(1)
  /\ patches = [edit |-> 1, bogus |-> FALSE]
  /\ generated = [f \in DOMAIN WrittenAfter |->
                    [canonical |-> Canonical0(1), patches |-> [edit |-> 1, bogus |-> FALSE]]]
  /\ coverage = "generate"
  /\ fixture = [of |-> 1, corrupted |-> FALSE]
  /\ job = NoJob /\ sub = NoSub
  /\ green = "none"
  /\ edits = 0 /\ commands = 0 /\ updates = 0 /\ kills = 0

Begin(cmd, at, keeps) ==
  /\ ~Busy /\ commands < MaxCommands
  /\ commands' = commands + 1
  /\ job' = [cmd |-> cmd, at |-> at, keeps |-> keeps, failed |-> FALSE,
             skipped |-> FALSE, since |-> edits]
  /\ green' = "none"
Finish(ok) ==
  /\ job' = NoJob
  /\ green' = IF ~ok \/ edits # job.since THEN "none"
              ELSE IF job.skipped THEN "checkpoint without binary" ELSE job.cmd

(* generate.ts, run by hand or by a gate: reads, then writes one file      *)
(* after the other.  The gate on empty schemas comes after the writes.     *)
SpawnGenerate == sub' = [at |-> "reads"]
GenerateReads ==
  /\ sub.at = "reads"
  /\ sub' = IF patches.bogus THEN [at |-> "exited", ok |-> FALSE]
            ELSE [at |-> "schemas", source |-> Source]
  /\ UNCHANGED <<binary, files, job, green, bounds>>
GenerateWrites ==
  /\ sub.at \in DOMAIN WrittenAfter
  /\ generated' = [generated EXCEPT ![sub.at] = sub.source]
  /\ sub' = [sub EXCEPT !.at = WrittenAfter[@]]
  /\ UNCHANGED <<binary, canonical, patches, coverage, fixture, job, green, bounds>>
GenerateCounts ==
  /\ sub.at = "coverage"
  /\ coverage' = "generate"
  /\ sub' = [at |-> "exited",
             ok |-> ~ZeroField(sub.source.canonical, sub.source.patches)]
  /\ UNCHANGED <<binary, canonical, patches, generated, fixture, job, green, bounds>>
GenerateStep == GenerateReads \/ GenerateWrites \/ GenerateCounts

Generate ==
  /\ Begin("generate", "generating", <<>>)
  /\ SpawnGenerate
  /\ UNCHANGED <<binary, files, edits, updates, kills>>
GenerateEnds ==
  /\ job.cmd = "generate" /\ sub.at = "exited"
  /\ Finish(sub.ok)
  /\ sub' = NoSub
  /\ UNCHANGED <<binary, files, bounds>>

(* extract.ts: the canonical first, the coverage last.  It warns of a drop *)
(* only when the counts in coverage.json are an extraction's.              *)
Extract ==
  /\ binary # 0
  /\ Begin("extract", "canonical", binary)
  /\ UNCHANGED <<binary, files, sub, edits, updates, kills>>
ExtractWrites ==
  /\ job.cmd = "extract" /\ job.at = "canonical"
  /\ canonical' = Canonical0(job.keeps)
  /\ job' = [job EXCEPT !.at = "coverage"]
  /\ UNCHANGED <<binary, patches, generated, coverage, fixture, sub, green, bounds>>
ExtractCounts ==
  /\ job.cmd = "extract" /\ job.at = "coverage"
  /\ coverage' = "extract"
  /\ Finish(TRUE)
  /\ UNCHANGED <<binary, canonical, patches, generated, fixture, sub, bounds>>

(* check-gaps.ts: every discriminant of the canonical is in schemas.ts.    *)
GapsPass ==
  Discriminants(canonical.of) \subseteq Discriminants(generated["schemas"].canonical.of)
(* verify-package.ts: each header carries the sha256 of the canonical's    *)
(* bytes, every discriminant is in types.ts, the coverage is generate's.   *)
HeadersMatch == \A f \in DOMAIN generated : generated[f].canonical = canonical
VerifyPasses ==
  /\ HeadersMatch
  /\ Discriminants(canonical.of) \subseteq Discriminants(generated["types"].canonical.of)
  /\ coverage = "generate"
(* replay-fixtures.ts: every frame's type is in dispatch.ts.               *)
ReplayPasses ==
  /\ ~fixture.corrupted
  /\ Discriminants(fixture.of) \subseteq Discriminants(generated["dispatch"].canonical.of)

(* ci-checks.ts: all gates run, whichever failed; the two tsc runs are     *)
(* outside the model and may fail.                                         *)
CiChecks ==
  /\ Begin("ci", "gaps", <<>>)
  /\ UNCHANGED <<binary, files, sub, edits, updates, kills>>
CiNext == [gaps |-> "verify", verify |-> "replay", replay |-> "tsc"]
CiGate ==
  /\ job.cmd = "ci" /\ job.at \in DOMAIN CiNext
  /\ LET passes == CASE job.at = "gaps" -> GapsPass
                     [] job.at = "verify" -> VerifyPasses
                     [] job.at = "replay" -> ReplayPasses
     IN  job' = [job EXCEPT !.at = CiNext[@], !.failed = @ \/ ~passes]
  /\ UNCHANGED <<binary, files, sub, green, bounds>>
CiEnds(tsc) ==
  /\ job.cmd = "ci" /\ job.at = "tsc"
  /\ Finish(~job.failed /\ tsc)
  /\ UNCHANGED <<binary, files, sub, bounds>>

(* run-tests.ts records a fixture of the binary that is installed.         *)
UpdateFixtures ==
  /\ ~Busy /\ binary # 0 /\ fixture' = [of |-> binary, corrupted |-> FALSE]
  /\ fixture' # fixture
  /\ green' = "none"
  /\ UNCHANGED <<binary, canonical, patches, generated, coverage, job, sub, bounds>>

(***************************************************************************)
(* checkpoint.ts                                                           *)
(***************************************************************************)
Checkpoint ==
  /\ Begin("checkpoint", "gate 1", <<>>)
  /\ UNCHANGED <<binary, files, sub, edits, updates, kills>>
On(at) == job.cmd = "checkpoint" /\ job.at = at
Go(next, passed) == job' = [job EXCEPT !.at = next, !.failed = @ \/ ~passed]
Keep(next, value) == job' = [job EXCEPT !.at = next, !.keeps = value]

(* Gate 1: the extraction of the binary has the bytes of the canonical;    *)
(* skipped without a binary.                                               *)
Gate1 ==
  /\ On("gate 1")
  /\ job' = [job EXCEPT !.at = "gate 2", !.skipped = binary = 0,
                        !.failed = binary # 0 /\ Canonical0(binary) # canonical]
  /\ UNCHANGED <<binary, files, sub, green, bounds>>
(* Gate 2: generate.ts runs in place; the files it wrote are the ones it   *)
(* found.                                                                  *)
Gate2 ==
  /\ On("gate 2") /\ sub = NoSub
  /\ Keep("regenerated", generated)
  /\ SpawnGenerate
  /\ UNCHANGED <<binary, files, green, bounds>>
Gate2Compares ==
  /\ On("regenerated") /\ sub.at = "exited"
  /\ Go("gates 3-8", sub.ok /\ generated = job.keeps)
  /\ sub' = NoSub
  /\ UNCHANGED <<binary, files, green, bounds>>
(* Gates 3 to 8; the test suites among them may fail.                      *)
Gates3To8(suites) ==
  /\ On("gates 3-8")
  /\ Go("gate 9", GapsPass /\ ReplayPasses /\ VerifyPasses /\ suites)
  /\ UNCHANGED <<binary, files, sub, green, bounds>>
(* Gate 9: three files are kept; each drift is written, its gate run, and  *)
(* the file put back.                                                      *)
Backup ==
  /\ On("gate 9")
  /\ Keep("drift A", [fixture |-> fixture, patches |-> patches, canonical |-> canonical])
  /\ UNCHANGED <<binary, files, sub, green, bounds>>
DriftA ==
  /\ On("drift A")
  /\ fixture' = [job.keeps.fixture EXCEPT !.corrupted = TRUE]
  /\ Go("restore A", TRUE)
  /\ UNCHANGED <<binary, canonical, patches, generated, coverage, sub, green, bounds>>
RestoreA ==
  /\ On("restore A")
  /\ fixture' = job.keeps.fixture
  /\ Go("drift B", ~ReplayPasses)
  /\ UNCHANGED <<binary, canonical, patches, generated, coverage, sub, green, bounds>>
\* A newline more than there are: one may be left of a checkpoint that was killed.
DriftB ==
  /\ On("drift B")
  /\ canonical' = [job.keeps.canonical EXCEPT !.newlines = @ + 1]
  /\ Go("restore B", TRUE)
  /\ UNCHANGED <<binary, patches, generated, coverage, fixture, sub, green, bounds>>
RestoreB ==
  /\ On("restore B")
  /\ canonical' = job.keeps.canonical
  /\ Go("drift C", ~VerifyPasses)
  /\ UNCHANGED <<binary, patches, generated, coverage, fixture, sub, green, bounds>>
DriftC ==
  /\ On("drift C") /\ sub = NoSub
  /\ patches' = [job.keeps.patches EXCEPT !.bogus = TRUE]
  /\ SpawnGenerate
  /\ Go("restore C", TRUE)
  /\ UNCHANGED <<binary, canonical, generated, coverage, fixture, green, bounds>>
RestoreC ==
  /\ On("restore C") /\ sub.at = "exited"
  /\ patches' = job.keeps.patches
  /\ Go("gates 10-15", ~sub.ok)
  /\ SpawnGenerate
  /\ UNCHANGED <<binary, canonical, generated, coverage, fixture, green, bounds>>
Gates10To15(suites) ==
  /\ On("gates 10-15") /\ sub.at = "exited"
  /\ sub' = NoSub
  /\ Finish(~job.failed /\ suites)
  /\ UNCHANGED <<binary, files, bounds>>
CheckpointStep ==
  \/ Gate1 \/ Gate2 \/ Gate2Compares \/ Backup
  \/ DriftA \/ RestoreA \/ DriftB \/ RestoreB \/ DriftC \/ RestoreC
  \/ \E suites \in BOOLEAN : Gates3To8(suites) \/ Gates10To15(suites)

(* The author, the package manager, the process that is killed             *)
EditPatches ==
  /\ edits < MaxEdits /\ edits' = edits + 1
  /\ patches' = [edit |-> patches.edit + 1, bogus |-> FALSE]
  /\ green' = "none"
  /\ UNCHANGED <<binary, canonical, generated, coverage, fixture, job, sub, commands, updates, kills>>
UpdateBinary(b) ==
  /\ updates < MaxUpdates /\ updates' = updates + 1
  /\ b # binary /\ binary' = b
  /\ UNCHANGED <<files, job, sub, green, edits, commands, kills>>
Kill ==
  /\ Busy /\ kills < MaxKills /\ kills' = kills + 1
  /\ job' = NoJob /\ sub' = NoSub /\ green' = "none"
  /\ UNCHANGED <<binary, files, edits, commands, updates>>

JobStep ==
  \/ GenerateStep \/ GenerateEnds \/ ExtractWrites \/ ExtractCounts
  \/ CiGate \/ (\E tsc \in BOOLEAN : CiEnds(tsc)) \/ CheckpointStep
CNext ==
  \/ JobStep
  \/ Generate \/ Extract \/ CiChecks \/ Checkpoint \/ UpdateFixtures
  \/ EditPatches \/ (\E b \in Binaries \cup {0} : UpdateBinary(b)) \/ Kill

(***************************************************************************)
(* Properties                                                              *)
(***************************************************************************)

(* What a command that ended well, with no edit of the patches while it    *)
(* ran, leaves behind, whatever was killed, updated or edited before it.   *)
(* generate: all four files are of one source, and CI would find them so.  *)
(* ci: the generated files are of the canonical as it is (of which patches *)
(* they are, and what the canonical is of, it does not look), and every    *)
(* frame type of the fixtures, none of them corrupted, is known.           *)
(* checkpoint: the same; the fixture and the patches it mutated are        *)
(* restored, all is of them, no schema is empty.  The canonical is clean   *)
(* of an earlier drift if the gate that extracts was not skipped; else it  *)
(* keeps the newlines of checkpoints that were killed.                     *)
Generated == \A f \in DOMAIN generated : generated[f] = Source
NoDrift == ~fixture.corrupted /\ canonical.newlines = 0 /\ ~patches.bogus
GreenIsHonest ==
  /\ green = "generate" => Generated /\ GapsPass /\ VerifyPasses
  /\ green = "ci" => /\ HeadersMatch /\ ~fixture.corrupted
                     /\ Discriminants(fixture.of) \subseteq Discriminants(canonical.of)
  /\ green \in {"checkpoint", "checkpoint without binary"} =>
       /\ ~fixture.corrupted /\ ~patches.bogus /\ Generated /\ VerifyPasses
       /\ ~ZeroField(canonical, patches)
       /\ Discriminants(fixture.of) \subseteq Discriminants(canonical.of)
       /\ canonical.newlines <= IF green = "checkpoint" THEN 0 ELSE kills

(* Without a kill, no drift outlives the checkpoint that made it.          *)
DriftEnds == kills = 0 /\ ~Busy => NoDrift /\ sub = NoSub

(* A command ends: every child process does, and each gate goes on to the  *)
(* next whatever it found.                                                 *)
CFairness == WF_cvars(JobStep)
CommandsEnd == Busy ~> ~Busy
=============================================================================

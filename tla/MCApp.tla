------------------------------- MODULE MCApp -------------------------------
(***************************************************************************)
(* The user interface and the container application under four profiles,   *)
(* one per initial state; the modules of the other three do not move.      *)
(***************************************************************************)
EXTENDS SetupFlow, Rows, Composer, Roster, TLC

VARIABLE profile

MCSetups == {NoRepo, "r1", "r2"}
MCDocs == {<<>>, <<"/">>, <<"/", "x">>, <<"@">>, <<"@", "x">>, <<"x", " ", "@", "y">>}
MCCommandSets == {{}, {"x", "y"}, {"x"}}
MCConfigs ==
  [custom : {FALSE}, persist : {"local", "session", "none"}, key : BOOLEAN, host : {TRUE}]
  \cup [custom : {TRUE}, persist : {"none"}, key : {TRUE}, host : {FALSE}]
Symmetric == Permutations(Pages) \cup Permutations(Tabs)

Elsewhere == [custom |-> TRUE, persist |-> "none", key |-> TRUE, host |-> FALSE]

MCInit ==
  /\ profile \in {"setup", "rows", "composer", "roster"}
  /\ SInit /\ (profile # "setup" => stored = NoSetup)
  /\ RInit
  /\ CInit /\ (profile # "composer" => vimMode = "off")
  /\ OInit /\ (profile # "roster" => config = Elsewhere)
Step(name, next, others) == profile = name /\ next /\ UNCHANGED others
MCNext ==
  /\ \/ Step("setup", SNext, <<rvars, cvars, ovars>>)
     \/ Step("rows", RNext, <<svars, cvars, ovars>>)
     \/ Step("composer", CNext, <<svars, rvars, ovars>>)
     \/ Step("roster", ONext, <<svars, rvars, cvars>>)
  /\ UNCHANGED profile
MCSpec == MCInit /\ [][MCNext]_<<svars, rvars, cvars, ovars, profile>>

(* What init set up is what was asked for; the rows shown are those of the *)
(* timeline; the suggestions are those of what is typed; and the roster is *)
(* in order: SetupFlow, Rows, Composer and Roster say each with which      *)
(* exceptions.                                                             *)
AppSafe == SetupSafe /\ RowsSafe /\ ComposerSafe /\ RosterSafe
=============================================================================

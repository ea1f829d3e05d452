----------------------------- MODULE Permissions -----------------------------
(***************************************************************************)
(* The permissions aggregator of packages/protocol/src/client/permissions  *)
(* and the raw permission callback of client/index.ts.  A can_use_tool     *)
(* request is queued for the user, or given to the aggregator's callback   *)
(* (onCanUseTool), or to the client's raw one (onPermissionRequest), which *)
(* wins.  A request is its number; askedBy says which child asked it, and  *)
(* a verdict records the child that will read it.                          *)
(***************************************************************************)
EXTENDS Subsequences, Integers, SequencesExt

VARIABLES
  pendingPermissions,  \* the queue
  deciding,            \* requests a callback has not decided yet
  onCanUseTool,        \* whether the aggregator's callback is set
  permissionCallback,  \* whether the raw callback is set
  askedBy,             \* history: per request the child that asked
  verdicts             \* history: the control_responses sent

permVars == <<pendingPermissions, deciding, onCanUseTool, permissionCallback,
              askedBy, verdicts>>

Behaviors == {"allow", "deny"}

PermissionsTypeOK ==
  /\ askedBy \in Seq(Nat)
  /\ pendingPermissions \in Seq(DOMAIN askedBy)
  /\ deciding \subseteq DOMAIN askedBy
  /\ onCanUseTool \in BOOLEAN /\ permissionCallback \in BOOLEAN
  /\ verdicts \in Seq([id : DOMAIN askedBy, behavior : Behaviors, to : Nat])

PermissionsInit ==
  /\ pendingPermissions = <<>> /\ deciding = {}
  /\ onCanUseTool \in BOOLEAN /\ permissionCallback = FALSE
  /\ askedBy = <<>> /\ verdicts = <<>>

(* ingest, and the short-circuit of handleInbound *)
Ingest(child) ==
  LET id == Len(askedBy) + 1
  IN  /\ askedBy' = Append(askedBy, child)
      /\ IF permissionCallback \/ onCanUseTool
         THEN deciding' = deciding \cup {id} /\ UNCHANGED pendingPermissions
         ELSE /\ pendingPermissions' = Append(pendingPermissions, id)
              /\ UNCHANGED deciding
      /\ UNCHANGED <<onCanUseTool, permissionCallback, verdicts>>

Reply(id, behavior, child) ==
  verdicts' = Append(verdicts, [id |-> id, behavior |-> behavior, to |-> child])

(* A callback settles; one that throws is answered with a denial. *)
CallbackSettles(id, behavior, child) ==
  /\ id \in deciding
  /\ deciding' = deciding \ {id}
  /\ Reply(id, behavior, child)
  /\ UNCHANGED <<pendingPermissions, onCanUseTool, permissionCallback, askedBy>>

(* respond: a verdict for a request that is not queued is ignored. *)
Respond(id, behavior, child) ==
  /\ IF id \in ToSet(pendingPermissions)
     THEN /\ pendingPermissions' = Kept(pendingPermissions,
               {i \in DOMAIN pendingPermissions : pendingPermissions[i] # id})
          /\ Reply(id, behavior, child)
     ELSE UNCHANGED <<pendingPermissions, verdicts>>
  /\ UNCHANGED <<deciding, onCanUseTool, permissionCallback, askedBy>>

(* Mutant: the queue survives a respawn. *)
ClearQueueForgotten == UNCHANGED permVars

(* clearQueue *)
ClearQueue ==
  /\ pendingPermissions' = <<>>
  /\ UNCHANGED <<deciding, onCanUseTool, permissionCallback, askedBy, verdicts>>

SetPermissionCallback(set) ==
  /\ permissionCallback' = set
  /\ UNCHANGED <<pendingPermissions, deciding, onCanUseTool, askedBy, verdicts>>

----------------------------------------------------------------------------
(* A request is answered at most once, however its answer is obtained, and *)
(* it is never both answered and still shown or being decided.             *)
VerdictOnce ==
  /\ \A i, j \in DOMAIN verdicts : i # j => verdicts[i].id # verdicts[j].id
  /\ \A i \in DOMAIN verdicts :
       verdicts[i].id \notin ToSet(pendingPermissions) \cup deciding
=============================================================================

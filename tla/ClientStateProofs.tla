------------------------- MODULE ClientStateProofs -------------------------
(***************************************************************************)
(* Theorems about ClientState, for any number of children, messages,       *)
(* commands, requests and tasks, any cap and any mix of traffic.           *)
(***************************************************************************)
EXTENDS ClientState, SubsequencesProofs

-----------------------------------------------------------------------------
(* Permissions                                                             *)

(* A request is queued, or with a callback, or answered: in one of them.   *)
QueueTyped ==
  /\ askedBy \in Seq(Nat)
  /\ pendingPermissions \in Seq(DOMAIN askedBy)
  /\ deciding \subseteq DOMAIN askedBy
  /\ verdicts \in Seq([id : DOMAIN askedBy, behavior : Behaviors, to : Nat])
InOnePlace ==
  /\ \A i, j \in DOMAIN pendingPermissions :
       i # j => pendingPermissions[i] # pendingPermissions[j]
  /\ \A i \in DOMAIN pendingPermissions : pendingPermissions[i] \notin deciding
  /\ \A i, j \in DOMAIN verdicts : i # j => verdicts[i].id # verdicts[j].id
  /\ \A i \in DOMAIN verdicts : /\ verdicts[i].id \notin deciding
                                /\ \A j \in DOMAIN pendingPermissions :
                                     pendingPermissions[j] # verdicts[i].id
QueueInv == QueueTyped /\ InOnePlace

(* Without callbacks every request is queued, and what is queued was asked *)
(* by the child that reads its verdict, unless it came late.               *)
Uncalled == ~onCanUseTool /\ ~permissionCallback /\ "callback" \notin profile
AskerInv ==
  /\ child \in Nat
  /\ Uncalled =>
       /\ deciding = {}
       /\ \A i \in DOMAIN pendingPermissions : pendingPermissions[i] \notin late =>
            ~swapping /\ askedBy[pendingPermissions[i]] = child
       /\ \A i \in DOMAIN verdicts : verdicts[i].id \notin late =>
            verdicts[i].to = askedBy[verdicts[i].id]

PermissionsInv == QueueInv /\ AskerInv

(* What a step may do to the permissions.                                  *)
AskStep ==
  /\ Ingest(child)
  /\ late' = IF swapping THEN late \cup {Len(askedBy) + 1} ELSE late
  /\ UNCHANGED <<profile, child, swapping>>
AnswerStep ==
  /\ \E id \in DOMAIN askedBy, b \in Behaviors :
       Respond(id, b, Reader) \/ CallbackSettles(id, b, Reader)
  /\ UNCHANGED <<profile, child, swapping, late>>
CallbackStep ==
  /\ "callback" \in profile
  /\ SetPermissionCallback(~permissionCallback)
  /\ UNCHANGED <<profile, child, swapping, late>>
RespawnStep ==
  /\ ~swapping /\ swapping' = TRUE /\ child < MaxChild
  /\ ClearQueue
  /\ UNCHANGED <<profile, child, late>>
SwapStep ==
  /\ swapping /\ swapping' = FALSE /\ child' = child + 1
  /\ UNCHANGED <<permVars, profile, late>>
PermissionsStill == UNCHANGED <<permVars, profile, child, swapping, late>>

(* Every step is one of these.                                             *)
LEMMA PermissionsStep ==
    ASSUME [Next]_vars, deciding \subseteq DOMAIN askedBy
    PROVE  \/ AskStep \/ AnswerStep \/ CallbackStep \/ RespawnStep \/ SwapStep
           \/ PermissionsStill
<1>1. ASSUME NEW f \in InboundFrame, Receive(f) PROVE AskStep \/ PermissionsStill
  <2>1. CASE OnInit(f) \/ OnSessionState(f) \/ OnHook(f) \/ OnTask(f)
    BY <2>1 DEF OnInit, OnSessionState, OnHook, OnTask, PermissionsStill, lifeVars,
       aggregatorVars
  <2>2. CASE OnLocalCommandOutput(f) \/ OnOtherSystem(f) \/ OnOtherControl(f) \/ OnMain(f)
    BY <2>2 DEF OnLocalCommandOutput, OnOtherSystem, OnOtherControl, OnMain,
       PermissionsStill, lifeVars, aggregatorVars, vars
  <2>3. CASE OnCanUseTool(f)
    BY <2>3 DEF OnCanUseTool, AskStep
  <2> QED BY <1>1, <2>1, <2>2, <2>3 DEF Receive
<1>2. CASE HydrateMessages \/ SendUserMessage \/ DismissShellEntry \/ MarkEnded \/ Tick
  BY <1>2 DEF HydrateMessages, SendUserMessage, DismissShellEntry, MarkEnded, Tick,
     PermissionsStill, lifeVars, aggregatorVars
<1>3. ASSUME NEW s \in ShellSource, NEW g \in BOOLEAN, NEW lost \in BOOLEAN,
             BashCommand(s, g, lost)
      PROVE  PermissionsStill
  BY <1>3 DEF BashCommand, PermissionsStill
<1>4. CASE RespondToPermission \/ CallbackDone \/ ChangeCallback
  BY <1>4 DEF RespondToPermission, CallbackDone, ChangeCallback, AnswerStep,
     CallbackStep, lifeVars
<1>5. ASSUME NEW reset \in BOOLEAN, Respawn(reset) PROVE RespawnStep
  BY <1>5 DEF Respawn, RespawnStep
<1>6. CASE Swap
  BY <1>6 DEF Swap, SwapStep, aggregatorVars
<1>7. CASE UNCHANGED vars
  BY <1>7 DEF vars, PermissionsStill, lifeVars, aggregatorVars
<1> QED BY <1>1, <1>2, <1>3, <1>4, <1>5, <1>6, <1>7 DEF Next

LEMMA QueueAsked == ASSUME QueueInv, child \in Nat, AskStep PROVE QueueInv'
<1> DEFINE id == Len(askedBy) + 1
<1>1. /\ askedBy' = Append(askedBy, child) /\ verdicts' = verdicts
      /\ \/ /\ deciding' = deciding \cup {id}
            /\ pendingPermissions' = pendingPermissions
         \/ /\ deciding' = deciding
            /\ pendingPermissions' = Append(pendingPermissions, id)
  BY DEF AskStep, Ingest
<1>2. /\ askedBy' \in Seq(Nat) /\ id \in DOMAIN askedBy' /\ id \notin DOMAIN askedBy
      /\ DOMAIN askedBy \subseteq DOMAIN askedBy'
  <2>1. askedBy \in Seq(Nat)
    BY DEF QueueInv, QueueTyped, InOnePlace
  <2>2. Len(askedBy) \in Nat /\ DOMAIN askedBy = 1 .. Len(askedBy)
    BY <2>1
  <2>3. askedBy' \in Seq(Nat) /\ Len(askedBy') = Len(askedBy) + 1
    BY <1>1, <2>1, AppendProperties
  <2>4. DOMAIN askedBy' = 1 .. Len(askedBy) + 1
    BY <2>3
  <2> QED BY <2>2, <2>3, <2>4
<1> HIDE DEF id
<1>3. /\ pendingPermissions \in Seq(DOMAIN askedBy')
      /\ verdicts \in Seq([id : DOMAIN askedBy', behavior : Behaviors, to : Nat])
      /\ deciding \subseteq DOMAIN askedBy'
  <2>1. /\ pendingPermissions \in Seq(DOMAIN askedBy)
        /\ verdicts \in Seq([id : DOMAIN askedBy, behavior : Behaviors, to : Nat])
    BY DEF QueueInv, QueueTyped, InOnePlace
  <2>2. [id : DOMAIN askedBy, behavior : Behaviors, to : Nat]
           \subseteq [id : DOMAIN askedBy', behavior : Behaviors, to : Nat]
    BY <1>2
  <2>3. /\ Seq(DOMAIN askedBy) \subseteq Seq(DOMAIN askedBy')
        /\ Seq([id : DOMAIN askedBy, behavior : Behaviors, to : Nat])
             \subseteq Seq([id : DOMAIN askedBy', behavior : Behaviors, to : Nat])
    BY <1>2, <2>2, SeqMonotonic
  <2> QED BY <1>2, <2>1, <2>3 DEF QueueInv, QueueTyped, InOnePlace
<1>4. /\ \A i \in DOMAIN pendingPermissions : pendingPermissions[i] \in DOMAIN askedBy
      /\ \A i \in DOMAIN verdicts : verdicts[i].id \in DOMAIN askedBy
  <2>1. pendingPermissions \in Seq(DOMAIN askedBy)
    BY DEF QueueInv, QueueTyped, InOnePlace
  <2>2. verdicts \in Seq([id : DOMAIN askedBy, behavior : Behaviors, to : Nat])
    BY DEF QueueInv, QueueTyped, InOnePlace
  <2>3. \A i \in DOMAIN verdicts :
          verdicts[i] \in [id : DOMAIN askedBy, behavior : Behaviors, to : Nat]
    BY <2>2, Elements
  <2>4. \A i \in DOMAIN pendingPermissions : pendingPermissions[i] \in DOMAIN askedBy
    BY <2>1, Elements
  <2> QED BY <2>3, <2>4
<1>5. CASE pendingPermissions' = pendingPermissions /\ deciding' = deciding \cup {id}
  BY <1>1, <1>2, <1>3, <1>4, <1>5 DEF QueueInv, QueueTyped, InOnePlace
<1>6. CASE /\ pendingPermissions' = Append(pendingPermissions, id)
           /\ deciding' = deciding
  <2>1. /\ pendingPermissions' \in Seq(DOMAIN askedBy')
        /\ \A i \in DOMAIN pendingPermissions' :
             \/ i \in DOMAIN pendingPermissions /\ pendingPermissions'[i] = pendingPermissions[i]
             \/ i = Len(pendingPermissions) + 1 /\ pendingPermissions'[i] = id
    BY <1>2, <1>3, <1>6, Appended
  <2>2. \A i, j \in DOMAIN pendingPermissions' :
          i # j => pendingPermissions'[i] # pendingPermissions'[j]
    BY <1>2, <1>4, <2>1 DEF QueueInv, InOnePlace
  <2>3. \A i \in DOMAIN pendingPermissions' : pendingPermissions'[i] \notin deciding'
    BY <1>2, <1>6, <2>1 DEF QueueInv, QueueTyped, InOnePlace
  <2>4. \A i \in DOMAIN verdicts : \A j \in DOMAIN pendingPermissions' :
          pendingPermissions'[j] # verdicts[i].id
    BY <1>2, <1>4, <2>1 DEF QueueInv, InOnePlace
  <2> QED BY <1>1, <1>2, <1>3, <1>6, <2>1, <2>2, <2>3, <2>4 DEF QueueInv, QueueTyped, InOnePlace
<1> QED BY <1>1, <1>5, <1>6

(* A request is answered: it was queued or being decided, and is no more.  *)
LEMMA VerdictAdded ==
    ASSUME QueueInv, NEW v \in [id : DOMAIN askedBy, behavior : Behaviors, to : Nat],
           verdicts' = Append(verdicts, v), askedBy' = askedBy,
           deciding' \subseteq deciding, v.id \notin deciding',
           pendingPermissions' \in Seq(DOMAIN askedBy),
           \A k \in DOMAIN pendingPermissions' : \E i \in DOMAIN pendingPermissions :
             pendingPermissions'[k] = pendingPermissions[i] /\ pendingPermissions[i] # v.id,
           \A k, l \in DOMAIN pendingPermissions' :
             k # l => pendingPermissions'[k] # pendingPermissions'[l],
           v.id \in deciding \/ \E i \in DOMAIN pendingPermissions : pendingPermissions[i] = v.id
    PROVE  QueueInv'
<1>1. /\ verdicts' \in Seq([id : DOMAIN askedBy, behavior : Behaviors, to : Nat])
      /\ \A i \in DOMAIN verdicts' :
           \/ i \in DOMAIN verdicts /\ verdicts'[i] = verdicts[i]
           \/ i = Len(verdicts) + 1 /\ verdicts'[i] = v
  <2>1. verdicts \in Seq([id : DOMAIN askedBy, behavior : Behaviors, to : Nat])
    BY DEF QueueInv, QueueTyped
  <2> QED BY <2>1, Appended
<1>2. \A i \in DOMAIN verdicts : verdicts[i].id # v.id
  BY DEF QueueInv, InOnePlace
<1>3. QueueTyped'
  BY <1>1 DEF QueueInv, QueueTyped
<1>4. ASSUME NEW i \in DOMAIN verdicts', NEW j \in DOMAIN verdicts', i # j
      PROVE  verdicts'[i].id # verdicts'[j].id
  <2>1. CASE i \in DOMAIN verdicts /\ verdicts'[i] = verdicts[i]
    <3>1. CASE j \in DOMAIN verdicts /\ verdicts'[j] = verdicts[j]
      BY <1>4, <2>1, <3>1 DEF QueueInv, InOnePlace
    <3>2. CASE verdicts'[j] = v
      BY <1>2, <2>1, <3>2
    <3> QED BY <1>1, <3>1, <3>2
  <2>2. CASE i = Len(verdicts) + 1 /\ verdicts'[i] = v
    <3>1. j \in DOMAIN verdicts /\ verdicts'[j] = verdicts[j]
      BY <1>1, <1>4, <2>2
    <3> QED BY <1>2, <2>2, <3>1
  <2> QED BY <1>1, <2>1, <2>2
<1>5. ASSUME NEW i \in DOMAIN verdicts'
      PROVE  /\ verdicts'[i].id \notin deciding'
             /\ \A j \in DOMAIN pendingPermissions' :
                  pendingPermissions'[j] # verdicts'[i].id
  <2>1. CASE i \in DOMAIN verdicts /\ verdicts'[i] = verdicts[i]
    <3>1. /\ verdicts[i].id \notin deciding
          /\ \A j \in DOMAIN pendingPermissions : pendingPermissions[j] # verdicts[i].id
      BY <2>1 DEF QueueInv, InOnePlace
    <3> QED BY <2>1, <3>1
  <2>2. CASE verdicts'[i] = v
    BY <2>2
  <2> QED BY <1>1, <2>1, <2>2
<1>6. \A i \in DOMAIN pendingPermissions' : pendingPermissions'[i] \notin deciding'
  <2>1. \A i \in DOMAIN pendingPermissions : pendingPermissions[i] \notin deciding
    BY DEF QueueInv, InOnePlace
  <2> QED BY <2>1
<1> QED BY <1>3, <1>4, <1>5, <1>6 DEF QueueInv, InOnePlace

LEMMA QueueAnswered == ASSUME QueueInv, child \in Nat, AnswerStep PROVE QueueInv'
<1>1. PICK id \in DOMAIN askedBy, b \in Behaviors :
        Respond(id, b, Reader) \/ CallbackSettles(id, b, Reader)
  BY DEF AnswerStep
<1> DEFINE v == [id |-> id, behavior |-> b, to |-> Reader]
<1>2. v \in [id : DOMAIN askedBy, behavior : Behaviors, to : Nat] /\ v.id = id
  BY DEF Reader
<1>3. pendingPermissions \in Seq(DOMAIN askedBy)
  BY DEF QueueInv, QueueTyped
<1>4. \A i, j \in DOMAIN pendingPermissions :
        i # j => pendingPermissions[i] # pendingPermissions[j]
  BY DEF QueueInv, InOnePlace
<1>5. CASE Respond(id, b, Reader) /\ id \in ToSet(pendingPermissions)
  <2> DEFINE I == {i \in DOMAIN pendingPermissions : pendingPermissions[i] # id}
  <2>1. /\ pendingPermissions' = Kept(pendingPermissions, I)
        /\ verdicts' = Append(verdicts, v) /\ askedBy' = askedBy /\ deciding' = deciding
        /\ \E i \in DOMAIN pendingPermissions : pendingPermissions[i] = id
    BY <1>5 DEF Respond, Reply, ToSet
  <2>i. /\ I \in SUBSET DOMAIN pendingPermissions
        /\ \A i \in DOMAIN pendingPermissions : i \in I <=> pendingPermissions[i] # id
    OBVIOUS
  <2> HIDE DEF I
  <2>2. /\ pendingPermissions' \in Seq(DOMAIN askedBy)
        /\ \A k \in DOMAIN pendingPermissions' : \E i \in DOMAIN pendingPermissions :
             pendingPermissions'[k] = pendingPermissions[i] /\ pendingPermissions[i] # id
        /\ \A k, l \in DOMAIN pendingPermissions' :
             k # l => pendingPermissions'[k] # pendingPermissions'[l]
    <3>1. /\ pendingPermissions' \in Seq(DOMAIN askedBy)
          /\ \A k \in DOMAIN pendingPermissions' : \E i \in I :
               pendingPermissions'[k] = pendingPermissions[i]
      BY <1>3, <2>1, <2>i, KeptElements
    <3>2. \A k, l \in DOMAIN pendingPermissions' :
             k # l => pendingPermissions'[k] # pendingPermissions'[l]
      BY <1>3, <1>4, <2>1, <2>i, KeptDistinct
    <3> QED BY <2>i, <3>1, <3>2
  <2>3. id \notin deciding
    BY <2>1 DEF QueueInv, InOnePlace
  <2> HIDE DEF v
  <2> QED BY <1>2, <2>1, <2>2, <2>3, VerdictAdded
<1>6. CASE Respond(id, b, Reader) /\ id \notin ToSet(pendingPermissions)
  <2>1. UNCHANGED <<pendingPermissions, verdicts, askedBy, deciding>>
    BY <1>6 DEF Respond
  <2> QED BY <2>1 DEF QueueInv, QueueTyped, InOnePlace
<1>7. CASE CallbackSettles(id, b, Reader)
  <2>1. /\ id \in deciding /\ deciding' = deciding \ {id} /\ verdicts' = Append(verdicts, v)
        /\ UNCHANGED <<pendingPermissions, askedBy>>
    BY <1>7 DEF CallbackSettles, Reply
  <2>2. \A i \in DOMAIN pendingPermissions : pendingPermissions[i] # id
    BY <2>1 DEF QueueInv, InOnePlace
  <2> HIDE DEF v
  <2> QED BY <1>2, <1>3, <1>4, <2>1, <2>2, VerdictAdded
<1> QED BY <1>1, <1>5, <1>6, <1>7

LEMMA AskerStep ==
    ASSUME QueueInv, QueueInv', AskerInv,
           AskStep \/ AnswerStep \/ CallbackStep \/ RespawnStep \/ SwapStep \/ PermissionsStill
    PROVE  AskerInv'
<1>1. child \in Nat /\ child' \in Nat /\ profile' = profile
  BY DEF AskerInv, AskStep, AnswerStep, CallbackStep, RespawnStep, SwapStep, PermissionsStill
<1>2. Uncalled' => Uncalled
  BY DEF Uncalled, AskStep, Ingest, AnswerStep, Respond, CallbackSettles, CallbackStep,
     RespawnStep, ClearQueue, SwapStep, PermissionsStill, permVars
<1> SUFFICES ASSUME Uncalled'
             PROVE  /\ deciding' = {}
                    /\ \A i \in DOMAIN pendingPermissions' : pendingPermissions'[i] \notin late' =>
                         ~swapping' /\ askedBy'[pendingPermissions'[i]] = child'
                    /\ \A i \in DOMAIN verdicts' : verdicts'[i].id \notin late' =>
                         verdicts'[i].to = askedBy'[verdicts'[i].id]
  BY <1>1 DEF AskerInv
<1>3. /\ deciding = {}
      /\ \A i \in DOMAIN pendingPermissions : pendingPermissions[i] \notin late =>
           ~swapping /\ askedBy[pendingPermissions[i]] = child
      /\ \A i \in DOMAIN verdicts : verdicts[i].id \notin late =>
           verdicts[i].to = askedBy[verdicts[i].id]
  BY <1>2 DEF AskerInv
<1>4. CASE AskStep
  <2> DEFINE id == Len(askedBy) + 1
  <2>1. /\ askedBy' = Append(askedBy, child) /\ verdicts' = verdicts
        /\ deciding' = deciding /\ pendingPermissions' = Append(pendingPermissions, id)
        /\ late' = (IF swapping THEN late \cup {id} ELSE late)
        /\ swapping' = swapping /\ child' = child
    BY <1>2, <1>4 DEF AskStep, Ingest, Uncalled
  <2>2. /\ askedBy \in Seq(Nat)
        /\ pendingPermissions \in Seq(DOMAIN askedBy)
        /\ verdicts \in Seq([id : DOMAIN askedBy, behavior : Behaviors, to : Nat])
    BY DEF QueueInv, QueueTyped
  <2>3. /\ \A i \in DOMAIN askedBy : askedBy'[i] = askedBy[i] /\ i # id
        /\ askedBy'[id] = child
    <3>1. /\ \A i \in DOMAIN askedBy : askedBy'[i] = askedBy[i] /\ i < id /\ i \in Nat
          /\ askedBy'[id] = child /\ id \in Nat
      BY <1>1, <2>1, <2>2, Appended
    <3>2. \A i \in Nat : i < id => i # id
      BY <3>1
    <3> QED BY <3>1, <3>2
  <2> HIDE DEF id
  <2>4. \A i \in DOMAIN pendingPermissions : pendingPermissions[i] \in DOMAIN askedBy
    BY <2>2, Elements
  <2>5. \A i \in DOMAIN verdicts : verdicts[i].id \in DOMAIN askedBy
    <3>1. \A i \in DOMAIN verdicts :
            verdicts[i] \in [id : DOMAIN askedBy, behavior : Behaviors, to : Nat]
      BY <2>2, Elements
    <3> QED BY <3>1
  <2>6. \A i \in DOMAIN pendingPermissions' :
          \/ i \in DOMAIN pendingPermissions /\ pendingPermissions'[i] = pendingPermissions[i]
          \/ pendingPermissions'[i] = id
    <3>1. pendingPermissions' \in Seq(DOMAIN askedBy')
      BY DEF QueueInv, QueueTyped
    <3>2. pendingPermissions \in Seq(DOMAIN askedBy \cup {id})
      <4>1. DOMAIN askedBy \subseteq DOMAIN askedBy \cup {id}
        OBVIOUS
      <4> QED BY <2>2, <4>1, SeqMonotonic
    <3>3. id \in DOMAIN askedBy \cup {id}
      OBVIOUS
    <3> QED BY <2>1, <3>2, <3>3, Appended
  <2>7. ASSUME NEW i \in DOMAIN pendingPermissions', pendingPermissions'[i] \notin late'
        PROVE  ~swapping' /\ askedBy'[pendingPermissions'[i]] = child'
    <3>1. CASE i \in DOMAIN pendingPermissions /\ pendingPermissions'[i] = pendingPermissions[i]
      <4>1. pendingPermissions[i] \notin late
        BY <2>1, <2>7, <3>1
      <4> QED BY <1>3, <2>1, <2>3, <2>4, <3>1, <4>1
    <3>2. CASE pendingPermissions'[i] = id
      BY <2>1, <2>3, <2>7, <3>2
    <3> QED BY <2>6, <3>1, <3>2
  <2>8. ASSUME NEW i \in DOMAIN verdicts', verdicts'[i].id \notin late'
        PROVE  verdicts'[i].to = askedBy'[verdicts'[i].id]
    <3>1. verdicts[i].id \notin late
      BY <2>1, <2>8
    <3> QED BY <1>3, <2>1, <2>3, <2>5, <3>1
  <2> QED BY <1>3, <2>1, <2>7, <2>8
<1>5. CASE AnswerStep
  <2>1. PICK id \in DOMAIN askedBy, b \in Behaviors : Respond(id, b, Reader)
    BY <1>3, <1>5 DEF AnswerStep, CallbackSettles
  <2>2. UNCHANGED <<deciding, askedBy, child, swapping, late>>
    BY <1>5, <2>1 DEF AnswerStep, Respond
  <2>3. CASE id \notin ToSet(pendingPermissions)
    <3>1. UNCHANGED <<pendingPermissions, verdicts>>
      BY <2>1, <2>3 DEF Respond
    <3> QED BY <1>3, <2>2, <3>1
  <2>4. CASE id \in ToSet(pendingPermissions)
    <3> DEFINE I == {i \in DOMAIN pendingPermissions : pendingPermissions[i] # id}
               v == [id |-> id, behavior |-> b, to |-> Reader]
    <3>1. /\ pendingPermissions' = Kept(pendingPermissions, I)
          /\ verdicts' = Append(verdicts, v)
          /\ \E i \in DOMAIN pendingPermissions : pendingPermissions[i] = id
      BY <2>1, <2>4 DEF Respond, Reply, ToSet
    <3>2. v \in [id : DOMAIN askedBy, behavior : Behaviors, to : Nat]
      BY <1>1 DEF Reader
    <3>3. id \notin late => v.to = askedBy[v.id]
      BY <1>3, <3>1 DEF Reader
    <3>4. v.id = id /\ I \in SUBSET DOMAIN pendingPermissions
      OBVIOUS
    <3> HIDE DEF I, v
    <3>5. /\ pendingPermissions \in Seq(DOMAIN askedBy)
          /\ verdicts \in Seq([id : DOMAIN askedBy, behavior : Behaviors, to : Nat])
      BY DEF QueueInv, QueueTyped
    <3>6. \A k \in DOMAIN pendingPermissions' : \E i \in DOMAIN pendingPermissions :
            pendingPermissions'[k] = pendingPermissions[i]
      BY <3>1, <3>4, <3>5, KeptElements
    <3>7. \A i \in DOMAIN verdicts' :
            \/ i \in DOMAIN verdicts /\ verdicts'[i] = verdicts[i]
            \/ verdicts'[i] = v
      BY <3>1, <3>2, <3>5, Appended
    <3>8. \A i \in DOMAIN pendingPermissions' : pendingPermissions'[i] \notin late' =>
            ~swapping' /\ askedBy'[pendingPermissions'[i]] = child'
      BY <1>3, <2>2, <3>6
    <3>9. \A i \in DOMAIN verdicts' : verdicts'[i].id \notin late' =>
            verdicts'[i].to = askedBy'[verdicts'[i].id]
      BY <1>3, <2>2, <3>3, <3>4, <3>7
    <3> QED BY <1>3, <2>2, <3>8, <3>9
  <2> QED BY <2>3, <2>4
<1>6. CASE CallbackStep
  BY <1>2, <1>6 DEF CallbackStep, Uncalled
<1>7. CASE RespawnStep
  <2>1. /\ DOMAIN pendingPermissions' = {}
        /\ UNCHANGED <<deciding, askedBy, verdicts, late>>
    BY <1>7 DEF RespawnStep, ClearQueue
  <2> QED BY <1>3, <2>1
<1>8. CASE SwapStep
  BY <1>3, <1>8 DEF SwapStep, permVars
<1>9. CASE PermissionsStill
  BY <1>3, <1>9 DEF PermissionsStill, permVars
<1> QED BY <1>4, <1>5, <1>6, <1>7, <1>8, <1>9

(* PermissionsInv is inductive.                                            *)
LEMMA PermissionsInvHolds == Spec => []PermissionsInv
<1>1. Init => PermissionsInv
  <2> SUFFICES ASSUME Init PROVE PermissionsInv
    OBVIOUS
  <2>1. /\ askedBy = <<>> /\ pendingPermissions = <<>> /\ deciding = {} /\ verdicts = <<>>
        /\ child = 1
    BY DEF Init, PermissionsInit
  <2>2. <<>> \in Seq(Nat) /\ <<>> \in Seq({})
        /\ <<>> \in Seq([id : {}, behavior : Behaviors, to : Nat])
    OBVIOUS
  <2>3. DOMAIN askedBy = {} /\ DOMAIN pendingPermissions = {} /\ DOMAIN verdicts = {}
    BY <2>1
  <2>4. QueueTyped
    BY <2>1, <2>2, <2>3 DEF QueueTyped
  <2>5. InOnePlace
    BY <2>3 DEF InOnePlace
  <2>6. AskerInv
    BY <2>1, <2>3 DEF AskerInv
  <2> QED BY <2>4, <2>5, <2>6 DEF PermissionsInv, QueueInv
<1>2. PermissionsInv /\ [Next]_vars => PermissionsInv'
  <2> SUFFICES ASSUME PermissionsInv, [Next]_vars PROVE PermissionsInv'
    OBVIOUS
  <2>1. QueueInv /\ AskerInv /\ child \in Nat /\ deciding \subseteq DOMAIN askedBy
    BY DEF PermissionsInv, QueueInv, QueueTyped, AskerInv
  <2>2. AskStep \/ AnswerStep \/ CallbackStep \/ RespawnStep \/ SwapStep \/ PermissionsStill
    BY <2>1, PermissionsStep
  <2>7. QueueInv'
    <3>1. CASE AskStep
      BY <2>1, <3>1, QueueAsked
    <3>2. CASE AnswerStep
      BY <2>1, <3>2, QueueAnswered
    <3>3. CASE CallbackStep \/ SwapStep \/ PermissionsStill
      <4>1. UNCHANGED <<askedBy, pendingPermissions, deciding, verdicts>>
        BY <3>3 DEF CallbackStep, SetPermissionCallback, SwapStep, PermissionsStill, permVars
      <4> QED BY <2>1, <4>1 DEF QueueInv, QueueTyped, InOnePlace
    <3>4. CASE RespawnStep
      <4>1. /\ pendingPermissions' = <<>>
            /\ UNCHANGED <<askedBy, deciding, verdicts>>
        BY <3>4 DEF RespawnStep, ClearQueue
      <4>2. <<>> \in Seq(DOMAIN askedBy) /\ DOMAIN pendingPermissions' = {}
        BY <4>1
      <4> QED BY <2>1, <4>1, <4>2 DEF QueueInv, QueueTyped, InOnePlace
    <3> QED BY <2>2, <3>1, <3>2, <3>3, <3>4
  <2> QED BY <2>1, <2>2, <2>7, AskerStep DEF PermissionsInv
<1> QED BY <1>1, <1>2, PTL DEF Spec

(* PermissionsSafe of ClientState: a request is answered at most once, and *)
(* its verdict is read by the child that asked (permissions.ts, and the    *)
(* clearQueue of a respawn).                                               *)
THEOREM PermissionsAreSafe == Spec => []PermissionsSafe
<1>1. PermissionsInv => PermissionsSafe
  <2> SUFFICES ASSUME PermissionsInv PROVE PermissionsSafe
    OBVIOUS
  <2>1. VerdictOnce
    BY DEF PermissionsInv, QueueInv, InOnePlace, VerdictOnce, ToSet
  <2>2. VerdictReachesAsker
    BY DEF PermissionsInv, AskerInv, Uncalled, VerdictReachesAsker
  <2> QED BY <2>1, <2>2 DEF PermissionsSafe
<1> QED BY <1>1, PermissionsInvHolds, PTL

-----------------------------------------------------------------------------
(* Shell                                                                   *)

ShellTyped == ShellTypeOK /\ commands \in Seq(Commands) /\ nextCommands \in Seq(Commands)

(* Commands pass through the capture queue, the kept exchanges and the     *)
(* messages sent in the order they were issued.                            *)
CaptureInOrder ==
  \A i, j \in DOMAIN captureQueue :
    i < j => captureQueue[i].entryId < captureQueue[j].entryId
KeptInOrder ==
  /\ \A i, j \in DOMAIN pendingBashExchanges :
       i < j => pendingBashExchanges[i].entryId < pendingBashExchanges[j].entryId
  /\ \A i \in DOMAIN pendingBashExchanges, j \in DOMAIN captureQueue :
       pendingBashExchanges[i].entryId < captureQueue[j].entryId
SentInOrder ==
  \A i \in DOMAIN userSends, j \in DOMAIN captureQueue :
    \A k \in DOMAIN userSends[i].exchanges :
      userSends[i].exchanges[k].entryId < captureQueue[j].entryId
ShellOrder == CaptureInOrder /\ KeptInOrder /\ SentInOrder /\ ExchangeOnce

(* The capture queue is what the child that reads it has not finished.     *)
Reads == IF swapping THEN nextCommands ELSE commands
Aligned ==
  /\ ~swapping => nextCommands = <<>>
  /\ ~disturbed => /\ swapping => commands = <<>>
                   /\ Len(captureQueue) = Len(Reads)
                   /\ \A i \in DOMAIN captureQueue : captureQueue[i].entryId = Reads[i]

ShellInv == /\ ShellTyped /\ swapping \in BOOLEAN /\ disturbed \in BOOLEAN
            /\ ShellOrder /\ Aligned /\ OwnOutput

(* What a step may do to the shell.                                        *)
CommandStep ==
  /\ \E s \in ShellSource, g \in BOOLEAN, lost \in BOOLEAN : BashCommand(s, g, lost)
EchoStep == InputEcho /\ UNCHANGED <<commands, nextCommands, swapping, disturbed>>
ChunkStep ==
  /\ commands # <<>> /\ OutputChunk(Head(commands))
  /\ UNCHANGED <<commands, nextCommands, swapping, disturbed>>
CloseStep ==
  /\ commands # <<>> /\ commands' = Tail(commands)
  /\ OutputReplay(Head(commands))
  /\ UNCHANGED <<nextCommands, swapping, disturbed>>
MissedStep ==
  /\ commands # <<>> /\ captureQueue = <<>>
  /\ commands' = Tail(commands)
  /\ UNCHANGED <<shellVars, nextCommands, swapping, disturbed>>
MessageStep ==
  /\ DrainForUser \/ \E i \in DOMAIN shellEntries : Dismiss(shellEntries[i].id)
  /\ UNCHANGED <<commands, nextCommands, swapping, disturbed>>
ShellRespawn ==
  /\ ~swapping /\ swapping' = TRUE
  /\ disturbed' = (disturbed \/ captureQueue # <<>> \/ commands # <<>>)
  /\ ShellReset \/ UNCHANGED shellVars
  /\ UNCHANGED <<commands, nextCommands>>
ShellSwap ==
  /\ swapping /\ swapping' = FALSE
  /\ commands' = nextCommands /\ nextCommands' = <<>>
  /\ UNCHANGED <<shellVars, disturbed>>
ShellStill == UNCHANGED <<shellVars, commands, nextCommands, swapping, disturbed>>

(* Only a user frame that replays a command's output closes it.            *)
LEMMA ClosingFrames ==
    ASSUME NEW f \in InboundFrame, ClosesCommand(f)
    PROVE  f \in UserFrame /\ f.isReplay /\ f.bash # {}
<1>1. f.type = "user" /\ f.isReplay /\ f.bash # {}
  BY DEF ClosesCommand, BashKind, isUserFrame, parseBashFrame
<1>2. f \in AssistantFrame => f.type = "assistant"
  BY DEF AssistantFrame
<1>3. f \in ResultFrame => f.type = "result"
  BY DEF ResultFrame
<1>4. f \in StreamEventFrame => f.type = "stream_event"
  BY DEF StreamEventFrame
<1>5. f \in ControlRequestFrame \cup ControlResponseFrame \cup RateLimitEventFrame =>
        f.type \in {"control_request", "control_response", "rate_limit_event"}
  BY DEF ControlRequestFrame, ControlResponseFrame, RateLimitEventFrame
<1>6. f \in SystemFrame => f.type = "system"
  BY DEF SystemFrame, SystemInit, SystemStatus, SystemSessionStateChanged, SystemTaskStarted,
     SystemTaskProgress, SystemTaskNotification, SystemTaskUpdated, SystemHook,
     SystemLocalCommandOutput, SystemCompactBoundary
<1>7. f \in UserFrame
  BY <1>1, <1>2, <1>3, <1>4, <1>5, <1>6 DEF InboundFrame
<1> QED BY <1>1, <1>7

(* Every step is one of these.                                             *)
LEMMA ShellStep ==
    ASSUME [Next]_vars
    PROVE  \/ CommandStep \/ EchoStep \/ ChunkStep \/ CloseStep \/ MissedStep \/ MessageStep
           \/ ShellRespawn \/ ShellSwap \/ ShellStill
<1>1. ASSUME NEW f \in InboundFrame, Receive(f)
      PROVE  EchoStep \/ ChunkStep \/ CloseStep \/ MissedStep \/ ShellStill
  <2>1. CASE OnInit(f) \/ OnSessionState(f) \/ OnHook(f) \/ OnTask(f)
    BY <2>1 DEF OnInit, OnSessionState, OnHook, OnTask, ShellStill, lifeVars,
       aggregatorVars, binaryVars
  <2>2. CASE OnOtherSystem(f) \/ OnOtherControl(f) \/ OnCanUseTool(f)
    BY <2>2 DEF OnOtherSystem, OnOtherControl, OnCanUseTool,
       ShellStill, lifeVars, aggregatorVars, binaryVars, vars
  <2>3. CASE OnLocalCommandOutput(f)
    BY <2>3 DEF OnLocalCommandOutput, ChunkStep, ShellStill, lifeVars, binaryVars
  <2>4. CASE Emits(f) /\ OnMain(f)
    <3>1. /\ HandleShellReplay(f, Head(commands))
          /\ commands' = IF ClosesCommand(f) THEN Tail(commands) ELSE commands
          /\ UNCHANGED <<nextCommands, swapping, disturbed>>
      BY <2>4 DEF Emits, OnMain, lifeVars
    <3>2. CASE ClosesCommand(f)
      <4>1. commands # <<>>
        BY <2>4, <3>2, ClosingFrames DEF Emits
      <4>2. BashKind(f) # "input"
        BY <3>2 DEF ClosesCommand
      <4>3. captureQueue # <<>> => OutputReplay(Head(commands))
        BY <3>1, <3>2, <4>2 DEF HandleShellReplay
      <4>4. captureQueue = <<>> => UNCHANGED shellVars
        BY <3>1, <3>2, <4>2 DEF HandleShellReplay
      <4> QED BY <3>1, <3>2, <4>1, <4>3, <4>4 DEF CloseStep, MissedStep
    <3>3. CASE ~ClosesCommand(f)
      <4>1. InputEcho \/ UNCHANGED shellVars
        BY <3>1, <3>3 DEF HandleShellReplay
      <4> QED BY <3>1, <3>3, <4>1 DEF EchoStep, ShellStill
    <3> QED BY <3>2, <3>3
  <2> QED BY <1>1, <2>1, <2>2, <2>3, <2>4 DEF Receive
<1>2. CASE HydrateMessages \/ MarkEnded \/ Tick
  BY <1>2 DEF HydrateMessages, MarkEnded, Tick, ShellStill, lifeVars, aggregatorVars, binaryVars
<1>3. CASE SendUserMessage \/ DismissShellEntry
  BY <1>3 DEF SendUserMessage, DismissShellEntry, MessageStep, lifeVars, binaryVars
<1>4. ASSUME NEW s \in ShellSource, NEW g \in BOOLEAN, NEW lost \in BOOLEAN,
             BashCommand(s, g, lost)
      PROVE  CommandStep
  BY <1>4 DEF CommandStep
<1>5. CASE RespondToPermission \/ CallbackDone \/ ChangeCallback
  BY <1>5 DEF RespondToPermission, CallbackDone, ChangeCallback, ShellStill, lifeVars, binaryVars
<1>6. ASSUME NEW reset \in BOOLEAN, Respawn(reset) PROVE ShellRespawn
  BY <1>6 DEF Respawn, ShellRespawn, binaryVars
<1>7. CASE Swap
  BY <1>7 DEF Swap, ShellSwap, aggregatorVars
<1>8. CASE UNCHANGED vars
  BY <1>8 DEF vars, ShellStill, lifeVars, aggregatorVars, binaryVars
<1> QED BY <1>1, <1>2, <1>3, <1>4, <1>5, <1>6, <1>7, <1>8 DEF Next

SentMessage == [exchanges : Seq(Exchange), followUpOf : 0 .. issued]

LEMMA SameCommands ==
    ASSUME issued' = issued
    PROVE  /\ Commands' = Commands /\ ShellEntry' = ShellEntry /\ Capture' = Capture
           /\ Exchange' = Exchange /\ SentMessage' = SentMessage
BY DEF Commands, ShellEntry, Capture, Exchange, SentMessage

LEMMA MoreCommands ==
    ASSUME issued \in Nat, issued' = issued + 1
    PROVE  /\ Commands \subseteq Commands' /\ issued + 1 \in Commands'
           /\ ShellEntry \subseteq ShellEntry' /\ Capture \subseteq Capture'
           /\ Exchange \subseteq Exchange' /\ SentMessage \subseteq SentMessage'
<1>1. Commands \subseteq Commands' /\ issued + 1 \in Commands' /\ 0 .. issued \subseteq 0 .. issued'
  BY DEF Commands
<1>2. Seq(Commands) \subseteq Seq(Commands')
  BY <1>1, SeqMonotonic
<1>3. ShellEntry \subseteq ShellEntry' /\ Capture \subseteq Capture'
  BY <1>1, <1>2 DEF ShellEntry, Capture
<1>4. Exchange \subseteq Exchange'
  BY <1>1 DEF Exchange
<1>5. Seq(Exchange) \subseteq Seq(Exchange')
  BY <1>4, SeqMonotonic
<1>6. SentMessage \subseteq SentMessage'
  BY <1>1, <1>5 DEF SentMessage
<1> QED BY <1>1, <1>3, <1>4, <1>6

Owned(list) ==
  \A i \in DOMAIN list : \A k \in DOMAIN list[i].chunks : list[i].chunks[k] = list[i].id

(* A chunk of output joins the entry it is for.                            *)
LEMMA ChunkEffect ==
    ASSUME shellEntries \in Seq(ShellEntry), NEW id, NEW o \in Commands
    PROVE  /\ WithChunk(id, o) \in Seq(ShellEntry)
           /\ o = id /\ Owned(shellEntries) => Owned(WithChunk(id, o))
<1> DEFINE r == WithChunk(id, o)
<1>1. /\ DOMAIN r = DOMAIN shellEntries
      /\ \A i \in DOMAIN shellEntries :
           r[i] = IF shellEntries[i].id = id
                  THEN [shellEntries[i] EXCEPT !.chunks = Append(@, o)] ELSE shellEntries[i]
  BY DEF WithChunk
<1> HIDE DEF r
<1>2. ASSUME NEW i \in DOMAIN shellEntries
      PROVE  /\ r[i] \in ShellEntry /\ r[i].id = shellEntries[i].id
             /\ o = id /\ Owned(shellEntries) =>
                  \A k \in DOMAIN r[i].chunks : r[i].chunks[k] = r[i].id
  <2>1. shellEntries[i] \in ShellEntry
    BY Elements
  <2>2. CASE shellEntries[i].id # id
    <3>1. r[i] = shellEntries[i]
      BY <1>1, <2>2
    <3> QED BY <2>1, <3>1 DEF Owned
  <2>3. CASE shellEntries[i].id = id
    <3> DEFINE c == shellEntries[i].chunks
    <3>1. c \in Seq(Commands)
      BY <2>1 DEF ShellEntry
    <3>2. r[i] = [shellEntries[i] EXCEPT !.chunks = Append(c, o)]
      BY <1>1, <2>3
    <3> HIDE DEF c
    <3>3. /\ Append(c, o) \in Seq(Commands)
          /\ \A k \in DOMAIN Append(c, o) :
               (k \in DOMAIN c /\ Append(c, o)[k] = c[k]) \/ Append(c, o)[k] = o
      BY <3>1, Appended
    <3>4. r[i] \in ShellEntry /\ r[i].id = id /\ r[i].chunks = Append(c, o)
      BY <2>1, <2>3, <3>2, <3>3 DEF ShellEntry
    <3>5. Owned(shellEntries) => \A k \in DOMAIN c : c[k] = id
      BY <2>3 DEF Owned, c
    <3> QED BY <2>3, <3>3, <3>4, <3>5
  <2> QED BY <2>2, <2>3
<1>3. r \in Seq(ShellEntry)
  <2>1. Len(shellEntries) \in Nat /\ DOMAIN shellEntries = 1 .. Len(shellEntries)
    BY Elements
  <2>2. r = [i \in 1 .. Len(shellEntries) |-> r[i]]
    BY <1>1, <2>1 DEF r, WithChunk
  <2> QED BY <1>2, <2>1, <2>2, IsASeq
<1>4. o = id /\ Owned(shellEntries) => Owned(r)
  BY <1>1, <1>2 DEF Owned
<1> QED BY <1>3, <1>4 DEF r

(* The head of a queue, and what is left.                                  *)
LEMMA HeadAndTail ==
    ASSUME NEW T, NEW q \in Seq(T), q # <<>>
    PROVE  /\ 1 \in DOMAIN q /\ Head(q) = q[1] /\ q[1] \in T
           /\ Tail(q) \in Seq(T) /\ Len(Tail(q)) = Len(q) - 1 /\ Len(q) \in Nat
           /\ \A i \in DOMAIN Tail(q) : /\ i \in Nat /\ i + 1 \in DOMAIN q
                                        /\ 1 < i + 1 /\ Tail(q)[i] = q[i + 1]
OBVIOUS

LEMMA DrainEffect ==
    ASSUME NEW entries \in Seq(ShellEntry), NEW exchanges \in Seq(Exchange),
           NEW x \in 0 .. issued, userSends \in Seq(SentMessage),
           Drain(entries, exchanges, x)
    PROVE  /\ shellEntries' \in Seq(ShellEntry)
           /\ Owned(entries) => Owned(shellEntries')
           /\ [exchanges |-> exchanges, followUpOf |-> x] \in SentMessage
           /\ userSends' = Append(userSends, [exchanges |-> exchanges, followUpOf |-> x])
           /\ userSends' \in Seq(SentMessage)
           /\ pendingBashExchanges' = <<>>
<1> DEFINE I == {i \in DOMAIN entries :
                   \A k \in DOMAIN exchanges : exchanges[k].entryId # entries[i].id}
           m == [exchanges |-> exchanges, followUpOf |-> x]
<1>1. /\ userSends' = Append(userSends, m) /\ shellEntries' = Kept(entries, I)
      /\ pendingBashExchanges' = <<>>
  BY DEF Drain
<1>2. I \in SUBSET DOMAIN entries /\ m \in SentMessage
  BY DEF SentMessage
<1> HIDE DEF I, m
<1>3. /\ shellEntries' \in Seq(ShellEntry)
      /\ \A k \in DOMAIN shellEntries' : \E i \in DOMAIN entries : shellEntries'[k] = entries[i]
  BY <1>1, <1>2, KeptElements
<1>4. userSends' \in Seq(SentMessage)
  BY <1>1, <1>2, Appended
<1>5. Owned(entries) => Owned(shellEntries')
  BY <1>3 DEF Owned
<1> QED BY <1>1, <1>2, <1>3, <1>4, <1>5 DEF m

(* An output closes the oldest command: it is kept or sent, or dropped.    *)
Closed(cap, o) ==
  LET exchange == [entryId |-> cap.entryId, output |-> o]
  IN  \/ /\ shellEntries' = WithChunk(cap.entryId, o)
         /\ pendingBashExchanges' \in {pendingBashExchanges,
                                       Append(pendingBashExchanges, exchange)}
         /\ UNCHANGED <<pendingFollowUps, userSends>>
      \/ /\ Drain(WithChunk(cap.entryId, o), Append(pendingBashExchanges, exchange), cap.entryId)
         /\ pendingFollowUps' = pendingFollowUps \ {cap.entryId}

LEMMA CloseEffect ==
    ASSUME ShellTyped, CloseStep
    PROVE  /\ captureQueue # <<>> /\ commands # <<>>
           /\ captureQueue' = Tail(captureQueue) /\ commands' = Tail(commands)
           /\ issued' = issued
           /\ captureQueue[1] \in Capture /\ commands[1] \in Commands
           /\ Closed(captureQueue[1], commands[1])
<1> DEFINE cap == captureQueue[1]
           o == commands[1]
<1>1. /\ captureQueue # <<>> /\ commands # <<>>
      /\ captureQueue' = Tail(captureQueue) /\ commands' = Tail(commands)
      /\ issued' = issued
  BY DEF CloseStep, OutputReplay
<1>2. /\ Head(captureQueue) = cap /\ cap \in Capture /\ Head(commands) = o /\ o \in Commands
  BY <1>1, HeadAndTail DEF ShellTyped, ShellTypeOK
<1>3. cap.source \in {"context", "sideChannel"}
  BY <1>2 DEF Capture, ShellSource
<1>4. Closed(cap, o)
  <2> HIDE DEF cap, o
  <2> DEFINE entries == WithChunk(cap.entryId, o)
             exchange == [entryId |-> cap.entryId, output |-> o]
             exchanges == Append(pendingBashExchanges, exchange)
  <2>1. CASE cap.source = "sideChannel"
    <3>1. shellEntries' = entries /\ UNCHANGED <<pendingBashExchanges, pendingFollowUps, userSends>>
      BY <1>2, <2>1 DEF CloseStep, OutputReplay
    <3> QED BY <3>1 DEF Closed
  <2>2. CASE cap.source = "context" /\ cap.entryId \notin pendingFollowUps
    <3>1. /\ shellEntries' = entries /\ pendingBashExchanges' = exchanges
          /\ UNCHANGED <<pendingFollowUps, userSends>>
      BY <1>2, <2>2 DEF CloseStep, OutputReplay
    <3> QED BY <3>1 DEF Closed
  <2>3. CASE cap.source = "context" /\ cap.entryId \in pendingFollowUps
    <3>1. /\ Drain(entries, exchanges, cap.entryId)
          /\ pendingFollowUps' = pendingFollowUps \ {cap.entryId}
      BY <1>2, <2>3 DEF CloseStep, OutputReplay
    <3> QED BY <3>1 DEF Closed
  <2> QED BY <1>3, <2>1, <2>2, <2>3
<1> QED BY <1>1, <1>2, <1>4

LEMMA ShellTypedStep ==
    ASSUME ShellTyped,
           \/ CommandStep \/ EchoStep \/ ChunkStep \/ CloseStep \/ MissedStep \/ MessageStep
           \/ ShellRespawn \/ ShellSwap \/ ShellStill
    PROVE  ShellTyped'
<1>0. /\ issued \in Nat /\ shellEntries \in Seq(ShellEntry) /\ captureQueue \in Seq(Capture)
      /\ pendingBashExchanges \in Seq(Exchange) /\ pendingFollowUps \subseteq Commands
      /\ userSends \in Seq(SentMessage)
      /\ commands \in Seq(Commands) /\ nextCommands \in Seq(Commands)
  BY DEF ShellTyped, ShellTypeOK, SentMessage
<1> DEFINE T == /\ shellEntries' \in Seq(ShellEntry) /\ captureQueue' \in Seq(Capture)
                /\ pendingBashExchanges' \in Seq(Exchange) /\ pendingFollowUps' \subseteq Commands
                /\ userSends' \in Seq(SentMessage)
                /\ commands' \in Seq(Commands) /\ nextCommands' \in Seq(Commands)
<1>a. ASSUME issued' = issued, T PROVE ShellTyped'
  BY <1>0, <1>a, SameCommands DEF ShellTyped, ShellTypeOK, SentMessage
<1>1. ASSUME NEW s \in ShellSource, NEW g \in BOOLEAN, NEW lost \in BOOLEAN,
             BashCommand(s, g, lost)
      PROVE  ShellTyped'
  <2> DEFINE id == issued + 1
             entry == [id |-> id, source |-> s, chunks |-> <<>>]
             capture == [entryId |-> id, source |-> s, sawInputEcho |-> FALSE]
  <2>1. /\ issued' = id /\ shellEntries' = Append(shellEntries, entry)
        /\ captureQueue' = Append(captureQueue, capture)
        /\ pendingFollowUps' \subseteq pendingFollowUps \cup {id}
        /\ UNCHANGED <<pendingBashExchanges, userSends>>
    BY <1>1 DEF BashCommand, SendCommand
  <2>2. /\ commands' \in {commands, Append(commands, id)}
        /\ nextCommands' \in {nextCommands, Append(nextCommands, id)}
    BY <1>1 DEF BashCommand
  <2>3. /\ Commands \subseteq Commands' /\ id \in Commands'
        /\ ShellEntry \subseteq ShellEntry' /\ Capture \subseteq Capture'
        /\ Exchange \subseteq Exchange' /\ SentMessage \subseteq SentMessage'
    BY <1>0, <2>1, MoreCommands
  <2>4. entry \in ShellEntry' /\ capture \in Capture'
    <3>1. <<>> \in Seq(Commands')
      OBVIOUS
    <3> QED BY <2>3, <3>1 DEF ShellEntry, Capture
  <2> HIDE DEF id, entry, capture
  <2>5. /\ shellEntries \in Seq(ShellEntry') /\ captureQueue \in Seq(Capture')
        /\ pendingBashExchanges \in Seq(Exchange') /\ userSends \in Seq(SentMessage')
        /\ commands \in Seq(Commands') /\ nextCommands \in Seq(Commands')
    BY <1>0, <2>3, SeqMonotonic
  <2>6. /\ Append(shellEntries, entry) \in Seq(ShellEntry')
        /\ Append(captureQueue, capture) \in Seq(Capture')
        /\ Append(commands, id) \in Seq(Commands')
        /\ Append(nextCommands, id) \in Seq(Commands')
    BY <2>3, <2>4, <2>5, Appended
  <2>7. issued' \in Nat
    BY <1>0, <2>1 DEF id
  <2>8. pendingFollowUps' \subseteq Commands'
    BY <1>0, <2>1, <2>3
  <2> QED BY <2>1, <2>2, <2>5, <2>6, <2>7, <2>8 DEF ShellTyped, ShellTypeOK, SentMessage
<1>2. CASE EchoStep
  <2>1. UNCHANGED <<shellEntries, pendingBashExchanges, pendingFollowUps, issued, userSends,
                    commands, nextCommands>>
    BY <1>2 DEF EchoStep, InputEcho
  <2>2. captureQueue' \in Seq(Capture)
    <3>1. CASE captureQueue = <<>>
      BY <1>0, <1>2, <3>1 DEF EchoStep, InputEcho
    <3>2. CASE captureQueue # <<>>
      <4> DEFINE c == [captureQueue[1] EXCEPT !.sawInputEcho = TRUE]
      <4>1. captureQueue' = [captureQueue EXCEPT ![1] = c]
        BY <1>2, <3>2 DEF EchoStep, InputEcho
      <4>2. captureQueue[1] \in Capture /\ 1 \in 1 .. Len(captureQueue)
        BY <1>0, <3>2, HeadAndTail
      <4>3. c \in Capture
        BY <4>2 DEF Capture
      <4> HIDE DEF c
      <4> QED BY <1>0, <4>1, <4>2, <4>3, ExceptSeq
    <3> QED BY <3>1, <3>2
  <2> QED BY <1>0, <1>a, <2>1, <2>2
<1>3. CASE ChunkStep
  <2>1. /\ shellEntries' = WithChunk(Head(captureQueue).entryId, Head(commands))
        /\ commands # <<>>
        /\ UNCHANGED <<captureQueue, pendingBashExchanges, pendingFollowUps, issued, userSends,
                       commands, nextCommands>>
    BY <1>3 DEF ChunkStep, OutputChunk
  <2>2. Head(commands) \in Commands
    BY <1>0, <2>1, HeadAndTail
  <2>3. shellEntries' \in Seq(ShellEntry)
    BY <1>0, <2>1, <2>2, ChunkEffect
  <2> QED BY <1>0, <1>a, <2>1, <2>3
<1>4. CASE CloseStep
  <2> DEFINE cap == captureQueue[1]
             o == commands[1]
             exchange == [entryId |-> cap.entryId, output |-> o]
  <2>1. /\ captureQueue # <<>> /\ commands # <<>>
        /\ captureQueue' = Tail(captureQueue) /\ commands' = Tail(commands)
        /\ issued' = issued /\ cap \in Capture /\ o \in Commands /\ Closed(cap, o)
    BY <1>4, CloseEffect
  <2>2. captureQueue' \in Seq(Capture) /\ commands' \in Seq(Commands)
    BY <1>0, <2>1, HeadAndTail
  <2>3. nextCommands' = nextCommands
    BY <1>4 DEF CloseStep
  <2> HIDE DEF cap, o
  <2>4. cap.entryId \in 0 .. issued /\ exchange \in Exchange
    BY <1>0, <2>1 DEF Capture, Exchange, Commands
  <2>5. WithChunk(cap.entryId, o) \in Seq(ShellEntry)
    BY <1>0, <2>1, ChunkEffect
  <2>6. Append(pendingBashExchanges, exchange) \in Seq(Exchange)
    BY <1>0, <2>4, Appended
  <2> HIDE DEF exchange
  <2>7. CASE /\ shellEntries' = WithChunk(cap.entryId, o)
             /\ pendingBashExchanges' \in {pendingBashExchanges,
                                           Append(pendingBashExchanges, exchange)}
             /\ UNCHANGED <<pendingFollowUps, userSends>>
    BY <1>0, <1>a, <2>1, <2>2, <2>3, <2>5, <2>6, <2>7
  <2>8. CASE /\ Drain(WithChunk(cap.entryId, o), Append(pendingBashExchanges, exchange),
                      cap.entryId)
             /\ pendingFollowUps' = pendingFollowUps \ {cap.entryId}
    <3>1. /\ shellEntries' \in Seq(ShellEntry) /\ userSends' \in Seq(SentMessage)
          /\ pendingBashExchanges' = <<>>
      BY <1>0, <2>4, <2>5, <2>6, <2>8, DrainEffect
    <3>2. <<>> \in Seq(Exchange)
      OBVIOUS
    <3> QED BY <1>0, <1>a, <2>1, <2>2, <2>3, <2>8, <3>1, <3>2
  <2> QED BY <2>1, <2>7, <2>8 DEF Closed, exchange
<1>5. CASE MissedStep
  <2>1. /\ UNCHANGED <<shellEntries, captureQueue, pendingBashExchanges, pendingFollowUps,
                       issued, userSends, nextCommands>>
        /\ commands # <<>> /\ commands' = Tail(commands)
    BY <1>5 DEF MissedStep, shellVars
  <2>2. commands' \in Seq(Commands)
    BY <1>0, <2>1, HeadAndTail
  <2> QED BY <1>0, <1>a, <2>1, <2>2
<1>6. CASE MessageStep
  <2>1. UNCHANGED <<captureQueue, pendingFollowUps, issued, commands, nextCommands>>
    BY <1>6 DEF MessageStep, DrainForUser, Dismiss
  <2>2. CASE DrainForUser
    <3>1. Drain(shellEntries, pendingBashExchanges, 0) /\ 0 \in 0 .. issued
      BY <1>0, <2>2 DEF DrainForUser
    <3>2. /\ shellEntries' \in Seq(ShellEntry) /\ userSends' \in Seq(SentMessage)
          /\ pendingBashExchanges' = <<>>
      BY <1>0, <3>1, DrainEffect
    <3>3. <<>> \in Seq(Exchange)
      OBVIOUS
    <3> QED BY <1>0, <1>a, <2>1, <3>2, <3>3
  <2>3. ASSUME NEW id, Dismiss(id) PROVE ShellTyped'
    <3> DEFINE I == {i \in DOMAIN shellEntries : shellEntries[i].id # id}
    <3>1. /\ shellEntries' = Kept(shellEntries, I) /\ I \in SUBSET DOMAIN shellEntries
          /\ UNCHANGED <<pendingBashExchanges, userSends>>
      BY <2>3 DEF Dismiss
    <3> HIDE DEF I
    <3>2. shellEntries' \in Seq(ShellEntry)
      BY <1>0, <3>1, KeptElements
    <3> QED BY <1>0, <1>a, <2>1, <3>1, <3>2
  <2> QED BY <1>6, <2>2, <2>3 DEF MessageStep
<1>7. CASE ShellRespawn
  <2>1. /\ UNCHANGED <<issued, userSends, commands, nextCommands>>
        /\ shellEntries' \in {shellEntries, <<>>} /\ captureQueue' \in {captureQueue, <<>>}
        /\ pendingBashExchanges' \in {pendingBashExchanges, <<>>}
        /\ pendingFollowUps' \in {pendingFollowUps, {}}
    BY <1>7 DEF ShellRespawn, ShellReset, shellVars
  <2>2. <<>> \in Seq(ShellEntry) /\ <<>> \in Seq(Capture) /\ <<>> \in Seq(Exchange)
    OBVIOUS
  <2> QED BY <1>0, <1>a, <2>1, <2>2
<1>8. CASE ShellSwap
  <2>1. <<>> \in Seq(Commands)
    OBVIOUS
  <2> QED BY <1>0, <1>a, <1>8, <2>1 DEF ShellSwap, shellVars
<1>9. CASE ShellStill
  BY <1>0, <1>a, <1>9 DEF ShellStill, shellVars
<1> QED BY <1>1, <1>2, <1>3, <1>4, <1>5, <1>6, <1>7, <1>8, <1>9 DEF CommandStep

(* The elements of the shell's sequences.                                  *)
LEMMA ShellElements ==
    ASSUME ShellTyped
    PROVE  /\ issued \in Nat
           /\ \A i \in DOMAIN captureQueue : captureQueue[i].entryId \in 1 .. issued
           /\ \A i \in DOMAIN pendingBashExchanges :
                pendingBashExchanges[i].entryId \in 1 .. issued
           /\ \A i \in DOMAIN userSends : /\ i \in Nat /\ userSends[i].exchanges \in Seq(Exchange)
                                          /\ userSends[i].followUpOf \in 0 .. issued
           /\ \A i \in DOMAIN userSends : \A k \in DOMAIN userSends[i].exchanges :
                k \in Nat /\ userSends[i].exchanges[k].entryId \in 1 .. issued
<1>1. /\ issued \in Nat /\ captureQueue \in Seq(Capture) /\ pendingBashExchanges \in Seq(Exchange)
      /\ userSends \in Seq(SentMessage)
  BY DEF ShellTyped, ShellTypeOK, SentMessage
<1>2. \A i \in DOMAIN captureQueue : captureQueue[i].entryId \in 1 .. issued
  <2>1. \A i \in DOMAIN captureQueue : captureQueue[i] \in Capture
    BY <1>1, Elements
  <2> QED BY <2>1 DEF Capture, Commands
<1>3. \A i \in DOMAIN pendingBashExchanges : pendingBashExchanges[i].entryId \in 1 .. issued
  <2>1. \A i \in DOMAIN pendingBashExchanges : pendingBashExchanges[i] \in Exchange
    BY <1>1, Elements
  <2> QED BY <2>1 DEF Exchange, Commands
<1>4. \A i \in DOMAIN userSends : i \in Nat /\ userSends[i] \in SentMessage
  BY <1>1, Elements
<1>5. \A i \in DOMAIN userSends : /\ userSends[i].exchanges \in Seq(Exchange)
                                  /\ userSends[i].followUpOf \in 0 .. issued
  BY <1>4 DEF SentMessage
<1>6. ASSUME NEW i \in DOMAIN userSends, NEW k \in DOMAIN userSends[i].exchanges
      PROVE  k \in Nat /\ userSends[i].exchanges[k].entryId \in 1 .. issued
  <2>1. k \in Nat /\ userSends[i].exchanges[k] \in Exchange
    BY <1>5, Elements
  <2> QED BY <2>1 DEF Exchange, Commands
<1> QED BY <1>1, <1>2, <1>3, <1>4, <1>5, <1>6

SendsOnce ==
  /\ \A i, j \in DOMAIN userSends :
       \A k \in DOMAIN userSends[i].exchanges, l \in DOMAIN userSends[j].exchanges :
         i < j \/ (i = j /\ k < l) =>
           userSends[i].exchanges[k].entryId < userSends[j].exchanges[l].entryId
  /\ \A i \in DOMAIN userSends : userSends[i].followUpOf # 0 =>
       /\ userSends[i].exchanges # <<>>
       /\ Last(userSends[i].exchanges).entryId = userSends[i].followUpOf
KeptAfterSent ==
  \A i \in DOMAIN userSends, j \in DOMAIN pendingBashExchanges :
    \A k \in DOMAIN userSends[i].exchanges :
      userSends[i].exchanges[k].entryId < pendingBashExchanges[j].entryId

LEMMA ExchangeOnceIs == ExchangeOnce <=> SendsOnce /\ KeptAfterSent
BY DEF ExchangeOnce, SendsOnce, KeptAfterSent

(* One more message is sent, with exchanges later than all sent so far.    *)
LEMMA SendAdded ==
    ASSUME ShellTyped, SendsOnce, NEW m \in SentMessage,
           userSends' = Append(userSends, m),
           \A k, l \in DOMAIN m.exchanges :
             k < l => m.exchanges[k].entryId < m.exchanges[l].entryId,
           \A i \in DOMAIN userSends : \A k \in DOMAIN userSends[i].exchanges :
             \A l \in DOMAIN m.exchanges :
               userSends[i].exchanges[k].entryId < m.exchanges[l].entryId,
           m.followUpOf # 0 => /\ m.exchanges # <<>>
                               /\ Last(m.exchanges).entryId = m.followUpOf
    PROVE  SendsOnce'
<1>1. /\ Len(userSends) \in Nat
      /\ \A i \in DOMAIN userSends : i \in Nat /\ i < Len(userSends) + 1
      /\ \A i \in DOMAIN userSends' :
           \/ i \in DOMAIN userSends /\ userSends'[i] = userSends[i]
           \/ i = Len(userSends) + 1 /\ userSends'[i] = m
  <2>1. userSends \in Seq(SentMessage)
    BY DEF ShellTyped, ShellTypeOK, SentMessage
  <2> QED BY <2>1, Appended
<1>2. ASSUME NEW i \in DOMAIN userSends', NEW j \in DOMAIN userSends',
             NEW k \in DOMAIN userSends'[i].exchanges, NEW l \in DOMAIN userSends'[j].exchanges,
             i < j \/ (i = j /\ k < l)
      PROVE  userSends'[i].exchanges[k].entryId < userSends'[j].exchanges[l].entryId
  <2>1. CASE j \in DOMAIN userSends /\ userSends'[j] = userSends[j]
    <3>1. i \in DOMAIN userSends /\ userSends'[i] = userSends[i]
      <4>1. i # Len(userSends) + 1
        BY <1>1, <1>2, <2>1
      <4> QED BY <1>1, <4>1
    <3> QED BY <1>2, <2>1, <3>1 DEF SendsOnce
  <2>2. CASE userSends'[j] = m
    <3>1. CASE i \in DOMAIN userSends /\ userSends'[i] = userSends[i]
      BY <2>2, <3>1
    <3>2. CASE i = Len(userSends) + 1 /\ userSends'[i] = m
      <4>1. k < l
        BY <1>1, <1>2, <3>2
      <4> QED BY <2>2, <3>2, <4>1
    <3> QED BY <1>1, <3>1, <3>2
  <2> QED BY <1>1, <2>1, <2>2
<1>3. \A i \in DOMAIN userSends' : userSends'[i].followUpOf # 0 =>
        /\ userSends'[i].exchanges # <<>>
        /\ Last(userSends'[i].exchanges).entryId = userSends'[i].followUpOf
  BY <1>1 DEF SendsOnce
<1> QED BY <1>2, <1>3 DEF SendsOnce

(* The capture queue may lose its oldest commands.                         *)
Shifted(d) ==
  \A i \in DOMAIN captureQueue' :
    /\ i \in Nat /\ i + d \in DOMAIN captureQueue
    /\ captureQueue'[i].entryId = captureQueue[i + d].entryId

LEMMA CaptureShifted ==
    ASSUME NEW d \in Nat, Shifted(d), CaptureInOrder
    PROVE  CaptureInOrder'
<1>1. ASSUME NEW i \in DOMAIN captureQueue', NEW j \in DOMAIN captureQueue', i < j
      PROVE  captureQueue'[i].entryId < captureQueue'[j].entryId
  <2>1. i \in Nat /\ j \in Nat /\ i + d \in DOMAIN captureQueue /\ j + d \in DOMAIN captureQueue
    BY DEF Shifted
  <2>2. i + d < j + d
    BY <1>1, <2>1
  <2>3. captureQueue[i + d].entryId < captureQueue[j + d].entryId
    BY <2>1, <2>2 DEF CaptureInOrder
  <2> QED BY <2>3 DEF Shifted
<1> QED BY <1>1 DEF CaptureInOrder

LEMMA OrderShifted ==
    ASSUME ShellOrder, NEW d \in Nat, Shifted(d), userSends' = userSends,
           pendingBashExchanges' = pendingBashExchanges \/ DOMAIN pendingBashExchanges' = {}
    PROVE  ShellOrder'
<1>1. CaptureInOrder'
  BY CaptureShifted DEF ShellOrder
<1>2. KeptInOrder'
  <2>1. CASE DOMAIN pendingBashExchanges' = {}
    BY <2>1 DEF KeptInOrder
  <2>2. CASE pendingBashExchanges' = pendingBashExchanges
    <3>1. ASSUME NEW i \in DOMAIN pendingBashExchanges', NEW j \in DOMAIN captureQueue'
          PROVE  pendingBashExchanges'[i].entryId < captureQueue'[j].entryId
      <4>1. j + d \in DOMAIN captureQueue /\ captureQueue'[j].entryId = captureQueue[j + d].entryId
        BY DEF Shifted
      <4> QED BY <2>2, <4>1 DEF ShellOrder, KeptInOrder
    <3>2. \A i, j \in DOMAIN pendingBashExchanges' :
            i < j => pendingBashExchanges'[i].entryId < pendingBashExchanges'[j].entryId
      BY <2>2 DEF ShellOrder, KeptInOrder
    <3> QED BY <3>1, <3>2 DEF KeptInOrder
  <2> QED BY <2>1, <2>2
<1>3. SentInOrder'
  <2>1. ASSUME NEW i \in DOMAIN userSends', NEW k \in DOMAIN userSends'[i].exchanges,
               NEW j \in DOMAIN captureQueue'
        PROVE  userSends'[i].exchanges[k].entryId < captureQueue'[j].entryId
    <3>1. j + d \in DOMAIN captureQueue /\ captureQueue'[j].entryId = captureQueue[j + d].entryId
      BY DEF Shifted
    <3> QED BY <3>1 DEF ShellOrder, SentInOrder
  <2> QED BY <2>1 DEF SentInOrder
<1>4. SendsOnce' /\ KeptAfterSent'
  BY ExchangeOnceIs DEF ShellOrder, SendsOnce, KeptAfterSent
<1>5. ExchangeOnce'
  BY <1>4 DEF ExchangeOnce, SendsOnce, KeptAfterSent
<1> QED BY <1>1, <1>2, <1>3, <1>5 DEF ShellOrder

(* A message is sent with exchanges older than every capture, in order.    *)
LEMMA OrderSent ==
    ASSUME ShellTyped, ShellOrder, NEW d \in Nat, Shifted(d), NEW m \in SentMessage,
           userSends' = Append(userSends, m), DOMAIN pendingBashExchanges' = {},
           \A k, l \in DOMAIN m.exchanges :
             k < l => m.exchanges[k].entryId < m.exchanges[l].entryId,
           \A i \in DOMAIN userSends : \A k \in DOMAIN userSends[i].exchanges :
             \A l \in DOMAIN m.exchanges :
               userSends[i].exchanges[k].entryId < m.exchanges[l].entryId,
           \A l \in DOMAIN m.exchanges : \A j \in DOMAIN captureQueue' :
             m.exchanges[l].entryId < captureQueue'[j].entryId,
           m.followUpOf # 0 => /\ m.exchanges # <<>>
                               /\ Last(m.exchanges).entryId = m.followUpOf
    PROVE  ShellOrder'
<1>1. CaptureInOrder'
  BY CaptureShifted DEF ShellOrder
<1>2. KeptInOrder' /\ KeptAfterSent'
  BY DEF KeptInOrder, KeptAfterSent
<1>3. SendsOnce'
  <2>1. SendsOnce
    BY ExchangeOnceIs DEF ShellOrder
  <2> QED BY <2>1, SendAdded
<1>4. SentInOrder'
  <2>1. userSends \in Seq(SentMessage)
    BY DEF ShellTyped, ShellTypeOK, SentMessage
  <2>2. \A i \in DOMAIN userSends' : \/ i \in DOMAIN userSends /\ userSends'[i] = userSends[i]
                                     \/ userSends'[i] = m
    BY <2>1, Appended
  <2>3. ASSUME NEW i \in DOMAIN userSends', NEW k \in DOMAIN userSends'[i].exchanges,
               NEW j \in DOMAIN captureQueue'
        PROVE  userSends'[i].exchanges[k].entryId < captureQueue'[j].entryId
    <3>1. j + d \in DOMAIN captureQueue /\ captureQueue'[j].entryId = captureQueue[j + d].entryId
      BY DEF Shifted
    <3>2. CASE i \in DOMAIN userSends /\ userSends'[i] = userSends[i]
      BY <3>1, <3>2 DEF ShellOrder, SentInOrder
    <3>3. CASE userSends'[i] = m
      BY <3>3
    <3> QED BY <2>2, <3>2, <3>3
  <2> QED BY <2>3 DEF SentInOrder
<1>5. ExchangeOnce'
  BY <1>2, <1>3 DEF ExchangeOnce, SendsOnce, KeptAfterSent
<1> QED BY <1>1, <1>2, <1>4, <1>5 DEF ShellOrder

LEMMA ShellOrderStep ==
    ASSUME ShellTyped, ShellOrder,
           \/ CommandStep \/ EchoStep \/ ChunkStep \/ CloseStep \/ MissedStep \/ MessageStep
           \/ ShellRespawn \/ ShellSwap \/ ShellStill
    PROVE  ShellOrder'
<1>0. /\ issued \in Nat /\ captureQueue \in Seq(Capture)
      /\ pendingBashExchanges \in Seq(Exchange) /\ userSends \in Seq(SentMessage)
  BY DEF ShellTyped, ShellTypeOK, SentMessage
<1>e. /\ \A i \in DOMAIN captureQueue : i \in Nat /\ captureQueue[i].entryId \in 1 .. issued
      /\ \A i \in DOMAIN pendingBashExchanges :
           pendingBashExchanges[i].entryId \in 1 .. issued
      /\ \A i \in DOMAIN userSends : \A k \in DOMAIN userSends[i].exchanges :
           userSends[i].exchanges[k].entryId \in 1 .. issued
  BY <1>0, ShellElements, Elements
<1>s. ASSUME captureQueue' = captureQueue PROVE Shifted(0)
  BY <1>e, <1>s DEF Shifted
<1>1. ASSUME NEW s \in ShellSource, NEW g \in BOOLEAN, NEW lost \in BOOLEAN,
             BashCommand(s, g, lost)
      PROVE  ShellOrder'
  <2> DEFINE id == issued + 1
             capture == [entryId |-> id, source |-> s, sawInputEcho |-> FALSE]
  <2>1. /\ captureQueue' = Append(captureQueue, capture) /\ capture.entryId = id
        /\ UNCHANGED <<pendingBashExchanges, userSends>>
    BY <1>1 DEF BashCommand, SendCommand
  <2>2. \A x \in 1 .. issued : x < id
    BY <1>0
  <2>3. captureQueue \in Seq(Capture \cup {capture}) /\ capture \in Capture \cup {capture}
    <3>1. Capture \subseteq Capture \cup {capture}
      OBVIOUS
    <3> QED BY <1>0, <3>1, SeqMonotonic
  <2> HIDE DEF id, capture
  <2>4. /\ Len(captureQueue) \in Nat
        /\ \A i \in DOMAIN captureQueue : i \in Nat /\ i < Len(captureQueue) + 1
        /\ \A i \in DOMAIN captureQueue' :
             \/ i \in DOMAIN captureQueue /\ captureQueue'[i] = captureQueue[i]
             \/ i = Len(captureQueue) + 1 /\ captureQueue'[i] = capture
    BY <2>1, <2>3, Appended
  <2>5. CaptureInOrder'
    <3>1. ASSUME NEW i \in DOMAIN captureQueue', NEW j \in DOMAIN captureQueue', i < j
          PROVE  captureQueue'[i].entryId < captureQueue'[j].entryId
      <4>0. i # Len(captureQueue) + 1
        <5>1. CASE j \in DOMAIN captureQueue
          BY <2>4, <3>1, <5>1
        <5>2. CASE j = Len(captureQueue) + 1
          BY <2>4, <3>1, <5>2
        <5> QED BY <2>4, <5>1, <5>2
      <4>1. i \in DOMAIN captureQueue /\ captureQueue'[i] = captureQueue[i]
        BY <2>4, <4>0
      <4>2. CASE j \in DOMAIN captureQueue /\ captureQueue'[j] = captureQueue[j]
        BY <3>1, <4>1, <4>2 DEF ShellOrder, CaptureInOrder
      <4>3. CASE captureQueue'[j] = capture
        BY <1>e, <2>1, <2>2, <4>1, <4>3
      <4> QED BY <2>4, <4>2, <4>3
    <3> QED BY <3>1 DEF CaptureInOrder
  <2>6. KeptInOrder'
    <3>1. ASSUME NEW i \in DOMAIN pendingBashExchanges, NEW j \in DOMAIN captureQueue'
          PROVE  pendingBashExchanges[i].entryId < captureQueue'[j].entryId
      BY <1>e, <2>1, <2>2, <2>4 DEF ShellOrder, KeptInOrder
    <3> QED BY <2>1, <3>1 DEF ShellOrder, KeptInOrder
  <2>7. SentInOrder'
    <3>1. ASSUME NEW i \in DOMAIN userSends, NEW k \in DOMAIN userSends[i].exchanges,
                 NEW j \in DOMAIN captureQueue'
          PROVE  userSends[i].exchanges[k].entryId < captureQueue'[j].entryId
      BY <1>e, <2>1, <2>2, <2>4 DEF ShellOrder, SentInOrder
    <3> QED BY <2>1, <3>1 DEF SentInOrder
  <2>8. ExchangeOnce'
    BY <2>1 DEF ShellOrder, ExchangeOnce
  <2> QED BY <2>5, <2>6, <2>7, <2>8 DEF ShellOrder
<1>2. CASE EchoStep
  <2>1. UNCHANGED <<pendingBashExchanges, userSends>>
    BY <1>2 DEF EchoStep, InputEcho
  <2>2. Shifted(0)
    <3>1. CASE captureQueue = <<>>
      BY <1>2, <1>s, <3>1 DEF EchoStep, InputEcho
    <3>2. CASE captureQueue # <<>>
      <4>1. captureQueue' = [captureQueue EXCEPT ![1] = [captureQueue[1] EXCEPT !.sawInputEcho = TRUE]]
        BY <1>2, <3>2 DEF EchoStep, InputEcho
      <4>2. captureQueue[1] \in Capture /\ 1 \in DOMAIN captureQueue
        BY <1>0, <3>2, HeadAndTail
      <4>3. [captureQueue[1] EXCEPT !.sawInputEcho = TRUE].entryId = captureQueue[1].entryId
        BY <4>2 DEF Capture
      <4>4. /\ DOMAIN captureQueue' = DOMAIN captureQueue
            /\ \A i \in DOMAIN captureQueue : captureQueue'[i].entryId = captureQueue[i].entryId
        BY <4>1, <4>2, <4>3
      <4>5. \A i \in DOMAIN captureQueue : i + 0 = i
        BY <1>e
      <4> QED BY <1>e, <4>4, <4>5 DEF Shifted
    <3> QED BY <3>1, <3>2
  <2> QED BY <2>1, <2>2, OrderShifted
<1>3. CASE ChunkStep \/ MissedStep \/ ShellSwap \/ ShellStill
  <2>1. UNCHANGED <<captureQueue, pendingBashExchanges, userSends>>
    BY <1>3 DEF ChunkStep, OutputChunk, MissedStep, ShellSwap, ShellStill, shellVars
  <2> QED BY <1>s, <2>1, OrderShifted
<1>4. CASE CloseStep
  <2> DEFINE cap == captureQueue[1]
             o == commands[1]
             exchange == [entryId |-> cap.entryId, output |-> o]
             exchanges == Append(pendingBashExchanges, exchange)
  <2>1. /\ captureQueue # <<>> /\ captureQueue' = Tail(captureQueue) /\ issued' = issued
        /\ cap \in Capture /\ o \in Commands /\ Closed(cap, o)
    BY <1>4, CloseEffect
  <2>2. /\ 1 \in DOMAIN captureQueue
        /\ \A i \in DOMAIN captureQueue' : /\ i \in Nat /\ i + 1 \in DOMAIN captureQueue
                                           /\ 1 < i + 1 /\ captureQueue'[i] = captureQueue[i + 1]
    BY <1>0, <2>1, HeadAndTail
  <2>3. Shifted(1)
    BY <2>2 DEF Shifted
  <2>4. cap.entryId \in 1 .. issued /\ exchange \in Exchange /\ exchange.entryId = cap.entryId
    BY <1>e, <2>1, <2>2 DEF Exchange, Capture
  <2>5. /\ \A j \in DOMAIN captureQueue' : cap.entryId < captureQueue'[j].entryId
        /\ \A i \in DOMAIN pendingBashExchanges :
             pendingBashExchanges[i].entryId < cap.entryId
        /\ \A i \in DOMAIN userSends : \A k \in DOMAIN userSends[i].exchanges :
             userSends[i].exchanges[k].entryId < cap.entryId
    BY <2>2 DEF ShellOrder, CaptureInOrder, KeptInOrder, SentInOrder
  <2> HIDE DEF cap, o, exchange
  <2>6. /\ exchanges \in Seq(Exchange) /\ Len(pendingBashExchanges) \in Nat
        /\ Len(exchanges) = Len(pendingBashExchanges) + 1
        /\ exchanges[Len(pendingBashExchanges) + 1] = exchange
        /\ \A i \in DOMAIN pendingBashExchanges :
             i \in Nat /\ i < Len(pendingBashExchanges) + 1
        /\ \A i \in DOMAIN exchanges :
             \/ i \in DOMAIN pendingBashExchanges /\ exchanges[i] = pendingBashExchanges[i]
             \/ i = Len(pendingBashExchanges) + 1 /\ exchanges[i] = exchange
    BY <1>0, <2>4, Appended
  <2> HIDE DEF exchanges
  <2>7. ASSUME NEW k \in DOMAIN exchanges, NEW l \in DOMAIN exchanges, k < l
        PROVE  exchanges[k].entryId < exchanges[l].entryId
    <3>0. k # Len(pendingBashExchanges) + 1
      <4>1. CASE l \in DOMAIN pendingBashExchanges
        BY <2>6, <2>7, <4>1
      <4>2. CASE l = Len(pendingBashExchanges) + 1
        BY <2>6, <2>7, <4>2
      <4> QED BY <2>6, <4>1, <4>2
    <3>1. k \in DOMAIN pendingBashExchanges /\ exchanges[k] = pendingBashExchanges[k]
      BY <2>6, <3>0
    <3>2. CASE l \in DOMAIN pendingBashExchanges /\ exchanges[l] = pendingBashExchanges[l]
      BY <2>7, <3>1, <3>2 DEF ShellOrder, KeptInOrder
    <3>3. CASE exchanges[l] = exchange
      BY <2>4, <2>5, <3>1, <3>3
    <3> QED BY <2>6, <3>2, <3>3
  <2>8. \A l \in DOMAIN exchanges : \A j \in DOMAIN captureQueue' :
          exchanges[l].entryId < captureQueue'[j].entryId
    <3>1. \A i \in DOMAIN pendingBashExchanges, j \in DOMAIN captureQueue' :
            pendingBashExchanges[i].entryId < captureQueue'[j].entryId
      BY <2>2 DEF ShellOrder, KeptInOrder
    <3> QED BY <2>4, <2>5, <2>6, <3>1
  <2>9. \A i \in DOMAIN userSends : \A k \in DOMAIN userSends[i].exchanges :
          \A l \in DOMAIN exchanges :
            userSends[i].exchanges[k].entryId < exchanges[l].entryId
    <3>1. \A i \in DOMAIN userSends, j \in DOMAIN pendingBashExchanges :
            \A k \in DOMAIN userSends[i].exchanges :
              userSends[i].exchanges[k].entryId < pendingBashExchanges[j].entryId
      BY DEF ShellOrder, ExchangeOnce
    <3> QED BY <2>4, <2>5, <2>6, <3>1
  <2>10. CASE userSends' = userSends /\ pendingBashExchanges' = pendingBashExchanges
    BY <2>3, <2>10, OrderShifted
  <2>11. CASE userSends' = userSends /\ pendingBashExchanges' = exchanges
    <3>1. CaptureInOrder'
      BY <2>3, CaptureShifted DEF ShellOrder
    <3>2. KeptInOrder'
      BY <2>7, <2>8, <2>11 DEF KeptInOrder
    <3>3. SentInOrder'
      BY <2>2, <2>11 DEF ShellOrder, SentInOrder
    <3>4. KeptAfterSent'
      BY <2>9, <2>11 DEF KeptAfterSent
    <3>5. SendsOnce'
      BY <2>11 DEF ShellOrder, ExchangeOnce, SendsOnce
    <3>6. ExchangeOnce'
      BY <3>4, <3>5 DEF ExchangeOnce, SendsOnce, KeptAfterSent
    <3> QED BY <3>1, <3>2, <3>3, <3>6 DEF ShellOrder
  <2>12. CASE Drain(WithChunk(cap.entryId, o), exchanges, cap.entryId)
    <3> DEFINE m == [exchanges |-> exchanges, followUpOf |-> cap.entryId]
    <3>1. userSends' = Append(userSends, m) /\ pendingBashExchanges' = <<>>
      BY <2>12 DEF Drain
    <3>2. /\ m \in SentMessage /\ m.exchanges = exchanges /\ m.followUpOf = cap.entryId
          /\ DOMAIN pendingBashExchanges' = {}
      BY <1>0, <2>4, <2>6, <3>1 DEF SentMessage
    <3>3. m.exchanges # <<>> /\ Last(m.exchanges).entryId = m.followUpOf
      BY <2>4, <2>6 DEF Last
    <3> HIDE DEF m
    <3> QED BY <2>3, <2>7, <2>8, <2>9, <3>1, <3>2, <3>3, OrderSent
  <2> QED BY <2>1, <2>10, <2>11, <2>12 DEF Closed, exchange, exchanges
<1>5. CASE MessageStep
  <2>1. captureQueue' = captureQueue
    BY <1>5 DEF MessageStep, DrainForUser, Dismiss
  <2>2. CASE DrainForUser
    <3> DEFINE m == [exchanges |-> pendingBashExchanges, followUpOf |-> 0]
    <3>1. userSends' = Append(userSends, m) /\ pendingBashExchanges' = <<>>
      BY <2>2 DEF DrainForUser, Drain
    <3>2. /\ m \in SentMessage /\ m.exchanges = pendingBashExchanges /\ m.followUpOf = 0
          /\ DOMAIN pendingBashExchanges' = {}
      BY <1>0, <3>1 DEF SentMessage
    <3>3. \A k, l \in DOMAIN m.exchanges :
            k < l => m.exchanges[k].entryId < m.exchanges[l].entryId
      BY <3>2 DEF ShellOrder, KeptInOrder
    <3>4. \A i \in DOMAIN userSends : \A k \in DOMAIN userSends[i].exchanges :
            \A l \in DOMAIN m.exchanges :
              userSends[i].exchanges[k].entryId < m.exchanges[l].entryId
      BY <3>2 DEF ShellOrder, ExchangeOnce
    <3>5. \A l \in DOMAIN m.exchanges : \A j \in DOMAIN captureQueue' :
            m.exchanges[l].entryId < captureQueue'[j].entryId
      BY <2>1, <3>2 DEF ShellOrder, KeptInOrder
    <3> HIDE DEF m
    <3> QED BY <1>s, <2>1, <3>1, <3>2, <3>3, <3>4, <3>5, OrderSent
  <2>3. ASSUME NEW id, Dismiss(id) PROVE ShellOrder'
    BY <1>s, <2>1, <2>3, OrderShifted DEF Dismiss
  <2> QED BY <1>5, <2>2, <2>3 DEF MessageStep
<1>6. CASE ShellRespawn
  <2>1. CASE ShellReset
    <3>1. /\ DOMAIN captureQueue' = {} /\ DOMAIN pendingBashExchanges' = {}
          /\ userSends' = userSends
      BY <2>1 DEF ShellReset
    <3>2. Shifted(0)
      BY <3>1 DEF Shifted
    <3> QED BY <3>1, <3>2, OrderShifted
  <2>2. CASE UNCHANGED shellVars
    BY <1>s, <2>2, OrderShifted DEF shellVars
  <2> QED BY <1>6, <2>1, <2>2 DEF ShellRespawn
<1> QED BY <1>1, <1>2, <1>3, <1>4, <1>5, <1>6 DEF CommandStep

(* Undisturbed, the child reads what the capture queue waits for.          *)
LEMMA FirstIsOwn ==
    ASSUME ShellTyped, Aligned, ~disturbed, captureQueue # <<>>, commands # <<>>
    PROVE  ~swapping /\ Len(captureQueue) = Len(commands) /\ captureQueue[1].entryId = commands[1]
<1>1. ~swapping /\ Reads = commands
  BY DEF Aligned, Reads
<1>2. 1 \in DOMAIN captureQueue
  BY HeadAndTail DEF ShellTyped, ShellTypeOK
<1> QED BY <1>1, <1>2 DEF Aligned

LEMMA AlignedStep ==
    ASSUME ShellTyped, swapping \in BOOLEAN, disturbed \in BOOLEAN, Aligned,
           \/ CommandStep \/ EchoStep \/ ChunkStep \/ CloseStep \/ MissedStep \/ MessageStep
           \/ ShellRespawn \/ ShellSwap \/ ShellStill
    PROVE  Aligned' /\ swapping' \in BOOLEAN /\ disturbed' \in BOOLEAN /\ (disturbed => disturbed')
<1>0. /\ issued \in Nat /\ captureQueue \in Seq(Capture)
      /\ commands \in Seq(Commands) /\ nextCommands \in Seq(Commands)
  BY DEF ShellTyped, ShellTypeOK
<1>1. ASSUME NEW s \in ShellSource, NEW g \in BOOLEAN, NEW lost \in BOOLEAN,
             BashCommand(s, g, lost)
      PROVE  Aligned' /\ swapping' \in BOOLEAN /\ disturbed' \in BOOLEAN /\ (disturbed => disturbed')
  <2> DEFINE id == issued + 1
             capture == [entryId |-> id, source |-> s, sawInputEcho |-> FALSE]
  <2>1. /\ captureQueue' = Append(captureQueue, capture)
        /\ swapping' = swapping /\ disturbed' = (disturbed \/ lost)
    BY <1>1 DEF BashCommand, SendCommand
  <2>2. /\ lost => UNCHANGED <<commands, nextCommands>>
        /\ ~lost /\ swapping => nextCommands' = Append(nextCommands, id) /\ commands' = commands
        /\ ~lost /\ ~swapping => commands' = Append(commands, id) /\ nextCommands' = nextCommands
    BY <1>1 DEF BashCommand
  <2>3. /\ Capture \subseteq Capture \cup {capture} /\ capture \in Capture \cup {capture}
        /\ Commands \subseteq Commands \cup {id} /\ id \in Commands \cup {id}
        /\ capture.entryId = id
    OBVIOUS
  <2> HIDE DEF id, capture
  <2>4. /\ captureQueue \in Seq(Capture \cup {capture})
        /\ commands \in Seq(Commands \cup {id}) /\ nextCommands \in Seq(Commands \cup {id})
    BY <1>0, <2>3, SeqMonotonic
  <2>5. ~swapping' => nextCommands' = <<>>
    BY <2>1, <2>2 DEF Aligned
  <2>6. ASSUME ~disturbed'
        PROVE  /\ swapping' => commands' = <<>>
               /\ Len(captureQueue') = Len(Reads')
               /\ \A i \in DOMAIN captureQueue' : captureQueue'[i].entryId = Reads'[i]
    <3>1. ~disturbed /\ ~lost
      BY <2>1, <2>6
    <3>2. /\ swapping => commands = <<>>
          /\ Len(captureQueue) = Len(Reads)
          /\ \A i \in DOMAIN captureQueue : captureQueue[i].entryId = Reads[i]
      BY <3>1 DEF Aligned
    <3>3. Reads' = Append(Reads, id) /\ Reads \in Seq(Commands \cup {id})
      BY <2>1, <2>2, <2>4, <3>1 DEF Reads
    <3>4. /\ Len(captureQueue') = Len(captureQueue) + 1
          /\ \A i \in DOMAIN captureQueue' :
               \/ i \in DOMAIN captureQueue /\ captureQueue'[i] = captureQueue[i]
               \/ i = Len(captureQueue) + 1 /\ captureQueue'[i] = capture
      BY <2>1, <2>3, <2>4, Appended
    <3>5. /\ Len(Reads') = Len(Reads) + 1
          /\ Reads'[Len(Reads) + 1] = id
          /\ \A i \in DOMAIN Reads : Reads'[i] = Reads[i]
      BY <2>3, <3>3, Appended
    <3>6. DOMAIN Reads = DOMAIN captureQueue
      BY <2>4, <3>2, <3>3, Elements
    <3>7. \A i \in DOMAIN captureQueue' : captureQueue'[i].entryId = Reads'[i]
      BY <2>3, <3>2, <3>4, <3>5, <3>6
    <3> QED BY <2>1, <2>2, <3>1, <3>2, <3>4, <3>5, <3>7
  <2> QED BY <2>1, <2>5, <2>6 DEF Aligned
<1>2. CASE EchoStep
  <2>1. UNCHANGED <<commands, nextCommands, swapping, disturbed>>
    BY <1>2 DEF EchoStep
  <2>2. /\ Len(captureQueue') = Len(captureQueue) /\ DOMAIN captureQueue' = DOMAIN captureQueue
        /\ \A i \in DOMAIN captureQueue : captureQueue'[i].entryId = captureQueue[i].entryId
    <3>1. CASE captureQueue = <<>>
      BY <1>2, <3>1 DEF EchoStep, InputEcho
    <3>2. CASE captureQueue # <<>>
      <4> DEFINE c == [captureQueue[1] EXCEPT !.sawInputEcho = TRUE]
      <4>1. captureQueue' = [captureQueue EXCEPT ![1] = c]
        BY <1>2, <3>2 DEF EchoStep, InputEcho
      <4>2. captureQueue[1] \in Capture /\ 1 \in DOMAIN captureQueue
        BY <1>0, <3>2, HeadAndTail
      <4>3. c.entryId = captureQueue[1].entryId /\ c \in Capture
        BY <4>2 DEF Capture
      <4> HIDE DEF c
      <4>4. DOMAIN captureQueue = 1 .. Len(captureQueue)
        BY <1>0, Elements
      <4>5. Len(captureQueue') = Len(captureQueue)
        BY <1>0, <4>1, <4>2, <4>3, <4>4, ExceptSeq
      <4> QED BY <4>1, <4>2, <4>3, <4>5
    <3> QED BY <3>1, <3>2
  <2> QED BY <2>1, <2>2 DEF Aligned, Reads
<1>3. CASE ChunkStep \/ MessageStep \/ ShellStill
  <2>1. UNCHANGED <<captureQueue, commands, nextCommands, swapping, disturbed>>
    BY <1>3 DEF ChunkStep, OutputChunk, MessageStep, DrainForUser, Dismiss, ShellStill, shellVars
  <2> QED BY <2>1 DEF Aligned, Reads
<1>4. CASE CloseStep
  <2>1. /\ captureQueue # <<>> /\ commands # <<>>
        /\ captureQueue' = Tail(captureQueue) /\ commands' = Tail(commands)
        /\ UNCHANGED <<nextCommands, swapping, disturbed>>
    BY <1>4, CloseEffect DEF CloseStep
  <2>2. ASSUME ~disturbed
        PROVE  /\ swapping => commands' = <<>>
               /\ Len(captureQueue') = Len(Reads')
               /\ \A i \in DOMAIN captureQueue' : captureQueue'[i].entryId = Reads'[i]
    <3>1. ~swapping /\ Len(captureQueue) = Len(commands)
      BY <2>1, <2>2, FirstIsOwn
    <3>2. \A i \in DOMAIN captureQueue : captureQueue[i].entryId = commands[i]
      BY <2>2, <3>1 DEF Aligned, Reads
    <3>3. Reads' = Tail(commands)
      BY <2>1, <3>1 DEF Reads
    <3>4. /\ Len(captureQueue') = Len(captureQueue) - 1
          /\ \A i \in DOMAIN captureQueue' : /\ i + 1 \in DOMAIN captureQueue
                                             /\ captureQueue'[i] = captureQueue[i + 1]
      BY <1>0, <2>1, HeadAndTail
    <3>5. /\ Len(Tail(commands)) = Len(commands) - 1
          /\ \A i \in DOMAIN Tail(commands) : Tail(commands)[i] = commands[i + 1]
      BY <1>0, <2>1, HeadAndTail
    <3>6. DOMAIN captureQueue' = DOMAIN Tail(commands)
      <4>1. captureQueue' \in Seq(Capture) /\ Tail(commands) \in Seq(Commands)
        BY <1>0, <2>1, HeadAndTail
      <4> QED BY <3>1, <3>4, <3>5, <4>1, Elements
    <3> QED BY <3>1, <3>2, <3>3, <3>4, <3>5, <3>6
  <2> QED BY <2>1, <2>2 DEF Aligned
<1>5. CASE MissedStep
  <2>1. /\ captureQueue = <<>> /\ commands # <<>> /\ captureQueue' = captureQueue
        /\ UNCHANGED <<nextCommands, swapping, disturbed>>
    BY <1>5 DEF MissedStep, shellVars
  <2>2. disturbed
    <3> SUFFICES ASSUME ~disturbed PROVE FALSE
      OBVIOUS
    <3>1. Reads = commands /\ Len(captureQueue) = Len(Reads)
      BY <2>1 DEF Aligned, Reads
    <3>2. Len(captureQueue) = 0 /\ Len(commands) # 0
      BY <1>0, <2>1
    <3> QED BY <3>1, <3>2
  <2> QED BY <2>1, <2>2 DEF Aligned
<1>6. CASE ShellRespawn
  <2>1. /\ swapping = FALSE /\ swapping' = TRUE
        /\ disturbed' = (disturbed \/ captureQueue # <<>> \/ commands # <<>>)
        /\ captureQueue' \in {captureQueue, <<>>} /\ UNCHANGED <<commands, nextCommands>>
    BY <1>6 DEF ShellRespawn, ShellReset, shellVars
  <2>2. nextCommands = <<>>
    BY <2>1 DEF Aligned
  <2>3. Reads' = <<>>
    BY <2>1, <2>2 DEF Reads
  <2>4. ASSUME ~disturbed' PROVE captureQueue' = <<>> /\ commands' = <<>>
    BY <2>1, <2>4
  <2>5. DOMAIN <<>> = {}
    OBVIOUS
  <2> QED BY <2>1, <2>3, <2>4, <2>5 DEF Aligned
<1>7. CASE ShellSwap
  <2>1. /\ swapping = TRUE /\ swapping' = FALSE /\ commands' = nextCommands /\ nextCommands' = <<>>
        /\ UNCHANGED <<captureQueue, disturbed>>
    BY <1>7 DEF ShellSwap, shellVars
  <2>2. Reads' = Reads
    BY <2>1 DEF Reads
  <2> QED BY <2>1, <2>2 DEF Aligned
<1> QED BY <1>1, <1>2, <1>3, <1>4, <1>5, <1>6, <1>7 DEF CommandStep

OwnKept ==
  \A i \in DOMAIN pendingBashExchanges :
    pendingBashExchanges[i].output = pendingBashExchanges[i].entryId
OwnSent ==
  \A i \in DOMAIN userSends : \A k \in DOMAIN userSends[i].exchanges :
    userSends[i].exchanges[k].output = userSends[i].exchanges[k].entryId

LEMMA OutputIsOwnIs == OutputIsOwn <=> Owned(shellEntries) /\ OwnKept /\ OwnSent
BY DEF OutputIsOwn, Owned, OwnKept, OwnSent

LEMMA OwnSentAppended ==
    ASSUME ShellTyped, OwnSent, NEW m \in SentMessage, userSends' = Append(userSends, m),
           \A k \in DOMAIN m.exchanges : m.exchanges[k].output = m.exchanges[k].entryId
    PROVE  OwnSent'
<1>1. userSends \in Seq(SentMessage)
  BY DEF ShellTyped, ShellTypeOK, SentMessage
<1>2. \A i \in DOMAIN userSends' : \/ i \in DOMAIN userSends /\ userSends'[i] = userSends[i]
                                   \/ userSends'[i] = m
  BY <1>1, Appended
<1> QED BY <1>2 DEF OwnSent

LEMMA OwnOutputStep ==
    ASSUME ShellTyped, swapping \in BOOLEAN, disturbed \in BOOLEAN, Aligned, OwnOutput,
           \/ CommandStep \/ EchoStep \/ ChunkStep \/ CloseStep \/ MissedStep \/ MessageStep
           \/ ShellRespawn \/ ShellSwap \/ ShellStill
    PROVE  OwnOutput'
<1>0. /\ issued \in Nat /\ shellEntries \in Seq(ShellEntry) /\ captureQueue \in Seq(Capture)
      /\ pendingBashExchanges \in Seq(Exchange) /\ userSends \in Seq(SentMessage)
      /\ commands \in Seq(Commands)
  BY DEF ShellTyped, ShellTypeOK, SentMessage
<1> SUFFICES ASSUME ~disturbed' PROVE OutputIsOwn'
  BY DEF OwnOutput
<1>a. ~disturbed
  BY AlignedStep
<1>b. Owned(shellEntries) /\ OwnKept /\ OwnSent
  BY <1>a, OutputIsOwnIs DEF OwnOutput
<1>c. ASSUME Owned(shellEntries)', OwnKept', OwnSent' PROVE OutputIsOwn'
  BY <1>c DEF OutputIsOwn, Owned, OwnKept, OwnSent
<1>1. ASSUME NEW s \in ShellSource, NEW g \in BOOLEAN, NEW lost \in BOOLEAN,
             BashCommand(s, g, lost)
      PROVE  OutputIsOwn'
  <2> DEFINE entry == [id |-> issued + 1, source |-> s, chunks |-> <<>>]
  <2>1. /\ shellEntries' = Append(shellEntries, entry)
        /\ UNCHANGED <<pendingBashExchanges, userSends>>
    BY <1>1 DEF BashCommand, SendCommand
  <2>2. /\ ShellEntry \subseteq ShellEntry \cup {entry} /\ entry \in ShellEntry \cup {entry}
        /\ DOMAIN entry.chunks = {}
    OBVIOUS
  <2> HIDE DEF entry
  <2>3. shellEntries \in Seq(ShellEntry \cup {entry})
    BY <1>0, <2>2, SeqMonotonic
  <2>4. \A i \in DOMAIN shellEntries' :
          \/ i \in DOMAIN shellEntries /\ shellEntries'[i] = shellEntries[i]
          \/ shellEntries'[i] = entry
    BY <2>1, <2>2, <2>3, Appended
  <2>5. Owned(shellEntries)'
    BY <1>b, <2>2, <2>4 DEF Owned
  <2> QED BY <1>b, <1>c, <2>1, <2>5 DEF OwnKept, OwnSent
<1>2. CASE EchoStep \/ MissedStep \/ ShellSwap \/ ShellStill
  <2>1. UNCHANGED <<shellEntries, pendingBashExchanges, userSends>>
    BY <1>2 DEF EchoStep, InputEcho, MissedStep, ShellSwap, ShellStill, shellVars
  <2> QED BY <1>b, <1>c, <2>1 DEF Owned, OwnKept, OwnSent
<1>3. CASE ChunkStep
  <2>1. /\ shellEntries' = WithChunk(Head(captureQueue).entryId, Head(commands))
        /\ commands # <<>> /\ captureQueue # <<>>
        /\ UNCHANGED <<pendingBashExchanges, userSends>>
    BY <1>3 DEF ChunkStep, OutputChunk
  <2>2. /\ Head(captureQueue) = captureQueue[1] /\ Head(commands) = commands[1]
        /\ commands[1] \in Commands
    BY <1>0, <2>1, HeadAndTail
  <2>3. captureQueue[1].entryId = commands[1]
    BY <1>a, <2>1, FirstIsOwn
  <2>4. Owned(shellEntries)'
    <3>1. Owned(WithChunk(captureQueue[1].entryId, commands[1]))
      BY <1>0, <1>b, <2>2, <2>3, ChunkEffect
    <3> QED BY <2>1, <2>2, <3>1 DEF Owned
  <2> QED BY <1>b, <1>c, <2>1, <2>4 DEF OwnKept, OwnSent
<1>4. CASE CloseStep
  <2> DEFINE cap == captureQueue[1]
             o == commands[1]
             exchange == [entryId |-> cap.entryId, output |-> o]
             exchanges == Append(pendingBashExchanges, exchange)
             entries == WithChunk(cap.entryId, o)
  <2>1. /\ captureQueue # <<>> /\ commands # <<>>
        /\ cap \in Capture /\ o \in Commands /\ Closed(cap, o)
    BY <1>4, CloseEffect
  <2>2. cap.entryId = o
    BY <1>a, <2>1, FirstIsOwn
  <2>3. exchange \in Exchange /\ exchange.output = exchange.entryId /\ cap.entryId \in 0 .. issued
    BY <1>0, <2>1, <2>2 DEF Exchange, Capture, Commands
  <2> HIDE DEF cap, o
  <2>4. entries \in Seq(ShellEntry) /\ Owned(entries)
    BY <1>0, <1>b, <2>1, <2>2, ChunkEffect
  <2> HIDE DEF exchange
  <2>5. /\ exchanges \in Seq(Exchange)
        /\ \A i \in DOMAIN exchanges : exchanges[i].output = exchanges[i].entryId
    <3>1. \A i \in DOMAIN exchanges :
            \/ i \in DOMAIN pendingBashExchanges /\ exchanges[i] = pendingBashExchanges[i]
            \/ exchanges[i] = exchange
      BY <1>0, <2>3, Appended
    <3>2. exchanges \in Seq(Exchange)
      BY <1>0, <2>3, Appended
    <3> QED BY <1>b, <2>3, <3>1, <3>2 DEF OwnKept
  <2> HIDE DEF exchanges, entries
  <2>6. CASE /\ shellEntries' = entries
             /\ pendingBashExchanges' \in {pendingBashExchanges, exchanges}
             /\ UNCHANGED <<pendingFollowUps, userSends>>
    <3>1. OwnKept'
      BY <1>b, <2>5, <2>6 DEF OwnKept
    <3>2. Owned(shellEntries)' /\ OwnSent'
      BY <1>b, <2>4, <2>6 DEF Owned, OwnSent
    <3> QED BY <1>c, <3>1, <3>2
  <2>7. CASE Drain(entries, exchanges, cap.entryId)
    <3> DEFINE m == [exchanges |-> exchanges, followUpOf |-> cap.entryId]
    <3>1. /\ Owned(shellEntries') /\ m \in SentMessage
          /\ userSends' = Append(userSends, m) /\ pendingBashExchanges' = <<>>
      BY <1>0, <2>3, <2>4, <2>5, <2>7, DrainEffect
    <3>2. m.exchanges = exchanges
      OBVIOUS
    <3> HIDE DEF m
    <3>3. OwnSent'
      BY <1>b, <2>5, <3>1, <3>2, OwnSentAppended
    <3>4. OwnKept' /\ Owned(shellEntries)'
      BY <3>1 DEF OwnKept, Owned
    <3> QED BY <1>c, <3>3, <3>4
  <2> QED BY <2>1, <2>6, <2>7 DEF Closed, entries, exchanges, exchange
<1>5. CASE MessageStep
  <2>1. CASE DrainForUser
    <3> DEFINE m == [exchanges |-> pendingBashExchanges, followUpOf |-> 0]
    <3>0. Drain(shellEntries, pendingBashExchanges, 0) /\ 0 \in 0 .. issued
      BY <1>0, <2>1 DEF DrainForUser
    <3>1. /\ Owned(shellEntries') /\ m \in SentMessage
          /\ userSends' = Append(userSends, m) /\ pendingBashExchanges' = <<>>
      BY <1>0, <1>b, <3>0, DrainEffect
    <3>2. m.exchanges = pendingBashExchanges
      OBVIOUS
    <3> HIDE DEF m
    <3>3. OwnSent'
      <4>1. \A k \in DOMAIN m.exchanges : m.exchanges[k].output = m.exchanges[k].entryId
        BY <1>b, <3>2 DEF OwnKept
      <4> QED BY <1>b, <3>1, <4>1, OwnSentAppended
    <3>4. OwnKept' /\ Owned(shellEntries)'
      BY <3>1 DEF OwnKept, Owned
    <3> QED BY <1>c, <3>3, <3>4
  <2>2. ASSUME NEW id, Dismiss(id) PROVE OutputIsOwn'
    <3> DEFINE I == {i \in DOMAIN shellEntries : shellEntries[i].id # id}
    <3>1. /\ shellEntries' = Kept(shellEntries, I) /\ I \in SUBSET DOMAIN shellEntries
          /\ UNCHANGED <<pendingBashExchanges, userSends>>
      BY <2>2 DEF Dismiss
    <3> HIDE DEF I
    <3>2. \A k \in DOMAIN shellEntries' : \E i \in DOMAIN shellEntries :
            shellEntries'[k] = shellEntries[i]
      BY <1>0, <3>1, KeptElements
    <3>3. Owned(shellEntries)'
      BY <1>b, <3>2 DEF Owned
    <3> QED BY <1>b, <1>c, <3>1, <3>3 DEF OwnKept, OwnSent
  <2> QED BY <1>5, <2>1, <2>2 DEF MessageStep
<1>6. CASE ShellRespawn
  <2>1. /\ userSends' = userSends
        /\ shellEntries' = shellEntries \/ DOMAIN shellEntries' = {}
        /\ pendingBashExchanges' = pendingBashExchanges \/ DOMAIN pendingBashExchanges' = {}
    BY <1>6 DEF ShellRespawn, ShellReset, shellVars
  <2> QED BY <1>b, <1>c, <2>1 DEF Owned, OwnKept, OwnSent
<1> QED BY <1>1, <1>2, <1>3, <1>4, <1>5, <1>6 DEF CommandStep

(* ShellInv is inductive.                                                  *)
LEMMA ShellInvHolds == Spec => []ShellInv
<1>1. Init => ShellInv
  <2> SUFFICES ASSUME Init PROVE ShellInv
    OBVIOUS
  <2>1. /\ shellEntries = <<>> /\ captureQueue = <<>> /\ pendingBashExchanges = <<>>
        /\ pendingFollowUps = {} /\ issued = 0 /\ userSends = <<>>
        /\ commands = <<>> /\ nextCommands = <<>> /\ swapping = FALSE /\ disturbed = FALSE
    BY DEF Init, ShellInit
  <2>2. /\ <<>> \in Seq(ShellEntry) /\ <<>> \in Seq(Capture) /\ <<>> \in Seq(Exchange)
        /\ <<>> \in Seq(SentMessage) /\ <<>> \in Seq(Commands)
    OBVIOUS
  <2>3. /\ DOMAIN shellEntries = {} /\ DOMAIN captureQueue = {}
        /\ DOMAIN pendingBashExchanges = {} /\ DOMAIN userSends = {}
    BY <2>1
  <2>4. ShellTyped
    BY <2>1, <2>2 DEF ShellTyped, ShellTypeOK, SentMessage
  <2>5. ShellOrder
    BY <2>3 DEF ShellOrder, CaptureInOrder, KeptInOrder, SentInOrder, ExchangeOnce
  <2>6. Aligned
    BY <2>1, <2>3 DEF Aligned, Reads
  <2>7. OwnOutput
    BY <2>3 DEF OwnOutput, OutputIsOwn
  <2> QED BY <2>1, <2>4, <2>5, <2>6, <2>7 DEF ShellInv
<1>2. ShellInv /\ [Next]_vars => ShellInv'
  <2> SUFFICES ASSUME ShellInv, [Next]_vars PROVE ShellInv'
    OBVIOUS
  <2>1. /\ ShellTyped /\ swapping \in BOOLEAN /\ disturbed \in BOOLEAN
        /\ ShellOrder /\ Aligned /\ OwnOutput
    BY DEF ShellInv
  <2>2. \/ CommandStep \/ EchoStep \/ ChunkStep \/ CloseStep \/ MissedStep \/ MessageStep
        \/ ShellRespawn \/ ShellSwap \/ ShellStill
    BY ShellStep
  <2>3. ShellTyped'
    BY <2>1, <2>2, ShellTypedStep
  <2>4. ShellOrder'
    BY <2>1, <2>2, ShellOrderStep
  <2>5. Aligned' /\ swapping' \in BOOLEAN /\ disturbed' \in BOOLEAN
    BY <2>1, <2>2, AlignedStep
  <2>6. OwnOutput'
    BY <2>1, <2>2, OwnOutputStep
  <2> QED BY <2>3, <2>4, <2>5, <2>6 DEF ShellInv
<1> QED BY <1>1, <1>2, PTL DEF Spec

(* ShellSafe of ClientState: each exchange is sent once, in the order of   *)
(* the commands and before its follow-up, and unless a child was replaced  *)
(* with a command outstanding or a command was lost, every output is that  *)
(* of its own command (shell.ts pairs them by position).                   *)
THEOREM ShellIsSafe == Spec => []ShellSafe
<1>1. ShellInv => ShellSafe
  BY DEF ShellInv, ShellOrder, ShellSafe
<1> QED BY <1>1, ShellInvHolds, PTL

-----------------------------------------------------------------------------
(* Timeline                                                                *)

(* A child streams its message into the one that started last, or, when a  *)
(* canonical frame, a restore or a reset took that one away, into none.    *)
StreamsToActive == speaking # NoMsg => activeStreamId \in {speaking, NoMsg}

(* The next key is larger than all those in use.                           *)
KeysUsed == \A i \in DOMAIN messages : messages[i].arrivalIdx < arrivalCounter

TimelineTyped == TimelineTypeOK /\ speaking \in MsgIds \cup {NoMsg}

TimelineInv == TimelineTyped /\ ArrivalOrder /\ KeysUsed /\ StreamingShown
               /\ StreamsToActive /\ StreamedTextIsOwn

(* What a step may do to the timeline.                                     *)
PushStep == /\ \E q \in Seq({LocalUser, Plain}) : PushEntries(q)
            /\ UNCHANGED speaking
StartStep == \E m \in MsgIds : MessageStart(m) /\ speaking' = m
EventStep ==
  /\ speaking # NoMsg /\ speaking' \in {speaking, NoMsg}
  /\ \/ \E b \in Blocks, kind \in BlockKinds :
          BlockStart(b, kind) \/ BlockDelta(b, kind, speaking)
     \/ \E b \in Blocks, wellFormed \in BOOLEAN : BlockStop(b, wellFormed)
     \/ MessageStop
EnvelopeStep == /\ \E m \in MsgIds : AssistantEnvelope(m)
                /\ UNCHANGED speaking
Saved(m) == <<Entry("local_user", NoMsg, 0), Entry("streaming", m, 1), Entry("frame", NoMsg, 2)>>
RestoreStep == /\ \E m \in MsgIds : Hydrate(Saved(m))
               /\ UNCHANGED speaking
ClearStep == TimelineReset /\ UNCHANGED speaking
TimelineStill == UNCHANGED timelineVars /\ speaking' \in {speaking, NoMsg}

(* Stream events have no parent, and carry an event; assistant frames name *)
(* their message.                                                          *)
LEMMA StreamFrames ==
    ASSUME NEW f \in InboundFrame
    PROVE  /\ f.type = "stream_event" => f.parent = NoTool /\ f.event \in StreamEvent
           /\ f.type = "assistant" => f.message \in MsgIds
<1>1. f \in UserFrame => f.type = "user"
  BY DEF UserFrame
<1>2. f \in ResultFrame => f.type = "result"
  BY DEF ResultFrame
<1>3. f \in StreamEventFrame => f.type = "stream_event" /\ f.parent = NoTool /\ f.event \in StreamEvent
  BY DEF StreamEventFrame
<1>4. f \in AssistantFrame => f.type = "assistant" /\ f.message \in MsgIds
  BY DEF AssistantFrame
<1>5. f \in ControlRequestFrame \cup ControlResponseFrame \cup RateLimitEventFrame =>
        f.type \in {"control_request", "control_response", "rate_limit_event"}
  BY DEF ControlRequestFrame, ControlResponseFrame, RateLimitEventFrame
<1>6. f \in SystemFrame => f.type = "system"
  BY DEF SystemFrame, SystemInit, SystemStatus, SystemSessionStateChanged, SystemTaskStarted,
     SystemTaskProgress, SystemTaskNotification, SystemTaskUpdated, SystemHook,
     SystemLocalCommandOutput, SystemCompactBoundary
<1> QED BY <1>1, <1>2, <1>3, <1>4, <1>5, <1>6 DEF InboundFrame

LEMMA EventStepIs ==
    ASSUME NEW ev \in StreamEvent, ApplyStreamEvent(ev, speaking),
           ev.type = "message_start" => speaking' = ev.id,
           ev.type # "message_start" => speaking # NoMsg /\ speaking' \in {speaking, NoMsg}
    PROVE  StartStep \/ EventStep \/ TimelineStill
<1>1. CASE ev.type = "message_start"
  <2>1. ev.id \in MsgIds
    BY <1>1 DEF StreamEvent
  <2> QED BY <1>1, <2>1 DEF ApplyStreamEvent, StartStep
<1>2. CASE ev.type \in {"content_block_start", "content_block_delta"}
  <2>1. ev.index \in Blocks /\ ev.kind \in BlockKinds
    BY <1>2 DEF StreamEvent
  <2>2. BlockStart(ev.index, ev.kind) \/ BlockDelta(ev.index, ev.kind, speaking)
    BY <1>2 DEF ApplyStreamEvent
  <2> QED BY <1>2, <2>1, <2>2 DEF EventStep
<1>3. CASE ev.type = "content_block_stop"
  <2>1. ev.index \in Blocks /\ ev.wellFormed \in BOOLEAN
    BY <1>3 DEF StreamEvent
  <2>2. BlockStop(ev.index, ev.wellFormed)
    BY <1>3 DEF ApplyStreamEvent
  <2> QED BY <1>3, <2>1, <2>2 DEF EventStep
<1>4. CASE ev.type = "message_stop"
  BY <1>4 DEF ApplyStreamEvent, EventStep
<1>5. CASE ev.type = "message_delta"
  BY <1>5 DEF ApplyStreamEvent, TimelineStill
<1> QED BY <1>1, <1>2, <1>3, <1>4, <1>5 DEF ApplyStreamEvent

LEMMA Pushed ==
    /\ <<Plain>> \in Seq({LocalUser, Plain}) /\ <<LocalUser>> \in Seq({LocalUser, Plain})
    /\ \A f : /\ FollowUpEntry(f) \in Seq({LocalUser, Plain})
              /\ FollowUpEntry(f) \o <<Plain>> \in Seq({LocalUser, Plain})
<1>1. /\ <<Plain>> \in Seq({LocalUser, Plain}) /\ <<LocalUser>> \in Seq({LocalUser, Plain})
      /\ <<>> \in Seq({LocalUser, Plain})
  OBVIOUS
<1>2. ASSUME NEW f PROVE /\ FollowUpEntry(f) \in Seq({LocalUser, Plain})
                         /\ FollowUpEntry(f) \o <<Plain>> \in Seq({LocalUser, Plain})
  <2>1. FollowUpEntry(f) \in Seq({LocalUser, Plain})
    BY <1>1 DEF FollowUpEntry
  <2> QED BY <1>1, <2>1
<1> QED BY <1>1, <1>2

(* Every step is one of these.                                             *)
LEMMA TimelineStep ==
    ASSUME [Next]_vars
    PROVE  \/ PushStep \/ StartStep \/ EventStep \/ EnvelopeStep \/ RestoreStep \/ ClearStep
           \/ TimelineStill
<1>1. ASSUME NEW f \in InboundFrame, Receive(f)
      PROVE  PushStep \/ StartStep \/ EventStep \/ EnvelopeStep \/ TimelineStill
  <2>1. CASE OnInit(f) \/ OnOtherSystem(f)
    BY <2>1, Pushed DEF OnInit, OnOtherSystem, PushToTimeline, PushStep, binaryVars
  <2>2. CASE OnSessionState(f) \/ OnHook(f) \/ OnTask(f) \/ OnOtherControl(f) \/ OnCanUseTool(f)
    BY <2>2 DEF OnSessionState, OnHook, OnTask, OnOtherControl, OnCanUseTool,
       TimelineStill, aggregatorVars, binaryVars, vars
  <2>3. CASE OnLocalCommandOutput(f)
    BY <2>3, Pushed DEF OnLocalCommandOutput, PushToTimeline, PushStep, TimelineStill, binaryVars
  <2>4. CASE Emits(f) /\ OnMain(f)
    <3>1. CASE f.type = "stream_event"
      <4>1. f.parent = NoTool /\ f.event \in StreamEvent
        BY <3>1, StreamFrames
      <4>2. ApplyStreamEvent(f.event, speaking)
        BY <2>4, <3>1, <4>1 DEF OnMain, isStreamEventFrame, isAssistantFrame
      <4>3. /\ f.event.type = "message_start" => speaking' = f.event.id
            /\ f.event.type # "message_start" => speaking # NoMsg /\ speaking' \in {speaking, NoMsg}
        BY <2>4, <3>1 DEF Emits, isStreamEventFrame
      <4> QED BY <4>1, <4>2, <4>3, EventStepIs
    <3>2. CASE f.type # "stream_event"
      <4>1. speaking' = speaking
        BY <2>4, <3>2 DEF Emits, isStreamEventFrame
      <4>2. CASE f.parent # NoTool
        BY <2>4, <4>1, <4>2, Pushed DEF OnMain, PushStep
      <4>3. CASE f.parent = NoTool /\ f.type = "assistant"
        <5>1. f.message \in MsgIds
          BY <4>3, StreamFrames
        <5>2. AssistantEnvelope(f.message)
          BY <2>4, <4>3 DEF OnMain, isStreamEventFrame, isAssistantFrame
        <5> QED BY <4>1, <5>1, <5>2 DEF EnvelopeStep
      <4>4. CASE f.parent = NoTool /\ f.type = "rate_limit_event"
        <5>1. UNCHANGED timelineVars
          BY <2>4, <4>4 DEF OnMain, isStreamEventFrame, isAssistantFrame
        <5> QED BY <4>1, <5>1 DEF TimelineStill
      <4>5. CASE f.parent = NoTool /\ f.type \in {"user", "result"}
        <5>1. PushEntries(FollowUpEntry(f) \o <<Plain>>)
          BY <2>4, <4>5 DEF OnMain, isStreamEventFrame, isAssistantFrame
        <5> QED BY <4>1, <5>1, Pushed DEF PushStep
      <4> QED BY <2>4, <3>2, <4>2, <4>3, <4>4, <4>5 DEF OnMain
    <3> QED BY <3>1, <3>2
  <2> QED BY <1>1, <2>1, <2>2, <2>3, <2>4 DEF Receive
<1>2. CASE HydrateMessages
  BY <1>2 DEF HydrateMessages, RestoreStep, Saved, binaryVars
<1>3. CASE SendUserMessage
  BY <1>3, Pushed DEF SendUserMessage, PushStep, binaryVars
<1>4. ASSUME NEW s \in ShellSource, NEW g \in BOOLEAN, NEW lost \in BOOLEAN,
             BashCommand(s, g, lost)
      PROVE  TimelineStill
  BY <1>4 DEF BashCommand, TimelineStill
<1>5. CASE DismissShellEntry \/ RespondToPermission \/ CallbackDone \/ ChangeCallback
  BY <1>5 DEF DismissShellEntry, RespondToPermission, CallbackDone, ChangeCallback, TimelineStill,
     binaryVars
<1>6. ASSUME NEW reset \in BOOLEAN, Respawn(reset) PROVE ClearStep \/ TimelineStill
  BY <1>6 DEF Respawn, ClearStep, TimelineStill, binaryVars
<1>7. CASE Swap \/ MarkEnded \/ Tick \/ UNCHANGED vars
  BY <1>7 DEF Swap, MarkEnded, Tick, TimelineStill, aggregatorVars, binaryVars, vars
<1> QED BY <1>1, <1>2, <1>3, <1>4, <1>5, <1>6, <1>7 DEF Next

(* The timeline as a list with its next key, and the ids being assembled.  *)
Ordered(list) == \A i, j \in DOMAIN list : i < j => list[i].arrivalIdx < list[j].arrivalIdx
Below(list, c) == \A i \in DOMAIN list : list[i].arrivalIdx < c
Shows(list, ids) ==
  /\ \A i \in DOMAIN list : list[i].kind = "streaming" => list[i].msg \in ids
  /\ \A m \in ids : \E i \in DOMAIN list : list[i].kind = "streaming" /\ list[i].msg = m
CanonicalLast(list) ==
  \A i, j \in DOMAIN list :
    (i < j /\ list[i].kind = "streaming" /\ list[j].msg = list[i].msg) => list[j].kind = "streaming"
ListInv(list, c, ids) ==
  /\ list \in Seq(MessageEntry) /\ c \in Nat /\ ids \subseteq MsgIds
  /\ Ordered(list) /\ Below(list, c) /\ Shows(list, ids) /\ CanonicalLast(list)

LEMMA ListInvIs ==
    ListInv(messages, arrivalCounter, DOMAIN streaming) <=>
      /\ messages \in Seq(MessageEntry) /\ arrivalCounter \in Nat /\ DOMAIN streaming \subseteq MsgIds
      /\ ArrivalOrder /\ KeysUsed
      /\ DOMAIN streaming = {messages[i].msg : i \in
                               {k \in DOMAIN messages : messages[k].kind = "streaming"}}
      /\ \A i, j \in DOMAIN messages :
           (i < j /\ messages[i].kind = "streaming" /\ messages[j].msg = messages[i].msg)
             => messages[j].kind = "streaming"
<1>1. Shows(messages, DOMAIN streaming) <=>
        DOMAIN streaming = {messages[i].msg : i \in
                               {k \in DOMAIN messages : messages[k].kind = "streaming"}}
  BY DEF Shows
<1> QED BY <1>1 DEF ListInv, Ordered, Below, CanonicalLast, ArrivalOrder, KeysUsed

(* One entry more, with the next key: a frame or a streaming entry.        *)
LEMMA ListAppended ==
    ASSUME NEW list, NEW c, NEW ids, ListInv(list, c, ids), NEW e \in MessageEntry,
           e.arrivalIdx = c, e.kind = "streaming" \/ e.msg \notin ids,
           NEW more, more = (IF e.kind = "streaming" THEN ids \cup {e.msg} ELSE ids),
           more \subseteq MsgIds, NEW r, r = Append(list, e)
    PROVE  ListInv(r, c + 1, more)
<1>0. list \in Seq(MessageEntry) /\ c \in Nat /\ ids \subseteq more
  BY DEF ListInv
<1>1. /\ r \in Seq(MessageEntry) /\ Len(list) \in Nat
      /\ Len(list) + 1 \in DOMAIN r /\ r[Len(list) + 1] = e
      /\ \A i \in DOMAIN list : i \in Nat /\ i < Len(list) + 1 /\ i \in DOMAIN r /\ r[i] = list[i]
      /\ \A i \in DOMAIN r : \/ i \in DOMAIN list /\ r[i] = list[i]
                             \/ i = Len(list) + 1 /\ r[i] = e
  BY <1>0, Appended
<1>2. \A i \in DOMAIN list : list[i].arrivalIdx \in Nat
  <2>1. \A i \in DOMAIN list : list[i] \in MessageEntry
    BY <1>0, Elements
  <2> QED BY <2>1 DEF MessageEntry
<1>3. Ordered(r)
  <2> SUFFICES ASSUME NEW i \in DOMAIN r, NEW j \in DOMAIN r, i < j
               PROVE  r[i].arrivalIdx < r[j].arrivalIdx
    BY DEF Ordered
  <2>1. i \in DOMAIN list /\ r[i] = list[i]
    BY <1>1
  <2>2. CASE j \in DOMAIN list /\ r[j] = list[j]
    BY <2>1, <2>2 DEF ListInv, Ordered
  <2>3. CASE r[j] = e
    BY <2>1, <2>3 DEF ListInv, Below
  <2> QED BY <1>1, <2>2, <2>3
<1>4. Below(r, c + 1)
  <2> SUFFICES ASSUME NEW i \in DOMAIN r PROVE r[i].arrivalIdx < c + 1
    BY DEF Below
  <2>1. CASE r[i] = e
    BY <1>0, <2>1
  <2>2. CASE i \in DOMAIN list /\ r[i] = list[i]
    <3>1. r[i].arrivalIdx < c
      BY <2>2 DEF ListInv, Below
    <3> QED BY <1>0, <1>2, <2>2, <3>1
  <2> QED BY <1>1, <2>1, <2>2
<1>5. Shows(r, more)
  <2>1. \A i \in DOMAIN r : r[i].kind = "streaming" => r[i].msg \in more
    BY <1>1, <1>0 DEF ListInv, Shows
  <2>2. ASSUME NEW m \in more
        PROVE  \E i \in DOMAIN r : r[i].kind = "streaming" /\ r[i].msg = m
    <3>1. CASE m \in ids
      BY <1>1, <3>1 DEF ListInv, Shows
    <3>2. CASE m \notin ids
      BY <1>1, <3>2
    <3> QED BY <3>1, <3>2
  <2> QED BY <2>1, <2>2 DEF Shows
<1>6. CanonicalLast(r)
  <2> SUFFICES ASSUME NEW i \in DOMAIN r, NEW j \in DOMAIN r, i < j,
                      r[i].kind = "streaming", r[j].msg = r[i].msg
               PROVE  r[j].kind = "streaming"
    BY DEF CanonicalLast
  <2>1. i \in DOMAIN list /\ r[i] = list[i]
    BY <1>1
  <2>2. CASE j \in DOMAIN list /\ r[j] = list[j]
    BY <2>1, <2>2 DEF ListInv, CanonicalLast
  <2>3. CASE r[j] = e
    BY <2>1, <2>3 DEF ListInv, Shows
  <2> QED BY <1>1, <2>2, <2>3
<1> QED BY <1>0, <1>1, <1>3, <1>4, <1>5, <1>6 DEF ListInv

(* Some entries taken out, and with them the streaming ones of some ids.   *)
LEMMA ListKept ==
    ASSUME NEW list, NEW c, NEW ids, ListInv(list, c, ids),
           NEW I \in SUBSET DOMAIN list, NEW r, r = Kept(list, I),
           NEW left \in SUBSET ids,
           \A i \in DOMAIN list : list[i].kind = "streaming" => (i \in I <=> list[i].msg \in left)
    PROVE  ListInv(r, c, left)
<1>0. list \in Seq(MessageEntry) /\ c \in Nat /\ ids \subseteq MsgIds
  BY DEF ListInv
<1>1. r \in Seq(MessageEntry)
  BY <1>0, KeptEffect
<1>2. PICK e : Embeds(e, list, I, r)
  BY <1>0, KeptEffect
<1>3. /\ \A k \in DOMAIN r : e[k] \in DOMAIN list /\ e[k] \in I /\ r[k] = list[e[k]]
      /\ \A k, l \in DOMAIN r : k < l => e[k] < e[l]
      /\ \A i \in I : \E k \in DOMAIN r : e[k] = i
  BY <1>2 DEF Embeds
<1>4. Ordered(r)
  BY <1>3 DEF ListInv, Ordered
<1>5. Below(r, c)
  BY <1>3 DEF ListInv, Below
<1>6. Shows(r, left)
  <2>1. \A i \in DOMAIN r : r[i].kind = "streaming" => r[i].msg \in left
    BY <1>3 DEF ListInv, Shows
  <2>2. ASSUME NEW m \in left
        PROVE  \E k \in DOMAIN r : r[k].kind = "streaming" /\ r[k].msg = m
    <3>1. PICK i \in DOMAIN list : list[i].kind = "streaming" /\ list[i].msg = m
      BY DEF ListInv, Shows
    <3>2. i \in I
      BY <3>1
    <3>3. PICK k \in DOMAIN r : e[k] = i
      BY <1>3, <3>2
    <3> QED BY <1>3, <3>1, <3>3
  <2> QED BY <2>1, <2>2 DEF Shows
<1>7. CanonicalLast(r)
  BY <1>3 DEF ListInv, CanonicalLast
<1> QED BY <1>0, <1>1, <1>4, <1>5, <1>6, <1>7 DEF ListInv

(* What the user and the plain frames of a step add.                       *)
Numbered(q, c) == [i \in DOMAIN q |-> Entry(q[i].kind, q[i].msg, c + i - 1)]

LEMMA ListPushed ==
    ASSUME NEW list, NEW c, NEW ids, ListInv(list, c, ids), NEW q \in Seq({LocalUser, Plain}),
           NEW r, r = list \o Numbered(q, c)
    PROVE  ListInv(r, c + Len(q), ids) /\ (q = <<>> => r = list)
<1> DEFINE new == Numbered(q, c)
           n == Len(list)
<1>0. list \in Seq(MessageEntry) /\ c \in Nat /\ ids \subseteq MsgIds /\ n \in Nat
  BY DEF ListInv
<1>1. Len(q) \in Nat /\ DOMAIN q = 1 .. Len(q) /\ \A i \in DOMAIN q : q[i] \in {LocalUser, Plain}
  BY Elements
<1>2. \A i \in DOMAIN q : /\ i \in Nat /\ i >= 1 /\ i <= Len(q) /\ c + i - 1 \in Nat
                          /\ q[i].msg = NoMsg /\ q[i].kind \in {"local_user", "frame"}
  BY <1>0, <1>1 DEF LocalUser, Plain
<1>3. \A i \in DOMAIN q : /\ new[i] \in MessageEntry /\ new[i].msg = NoMsg
                          /\ new[i].kind # "streaming" /\ new[i].arrivalIdx = c + i - 1
  BY <1>2 DEF Numbered, Entry, MessageEntry
<1>4. new \in Seq(MessageEntry) /\ Len(new) = Len(q) /\ DOMAIN new = DOMAIN q
  BY <1>1, <1>3 DEF Numbered
<1> HIDE DEF new
<1>5. r = list \o new
  BY DEF new
<1>6. /\ r \in Seq(MessageEntry) /\ Len(r) = n + Len(q) /\ DOMAIN r = 1 .. n + Len(q)
      /\ \A i \in DOMAIN list : i \in DOMAIN r /\ r[i] = list[i]
      /\ \A i \in DOMAIN r : \/ i \in DOMAIN list /\ i <= n /\ r[i] = list[i]
                             \/ i > n /\ i - n \in DOMAIN q /\ r[i] = new[i - n]
  <2>1. r \in Seq(MessageEntry) /\ Joins(r, list, new)
    BY <1>0, <1>4, <1>5, Concatenated
  <2> QED BY <1>4, <2>1 DEF Joins
<1>7. \A i \in DOMAIN list : list[i].arrivalIdx \in Nat
  <2>1. \A i \in DOMAIN list : list[i] \in MessageEntry
    BY <1>0, Elements
  <2> QED BY <2>1 DEF MessageEntry
<1>8. Ordered(r)
  <2> SUFFICES ASSUME NEW i \in DOMAIN r, NEW j \in DOMAIN r, i < j
               PROVE  r[i].arrivalIdx < r[j].arrivalIdx
    BY DEF Ordered
  <2>0. i \in Nat /\ j \in Nat
    BY <1>0, <1>1, <1>6
  <2>1. CASE i \in DOMAIN list /\ r[i] = list[i] /\ j \in DOMAIN list /\ r[j] = list[j]
    BY <2>1 DEF ListInv, Ordered
  <2>2. CASE i \in DOMAIN list /\ r[i] = list[i] /\ j - n \in DOMAIN q /\ r[j] = new[j - n]
    <3>1. list[i].arrivalIdx < c
      BY <2>2 DEF ListInv, Below
    <3>2. new[j - n].arrivalIdx = c + (j - n) - 1 /\ j - n >= 1
      BY <1>2, <1>3, <2>2
    <3> QED BY <1>0, <1>7, <2>0, <2>2, <3>1, <3>2
  <2>3. CASE i - n \in DOMAIN q /\ r[i] = new[i - n] /\ j - n \in DOMAIN q /\ r[j] = new[j - n]
    <3>1. r[i].arrivalIdx = c + (i - n) - 1 /\ r[j].arrivalIdx = c + (j - n) - 1
      BY <1>3, <2>3
    <3> QED BY <1>0, <2>0, <3>1
  <2>4. ~(i > n /\ j <= n)
    BY <1>0, <2>0
  <2> QED BY <1>6, <2>1, <2>2, <2>3, <2>4
<1>9. Below(r, c + Len(q))
  <2> SUFFICES ASSUME NEW i \in DOMAIN r PROVE r[i].arrivalIdx < c + Len(q)
    BY DEF Below
  <2>1. CASE i \in DOMAIN list /\ r[i] = list[i]
    <3>1. list[i].arrivalIdx < c
      BY <2>1 DEF ListInv, Below
    <3> QED BY <1>0, <1>1, <1>7, <2>1, <3>1
  <2>2. CASE i - n \in DOMAIN q /\ r[i] = new[i - n]
    <3>1. r[i].arrivalIdx = c + (i - n) - 1 /\ i - n <= Len(q) /\ i - n \in Nat
      BY <1>2, <1>3, <2>2
    <3> QED BY <1>0, <1>1, <3>1
  <2> QED BY <1>6, <2>1, <2>2
<1>10. \A i \in DOMAIN r : r[i].kind = "streaming" => i \in DOMAIN list /\ r[i] = list[i]
  BY <1>3, <1>6
<1>11. Shows(r, ids)
  BY <1>6, <1>10 DEF ListInv, Shows
<1>12. CanonicalLast(r)
  <2> SUFFICES ASSUME NEW i \in DOMAIN r, NEW j \in DOMAIN r, i < j,
                      r[i].kind = "streaming", r[j].msg = r[i].msg
               PROVE  r[j].kind = "streaming"
    BY DEF CanonicalLast
  <2>1. i \in DOMAIN list /\ r[i] = list[i] /\ r[i].msg \in MsgIds
    BY <1>0, <1>10 DEF ListInv, Shows
  <2>2. r[j].msg # NoMsg
    BY <2>1, FramesAssumption
  <2>3. j \in DOMAIN list /\ r[j] = list[j]
    BY <1>3, <1>6, <2>2
  <2> QED BY <2>1, <2>3 DEF ListInv, CanonicalLast
<1>13. q = <<>> => r = list
  <2>1. ASSUME q = <<>> PROVE Len(r) = n /\ \A i \in 1 .. n : r[i] = list[i]
    BY <1>0, <1>6, <2>1
  <2> QED BY <1>0, <1>6, <2>1
<1> QED BY <1>0, <1>1, <1>6, <1>8, <1>9, <1>11, <1>12, <1>13 DEF ListInv

LEMMA NextKey ==
    ASSUME NEW m \in Nat, NEW c, c = m + 1
    PROVE  c \in Nat /\ \A x \in Nat : m >= x => x < c
OBVIOUS
(* What a page restores, whatever keys and ids it had, and the key after.  *)
LEMMA ListRestored ==
    ASSUME NEW list \in Seq(MessageEntry), Ordered(list), NEW r, r = Stable(list),
           NEW c, c = (IF {r[i].arrivalIdx : i \in DOMAIN r} = {} THEN 0
                       ELSE Max({r[i].arrivalIdx : i \in DOMAIN r}) + 1)
    PROVE  ListInv(r, c, {})
<1> DEFINE I == {i \in DOMAIN list : list[i].kind # "streaming"}
           S == {r[i].arrivalIdx : i \in DOMAIN r}
<1>0. r = Kept(list, I) /\ I \in SUBSET DOMAIN list
  BY DEF Stable
<1>1. r \in Seq(MessageEntry)
  BY <1>0, KeptEffect
<1>2. PICK e : Embeds(e, list, I, r)
  BY <1>0, KeptEffect
<1>3. /\ \A k \in DOMAIN r : e[k] \in DOMAIN list /\ e[k] \in I /\ r[k] = list[e[k]]
      /\ \A k, l \in DOMAIN r : k < l => e[k] < e[l]
  BY <1>0, <1>2 DEF Embeds
<1>4. Ordered(r)
  BY <1>3 DEF Ordered
<1>5. \A k \in DOMAIN r : r[k].kind # "streaming"
  BY <1>3
<1> HIDE DEF I
<1>6. Len(r) \in Nat /\ \A k \in DOMAIN r : /\ k \in Nat /\ k >= 1 /\ k <= Len(r)
                                            /\ r[k] \in MessageEntry
  BY <1>1, Elements
<1>7. \A k \in DOMAIN r : r[k].arrivalIdx \in Nat
  BY <1>6 DEF MessageEntry
<1>8. c \in Nat /\ Below(r, c)
  <2>1. CASE S = {}
    BY <2>1 DEF Below
  <2>2. CASE S # {}
    <3>1. Len(r) \in DOMAIN r
      BY <1>1, <2>2
    <3> DEFINE last == r[Len(r)].arrivalIdx
    <3>2. last \in S
      BY <3>1
    <3>3. \A k \in DOMAIN r : last >= r[k].arrivalIdx
      <4> SUFFICES ASSUME NEW k \in DOMAIN r PROVE last >= r[k].arrivalIdx
        OBVIOUS
      <4>1. CASE k = Len(r)
        BY <1>7, <3>1, <4>1
      <4>2. CASE k < Len(r)
        <5>1. r[k].arrivalIdx < last
          BY <1>4, <3>1, <4>2 DEF Ordered
        <5> QED BY <1>7, <3>1, <5>1
      <4> QED BY <1>6, <4>1, <4>2
    <3>4. \A y \in S : last >= y
      BY <3>3
    <3> HIDE DEF last
    <3>5. Max(S) \in S /\ \A y \in S : Max(S) >= y
      BY <3>2, <3>4 DEF Max
    <3>6. Max(S) \in Nat /\ \A k \in DOMAIN r : Max(S) >= r[k].arrivalIdx
      BY <1>7, <3>5
    <3>7. c = Max(S) + 1
      BY <2>2
    <3> HIDE DEF S
    <3>9. c \in Nat /\ \A x \in Nat : Max(S) >= x => x < c
      BY <3>6, <3>7, NextKey
    <3>8. c \in Nat /\ \A k \in DOMAIN r : r[k].arrivalIdx < c
      BY <1>7, <3>6, <3>9
    <3> QED BY <3>8 DEF Below
  <2> QED BY <2>1, <2>2
<1>9. Shows(r, {}) /\ CanonicalLast(r)
  BY <1>5 DEF Shows, CanonicalLast
<1> QED BY <1>1, <1>4, <1>8, <1>9 DEF ListInv

(* A message being assembled, and its text: that of its id.                *)
Assembled(m, msg) ==
  /\ IsInFlightMessage(msg)
  /\ \A b \in DOMAIN msg.content : \A k \in DOMAIN msg.content[b].chunks :
       msg.content[b].chunks[k] = m
StreamsInv == \A m \in DOMAIN streaming : Assembled(m, streaming[m])

LEMMA TimelineInvIs ==
    TimelineInv <=>
      /\ ListInv(messages, arrivalCounter, DOMAIN streaming)
      /\ revision \in Nat /\ speaking \in MsgIds \cup {NoMsg}
      /\ activeStreamId \in DOMAIN streaming \cup {NoMsg}
      /\ StreamsInv /\ StreamsToActive
<1>1. StreamsInv <=> StreamedTextIsOwn /\ \A m \in DOMAIN streaming : IsInFlightMessage(streaming[m])
  BY DEF StreamsInv, Assembled, StreamedTextIsOwn
<1>2. TimelineTyped <=>
        /\ messages \in Seq(MessageEntry) /\ activeStreamId \in MsgIds \cup {NoMsg}
        /\ DOMAIN streaming \subseteq MsgIds
        /\ \A m \in DOMAIN streaming : IsInFlightMessage(streaming[m])
        /\ revision \in Nat /\ arrivalCounter \in Nat /\ speaking \in MsgIds \cup {NoMsg}
  BY DEF TimelineTyped, TimelineTypeOK
<1>3. StreamingShown <=>
        /\ activeStreamId # NoMsg => activeStreamId \in DOMAIN streaming
        /\ DOMAIN streaming = {messages[i].msg : i \in
                                 {k \in DOMAIN messages : messages[k].kind = "streaming"}}
        /\ \A i, j \in DOMAIN messages :
             (i < j /\ messages[i].kind = "streaming" /\ messages[j].msg = messages[i].msg)
               => messages[j].kind = "streaming"
  BY DEF StreamingShown
<1> QED BY <1>1, <1>2, <1>3, ListInvIs DEF TimelineInv

LEMMA StartedIsAssembled == ASSUME NEW m PROVE Assembled(m, [content |-> NoContent, done |-> FALSE])
BY DEF Assembled, IsInFlightMessage, NoContent

LEMMA WithBlock ==
    ASSUME NEW m, NEW msg, Assembled(m, msg), NEW b \in Blocks, NEW block \in StreamingBlock,
           \A k \in DOMAIN block.chunks : block.chunks[k] = m,
           NEW new, DOMAIN new = {"content", "done"}, new.done = msg.done,
           DOMAIN new.content = DOMAIN msg.content \cup {b},
           \A x \in DOMAIN new.content : new.content[x] = IF x = b THEN block ELSE msg.content[x]
    PROVE  Assembled(m, new)
<1>1. /\ DOMAIN msg.content \subseteq Blocks /\ msg.done \in BOOLEAN
      /\ \A x \in DOMAIN msg.content :
           /\ msg.content[x] \in StreamingBlock
           /\ \A k \in DOMAIN msg.content[x].chunks : msg.content[x].chunks[k] = m
  BY DEF Assembled, IsInFlightMessage
<1>2. \A x \in DOMAIN new.content :
        /\ new.content[x] \in StreamingBlock
        /\ \A k \in DOMAIN new.content[x].chunks : new.content[x].chunks[k] = m
  BY <1>1
<1> QED BY <1>1, <1>2 DEF Assembled, IsInFlightMessage

BlockAdded(msg, b, kind) ==
  [msg EXCEPT !.content =
     [x \in DOMAIN @ \cup {b} |->
        IF x = b THEN [kind |-> kind, chunks |-> <<>>, parsed |-> FALSE] ELSE msg.content[x]]]
PieceAdded(msg, b, piece) == [msg EXCEPT !.content[b].chunks = Append(@, piece)]
BlockParsed(msg, b) == [msg EXCEPT !.content[b].parsed = TRUE]

LEMMA EventIsAssembled ==
    ASSUME NEW m \in MsgIds, NEW msg, Assembled(m, msg), NEW b \in Blocks,
           NEW kind \in BlockKinds
    PROVE  /\ Assembled(m, BlockAdded(msg, b, kind))
           /\ b \in DOMAIN msg.content =>
                Assembled(m, PieceAdded(msg, b, m)) /\ Assembled(m, BlockParsed(msg, b))
<1>1. /\ DOMAIN msg = {"content", "done"} /\ msg.done \in BOOLEAN
      /\ DOMAIN msg.content \subseteq Blocks
      /\ \A x \in DOMAIN msg.content :
           /\ msg.content[x] \in StreamingBlock
           /\ \A k \in DOMAIN msg.content[x].chunks : msg.content[x].chunks[k] = m
  BY DEF Assembled, IsInFlightMessage
<1>2. Assembled(m, BlockAdded(msg, b, kind))
  <2> DEFINE block == [kind |-> kind, chunks |-> <<>>, parsed |-> FALSE]
             content == [x \in DOMAIN msg.content \cup {b} |->
                           IF x = b THEN block ELSE msg.content[x]]
             new == [msg EXCEPT !.content = content]
  <2>1. block \in StreamingBlock /\ DOMAIN block.chunks = {}
    BY DEF StreamingBlock
  <2>2. /\ DOMAIN content = DOMAIN msg.content \cup {b}
        /\ \A x \in DOMAIN content : content[x] = IF x = b THEN block ELSE msg.content[x]
    OBVIOUS
  <2> HIDE DEF block, content
  <2>3. DOMAIN new = {"content", "done"} /\ new.done = msg.done /\ new.content = content
    BY <1>1
  <2> HIDE DEF new
  <2>4. Assembled(m, new)
    BY <2>1, <2>2, <2>3, WithBlock
  <2> QED BY <2>4 DEF new, content, block, BlockAdded
<1>3. ASSUME b \in DOMAIN msg.content
      PROVE  Assembled(m, PieceAdded(msg, b, m)) /\ Assembled(m, BlockParsed(msg, b))
  <2> DEFINE old == msg.content[b]
             longer == [old EXCEPT !.chunks = Append(@, m)]
             parsed == [old EXCEPT !.parsed = TRUE]
             new == [msg EXCEPT !.content[b].chunks = Append(@, m)]
             done == [msg EXCEPT !.content[b].parsed = TRUE]
  <2>1. /\ old \in [kind : BlockKinds, chunks : Seq(MsgIds), parsed : BOOLEAN]
        /\ \A k \in DOMAIN old.chunks : old.chunks[k] = m
    BY <1>1, <1>3 DEF StreamingBlock
  <2>2. /\ DOMAIN new = {"content", "done"} /\ new.done = msg.done
        /\ DOMAIN new.content = DOMAIN msg.content \cup {b}
        /\ \A x \in DOMAIN new.content : new.content[x] = IF x = b THEN longer ELSE msg.content[x]
    BY <1>1, <1>3
  <2>3. /\ DOMAIN done = {"content", "done"} /\ done.done = msg.done
        /\ DOMAIN done.content = DOMAIN msg.content \cup {b}
        /\ \A x \in DOMAIN done.content : done.content[x] = IF x = b THEN parsed ELSE msg.content[x]
    BY <1>1, <1>3
  <2> HIDE DEF old, new, done
  <2>4. old.chunks \in Seq(MsgIds) /\ Append(old.chunks, m) \in Seq(MsgIds)
    BY <2>1
  <2>5. longer \in StreamingBlock /\ parsed \in StreamingBlock
    BY <2>1, <2>4 DEF StreamingBlock
  <2>6. longer.chunks = Append(old.chunks, m) /\ parsed.chunks = old.chunks
    BY <2>1
  <2>7. \A k \in DOMAIN longer.chunks : longer.chunks[k] = m
    BY <2>1, <2>4, <2>6, Appended
  <2> HIDE DEF longer, parsed
  <2>8. Assembled(m, new)
    BY <2>2, <2>5, <2>7, WithBlock
  <2>9. Assembled(m, done)
    BY <2>1, <2>3, <2>5, <2>6, WithBlock
  <2> QED BY <2>8, <2>9 DEF new, done, PieceAdded, BlockParsed
<1> QED BY <1>2, <1>3

(* A change of what is saved bumps the revision.                           *)
Bumped == Stable(messages') = Stable(messages) \/ revision' > revision

TimelineParts ==
  /\ ListInv(messages, arrivalCounter, DOMAIN streaming)
  /\ revision \in Nat /\ speaking \in MsgIds \cup {NoMsg}
  /\ activeStreamId \in DOMAIN streaming \cup {NoMsg}
  /\ StreamsInv /\ StreamsToActive

LEMMA StableAppended ==
    ASSUME NEW list \in Seq(MessageEntry), NEW e \in MessageEntry, e.kind = "streaming",
           NEW r, r = Append(list, e)
    PROVE  Stable(r) = Stable(list)
<1> DEFINE I == {i \in DOMAIN list : list[i].kind # "streaming"}
           J == {i \in DOMAIN r : r[i].kind # "streaming"}
<1>1. /\ Len(list) \in Nat /\ r[Len(list) + 1] = e
      /\ \A i \in DOMAIN list : i \in DOMAIN r /\ r[i] = list[i]
      /\ \A i \in DOMAIN r : \/ i \in DOMAIN list /\ r[i] = list[i]
                             \/ i = Len(list) + 1 /\ r[i] = e
  BY Appended
<1>2. I = J
  BY <1>1
<1>3. Len(list) \in Nat /\ I \in SUBSET (1 .. Len(list))
  OBVIOUS
<1> HIDE DEF I, J
<1>4. \A k \in 1 .. Cardinality(I) : Nth(I, k) \in I
  BY <1>3, NthEffect
<1>5. I \subseteq DOMAIN list
  BY DEF I
<1>6. \A k \in 1 .. Cardinality(I) : r[Nth(I, k)] = list[Nth(I, k)]
  BY <1>1, <1>4, <1>5
<1>7. Kept(r, J) = Kept(list, I)
  BY <1>2, <1>6 DEF Kept
<1> QED BY <1>7 DEF Stable, I, J

LEMMA PushStepSafe ==
    ASSUME TimelineParts, NEW q \in Seq({LocalUser, Plain}), PushEntries(q), UNCHANGED speaking
    PROVE  TimelineParts' /\ Bumped
<1>1. /\ messages' = messages \o Numbered(q, arrivalCounter)
      /\ arrivalCounter' = arrivalCounter + Len(q) /\ revision' = revision + Len(q)
      /\ UNCHANGED <<activeStreamId, streaming>>
  BY DEF PushEntries, Push, Numbered
<1>2. ListInv(messages', arrivalCounter', DOMAIN streaming') /\ (q = <<>> => messages' = messages)
  BY <1>1, ListPushed DEF TimelineParts
<1>3. Len(q) \in Nat /\ (q # <<>> => Len(q) > 0)
  OBVIOUS
<1>4. revision' \in Nat /\ (q # <<>> => revision' > revision)
  BY <1>1, <1>3 DEF TimelineParts
<1> QED BY <1>1, <1>2, <1>4 DEF TimelineParts, StreamsInv, StreamsToActive, Bumped

LEMMA StartStepSafe ==
    ASSUME TimelineParts, NEW m \in MsgIds, MessageStart(m), speaking' = m
    PROVE  TimelineParts' /\ Bumped
<1> DEFINE fresh == [content |-> NoContent, done |-> FALSE]
           e == Entry("streaming", m, arrivalCounter)
<1>1. /\ streaming' = [x \in DOMAIN streaming \cup {m} |-> IF x = m THEN fresh ELSE streaming[x]]
      /\ messages' = Append(messages, e) /\ arrivalCounter' = arrivalCounter + 1
      /\ activeStreamId' = m /\ revision' = revision
  BY DEF MessageStart
<1>2. /\ ListInv(messages, arrivalCounter, DOMAIN streaming) /\ messages \in Seq(MessageEntry)
      /\ arrivalCounter \in Nat /\ DOMAIN streaming \subseteq MsgIds
  BY DEF TimelineParts, ListInv
<1>3. e \in MessageEntry /\ e.arrivalIdx = arrivalCounter /\ e.kind = "streaming" /\ e.msg = m
  BY <1>2 DEF Entry, MessageEntry
<1> HIDE DEF e
<1>4. DOMAIN streaming' = DOMAIN streaming \cup {m}
  BY <1>1
<1>5. ListInv(messages', arrivalCounter', DOMAIN streaming')
  BY <1>1, <1>2, <1>3, <1>4, ListAppended
<1>6. Stable(messages') = Stable(messages)
  BY <1>1, <1>2, <1>3, StableAppended
<1>7. Assembled(m, fresh)
  BY StartedIsAssembled
<1> HIDE DEF fresh
<1>8. StreamsInv'
  BY <1>1, <1>4, <1>7 DEF StreamsInv, TimelineParts
<1>9. activeStreamId' \in DOMAIN streaming' \cup {NoMsg} /\ StreamsToActive'
  BY <1>1, <1>4 DEF StreamsToActive
<1> QED BY <1>1, <1>5, <1>6, <1>8, <1>9 DEF TimelineParts, Bumped

LEMMA EventStepSafe ==
    ASSUME TimelineParts, EventStep
    PROVE  TimelineParts' /\ Bumped
<1>1. /\ UNCHANGED <<messages, activeStreamId, revision, arrivalCounter>>
      /\ speaking \in MsgIds /\ speaking' \in {speaking, NoMsg}
  BY DEF EventStep, BlockStart, BlockDelta, BlockStop, MessageStop, ToActive, TimelineParts
<1>2. StreamsToActive'
  BY <1>1 DEF TimelineParts, StreamsToActive
<1>3. DOMAIN streaming' = DOMAIN streaming /\ StreamsInv'
  <2>1. CASE ~Assembling
    <3>1. streaming' = streaming
      BY <2>1 DEF EventStep, BlockStart, BlockDelta, BlockStop, MessageStop, ToActive
    <3> QED BY <3>1 DEF TimelineParts, StreamsInv
  <2>2. CASE Assembling
    <3>1. activeStreamId \in DOMAIN streaming /\ activeStreamId \in MsgIds
      BY <2>2 DEF Assembling, TimelineParts, ListInv
    <3>2. activeStreamId = speaking
      BY <1>1, <3>1, FramesAssumption DEF TimelineParts, StreamsToActive
    <3>3. Assembled(speaking, Active)
      BY <3>1, <3>2 DEF TimelineParts, StreamsInv, Active
    <3>4. ASSUME NEW changed, ToActive(changed), Assembled(speaking, changed)
          PROVE  DOMAIN streaming' = DOMAIN streaming /\ StreamsInv'
      <4>1. streaming' = [streaming EXCEPT ![activeStreamId] = changed]
        BY <2>2, <3>4 DEF ToActive
      <4>2. /\ DOMAIN streaming' = DOMAIN streaming
            /\ \A x \in DOMAIN streaming :
                 streaming'[x] = IF x = activeStreamId THEN changed ELSE streaming[x]
        BY <4>1
      <4> QED BY <3>2, <3>4, <4>2 DEF TimelineParts, StreamsInv
    <3>5. ASSUME NEW b \in Blocks, NEW kind \in BlockKinds,
                 BlockStart(b, kind) \/ BlockDelta(b, kind, speaking)
          PROVE  DOMAIN streaming' = DOMAIN streaming /\ StreamsInv'
      <4>1. /\ Assembled(speaking, BlockAdded(Active, b, kind))
            /\ b \in DOMAIN Active.content => Assembled(speaking, PieceAdded(Active, b, speaking))
        BY <1>1, <3>3, EventIsAssembled
      <4>2. \/ ToActive(BlockAdded(Active, b, kind)) \/ ToActive(Active)
            \/ b \in DOMAIN Active.content /\ ToActive(PieceAdded(Active, b, speaking))
        BY <3>5 DEF BlockStart, BlockDelta, BlockAdded, PieceAdded
      <4> QED BY <3>3, <3>4, <4>1, <4>2
    <3>6. ASSUME NEW b \in Blocks, NEW wellFormed \in BOOLEAN, BlockStop(b, wellFormed)
          PROVE  DOMAIN streaming' = DOMAIN streaming /\ StreamsInv'
      <4>1. ASSUME b \in DOMAIN Active.content PROVE Assembled(speaking, BlockParsed(Active, b))
        <5>1. Active.content[b] \in StreamingBlock
          BY <3>3, <4>1 DEF Assembled, IsInFlightMessage
        <5>2. Active.content[b].kind \in BlockKinds
          BY <5>1 DEF StreamingBlock
        <5> QED BY <1>1, <3>3, <4>1, <5>2, EventIsAssembled
      <4>2. \/ ToActive(Active)
            \/ b \in DOMAIN Active.content /\ ToActive(BlockParsed(Active, b))
        BY <3>6 DEF BlockStop, BlockParsed
      <4> QED BY <3>3, <3>4, <4>1, <4>2
    <3>7. ASSUME MessageStop PROVE DOMAIN streaming' = DOMAIN streaming /\ StreamsInv'
      <4> DEFINE stopped == [Active EXCEPT !.done = TRUE]
      <4>1. Assembled(speaking, stopped)
        <5>1. DOMAIN Active = {"content", "done"}
          BY <3>3 DEF Assembled, IsInFlightMessage
        <5>2. DOMAIN stopped = {"content", "done"} /\ stopped.done = TRUE
              /\ stopped.content = Active.content
          BY <5>1
        <5> HIDE DEF stopped
        <5> QED BY <3>3, <5>2 DEF Assembled, IsInFlightMessage
      <4>2. ToActive(stopped)
        BY <3>7 DEF MessageStop
      <4> HIDE DEF stopped
      <4> QED BY <3>4, <4>1, <4>2
    <3> QED BY <3>5, <3>6, <3>7 DEF EventStep
  <2> QED BY <2>1, <2>2
<1> QED BY <1>1, <1>2, <1>3 DEF TimelineParts, Bumped

LEMMA EnvelopeStepSafe ==
    ASSUME TimelineParts, NEW m \in MsgIds, AssistantEnvelope(m), UNCHANGED speaking
    PROVE  TimelineParts' /\ Bumped
<1> DEFINE e == Entry("frame", m, arrivalCounter)
           left == DOMAIN streaming \ {m}
           base == IF m \in DOMAIN streaming THEN Without(m) ELSE messages
           I == {i \in DOMAIN messages : ~(messages[i].kind = "streaming" /\ messages[i].msg = m)}
<1>1. /\ streaming' = [x \in left |-> streaming[x]]
      /\ activeStreamId' = IF m \in DOMAIN streaming /\ activeStreamId = m THEN NoMsg
                           ELSE activeStreamId
      /\ messages' = Append(base, e) /\ arrivalCounter' = arrivalCounter + 1
      /\ revision' = revision + (IF m \in DOMAIN streaming THEN 2 ELSE 1)
  BY DEF AssistantEnvelope
<1>2. /\ ListInv(messages, arrivalCounter, DOMAIN streaming) /\ messages \in Seq(MessageEntry)
      /\ arrivalCounter \in Nat /\ DOMAIN streaming \subseteq MsgIds /\ revision \in Nat
  BY DEF TimelineParts, ListInv
<1>3. e \in MessageEntry /\ e.arrivalIdx = arrivalCounter /\ e.kind = "frame" /\ e.msg = m
  BY <1>2 DEF Entry, MessageEntry
<1>4. ListInv(base, arrivalCounter, left)
  <2>1. CASE m \in DOMAIN streaming
    <3>1. base = Kept(messages, I) /\ I \in SUBSET DOMAIN messages /\ left \in SUBSET DOMAIN streaming
      BY <2>1 DEF Without
    <3>2. \A i \in DOMAIN messages : messages[i].kind = "streaming" => messages[i].msg \in DOMAIN streaming
      BY <1>2 DEF ListInv, Shows
    <3>3. \A i \in DOMAIN messages : messages[i].kind = "streaming" => (i \in I <=> messages[i].msg \in left)
      BY <3>2
    <3> HIDE DEF I, left, base
    <3> QED BY <1>2, <3>1, <3>3, ListKept
  <2>2. CASE m \notin DOMAIN streaming
    <3>1. left = DOMAIN streaming /\ base = messages
      BY <2>2
    <3> HIDE DEF left, base
    <3> QED BY <1>2, <3>1
  <2> QED BY <2>1, <2>2
<1>5. m \notin left /\ left \subseteq MsgIds
  BY <1>2
<1>6. DOMAIN streaming' = left
  BY <1>1
<1> HIDE DEF e, base
<1>7. ListInv(messages', arrivalCounter', DOMAIN streaming')
  <2> HIDE DEF left
  <2>1. e.kind # "streaming" /\ e.msg \notin left
    BY <1>3, <1>5
  <2> QED BY <1>1, <1>3, <1>4, <1>5, <1>6, <2>1, ListAppended
<1>8. revision' \in Nat /\ revision' > revision
  BY <1>1, <1>2
<1>9. StreamsInv'
  BY <1>1, <1>6 DEF StreamsInv, TimelineParts
<1>10. activeStreamId' \in DOMAIN streaming' \cup {NoMsg} /\ StreamsToActive'
  BY <1>1, <1>6 DEF StreamsToActive, TimelineParts
<1> QED BY <1>7, <1>8, <1>9, <1>10 DEF TimelineParts, Bumped

LEMMA SavedOrdered == ASSUME NEW m \in MsgIds PROVE Saved(m) \in Seq(MessageEntry) /\ Ordered(Saved(m))
<1> DEFINE a == Entry("local_user", NoMsg, 0)
           b == Entry("streaming", m, 1)
           c == Entry("frame", NoMsg, 2)
<1>1. /\ a \in MessageEntry /\ b \in MessageEntry /\ c \in MessageEntry
      /\ a.arrivalIdx = 0 /\ b.arrivalIdx = 1 /\ c.arrivalIdx = 2
  BY DEF Entry, MessageEntry
<1> HIDE DEF a, b, c
<1>2. /\ <<a, b, c>> \in Seq(MessageEntry) /\ DOMAIN <<a, b, c>> = {1, 2, 3}
      /\ <<a, b, c>>[1] = a /\ <<a, b, c>>[2] = b /\ <<a, b, c>>[3] = c
  BY <1>1
<1>3. Ordered(<<a, b, c>>)
  BY <1>1, <1>2 DEF Ordered
<1> QED BY <1>2, <1>3 DEF Saved, a, b, c

LEMMA RestoreStepSafe ==
    ASSUME TimelineParts, NEW m \in MsgIds, Hydrate(Saved(m)), UNCHANGED speaking
    PROVE  TimelineParts' /\ Bumped
<1> DEFINE S == {messages'[i].arrivalIdx : i \in DOMAIN messages'}
<1>1. /\ messages' = Stable(Saved(m))
      /\ arrivalCounter' = IF S = {} THEN 0 ELSE Max(S) + 1
      /\ streaming' = NoContent /\ activeStreamId' = NoMsg /\ revision' = revision + 1
  BY DEF Hydrate
<1>2. ListInv(messages', arrivalCounter', {})
  BY <1>1, SavedOrdered, ListRestored
<1>3. DOMAIN streaming' = {}
  BY <1>1 DEF NoContent
<1>4. ListInv(messages', arrivalCounter', DOMAIN streaming')
  BY <1>2, <1>3
<1>5. revision' \in Nat /\ revision' > revision
  BY <1>1 DEF TimelineParts
<1> QED BY <1>1, <1>3, <1>4, <1>5
     DEF TimelineParts, StreamsInv, StreamsToActive, Bumped

LEMMA NothingListed == ListInv(<<>>, 0, {})
BY DEF ListInv, Ordered, Below, Shows, CanonicalLast

LEMMA ClearStepSafe ==
    ASSUME TimelineParts, ClearStep
    PROVE  TimelineParts' /\ Bumped
<1>1. /\ messages' = <<>> /\ activeStreamId' = NoMsg /\ streaming' = NoContent
      /\ arrivalCounter' = 0 /\ revision' = revision + 1 /\ speaking' = speaking
  BY DEF ClearStep, TimelineReset
<1>2. DOMAIN streaming' = {}
  BY <1>1 DEF NoContent
<1>3. ListInv(messages', arrivalCounter', DOMAIN streaming')
  BY <1>1, <1>2, NothingListed
<1>4. revision' \in Nat /\ revision' > revision
  BY <1>1 DEF TimelineParts
<1> QED BY <1>1, <1>2, <1>3, <1>4
     DEF TimelineParts, StreamsInv, StreamsToActive, Bumped

LEMMA TimelinePartsStep == ASSUME TimelineParts, [Next]_vars PROVE TimelineParts' /\ Bumped
<1>1. CASE PushStep
  BY <1>1, PushStepSafe DEF PushStep
<1>2. CASE StartStep
  BY <1>2, StartStepSafe DEF StartStep
<1>3. CASE EventStep
  BY <1>3, EventStepSafe
<1>4. CASE EnvelopeStep
  BY <1>4, EnvelopeStepSafe DEF EnvelopeStep
<1>5. CASE RestoreStep
  BY <1>5, RestoreStepSafe DEF RestoreStep
<1>6. CASE ClearStep
  BY <1>6, ClearStepSafe
<1>7. CASE TimelineStill
  <2>1. /\ UNCHANGED <<messages, activeStreamId, streaming, revision, arrivalCounter>>
        /\ speaking' \in {speaking, NoMsg}
    BY <1>7 DEF TimelineStill, timelineVars
  <2> QED BY <2>1 DEF TimelineParts, StreamsInv, StreamsToActive, Bumped
<1> QED BY <1>1, <1>2, <1>3, <1>4, <1>5, <1>6, <1>7, TimelineStep

(* TimelineParts is inductive.                                             *)
LEMMA TimelinePartsHold == Spec => []TimelineParts
<1>1. Init => TimelineParts
  <2> SUFFICES ASSUME Init PROVE TimelineParts
    OBVIOUS
  <2>1. /\ messages = <<>> /\ activeStreamId = NoMsg /\ streaming = NoContent
        /\ revision = 0 /\ arrivalCounter = 0 /\ speaking = NoMsg
    BY DEF Init, TimelineInit
  <2>2. DOMAIN streaming = {}
    BY <2>1 DEF NoContent
  <2> QED BY <2>1, <2>2, NothingListed DEF TimelineParts, StreamsInv, StreamsToActive
<1>2. TimelineParts /\ [Next]_vars => TimelineParts'
  BY TimelinePartsStep
<1> QED BY <1>1, <1>2, PTL DEF Spec

(* So TimelineInv, which says the same of the variables, holds.            *)
LEMMA TimelineInvHolds == Spec => []TimelineInv
<1>1. TimelineParts => TimelineInv
  BY TimelineInvIs DEF TimelineParts
<1> QED BY <1>1, TimelinePartsHold, PTL

(* TimelineSafe of ClientState: keys are unique and increase along the     *)
(* timeline, streaming entries agree with the messages being assembled,    *)
(* and a bubble's text is its own (messages.ts).                           *)
THEOREM TimelineIsSafe == Spec => []TimelineSafe
<1>1. TimelineInv => TimelineSafe
  BY DEF TimelineInv, TimelineSafe
<1> QED BY <1>1, TimelineInvHolds, PTL

-----------------------------------------------------------------------------
(* Tasks                                                                   *)

(* A task has one entry, which knows its own tool use or none; without one *)
(* it has no transcript.                                                   *)
TasksListed(list) ==
  /\ list \in Seq(TaskEntry)
  /\ \A i, j \in DOMAIN list : list[i].taskId = list[j].taskId => i = j
  /\ \A i \in DOMAIN list :
       /\ list[i].toolUseId \in {NoTool, ToolOf[list[i].taskId]}
       /\ list[i].toolUseId = NoTool => list[i].transcript = <<>>

(* A frame that is in a transcript has the tool use of its task, has not   *)
(* been given up, and is neither there twice nor with the orphans.         *)
Waiting(buffers, f) == \E p \in Tools : \E k \in DOMAIN buffers[p] : buffers[p][k].frame = f
GivenUp == expired \cup evicted
Transcribed(e, buffers, arrived, gone) ==
  \A k \in DOMAIN e.transcript :
    /\ e.transcript[k] \in DOMAIN arrived /\ arrived[e.transcript[k]] = e.toolUseId
    /\ e.transcript[k] \notin gone /\ ~Waiting(buffers, e.transcript[k])
    /\ \A l \in DOMAIN e.transcript : e.transcript[k] = e.transcript[l] => k = l
TranscriptsKept ==
  \A i \in DOMAIN tasks : Transcribed(tasks[i], pendingByParent, agentFrames, GivenUp)

(* Orphans are in arrival order, under their own tool use.                 *)
OrphansKept ==
  \A p \in Tools : \A k \in DOMAIN pendingByParent[p] :
    /\ pendingByParent[p][k].frame \in DOMAIN agentFrames
    /\ agentFrames[pendingByParent[p][k].frame] = p
    /\ pendingByParent[p][k].frame \notin GivenUp
    /\ \A l \in DOMAIN pendingByParent[p] :
         k < l => pendingByParent[p][k].frame < pendingByParent[p][l].frame

(* A frame that has not been given up is somewhere.                        *)
FramesPlaced ==
  \A f \in DOMAIN agentFrames : f \in GivenUp \/ Waiting(pendingByParent, f) \/ f \in FramesOf(tasks)

(* A task that was announced with its tool use left no orphans behind.     *)
AnnouncedTakesOrphans ==
  \A i \in DOMAIN tasks :
    (tasks[i].taskId \notin unannounced /\ tasks[i].toolUseId # NoTool) =>
      pendingByParent[tasks[i].toolUseId] = <<>>

Capped(list) == Len(list) <= TasksCap \/ \A i \in DOMAIN list : list[i].status = "running"

TasksInv ==
  /\ TasksTypeOK /\ TasksListed(tasks) /\ TranscriptsKept /\ OrphansKept /\ FramesPlaced
  /\ AnnouncedTakesOrphans /\ TranscriptInOrder /\ Capped(tasks)

(* What the cap keeps: every running task, and everything when the list is *)
(* not over the cap; what is left is within the cap or all running.        *)
LEMMA CapKeeps ==
    ASSUME NEW arr \in Seq(TaskEntry), NEW r, r = capTasksKeepRunning(arr, TasksCap)
    PROVE  /\ r \in Seq(TaskEntry) /\ Capped(r)
           /\ \A k \in DOMAIN r : \E i \in DOMAIN arr : r[k] = arr[i]
           /\ \A i \in DOMAIN arr :
                arr[i].status = "running" \/ Len(arr) <= TasksCap => \E k \in DOMAIN r : r[k] = arr[i]
           /\ (\A i, j \in DOMAIN arr : arr[i].taskId = arr[j].taskId => i = j) =>
                \A k, l \in DOMAIN r : r[k].taskId = r[l].taskId => k = l
<1> DEFINE over == Len(arr) - TasksCap
           finished == {i \in DOMAIN arr : arr[i].status # "running"}
           I == {i \in DOMAIN arr : i \in finished => Cardinality(UpTo(finished, i)) > over}
           D == {i \in finished : Cardinality(UpTo(finished, i)) <= over}
<1>1. r = Kept(arr, I) /\ I \in SUBSET DOMAIN arr
  BY DEF capTasksKeepRunning
<1>2. /\ Len(arr) \in Nat /\ DOMAIN arr = 1 .. Len(arr) /\ finished \in SUBSET (1 .. Len(arr))
      /\ TasksCap \in Nat /\ over \in Int /\ \A i \in DOMAIN arr : i \in Nat
  BY TasksAssumption
<1>3. /\ IsFiniteSet(finished) /\ Cardinality(finished) \in Nat
      /\ \A i \in Nat : Cardinality(UpTo(finished, i)) \in Nat
  <2> HIDE DEF finished
  <2> QED BY <1>2, UpToCounts
<1>4. /\ \A i \in DOMAIN arr : i \in finished <=> arr[i].status # "running"
      /\ \A i \in DOMAIN arr : i \in I <=> (i \in finished => Cardinality(UpTo(finished, i)) > over)
      /\ \A i \in finished : i \in DOMAIN arr
  OBVIOUS
<1>5. I = DOMAIN arr \ D
  <2>1. \A i \in finished : ~(Cardinality(UpTo(finished, i)) > over) <=>
                              Cardinality(UpTo(finished, i)) <= over
    BY <1>2, <1>3, <1>4
  <2> QED BY <2>1
<1> HIDE DEF I
<1>6. r \in Seq(TaskEntry) /\ Len(r) = Cardinality(I)
  BY <1>1, KeptEffect
<1>7. PICK e : Embeds(e, arr, I, r)
  BY <1>1, KeptEffect
<1>8. /\ \A k \in DOMAIN r : e[k] \in DOMAIN arr /\ e[k] \in I /\ r[k] = arr[e[k]]
      /\ \A k, l \in DOMAIN r : k < l => e[k] < e[l]
      /\ \A i \in I : \E k \in DOMAIN r : e[k] = i
  BY <1>1, <1>7 DEF Embeds
<1>9. \A i \in DOMAIN arr : arr[i].status = "running" => i \in I
  BY <1>4
<1>10. ASSUME Len(arr) <= TasksCap, NEW i \in DOMAIN arr PROVE i \in I
  <2>1. CASE i \in finished
    <3>1. i \in UpTo(finished, i) /\ UpTo(finished, i) \in SUBSET finished
      BY <1>2, <2>1 DEF UpTo
    <3> HIDE DEF finished
    <3>2. IsFiniteSet(UpTo(finished, i))
      BY <1>3, <3>1, FS_Subset
    <3>3. Cardinality(UpTo(finished, i)) # 0
      BY <3>1, <3>2, FS_EmptySet
    <3>4. Cardinality(UpTo(finished, i)) \in Nat
      BY <1>2, <1>3
    <3>5. Cardinality(UpTo(finished, i)) > over
      BY <1>2, <1>10, <3>3, <3>4
    <3> QED BY <1>4, <3>5
  <2>2. CASE i \notin finished
    BY <1>4, <2>2
  <2> QED BY <2>1, <2>2
<1>11. \A k \in DOMAIN r : \E i \in DOMAIN arr : r[k] = arr[i]
  BY <1>8
<1>12. \A i \in I : \E k \in DOMAIN r : r[k] = arr[i]
  BY <1>8
<1>13. ASSUME \A i, j \in DOMAIN arr : arr[i].taskId = arr[j].taskId => i = j,
              NEW k \in DOMAIN r, NEW l \in DOMAIN r, r[k].taskId = r[l].taskId
       PROVE  k = l
  <2>1. e[k] = e[l]
    BY <1>8, <1>13
  <2>2. k \in Nat /\ l \in Nat /\ e[k] \in Nat
    BY <1>2, <1>6, <1>8
  <2>3. ~(k < l) /\ ~(l < k)
    BY <1>8, <2>1, <2>2
  <2> QED BY <2>2, <2>3
<1>14. Capped(r)
  <2>1. CASE Len(arr) <= TasksCap
    <3>1. D = {}
      BY <1>4, <1>5, <1>10, <2>1
    <3>2. Cardinality(I) = Len(arr) - Cardinality({}) /\ Cardinality({}) = 0
      <4>1. {} \in SUBSET (1 .. Len(arr)) /\ I = (1 .. Len(arr)) \ {}
        BY <1>2, <1>5, <3>1
      <4> QED BY <1>2, <4>1, Positions, FS_EmptySet
    <3> QED BY <1>2, <1>6, <2>1, <3>2 DEF Capped
  <2>2. CASE Len(arr) > TasksCap /\ Cardinality(finished) >= over
    <3>1. over \in Nat /\ over <= Cardinality(finished)
      BY <1>2, <1>3, <2>2
    <3> HIDE DEF over
    <3>2. IsFiniteSet(D) /\ Cardinality(D) \in Nat /\ Cardinality(D) >= over
      <4> HIDE DEF finished
      <4> QED BY <1>2, <3>1, FirstOnes
    <3>3. D \in SUBSET (1 .. Len(arr))
      BY <1>2
    <3> HIDE DEF D
    <3>6. Cardinality(I) = Len(arr) - Cardinality(D)
      BY <1>2, <1>5, <3>3, Positions
    <3>7. Len(arr) - over = TasksCap
      BY <1>2 DEF over
    <3>8. Cardinality(I) <= TasksCap
      BY <1>2, <3>1, <3>2, <3>6, <3>7
    <3> QED BY <1>6, <3>8 DEF Capped
  <2>3. CASE Len(arr) > TasksCap /\ Cardinality(finished) < over
    <3>1. ASSUME NEW i \in I PROVE arr[i].status = "running"
      <4>1. i \in DOMAIN arr /\ i \in Nat
        BY <1>1, <1>2
      <4>2. ASSUME i \in finished PROVE FALSE
        <5>1. Cardinality(UpTo(finished, i)) > over
          BY <1>4, <3>1, <4>1, <4>2
        <5>2. UpTo(finished, i) \in SUBSET finished
          BY DEF UpTo
        <5>3. Cardinality(UpTo(finished, i)) <= Cardinality(finished)
          <6> HIDE DEF finished
          <6> QED BY <1>3, <5>2, FS_Subset
        <5>4. Cardinality(UpTo(finished, i)) \in Nat
          BY <1>3, <4>1
        <5> HIDE DEF finished
        <5> QED BY <1>2, <1>3, <2>3, <5>1, <5>3, <5>4
      <4> QED BY <1>4, <4>1, <4>2
    <3>2. \A k \in DOMAIN r : r[k].status = "running"
      BY <1>8, <3>1
    <3> QED BY <3>2 DEF Capped
  <2> QED BY <1>2, <1>3, <2>1, <2>2, <2>3
<1>15. \A i \in DOMAIN arr :
         arr[i].status = "running" \/ Len(arr) <= TasksCap => \E k \in DOMAIN r : r[k] = arr[i]
  BY <1>9, <1>10, <1>12
<1> QED BY <1>6, <1>11, <1>13, <1>14, <1>15

(* What an event for t leaves of the list: the entries of the other tasks  *)
(* as they were, and no running task of them is missing, nor t itself      *)
(* while the list is within the cap.                                       *)
Others(r, t) ==
  \A k \in DOMAIN r : r[k].taskId # t =>
    \E i \in DOMAIN tasks : /\ tasks[i].taskId = r[k].taskId
                            /\ tasks[i].transcript = r[k].transcript
                            /\ tasks[i].toolUseId = r[k].toolUseId
Stay(r, t) ==
  \A i \in DOMAIN tasks :
    (tasks[i].status = "running" /\ (tasks[i].taskId # t \/ Len(tasks) <= TasksCap)) =>
      \E k \in DOMAIN r : r[k].taskId = tasks[i].taskId

LEMMA ToolsAreTools == \A t \in TaskIds : ToolOf[t] \in Tools /\ ToolOf[t] # NoTool
BY FramesAssumption DEF Tools

(* A list in which an event changed the entry of its task                  *)
LEMMA UpdatedEffect ==
    ASSUME TasksListed(tasks), NEW t \in TaskIds, NEW status \in TaskStatus \cup {"same"},
           NEW tool \in {NoTool, ToolOf[t]}, NEW r, r = Updated(t, status, tool)
    PROVE  /\ TasksListed(r) /\ Capped(r) /\ Others(r, t) /\ Stay(r, t)
           /\ \A k \in DOMAIN r : r[k].taskId = t =>
                \E i \in TaskAt(t) : /\ r[k].transcript = tasks[i].transcript
                                     /\ r[k].toolUseId = IF tool = NoTool THEN tasks[i].toolUseId ELSE tool
           /\ (status = "running" /\ TaskAt(t) # {}) => \E k \in DOMAIN r : r[k].taskId = t
<1> DEFINE changed(i) == [tasks[i] EXCEPT !.status = IF status \in TaskStatus THEN status ELSE @,
                                          !.toolUseId = IF tool \in Tools THEN tool ELSE @]
           arr == [i \in DOMAIN tasks |-> IF i \in TaskAt(t) THEN changed(i) ELSE tasks[i]]
<1>0. /\ tasks \in Seq(TaskEntry) /\ Len(tasks) \in Nat /\ DOMAIN tasks = 1 .. Len(tasks)
      /\ \A i, j \in DOMAIN tasks : tasks[i].taskId = tasks[j].taskId => i = j
      /\ \A i \in DOMAIN tasks :
           /\ tasks[i].toolUseId \in {NoTool, ToolOf[tasks[i].taskId]}
           /\ tasks[i].toolUseId = NoTool => tasks[i].transcript = <<>>
  BY DEF TasksListed
<1>1. r = capTasksKeepRunning(arr, TasksCap)
  BY DEF Updated
<1>2. \A i \in DOMAIN tasks :
        tasks[i] \in [taskId : TaskIds, toolUseId : Parents, status : TaskStatus, transcript : Seq(Nat)]
  <2>1. \A i \in DOMAIN tasks : tasks[i] \in TaskEntry
    BY <1>0, Elements
  <2> QED BY <2>1 DEF TaskEntry
<1>3. NoTool \notin Tools /\ ToolOf[t] \in Tools /\ Tools \subseteq Parents
  BY FramesAssumption, ToolsAreTools DEF Parents
<1>4. ASSUME NEW i \in DOMAIN tasks
      PROVE  /\ changed(i) \in TaskEntry /\ changed(i).taskId = tasks[i].taskId
             /\ changed(i).transcript = tasks[i].transcript
             /\ changed(i).toolUseId = IF tool = NoTool THEN tasks[i].toolUseId ELSE tool
             /\ changed(i).status = IF status = "same" THEN tasks[i].status ELSE status
  <2>1. status # "same" <=> status \in TaskStatus
    BY DEF TaskStatus, FinalStatus
  <2>2. tool # NoTool <=> tool \in Tools
    BY <1>3
  <2>3. tasks[i] \in [taskId : TaskIds, toolUseId : Parents, status : TaskStatus, transcript : Seq(Nat)]
    BY <1>2
  <2>4. tool \in Tools => tool \in Parents
    BY <1>3
  <2> QED BY <2>1, <2>2, <2>3, <2>4 DEF TaskEntry
<1>5. \A i \in DOMAIN tasks : i \in TaskAt(t) <=> tasks[i].taskId = t
  BY DEF TaskAt
<1> HIDE DEF changed
<1>6. /\ DOMAIN arr = DOMAIN tasks
      /\ \A i \in DOMAIN tasks : arr[i] = IF tasks[i].taskId = t THEN changed(i) ELSE tasks[i]
  BY <1>5
<1>7. \A i \in DOMAIN tasks : arr[i] \in TaskEntry
  <2>1. \A i \in DOMAIN tasks : tasks[i] \in TaskEntry
    BY <1>0, Elements
  <2> QED BY <1>4, <1>6, <2>1
<1>8. arr \in Seq(TaskEntry) /\ Len(arr) = Len(tasks)
  BY <1>0, <1>7
<1> HIDE DEF arr
<1>9. \A i \in DOMAIN tasks :
        /\ arr[i].taskId = tasks[i].taskId /\ arr[i].transcript = tasks[i].transcript
        /\ tasks[i].taskId # t => arr[i] = tasks[i]
        /\ tasks[i].taskId = t =>
             /\ arr[i].toolUseId = IF tool = NoTool THEN tasks[i].toolUseId ELSE tool
             /\ arr[i].status = IF status = "same" THEN tasks[i].status ELSE status
  BY <1>4, <1>6
<1>10. /\ r \in Seq(TaskEntry) /\ Capped(r)
       /\ \A k \in DOMAIN r : \E i \in DOMAIN arr : r[k] = arr[i]
       /\ \A i \in DOMAIN arr :
            arr[i].status = "running" \/ Len(arr) <= TasksCap => \E k \in DOMAIN r : r[k] = arr[i]
       /\ (\A i, j \in DOMAIN arr : arr[i].taskId = arr[j].taskId => i = j) =>
            \A k, l \in DOMAIN r : r[k].taskId = r[l].taskId => k = l
  BY <1>1, <1>8, CapKeeps
<1>11. \A k, l \in DOMAIN r : r[k].taskId = r[l].taskId => k = l
  <2>1. \A i, j \in DOMAIN arr : arr[i].taskId = arr[j].taskId => i = j
    BY <1>0, <1>6, <1>9
  <2> QED BY <1>10, <2>1
<1>12. \A i \in DOMAIN tasks : /\ arr[i].toolUseId \in {NoTool, ToolOf[arr[i].taskId]}
                               /\ arr[i].toolUseId = NoTool => arr[i].transcript = <<>>
  BY <1>0, <1>3, <1>9
<1>13. TasksListed(r)
  BY <1>6, <1>10, <1>11, <1>12 DEF TasksListed
<1>14. Others(r, t)
  BY <1>6, <1>9, <1>10 DEF Others
<1>15. Stay(r, t)
  <2> SUFFICES ASSUME NEW i \in DOMAIN tasks, tasks[i].status = "running",
                      tasks[i].taskId # t \/ Len(tasks) <= TasksCap
               PROVE  \E k \in DOMAIN r : r[k].taskId = tasks[i].taskId
    BY DEF Stay
  <2>1. arr[i].status = "running" \/ Len(arr) <= TasksCap
    BY <1>8, <1>9
  <2>2. \E k \in DOMAIN r : r[k] = arr[i]
    BY <1>6, <1>10, <2>1
  <2> QED BY <1>9, <2>2
<1>16. \A k \in DOMAIN r : r[k].taskId = t =>
         \E i \in TaskAt(t) : /\ r[k].transcript = tasks[i].transcript
                              /\ r[k].toolUseId = IF tool = NoTool THEN tasks[i].toolUseId ELSE tool
  <2> SUFFICES ASSUME NEW k \in DOMAIN r, r[k].taskId = t
               PROVE  \E i \in TaskAt(t) :
                        /\ r[k].transcript = tasks[i].transcript
                        /\ r[k].toolUseId = IF tool = NoTool THEN tasks[i].toolUseId ELSE tool
    OBVIOUS
  <2>1. PICK i \in DOMAIN arr : r[k] = arr[i]
    BY <1>10
  <2>2. i \in DOMAIN tasks /\ tasks[i].taskId = t
    BY <1>6, <1>9, <2>1
  <2> QED BY <1>5, <1>9, <2>1, <2>2
<1>17. ASSUME status = "running", TaskAt(t) # {} PROVE \E k \in DOMAIN r : r[k].taskId = t
  <2>1. PICK i \in DOMAIN tasks : tasks[i].taskId = t
    BY <1>17 DEF TaskAt
  <2>2. arr[i].status = "running" /\ arr[i].taskId = t
    BY <1>9, <1>17, <2>1
  <2> QED BY <1>6, <1>10, <2>1, <2>2
<1> QED BY <1>10, <1>13, <1>14, <1>15, <1>16, <1>17

(* A list with a new task at its end                                       *)
LEMMA InsertedEffect ==
    ASSUME TasksListed(tasks), NEW t \in TaskIds, TaskAt(t) = {}, NEW status \in TaskStatus,
           NEW tool \in {NoTool, ToolOf[t]}, NEW r, r = Inserted(NewTask(t, tool, status))
    PROVE  /\ TasksListed(r) /\ Capped(r) /\ Others(r, t)
           /\ \A i \in DOMAIN tasks : tasks[i].status = "running" =>
                \E k \in DOMAIN r : r[k].taskId = tasks[i].taskId
           /\ \A k \in DOMAIN r : r[k].taskId = t => r[k].transcript = <<>> /\ r[k].toolUseId = tool
           /\ status = "running" => \E k \in DOMAIN r : r[k].taskId = t
<1> DEFINE new == NewTask(t, tool, status)
           arr == Append(tasks, new)
<1>0. /\ tasks \in Seq(TaskEntry) /\ Len(tasks) \in Nat
      /\ \A i, j \in DOMAIN tasks : tasks[i].taskId = tasks[j].taskId => i = j
      /\ \A i \in DOMAIN tasks :
           /\ tasks[i].toolUseId \in {NoTool, ToolOf[tasks[i].taskId]}
           /\ tasks[i].toolUseId = NoTool => tasks[i].transcript = <<>>
  BY DEF TasksListed
<1>1. r = capTasksKeepRunning(arr, TasksCap)
  BY DEF Inserted
<1>2. tool \in Parents
  BY ToolsAreTools DEF Parents
<1>3. /\ new \in TaskEntry /\ new.taskId = t /\ new.toolUseId = tool /\ new.status = status
      /\ new.transcript = <<>>
  BY <1>2 DEF NewTask, TaskEntry
<1>4. \A i \in DOMAIN tasks : tasks[i].taskId # t
  BY DEF TaskAt
<1> HIDE DEF new
<1>5. /\ arr \in Seq(TaskEntry) /\ Len(tasks) + 1 \in DOMAIN arr /\ arr[Len(tasks) + 1] = new
      /\ \A i \in DOMAIN tasks : i \in DOMAIN arr /\ arr[i] = tasks[i]
      /\ \A i \in DOMAIN arr : \/ i \in DOMAIN tasks /\ arr[i] = tasks[i]
                               \/ i = Len(tasks) + 1 /\ arr[i] = new
  BY <1>0, <1>3, Appended
<1> HIDE DEF arr
<1>6. /\ r \in Seq(TaskEntry) /\ Capped(r)
      /\ \A k \in DOMAIN r : \E i \in DOMAIN arr : r[k] = arr[i]
      /\ \A i \in DOMAIN arr :
           arr[i].status = "running" \/ Len(arr) <= TasksCap => \E k \in DOMAIN r : r[k] = arr[i]
      /\ (\A i, j \in DOMAIN arr : arr[i].taskId = arr[j].taskId => i = j) =>
           \A k, l \in DOMAIN r : r[k].taskId = r[l].taskId => k = l
  BY <1>1, <1>5, CapKeeps
<1>7. \A i, j \in DOMAIN arr : arr[i].taskId = arr[j].taskId => i = j
  BY <1>0, <1>3, <1>4, <1>5
<1>8. \A k, l \in DOMAIN r : r[k].taskId = r[l].taskId => k = l
  BY <1>6, <1>7
<1>9. \A i \in DOMAIN arr : /\ arr[i].toolUseId \in {NoTool, ToolOf[arr[i].taskId]}
                            /\ arr[i].toolUseId = NoTool => arr[i].transcript = <<>>
  BY <1>0, <1>3, <1>5
<1>10. TasksListed(r)
  BY <1>6, <1>8, <1>9 DEF TasksListed
<1>11. Others(r, t)
  <2> SUFFICES ASSUME NEW k \in DOMAIN r, r[k].taskId # t
               PROVE  \E i \in DOMAIN tasks : /\ tasks[i].taskId = r[k].taskId
                                              /\ tasks[i].transcript = r[k].transcript
                                              /\ tasks[i].toolUseId = r[k].toolUseId
    BY DEF Others
  <2>1. PICK i \in DOMAIN arr : r[k] = arr[i]
    BY <1>6
  <2>2. i \in DOMAIN tasks /\ r[k] = tasks[i]
    BY <1>3, <1>5, <2>1
  <2> QED BY <2>2
<1>12. ASSUME NEW i \in DOMAIN tasks, tasks[i].status = "running"
       PROVE  \E k \in DOMAIN r : r[k].taskId = tasks[i].taskId
  <2>1. i \in DOMAIN arr /\ arr[i] = tasks[i]
    BY <1>5
  <2>2. \E k \in DOMAIN r : r[k] = arr[i]
    BY <1>6, <1>12, <2>1
  <2> QED BY <2>1, <2>2
<1>13. \A k \in DOMAIN r : r[k].taskId = t => r[k].transcript = <<>> /\ r[k].toolUseId = tool
  BY <1>3, <1>4, <1>5, <1>6
<1>14. status = "running" => \E k \in DOMAIN r : r[k].taskId = t
  BY <1>3, <1>5, <1>6
<1> QED BY <1>6, <1>10, <1>11, <1>12, <1>13, <1>14

LEMMA FramesOfIs ==
    \A list, f : f \in FramesOf(list) <=>
      \E i \in DOMAIN list : \E k \in DOMAIN list[i].transcript : list[i].transcript[k] = f
BY DEF FramesOf, ToSet

LEMMA OrphansAre == \A f : f \in Orphans <=> Waiting(pendingByParent, f)
BY DEF Orphans, Waiting, ToSet

(* Where the frames are: the part of TasksInv a step has to bring along.   *)
Places == /\ TranscriptsKept /\ OrphansKept /\ FramesPlaced
          /\ AnnouncedTakesOrphans /\ TranscriptInOrder

(* The flags of the tasks after an event for t                             *)
Flags(t) ==
  /\ \A s : s # t => (s \in unannounced' <=> s \in unannounced)
  /\ TaskAt(t) # {} => unannounced' = unannounced

(* An event for t that moves no orphans                                    *)
QuietEvent(t) ==
  /\ TasksListed(tasks') /\ Others(tasks', t) /\ Flags(t)
  /\ \A k \in DOMAIN tasks' : tasks'[k].taskId = t =>
       \/ tasks'[k].transcript = <<>> /\ (tasks'[k].toolUseId = NoTool \/ t \in unannounced')
       \/ \E i \in TaskAt(t) : /\ tasks'[k].transcript = tasks[i].transcript
                               /\ tasks'[k].toolUseId = tasks[i].toolUseId
  /\ evicted' = evicted \cup (FramesOf(tasks) \ FramesOf(tasks'))
  /\ UNCHANGED <<pendingByParent, agentFrames, expired>>

(* Such an event keeps every frame in its place.                           *)
LEMMA QuietEventSafe ==
    ASSUME Places, NEW t \in TaskIds, QuietEvent(t)
    PROVE  Places'
<1>1. /\ UNCHANGED <<pendingByParent, agentFrames, expired>>
      /\ GivenUp' = GivenUp \cup (FramesOf(tasks) \ FramesOf(tasks'))
      /\ \A f : Waiting(pendingByParent', f) <=> Waiting(pendingByParent, f)
  BY DEF QuietEvent, GivenUp, Waiting
<1>2. ASSUME NEW k \in DOMAIN tasks'
      PROVE  \/ /\ tasks'[k].transcript = <<>>
                /\ tasks'[k].toolUseId = NoTool \/ tasks'[k].taskId \in unannounced'
             \/ \E i \in DOMAIN tasks : /\ tasks[i].taskId = tasks'[k].taskId
                                        /\ tasks[i].transcript = tasks'[k].transcript
                                        /\ tasks[i].toolUseId = tasks'[k].toolUseId
                                        /\ tasks[i].taskId \in unannounced <=> tasks'[k].taskId \in unannounced'
  <2>1. CASE tasks'[k].taskId # t
    BY <2>1 DEF QuietEvent, Others, Flags
  <2>2. CASE tasks'[k].taskId = t
    BY <2>2 DEF QuietEvent, Flags, TaskAt
  <2> QED BY <2>1, <2>2
<1>3. TranscriptsKept'
  <2> SUFFICES ASSUME NEW k \in DOMAIN tasks'
               PROVE  Transcribed(tasks'[k], pendingByParent', agentFrames', GivenUp')
    BY DEF TranscriptsKept
  <2>1. CASE tasks'[k].transcript = <<>>
    BY <2>1 DEF Transcribed
  <2>2. CASE \E i \in DOMAIN tasks : /\ tasks[i].transcript = tasks'[k].transcript
                                     /\ tasks[i].toolUseId = tasks'[k].toolUseId
    <3>1. PICK i \in DOMAIN tasks : /\ tasks[i].transcript = tasks'[k].transcript
                                    /\ tasks[i].toolUseId = tasks'[k].toolUseId
      BY <2>2
    <3>2. Transcribed(tasks[i], pendingByParent, agentFrames, GivenUp)
      BY DEF Places, TranscriptsKept
    <3>3. \A l \in DOMAIN tasks'[k].transcript : tasks'[k].transcript[l] \in FramesOf(tasks')
      BY FramesOfIs
    <3>4. \A l \in DOMAIN tasks'[k].transcript : tasks'[k].transcript[l] \notin GivenUp'
      BY <1>1, <3>1, <3>2, <3>3 DEF Transcribed
    <3> QED BY <1>1, <3>1, <3>2, <3>4 DEF Transcribed
  <2> QED BY <1>2, <2>1, <2>2
<1>4. \A f \in FramesOf(tasks) : ~Waiting(pendingByParent, f)
  BY FramesOfIs DEF Places, TranscriptsKept, Transcribed
<1>5. OrphansKept'
  <2>1. \A p \in Tools : \A k \in DOMAIN pendingByParent[p] :
          pendingByParent[p][k].frame \notin GivenUp'
    BY <1>1, <1>4 DEF Places, OrphansKept, Waiting
  <2> QED BY <1>1, <2>1 DEF Places, OrphansKept
<1>6. FramesPlaced'
  BY <1>1 DEF Places, FramesPlaced
<1>7. AnnouncedTakesOrphans'
  BY <1>1, <1>2 DEF Places, AnnouncedTakesOrphans
<1>8. TranscriptInOrder'
  BY <1>1, <1>2 DEF Places, TranscriptInOrder
<1> QED BY <1>3, <1>5, <1>6, <1>7, <1>8 DEF Places

(* An event that announces t with its tool use: the orphans are moved.     *)
AnnouncingEvent(t, list) ==
  /\ TasksListed(list) /\ Others(list, t) /\ Flags(t)
  /\ TaskAt(t) = {} => t \notin unannounced'
  /\ \E k \in DOMAIN list : list[k].taskId = t
  /\ \A k \in DOMAIN list : list[k].taskId = t =>
       /\ list[k].toolUseId = ToolOf[t]
       /\ TaskAt(t) = {} => list[k].transcript = <<>>
       /\ TaskAt(t) # {} => \E i \in TaskAt(t) : list[k].transcript = tasks[i].transcript
  /\ tasks' = Flushed(list, ToolOf[t])
  /\ pendingByParent' = [pendingByParent EXCEPT ![ToolOf[t]] = <<>>]
  /\ evicted' = evicted \cup (FramesOf(tasks) \ FramesOf(tasks'))
  /\ UNCHANGED <<agentFrames, expired>>

(* The type of pendingByParent                                             *)
Buffers == [Tools -> Seq([frame : Nat, addedAt : Nat])]

(* Entry j is the one announced.                                           *)
AnnouncedAt(t, list, moved, j) ==
  /\ list[j].taskId = t /\ DOMAIN tasks' = DOMAIN list
  /\ \A k \in DOMAIN list : k # j => list[k].taskId # t /\ tasks'[k] = list[k]
  /\ tasks'[j] = [list[j] EXCEPT !.transcript = @ \o moved]
  /\ \/ list[j].transcript = <<>>
     \/ /\ t \notin unannounced' => moved = <<>>
        /\ \E i \in TaskAt(t) : /\ list[j].transcript = tasks[i].transcript
                                /\ tasks[i].toolUseId = ToolOf[t]
                                /\ t \in unannounced' <=> t \in unannounced

(* One entry is of the task; the orphans go to its end.  When it already   *)
(* has frames, there are no orphans to move, or the task was first heard   *)
(* of by a notification.                                                   *)
LEMMA AnnouncedList ==
    ASSUME TasksListed(tasks), pendingByParent \in Buffers, Places,
           NEW t \in TaskIds, NEW list, AnnouncingEvent(t, list), NEW moved,
           moved = [k \in DOMAIN pendingByParent[ToolOf[t]] |-> pendingByParent[ToolOf[t]][k].frame]
    PROVE  /\ moved \in Seq(Nat) /\ DOMAIN moved = DOMAIN pendingByParent[ToolOf[t]]
           /\ \E j \in DOMAIN list : AnnouncedAt(t, list, moved, j)
<1> DEFINE tool == ToolOf[t]
           buf == pendingByParent[tool]
<1>1. tool \in Tools /\ tool # NoTool
  BY ToolsAreTools
<1>2. buf \in Seq([frame : Nat, addedAt : Nat])
  BY <1>1 DEF Buffers
<1>4. moved = [k \in DOMAIN buf |-> buf[k].frame]
  OBVIOUS
<1> HIDE DEF buf
<1>3. Len(buf) \in Nat /\ DOMAIN buf = 1 .. Len(buf) /\ \A k \in DOMAIN buf : buf[k].frame \in Nat
  <2>1. \A k \in DOMAIN buf : buf[k] \in [frame : Nat, addedAt : Nat]
    BY <1>2, Elements
  <2> QED BY <1>2, <2>1, Elements
<1>5. moved \in Seq(Nat) /\ DOMAIN moved = DOMAIN buf
  BY <1>3, <1>4
<1>6. PICK j \in DOMAIN list : list[j].taskId = t
  BY DEF AnnouncingEvent
<1>7. /\ list \in Seq(TaskEntry)
      /\ \A i, k \in DOMAIN list : list[i].taskId = list[k].taskId => i = k
      /\ \A i \in DOMAIN list : list[i].toolUseId \in {NoTool, ToolOf[list[i].taskId]}
  BY DEF AnnouncingEvent, TasksListed
<1>8. \A i \in DOMAIN list : i \in Nat /\ list[i].taskId \in TaskIds
  <2>1. \A i \in DOMAIN list : i \in Nat /\ list[i] \in TaskEntry
    BY <1>7, Elements
  <2> QED BY <2>1 DEF TaskEntry
<1>9. list[j].toolUseId = tool
  BY <1>6 DEF AnnouncingEvent
<1>10. \A i \in DOMAIN list : list[i].toolUseId = tool => i = j
  <2> SUFFICES ASSUME NEW i \in DOMAIN list, list[i].toolUseId = tool PROVE i = j
    OBVIOUS
  <2>1. ToolOf[list[i].taskId] = ToolOf[t]
    BY <1>1, <1>7
  <2>2. list[i].taskId = t
    BY <1>8, <2>1, FramesAssumption
  <2> QED BY <1>6, <1>7, <2>2
<1>11. ParentAt(list, tool) = {j}
  BY <1>9, <1>10 DEF ParentAt
<1>12. First({j}) = j
  BY <1>8 DEF First
<1>13. tasks' = [i \in DOMAIN list |-> IF i = j THEN [list[i] EXCEPT !.transcript = @ \o moved]
                                       ELSE list[i]]
  BY <1>4, <1>11, <1>12 DEF AnnouncingEvent, Flushed, buf
<1>14. /\ DOMAIN tasks' = DOMAIN list /\ tasks'[j] = [list[j] EXCEPT !.transcript = @ \o moved]
       /\ \A k \in DOMAIN list : k # j => list[k].taskId # t /\ tasks'[k] = list[k]
  BY <1>6, <1>7, <1>13
<1>15. \/ list[j].transcript = <<>>
       \/ /\ t \notin unannounced' => moved = <<>>
          /\ \E i \in TaskAt(t) : /\ list[j].transcript = tasks[i].transcript
                                  /\ tasks[i].toolUseId = ToolOf[t]
                                  /\ t \in unannounced' <=> t \in unannounced
  <2> SUFFICES ASSUME list[j].transcript # <<>>
               PROVE  /\ t \notin unannounced' => moved = <<>>
                      /\ \E i \in TaskAt(t) : /\ list[j].transcript = tasks[i].transcript
                                              /\ tasks[i].toolUseId = ToolOf[t]
                                              /\ t \in unannounced' <=> t \in unannounced
    OBVIOUS
  <2>1. TaskAt(t) # {}
    BY <1>6 DEF AnnouncingEvent
  <2>2. PICK i \in TaskAt(t) : list[j].transcript = tasks[i].transcript
    BY <1>6, <2>1 DEF AnnouncingEvent
  <2>3. i \in DOMAIN tasks /\ tasks[i].taskId = t
    BY DEF TaskAt
  <2>4. tasks[i].toolUseId = ToolOf[t]
    BY <2>2, <2>3 DEF TasksListed
  <2>5. unannounced' = unannounced
    BY <2>1 DEF AnnouncingEvent, Flags
  <2>6. t \notin unannounced => buf = <<>>
    BY <1>1, <2>3, <2>4 DEF Places, AnnouncedTakesOrphans, buf
  <2>7. t \notin unannounced' => moved = <<>>
    <3>1. ASSUME t \notin unannounced' PROVE moved = <<>>
      <4>1. DOMAIN moved = {}
        BY <1>5, <2>5, <2>6, <3>1
      <4> QED BY <1>5, <4>1
    <3> QED BY <3>1
  <2> QED BY <2>2, <2>4, <2>5, <2>7
<1>16. AnnouncedAt(t, list, moved, j)
  BY <1>6, <1>14, <1>15 DEF AnnouncedAt
<1> QED BY <1>5, <1>16 DEF buf

(* The orphans moved are shown once, in order, and wait no longer.         *)
LEMMA AnnouncingEventSafe ==
    ASSUME TasksListed(tasks), pendingByParent \in Buffers, Places,
           NEW t \in TaskIds, NEW list, AnnouncingEvent(t, list)
    PROVE  Places' /\ TasksListed(tasks')
<1> DEFINE tool == ToolOf[t]
           moved == [k \in DOMAIN pendingByParent[tool] |-> pendingByParent[tool][k].frame]
<1>1. tool \in Tools /\ tool # NoTool
  BY ToolsAreTools
<1>2. \A k \in DOMAIN pendingByParent[tool] : moved[k] = pendingByParent[tool][k].frame
  OBVIOUS
<1>a. moved = [k \in DOMAIN pendingByParent[tool] |-> pendingByParent[tool][k].frame]
  OBVIOUS
<1> HIDE DEF moved
<1>3. moved \in Seq(Nat) /\ DOMAIN moved = DOMAIN pendingByParent[tool]
  BY <1>a, AnnouncedList
<1>b. PICK j \in DOMAIN list : AnnouncedAt(t, list, moved, j)
  BY <1>a, AnnouncedList
<1>4. /\ list[j].taskId = t /\ DOMAIN tasks' = DOMAIN list
      /\ \A k \in DOMAIN list : k # j => list[k].taskId # t /\ tasks'[k] = list[k]
      /\ tasks'[j] = [list[j] EXCEPT !.transcript = @ \o moved]
      /\ \/ list[j].transcript = <<>>
         \/ /\ t \notin unannounced' => moved = <<>>
            /\ \E i \in TaskAt(t) : /\ list[j].transcript = tasks[i].transcript
                                    /\ tasks[i].toolUseId = ToolOf[t]
                                    /\ t \in unannounced' <=> t \in unannounced
  BY <1>b DEF AnnouncedAt
<1> DEFINE old == list[j].transcript
           new == tasks'[j].transcript
<1>5. /\ list \in Seq(TaskEntry)
      /\ \A i, k \in DOMAIN list : list[i].taskId = list[k].taskId => i = k
      /\ \A i \in DOMAIN list :
           /\ list[i].toolUseId \in {NoTool, ToolOf[list[i].taskId]}
           /\ list[i].toolUseId = NoTool => list[i].transcript = <<>>
      /\ list[j].toolUseId = tool
  BY <1>4 DEF AnnouncingEvent, TasksListed
<1>6. list[j] \in [taskId : TaskIds, toolUseId : Parents, status : TaskStatus, transcript : Seq(Nat)]
  BY <1>5, Elements DEF TaskEntry
<1>7. /\ tasks'[j].taskId = t /\ tasks'[j].toolUseId = tool
      /\ new = old \o moved /\ old \in Seq(Nat)
      /\ tasks'[j].status = list[j].status
  BY <1>4, <1>5, <1>6
<1>8. new \in Seq(Nat) /\ Joins(new, old, moved)
  BY <1>3, <1>7, Concatenated
<1>9. tasks'[j] \in TaskEntry
  <2>1. tasks'[j] = [list[j] EXCEPT !.transcript = new]
    BY <1>4, <1>6, <1>7
  <2> HIDE DEF new
  <2> QED BY <1>6, <1>8, <2>1 DEF TaskEntry
<1> HIDE DEF old, new
<1>10. TasksListed(tasks')
  <2>1. \A k \in DOMAIN list : tasks'[k] \in TaskEntry
    BY <1>4, <1>5, <1>9, Elements
  <2>2. tasks' \in Seq(TaskEntry)
    <3>1. Len(list) \in Nat /\ DOMAIN list = 1 .. Len(list)
      BY <1>5, Elements
    <3>2. tasks' = [k \in 1 .. Len(list) |-> tasks'[k]]
      BY <1>4, <3>1 DEF AnnouncingEvent, Flushed
    <3> QED BY <2>1, <3>1, <3>2
  <2>3. \A k \in DOMAIN list : tasks'[k].taskId = list[k].taskId /\ tasks'[k].toolUseId = list[k].toolUseId
    BY <1>4, <1>5, <1>7
  <2>4. \A k \in DOMAIN list : tasks'[k].toolUseId = NoTool => tasks'[k].transcript = <<>>
    BY <1>1, <1>4, <1>5, <2>3
  <2> QED BY <1>4, <1>5, <2>2, <2>3, <2>4 DEF TasksListed
(* Waiting, and given up                                                   *)
<1>11. /\ UNCHANGED <<agentFrames, expired>>
       /\ GivenUp' = GivenUp \cup (FramesOf(tasks) \ FramesOf(tasks'))
       /\ \A p \in Tools : pendingByParent'[p] = IF p = tool THEN <<>> ELSE pendingByParent[p]
  BY DEF AnnouncingEvent, GivenUp, Buffers
<1>12. \A f : Waiting(pendingByParent', f) <=>
               Waiting(pendingByParent, f) /\ \A k \in DOMAIN moved : moved[k] # f
  <2>1. ASSUME NEW f, Waiting(pendingByParent', f)
        PROVE  Waiting(pendingByParent, f) /\ \A k \in DOMAIN moved : moved[k] # f
    <3>1. PICK p \in Tools : p # tool /\ \E k \in DOMAIN pendingByParent[p] : pendingByParent[p][k].frame = f
      BY <1>11, <2>1 DEF Waiting
    <3>2. agentFrames[f] = p
      BY <3>1 DEF Places, OrphansKept
    <3>3. \A k \in DOMAIN moved : agentFrames[moved[k]] = tool
      BY <1>1, <1>2, <1>3 DEF Places, OrphansKept
    <3> QED BY <3>1, <3>2, <3>3 DEF Waiting
  <2>2. ASSUME NEW f, Waiting(pendingByParent, f), \A k \in DOMAIN moved : moved[k] # f
        PROVE  Waiting(pendingByParent', f)
    <3>1. PICK p \in Tools : \E k \in DOMAIN pendingByParent[p] : pendingByParent[p][k].frame = f
      BY <2>2 DEF Waiting
    <3>2. p # tool
      BY <1>2, <1>3, <2>2, <3>1
    <3> QED BY <1>11, <3>1, <3>2 DEF Waiting
  <2> QED BY <2>1, <2>2
<1>13. \A f \in FramesOf(tasks) : ~Waiting(pendingByParent, f)
  BY FramesOfIs DEF Places, TranscriptsKept, Transcribed
<1>14. \A k \in DOMAIN moved :
         /\ moved[k] \in DOMAIN agentFrames /\ agentFrames[moved[k]] = tool
         /\ moved[k] \notin GivenUp /\ Waiting(pendingByParent, moved[k])
         /\ \A l \in DOMAIN moved : k < l => moved[k] < moved[l]
  <2>1. \A k \in DOMAIN pendingByParent[tool] :
          /\ pendingByParent[tool][k].frame \in DOMAIN agentFrames
          /\ agentFrames[pendingByParent[tool][k].frame] = tool
          /\ pendingByParent[tool][k].frame \notin GivenUp
          /\ Waiting(pendingByParent, pendingByParent[tool][k].frame)
    BY <1>1 DEF Places, OrphansKept, Waiting
  <2>2. \A k, l \in DOMAIN pendingByParent[tool] :
          k < l => pendingByParent[tool][k].frame < pendingByParent[tool][l].frame
    BY <1>1 DEF Places, OrphansKept
  <2> QED BY <1>2, <1>3, <2>1, <2>2
<1>15. \A k \in DOMAIN old :
         /\ old[k] \in DOMAIN agentFrames /\ agentFrames[old[k]] = tool
         /\ old[k] \notin GivenUp /\ ~Waiting(pendingByParent, old[k])
         /\ \A l \in DOMAIN old : old[k] = old[l] => k = l
  <2>1. CASE old = <<>>
    BY <2>1
  <2>2. CASE \E i \in TaskAt(t) : old = tasks[i].transcript /\ tasks[i].toolUseId = ToolOf[t]
    BY <2>2 DEF TaskAt, Places, TranscriptsKept, Transcribed
  <2> QED BY <1>4, <2>1, <2>2 DEF old
<1>16. ASSUME NEW k \in DOMAIN list, k # j
       PROVE  \E i \in DOMAIN tasks : /\ tasks[i].taskId = tasks'[k].taskId
                                      /\ tasks[i].transcript = tasks'[k].transcript
                                      /\ tasks[i].toolUseId = tasks'[k].toolUseId
                                      /\ tasks[i].taskId \in unannounced <=> tasks'[k].taskId \in unannounced'
  BY <1>4, <1>16 DEF AnnouncingEvent, Others, Flags
<1>17. Transcribed(tasks'[j], pendingByParent', agentFrames', GivenUp')
  <2>1. \A k \in DOMAIN new :
          new[k] \in DOMAIN agentFrames /\ agentFrames[new[k]] = tool /\ new[k] \notin GivenUp
    BY <1>8, <1>14, <1>15 DEF Joins
  <2>2. \A k \in DOMAIN new : ~Waiting(pendingByParent', new[k])
    BY <1>8, <1>12, <1>15 DEF Joins
  <2>3. \A k \in DOMAIN new : new[k] \in FramesOf(tasks')
    BY <1>4, FramesOfIs DEF new
  <2>4. ASSUME NEW k \in DOMAIN new, NEW l \in DOMAIN new, new[k] = new[l] PROVE k = l
    <3>0. Len(old) \in Nat /\ k \in Nat /\ l \in Nat
      BY <1>8, Elements
    <3>1. CASE k \in DOMAIN old /\ new[k] = old[k] /\ l \in DOMAIN old /\ new[l] = old[l]
      BY <1>15, <2>4, <3>1
    <3>2. CASE /\ k \in DOMAIN old /\ new[k] = old[k]
               /\ l - Len(old) \in DOMAIN moved /\ new[l] = moved[l - Len(old)]
      BY <1>14, <1>15, <2>4, <3>2
    <3>3. CASE /\ l \in DOMAIN old /\ new[l] = old[l]
               /\ k - Len(old) \in DOMAIN moved /\ new[k] = moved[k - Len(old)]
      BY <1>14, <1>15, <2>4, <3>3
    <3>4. CASE /\ k - Len(old) \in DOMAIN moved /\ new[k] = moved[k - Len(old)]
               /\ l - Len(old) \in DOMAIN moved /\ new[l] = moved[l - Len(old)]
      <4> DEFINE a == k - Len(old)
                 b == l - Len(old)
      <4>1. a \in DOMAIN moved /\ b \in DOMAIN moved /\ moved[a] = moved[b]
        BY <2>4, <3>4
      <4>2. a \in Nat /\ b \in Nat /\ moved[a] \in Nat
        BY <1>3, <4>1, Elements
      <4>3. ~(a < b) /\ ~(b < a)
        BY <1>14, <4>1, <4>2
      <4>4. a = b
        BY <4>2, <4>3
      <4> QED BY <3>0, <4>4
    <3> QED BY <1>8, <3>1, <3>2, <3>3, <3>4 DEF Joins
  <2>5. \A k \in DOMAIN new : new[k] \notin GivenUp'
    BY <1>11, <2>1, <2>3
  <2> QED BY <1>7, <1>11, <2>1, <2>2, <2>4, <2>5 DEF Transcribed, new
<1>18. TranscriptsKept'
  <2> SUFFICES ASSUME NEW k \in DOMAIN list, k # j
               PROVE  Transcribed(tasks'[k], pendingByParent', agentFrames', GivenUp')
    BY <1>4, <1>17 DEF TranscriptsKept
  <2>1. PICK i \in DOMAIN tasks : /\ tasks[i].transcript = tasks'[k].transcript
                                  /\ tasks[i].toolUseId = tasks'[k].toolUseId
    BY <1>16
  <2>2. Transcribed(tasks[i], pendingByParent, agentFrames, GivenUp)
    BY DEF Places, TranscriptsKept
  <2>3. \A l \in DOMAIN tasks'[k].transcript : tasks'[k].transcript[l] \in FramesOf(tasks')
    BY <1>4, FramesOfIs
  <2>4. \A l \in DOMAIN tasks'[k].transcript : tasks'[k].transcript[l] \notin GivenUp'
    BY <1>11, <2>1, <2>2, <2>3 DEF Transcribed
  <2>5. \A l \in DOMAIN tasks'[k].transcript : ~Waiting(pendingByParent', tasks'[k].transcript[l])
    BY <1>12, <2>1, <2>2 DEF Transcribed
  <2> QED BY <1>11, <2>1, <2>2, <2>4, <2>5 DEF Transcribed
<1>19. OrphansKept'
  <2>1. \A p \in Tools : \A k \in DOMAIN pendingByParent[p] :
          pendingByParent[p][k].frame \notin FramesOf(tasks)
    BY <1>13 DEF Waiting
  <2>2. \A p \in Tools : p # tool =>
          \A k \in DOMAIN pendingByParent'[p] : pendingByParent'[p][k].frame \notin GivenUp'
    BY <1>11, <2>1 DEF Places, OrphansKept
  <2> QED BY <1>11, <2>2 DEF Places, OrphansKept
<1>20. FramesPlaced'
  <2> SUFFICES ASSUME NEW f \in DOMAIN agentFrames
               PROVE  f \in GivenUp' \/ Waiting(pendingByParent', f) \/ f \in FramesOf(tasks')
    BY <1>11 DEF FramesPlaced
  <2>1. CASE f \in GivenUp \/ f \in FramesOf(tasks)
    BY <1>11, <2>1
  <2>2. CASE Waiting(pendingByParent, f) /\ ~Waiting(pendingByParent', f)
    <3>1. PICK k \in DOMAIN moved : moved[k] = f
      BY <1>12, <2>2
    <3>2. k + Len(old) \in DOMAIN new /\ new[k + Len(old)] = f
      BY <1>8, <3>1 DEF Joins
    <3> QED BY <1>4, <3>2, FramesOfIs DEF new
  <2> QED BY <2>1, <2>2 DEF Places, FramesPlaced
<1>21. AnnouncedTakesOrphans'
  <2> SUFFICES ASSUME NEW k \in DOMAIN tasks', tasks'[k].taskId \notin unannounced',
                      tasks'[k].toolUseId # NoTool
               PROVE  pendingByParent'[tasks'[k].toolUseId] = <<>>
    BY DEF AnnouncedTakesOrphans
  <2>1. CASE k = j
    BY <1>1, <1>7, <1>11, <2>1
  <2>2. CASE k # j
    <3>1. pendingByParent[tasks'[k].toolUseId] = <<>>
      BY <1>4, <1>16, <2>2 DEF Places, AnnouncedTakesOrphans
    <3>2. tasks'[k].toolUseId \in Tools
      <4>1. tasks'[k] \in TaskEntry
        BY <1>10, Elements DEF TasksListed
      <4>2. tasks'[k].toolUseId \in Parents
        BY <4>1 DEF TaskEntry
      <4> QED BY <4>2 DEF Parents
    <3> QED BY <1>11, <3>1, <3>2
  <2> QED BY <2>1, <2>2
<1>22. TranscriptInOrder'
  <2> SUFFICES ASSUME NEW k \in DOMAIN tasks', tasks'[k].taskId \notin unannounced'
               PROVE  \A a, b \in DOMAIN tasks'[k].transcript :
                        a < b => tasks'[k].transcript[a] < tasks'[k].transcript[b]
    BY DEF TranscriptInOrder
  <2>1. CASE k # j
    BY <1>4, <1>16, <2>1 DEF Places, TranscriptInOrder
  <2>2. CASE k = j /\ old = <<>>
    <3>1. new = moved
      BY <1>3, <1>7, <2>2 DEF new
    <3> QED BY <1>14, <2>2, <3>1 DEF new
  <2>3. CASE k = j /\ old # <<>>
    <3>1. PICK i \in TaskAt(t) : old = tasks[i].transcript /\ (t \in unannounced' <=> t \in unannounced)
      BY <1>4, <2>3 DEF old
    <3>2. moved = <<>>
      BY <1>4, <1>7, <2>3 DEF old
    <3>3. new = old
      BY <1>7, <3>2 DEF new
    <3>4. i \in DOMAIN tasks /\ tasks[i].taskId = t /\ t \notin unannounced
      BY <1>7, <2>3, <3>1 DEF TaskAt
    <3> QED BY <2>3, <3>1, <3>3, <3>4 DEF Places, TranscriptInOrder, new
  <2> QED BY <2>1, <2>2, <2>3
<1> QED BY <1>10, <1>18, <1>19, <1>20, <1>21, <1>22 DEF Places

(* A sub-agent frame: what the garbage collection leaves of the orphans    *)
Collected(q, r) ==
  /\ r \in Seq([frame : Nat, addedAt : Nat])
  /\ \A k \in DOMAIN r : \E i \in DOMAIN pendingByParent[q] : r[k] = pendingByParent[q][i]
  /\ \A k, l \in DOMAIN r : k < l => r[k].frame < r[l].frame
  /\ pendingByParent[q] = <<>> => r = <<>>

(* The orphans that stay are in arrival order.                             *)
LEMMA FreshEffect ==
    ASSUME pendingByParent \in Buffers, OrphansKept, NEW q \in Tools, NEW r,
           r = Fresh(pendingByParent[q])
    PROVE  Collected(q, r)
<1> DEFINE buf == pendingByParent[q]
           I == {i \in DOMAIN buf : now - buf[i].addedAt < OrphanTtl}
<1>1. buf \in Seq([frame : Nat, addedAt : Nat])
  BY DEF Buffers
<1>2. r = Kept(buf, I) /\ I \in SUBSET DOMAIN buf
  BY DEF Fresh
<1>3. \A i, j \in DOMAIN buf : i < j => buf[i].frame < buf[j].frame
  BY DEF OrphansKept
<1> HIDE DEF I, buf
<1>4. r \in Seq([frame : Nat, addedAt : Nat])
  BY <1>1, <1>2, KeptEffect
<1>5. PICK e : Embeds(e, buf, I, r)
  BY <1>1, <1>2, KeptEffect
<1>6. /\ \A k \in DOMAIN r : e[k] \in DOMAIN buf /\ r[k] = buf[e[k]]
      /\ \A k, l \in DOMAIN r : k < l => e[k] < e[l]
  BY <1>2, <1>5 DEF Embeds
<1>7. \A k, l \in DOMAIN r : k < l => r[k].frame < r[l].frame
  BY <1>3, <1>6
<1>8. ASSUME buf = <<>> PROVE r = <<>>
  <2>1. DOMAIN buf = {}
    BY <1>8
  <2>2. \A k \in DOMAIN r : FALSE
    BY <1>6, <2>1
  <2>3. Len(r) \in Nat /\ DOMAIN r = 1 .. Len(r)
    BY <1>4, Elements
  <2>4. 1 \notin 1 .. Len(r)
    BY <2>2, <2>3
  <2>5. Len(r) = 0
    BY <2>3, <2>4
  <2> QED BY <1>4, <2>5
<1>9. \A k \in DOMAIN r : \E i \in DOMAIN buf : r[k] = buf[i]
  BY <1>6
<1> QED BY <1>4, <1>7, <1>8, <1>9 DEF buf, Collected

(* The tasks after the frame joined one, or none.                          *)
JoinedBy(p, n, new) ==
  /\ TasksListed(new) /\ DOMAIN new = DOMAIN tasks
  /\ \A i \in DOMAIN tasks : /\ new[i].taskId = tasks[i].taskId
                             /\ new[i].toolUseId = tasks[i].toolUseId
                             /\ new[i].status = tasks[i].status
                             /\ tasks[i].transcript \in Seq(Nat)
                             /\ new[i].transcript = IF tasks[i].toolUseId = p
                                                    THEN Append(tasks[i].transcript, n)
                                                    ELSE tasks[i].transcript

(* At most one task has the tool use of the frame.                         *)
LEMMA FrameJoins ==
    ASSUME TasksListed(tasks), NEW p \in Tools, NEW n \in Nat,
           NEW new, new = (IF ParentAt(tasks, p) = {} THEN tasks
                           ELSE [tasks EXCEPT ![First(ParentAt(tasks, p))].transcript = Append(@, n)])
    PROVE  JoinedBy(p, n, new)
<1> DEFINE at == ParentAt(tasks, p)
<1>1. /\ tasks \in Seq(TaskEntry)
      /\ \A i, j \in DOMAIN tasks : tasks[i].taskId = tasks[j].taskId => i = j
      /\ \A i \in DOMAIN tasks :
           /\ tasks[i].toolUseId \in {NoTool, ToolOf[tasks[i].taskId]}
           /\ tasks[i].toolUseId = NoTool => tasks[i].transcript = <<>>
  BY DEF TasksListed
<1>2. \A i \in DOMAIN tasks : i \in Nat /\ tasks[i] \in TaskEntry
  BY <1>1, Elements
<1>3. \A i \in DOMAIN tasks :
        tasks[i] \in [taskId : TaskIds, toolUseId : Parents, status : TaskStatus, transcript : Seq(Nat)]
  BY <1>2 DEF TaskEntry
<1>4. p # NoTool
  BY FramesAssumption
<1>5. CASE at = {}
  <2>1. \A i \in DOMAIN tasks : tasks[i].toolUseId # p
    BY <1>5 DEF ParentAt
  <2> QED BY <1>3, <1>5, <2>1 DEF JoinedBy
<1>6. CASE at # {}
  <2>1. PICK j \in DOMAIN tasks : tasks[j].toolUseId = p
    BY <1>6 DEF ParentAt
  <2>2. \A i \in DOMAIN tasks : tasks[i].toolUseId = p => i = j
    <3> SUFFICES ASSUME NEW i \in DOMAIN tasks, tasks[i].toolUseId = p PROVE i = j
      OBVIOUS
    <3>1. ToolOf[tasks[i].taskId] = ToolOf[tasks[j].taskId]
      BY <1>1, <1>4, <2>1
    <3>2. tasks[i].taskId \in TaskIds /\ tasks[j].taskId \in TaskIds
      BY <1>3
    <3>3. tasks[i].taskId = tasks[j].taskId
      BY <3>1, <3>2, FramesAssumption
    <3> QED BY <1>1, <3>3
  <2>3. at = {j}
    BY <2>1, <2>2 DEF ParentAt
  <2>4. First({j}) = j
    BY <1>2 DEF First
  <2> DEFINE longer == [tasks[j] EXCEPT !.transcript = Append(@, n)]
  <2>5. new = [tasks EXCEPT ![j] = longer]
    BY <1>6, <2>3, <2>4
  <2>6. Append(tasks[j].transcript, n) \in Seq(Nat)
    BY <1>3
  <2>7. /\ longer \in TaskEntry /\ longer.taskId = tasks[j].taskId
        /\ longer.toolUseId = tasks[j].toolUseId /\ longer.status = tasks[j].status
        /\ longer.transcript = Append(tasks[j].transcript, n)
    BY <1>3, <2>6 DEF TaskEntry
  <2> HIDE DEF longer
  <2>8. /\ new \in Seq(TaskEntry) /\ DOMAIN new = DOMAIN tasks
        /\ \A i \in DOMAIN tasks : new[i] = IF i = j THEN longer ELSE tasks[i]
    <3>1. tasks \in Seq(TaskEntry) /\ j \in 1 .. Len(tasks) /\ longer \in TaskEntry
      BY <1>1, <2>7
    <3>2. [tasks EXCEPT ![j] = longer] \in Seq(TaskEntry)
      BY <3>1, ExceptSeq
    <3>3. new \in Seq(TaskEntry)
      BY <2>5, <3>2
    <3> QED BY <2>5, <3>3
  <2>9. \A i \in DOMAIN tasks : /\ new[i].taskId = tasks[i].taskId
                                /\ new[i].toolUseId = tasks[i].toolUseId
                                /\ new[i].status = tasks[i].status
                                /\ tasks[i].transcript \in Seq(Nat)
                                /\ new[i].transcript = IF tasks[i].toolUseId = p
                                                       THEN Append(tasks[i].transcript, n)
                                                       ELSE tasks[i].transcript
    BY <1>3, <2>1, <2>2, <2>7, <2>8
  <2>10. \A i \in DOMAIN tasks : new[i].toolUseId = NoTool => new[i].transcript = <<>>
    BY <1>1, <1>4, <2>9
  <2> QED BY <1>1, <2>8, <2>9, <2>10 DEF TasksListed, JoinedBy
<1> QED BY <1>5, <1>6

(* A new frame is in one place, and what the collection drops is in none.  *)
LEMMA AgentFrameSafe ==
    ASSUME TasksListed(tasks), pendingByParent \in Buffers, agentFrames \in Seq(Tools),
           GivenUp \subseteq DOMAIN agentFrames, now \in Nat, Places,
           NEW p \in Tools, SubAgentFrame(p)
    PROVE  /\ Places' /\ TasksListed(tasks') /\ pendingByParent' \in Buffers
           /\ agentFrames' \in Seq(Tools) /\ GivenUp' \subseteq DOMAIN agentFrames'
<1> DEFINE n == Len(agentFrames) + 1
           kept == [q \in Tools |-> Fresh(pendingByParent[q])]
           at == ParentAt(tasks, p)
           item == [frame |-> n, addedAt |-> now]
           gone == {f \in Orphans : \A q \in Tools : \A e \in ToSet(kept[q]) : e.frame # f}
<1>1. /\ agentFrames' = Append(agentFrames, p)
      /\ expired' = expired \cup gone
      /\ pendingByParent' = IF at = {} THEN [kept EXCEPT ![p] = Append(@, item)] ELSE kept
      /\ tasks' = IF at = {} THEN tasks ELSE [tasks EXCEPT ![First(at)].transcript = Append(@, n)]
      /\ UNCHANGED <<now, evicted, unannounced>>
  BY DEF SubAgentFrame
<1>2. /\ n \in Nat /\ n \notin DOMAIN agentFrames /\ agentFrames' \in Seq(Tools)
      /\ DOMAIN agentFrames' = DOMAIN agentFrames \cup {n} /\ agentFrames'[n] = p
      /\ \A f \in DOMAIN agentFrames : f \in Nat /\ f < n /\ agentFrames'[f] = agentFrames[f]
  BY <1>1
<1>3. item \in [frame : Nat, addedAt : Nat] /\ item.frame = n
  BY <1>2
<1>4. \A q \in Tools :
        /\ kept[q] \in Seq([frame : Nat, addedAt : Nat])
        /\ \A k \in DOMAIN kept[q] : \E i \in DOMAIN pendingByParent[q] : kept[q][k] = pendingByParent[q][i]
        /\ \A k, l \in DOMAIN kept[q] : k < l => kept[q][k].frame < kept[q][l].frame
        /\ pendingByParent[q] = <<>> => kept[q] = <<>>
  <2>1. ASSUME NEW q \in Tools PROVE Collected(q, kept[q])
    <3>1. kept[q] = Fresh(pendingByParent[q])
      OBVIOUS
    <3> HIDE DEF kept
    <3> QED BY <3>1, FreshEffect DEF Places
  <2> HIDE DEF kept
  <2> QED BY <2>1 DEF Collected
<1>5. \A f : f \in gone <=> Waiting(pendingByParent, f) /\ ~Waiting(kept, f)
  <2> HIDE DEF kept
  <2>1. \A f : Waiting(kept, f) <=> \E q \in Tools : \E e \in ToSet(kept[q]) : e.frame = f
    BY DEF Waiting, ToSet
  <2> QED BY <2>1, OrphansAre
<1>6. DOMAIN kept = Tools
  OBVIOUS
<1> HIDE DEF n, kept, item, gone
<1>7. /\ TasksListed(tasks') /\ DOMAIN tasks' = DOMAIN tasks
      /\ \A i \in DOMAIN tasks : /\ tasks'[i].taskId = tasks[i].taskId
                                 /\ tasks'[i].toolUseId = tasks[i].toolUseId
                                 /\ tasks[i].transcript \in Seq(Nat)
                                 /\ tasks'[i].transcript = IF tasks[i].toolUseId = p
                                                           THEN Append(tasks[i].transcript, n)
                                                           ELSE tasks[i].transcript
  <2>1. JoinedBy(p, n, tasks')
    BY <1>1, <1>2, FrameJoins
  <2> QED BY <2>1 DEF JoinedBy
<1>8. /\ DOMAIN pendingByParent' = Tools
      /\ \A q \in Tools : pendingByParent'[q] = IF q = p /\ at = {} THEN Append(kept[q], item) ELSE kept[q]
  BY <1>1, <1>6
<1>9. pendingByParent' \in Buffers
  <2>1. \A q \in Tools : pendingByParent'[q] \in Seq([frame : Nat, addedAt : Nat])
    <3> SUFFICES ASSUME NEW q \in Tools
                 PROVE  pendingByParent'[q] \in Seq([frame : Nat, addedAt : Nat])
      OBVIOUS
    <3>1. kept[q] \in Seq([frame : Nat, addedAt : Nat])
      BY <1>4
    <3>2. Append(kept[q], item) \in Seq([frame : Nat, addedAt : Nat])
      BY <1>3, <3>1
    <3> QED BY <1>8, <3>1, <3>2
  <2>2. pendingByParent' = [q \in Tools |-> pendingByParent'[q]]
    BY <1>1, <1>6 DEF kept
  <2> QED BY <2>1, <2>2 DEF Buffers
<1>10. GivenUp' = GivenUp \cup gone
  BY <1>1 DEF GivenUp
(* Where the orphans are afterwards                                        *)
<1>11. \A q \in Tools : \A k \in DOMAIN pendingByParent'[q] :
         \/ /\ k \in DOMAIN kept[q] /\ pendingByParent'[q][k] = kept[q][k]
            /\ \E i \in DOMAIN pendingByParent[q] : kept[q][k] = pendingByParent[q][i]
         \/ q = p /\ at = {} /\ k = Len(kept[q]) + 1 /\ pendingByParent'[q][k].frame = n
  <2> SUFFICES ASSUME NEW q \in Tools, NEW k \in DOMAIN pendingByParent'[q]
               PROVE  \/ k \in DOMAIN kept[q] /\ pendingByParent'[q][k] = kept[q][k]
                      \/ q = p /\ at = {} /\ k = Len(kept[q]) + 1 /\ pendingByParent'[q][k].frame = n
    BY <1>4
  <2>1. CASE q = p /\ at = {}
    <3>1. pendingByParent'[q] = Append(kept[q], item) /\ kept[q] \in Seq([frame : Nat, addedAt : Nat])
      BY <1>4, <1>8, <2>1
    <3>2. \/ k \in DOMAIN kept[q] /\ Append(kept[q], item)[k] = kept[q][k]
          \/ k = Len(kept[q]) + 1 /\ Append(kept[q], item)[k] = item
      BY <1>3, <3>1, Appended, SMTT(30)
    <3> QED BY <1>3, <2>1, <3>1, <3>2
  <2>2. CASE ~(q = p /\ at = {})
    BY <1>8, <2>2
  <2> QED BY <2>1, <2>2
<1>12. \A q \in Tools : \A k \in DOMAIN kept[q] :
         k \in DOMAIN pendingByParent'[q] /\ pendingByParent'[q][k] = kept[q][k]
  <2> SUFFICES ASSUME NEW q \in Tools, NEW k \in DOMAIN kept[q]
               PROVE  k \in DOMAIN pendingByParent'[q] /\ pendingByParent'[q][k] = kept[q][k]
    OBVIOUS
  <2>1. kept[q] \in Seq([frame : Nat, addedAt : Nat])
    BY <1>4
  <2>2. k \in DOMAIN Append(kept[q], item) /\ Append(kept[q], item)[k] = kept[q][k]
    BY <1>3, <2>1, Appended, SMTT(30)
  <2> QED BY <1>8, <2>2
<1>13. \A f : Waiting(pendingByParent', f) =>
         \/ f = n /\ at = {}
         \/ Waiting(kept, f) /\ Waiting(pendingByParent, f)
  BY <1>11 DEF Waiting
<1>14. \A f : Waiting(kept, f) => Waiting(pendingByParent', f)
  BY <1>12 DEF Waiting
<1>15. at = {} => Waiting(pendingByParent', n)
  <2> SUFFICES ASSUME at = {} PROVE Waiting(pendingByParent', n)
    OBVIOUS
  <2>1. pendingByParent'[p] = Append(kept[p], item) /\ kept[p] \in Seq([frame : Nat, addedAt : Nat])
    BY <1>4, <1>8
  <2>2. /\ Len(kept[p]) + 1 \in DOMAIN Append(kept[p], item)
        /\ Append(kept[p], item)[Len(kept[p]) + 1] = item
    BY <1>3, <2>1, Appended
  <2> QED BY <1>3, <2>1, <2>2 DEF Waiting
<1>16. \A f : Waiting(pendingByParent, f) => f \in DOMAIN agentFrames
  BY DEF Places, OrphansKept, Waiting
<1>17. GivenUp' \subseteq DOMAIN agentFrames'
  BY <1>2, <1>5, <1>10, <1>16
<1>18. n \notin GivenUp'
  BY <1>2, <1>5, <1>10, <1>16
<1>19. TranscriptsKept'
  <2> SUFFICES ASSUME NEW i \in DOMAIN tasks
               PROVE  Transcribed(tasks'[i], pendingByParent', agentFrames', GivenUp')
    BY <1>7 DEF TranscriptsKept
  <2> DEFINE old == tasks[i].transcript
             new == tasks'[i].transcript
  <2>1. \A k \in DOMAIN old :
          /\ old[k] \in DOMAIN agentFrames /\ agentFrames[old[k]] = tasks[i].toolUseId
          /\ old[k] \notin GivenUp /\ ~Waiting(pendingByParent, old[k])
          /\ \A l \in DOMAIN old : old[k] = old[l] => k = l
    BY DEF Places, TranscriptsKept, Transcribed
  <2>2. \A k \in DOMAIN old :
          /\ old[k] \in DOMAIN agentFrames' /\ agentFrames'[old[k]] = tasks[i].toolUseId
          /\ old[k] \notin GivenUp' /\ ~Waiting(pendingByParent', old[k]) /\ old[k] # n
    BY <1>2, <1>5, <1>10, <1>13, <2>1
  <2>3. CASE tasks[i].toolUseId # p
    <3>1. new = old
      BY <1>7, <2>3
    <3> QED BY <1>7, <2>1, <2>2, <3>1 DEF Transcribed
  <2>4. CASE tasks[i].toolUseId = p
    <3>1. new = Append(old, n) /\ old \in Seq(Nat)
      BY <1>7, <2>4
    <3>2. i \in at
      BY <2>4 DEF ParentAt
    <3>3. ~Waiting(pendingByParent', n)
      BY <1>2, <1>13, <1>16, <3>2
    <3> HIDE DEF old, new
    <3>4. /\ Len(old) \in Nat
          /\ \A k \in DOMAIN new : \/ k \in DOMAIN old /\ new[k] = old[k]
                                   \/ k = Len(old) + 1 /\ new[k] = n
      BY <1>2, <3>1, Appended
    <3>5. \A k \in DOMAIN new :
            /\ new[k] \in DOMAIN agentFrames' /\ agentFrames'[new[k]] = p
            /\ new[k] \notin GivenUp' /\ ~Waiting(pendingByParent', new[k])
      BY <1>2, <1>18, <2>2, <2>4, <3>3, <3>4
    <3>6. \A k, l \in DOMAIN new : new[k] = new[l] => k = l
      BY <2>1, <2>2, <3>4
    <3> QED BY <1>7, <2>4, <3>5, <3>6 DEF Transcribed, new
  <2> QED BY <2>3, <2>4
<1>20. OrphansKept'
  <2> SUFFICES ASSUME NEW q \in Tools, NEW k \in DOMAIN pendingByParent'[q]
               PROVE  /\ pendingByParent'[q][k].frame \in DOMAIN agentFrames'
                      /\ agentFrames'[pendingByParent'[q][k].frame] = q
                      /\ pendingByParent'[q][k].frame \notin GivenUp'
                      /\ \A l \in DOMAIN pendingByParent'[q] :
                           k < l => pendingByParent'[q][k].frame < pendingByParent'[q][l].frame
    BY DEF OrphansKept
  <2>1. \A l \in DOMAIN kept[q] :
          /\ kept[q][l].frame \in DOMAIN agentFrames /\ agentFrames[kept[q][l].frame] = q
          /\ kept[q][l].frame \notin GivenUp /\ Waiting(kept, kept[q][l].frame)
    <3> SUFFICES ASSUME NEW l \in DOMAIN kept[q]
                 PROVE  /\ kept[q][l].frame \in DOMAIN agentFrames
                        /\ agentFrames[kept[q][l].frame] = q
                        /\ kept[q][l].frame \notin GivenUp /\ Waiting(kept, kept[q][l].frame)
      OBVIOUS
    <3>1. PICK i \in DOMAIN pendingByParent[q] : kept[q][l] = pendingByParent[q][i]
      BY <1>4
    <3>2. Waiting(kept, kept[q][l].frame)
      BY DEF Waiting
    <3> QED BY <3>1, <3>2 DEF Places, OrphansKept
  <2>2. CASE k \in DOMAIN kept[q] /\ pendingByParent'[q][k] = kept[q][k]
    <3>0. \A a, b \in DOMAIN kept[q] : a < b => kept[q][a].frame < kept[q][b].frame
      BY <1>4
    <3>1. ASSUME NEW l \in DOMAIN pendingByParent'[q], k < l
          PROVE  pendingByParent'[q][k].frame < pendingByParent'[q][l].frame
      <4>1. CASE l \in DOMAIN kept[q] /\ pendingByParent'[q][l] = kept[q][l]
        BY <2>2, <3>0, <3>1, <4>1
      <4>2. CASE pendingByParent'[q][l].frame = n
        BY <1>2, <2>1, <2>2, <4>2
      <4> QED BY <1>11, <4>1, <4>2
    <3> QED BY <1>2, <1>5, <1>10, <2>1, <2>2, <3>1
  <2>3. CASE q = p /\ k = Len(kept[q]) + 1 /\ pendingByParent'[q][k].frame = n
    <3>1. Len(kept[q]) \in Nat /\ \A l \in DOMAIN kept[q] : l \in Nat /\ l <= Len(kept[q])
      <4>1. kept[q] \in Seq([frame : Nat, addedAt : Nat])
        BY <1>4
      <4> QED BY <4>1, Elements
    <3>2. \A l \in DOMAIN pendingByParent'[q] : ~(k < l)
      BY <1>11, <2>3, <3>1
    <3> QED BY <1>2, <1>18, <2>3, <3>2
  <2> QED BY <1>11, <2>2, <2>3
<1>21. \A f \in FramesOf(tasks) : f \in FramesOf(tasks')
  <2> SUFFICES ASSUME NEW i \in DOMAIN tasks, NEW k \in DOMAIN tasks[i].transcript
               PROVE  tasks[i].transcript[k] \in FramesOf(tasks')
    BY FramesOfIs
  <2>1. k \in DOMAIN tasks'[i].transcript /\ tasks'[i].transcript[k] = tasks[i].transcript[k]
    <3>1. tasks[i].transcript \in Seq(Nat)
      BY <1>7
    <3>2. /\ k \in DOMAIN Append(tasks[i].transcript, n)
          /\ Append(tasks[i].transcript, n)[k] = tasks[i].transcript[k]
      BY <1>2, <3>1, Appended
    <3> QED BY <1>7, <3>2
  <2> QED BY <1>7, <2>1, FramesOfIs
<1>22. at # {} => n \in FramesOf(tasks')
  <2> SUFFICES ASSUME at # {} PROVE n \in FramesOf(tasks')
    OBVIOUS
  <2>1. PICK i \in DOMAIN tasks : tasks[i].toolUseId = p
    BY DEF ParentAt
  <2>2. tasks'[i].transcript = Append(tasks[i].transcript, n) /\ tasks[i].transcript \in Seq(Nat)
    BY <1>7, <2>1
  <2>3. /\ Len(tasks[i].transcript) + 1 \in DOMAIN tasks'[i].transcript
        /\ tasks'[i].transcript[Len(tasks[i].transcript) + 1] = n
    BY <1>2, <2>2, Appended
  <2> QED BY <1>7, <2>3, FramesOfIs
<1>23. FramesPlaced'
  <2> SUFFICES ASSUME NEW f \in DOMAIN agentFrames'
               PROVE  f \in GivenUp' \/ Waiting(pendingByParent', f) \/ f \in FramesOf(tasks')
    BY DEF FramesPlaced
  <2>1. CASE f = n
    BY <1>15, <1>22, <2>1
  <2>2. CASE f \in DOMAIN agentFrames
    BY <1>5, <1>10, <1>14, <1>21, <2>2 DEF Places, FramesPlaced
  <2> QED BY <1>2, <2>1, <2>2
<1>24. AnnouncedTakesOrphans'
  <2> SUFFICES ASSUME NEW i \in DOMAIN tasks, tasks[i].taskId \notin unannounced,
                      tasks[i].toolUseId # NoTool
               PROVE  pendingByParent'[tasks[i].toolUseId] = <<>>
    BY <1>1, <1>7 DEF AnnouncedTakesOrphans
  <2>1. tasks[i].toolUseId \in Tools
    <3>1. tasks[i] \in TaskEntry
      BY Elements DEF TasksListed
    <3>2. tasks[i].toolUseId \in Parents
      BY <3>1 DEF TaskEntry
    <3> QED BY <3>2 DEF Parents
  <2>2. kept[tasks[i].toolUseId] = <<>>
    BY <1>4, <2>1 DEF Places, AnnouncedTakesOrphans
  <2>3. ~(tasks[i].toolUseId = p /\ at = {})
    BY DEF ParentAt
  <2> QED BY <1>8, <2>1, <2>2, <2>3
<1>25. TranscriptInOrder'
  <2>0. /\ DOMAIN tasks' = DOMAIN tasks /\ unannounced' = unannounced
        /\ \A i \in DOMAIN tasks : tasks'[i].taskId = tasks[i].taskId
    BY <1>1, <1>7
  <2> SUFFICES ASSUME NEW i \in DOMAIN tasks, tasks[i].taskId \notin unannounced,
                      NEW j \in DOMAIN tasks'[i].transcript, NEW k \in DOMAIN tasks'[i].transcript,
                      j < k
               PROVE  tasks'[i].transcript[j] < tasks'[i].transcript[k]
    BY <2>0 DEF TranscriptInOrder
  <2> DEFINE old == tasks[i].transcript
             new == tasks'[i].transcript
  <2>1. /\ \A a, b \in DOMAIN old : a < b => old[a] < old[b]
        /\ \A a \in DOMAIN old : old[a] \in DOMAIN agentFrames
    BY DEF Places, TranscriptInOrder, TranscriptsKept, Transcribed
  <2>2. new = (IF tasks[i].toolUseId = p THEN Append(old, n) ELSE old) /\ old \in Seq(Nat)
    BY <1>7
  <2> HIDE DEF old
  <2>3. CASE new = old
    BY <2>1, <2>3
  <2>4. CASE new = Append(old, n)
    <3>0. new \in Seq(Nat)
      BY <1>2, <2>2, <2>4, Appended
    <3> HIDE DEF new
    <3>1. /\ Len(old) \in Nat /\ \A a \in DOMAIN old : a \in Nat /\ a < Len(old) + 1
          /\ \A a \in DOMAIN new : \/ a \in DOMAIN old /\ new[a] = old[a]
                                   \/ a = Len(old) + 1 /\ new[a] = n
      BY <1>2, <2>2, <2>4, Appended
    <3>2. j \in DOMAIN old /\ new[j] = old[j]
      BY <3>1 DEF new
    <3>3. CASE k \in DOMAIN old /\ new[k] = old[k]
      BY <2>1, <3>2, <3>3 DEF new
    <3>4. CASE new[k] = n
      BY <1>2, <2>1, <3>2, <3>4 DEF new
    <3> QED BY <3>1, <3>3, <3>4 DEF new
  <2> QED BY <2>2, <2>3, <2>4
<1> QED BY <1>2, <1>7, <1>9, <1>17, <1>19, <1>20, <1>23, <1>24, <1>25 DEF Places

(* Every step is an event of a task, a sub-agent frame, a reset, or none   *)
(* of these, but for the clock.                                            *)
TaskEvent(t) ==
  \/ \E tool \in {NoTool, ToolOf[t]} : TaskStarted(t, tool)
  \/ TaskProgress(t)
  \/ \E raw \in TaskUpdatedPatch : TaskUpdated(t, raw)
  \/ \E raw \in {"completed", "stopped", "other"} : TaskNotification(t, ToolOf[t], raw)
AgentStep == \E p \in Tools : SubAgentFrame(p)
TasksStill ==
  /\ UNCHANGED <<tasks, pendingByParent, agentFrames, expired, evicted, unannounced>>
  /\ now \in Nat => now' \in Nat

(* A task frame is an event of its task.                                   *)
LEMMA TaskFrames ==
    ASSUME NEW f \in InboundFrame, OnTask(f)
    PROVE  \E t \in TaskIds : TaskEvent(t)
<1>1. CASE f \in SystemTaskStarted
  <2>1. PICK t \in TaskIds : /\ f.subtype = "task_started" /\ f.task_id = t
                             /\ f.tool_use_id \in {NoTool, ToolOf[t]}
    BY <1>1 DEF SystemTaskStarted
  <2>2. TaskStarted(t, f.tool_use_id)
    BY <2>1 DEF OnTask, HandleTaskEvent
  <2> QED BY <2>1, <2>2 DEF TaskEvent
<1>2. CASE f \in SystemTaskProgress
  <2>1. f.subtype = "task_progress" /\ f.task_id \in TaskIds
    BY <1>2 DEF SystemTaskProgress
  <2>2. TaskProgress(f.task_id)
    BY <2>1 DEF OnTask, HandleTaskEvent
  <2> QED BY <2>1, <2>2 DEF TaskEvent
<1>3. CASE f \in SystemTaskUpdated
  <2>1. f.subtype = "task_updated" /\ f.task_id \in TaskIds /\ f.status \in TaskUpdatedPatch
    BY <1>3 DEF SystemTaskUpdated
  <2>2. TaskUpdated(f.task_id, f.status)
    BY <2>1 DEF OnTask, HandleTaskEvent
  <2> QED BY <2>1, <2>2 DEF TaskEvent
<1>4. CASE f \in SystemTaskNotification
  <2>1. PICK t \in TaskIds : /\ f.subtype = "task_notification" /\ f.task_id = t
                             /\ f.tool_use_id = ToolOf[t]
                             /\ f.status \in {"completed", "stopped", "other"}
    BY <1>4 DEF SystemTaskNotification
  <2>2. TaskNotification(t, ToolOf[t], f.status)
    BY <2>1 DEF OnTask, HandleTaskEvent
  <2> QED BY <2>1, <2>2 DEF TaskEvent
<1> QED BY <1>1, <1>2, <1>3, <1>4 DEF OnTask

(* A frame with a parent has the tool use of a task.                       *)
LEMMA SubAgentParents ==
    ASSUME NEW f \in InboundFrame, f.parent # NoTool,
           f.type \in {"user", "assistant", "stream_event", "result", "rate_limit_event"}
    PROVE  f.parent \in Tools
<1>1. CASE f \in AssistantFrame \cup UserFrame
  <2>1. f.parent \in Parents
    BY <1>1 DEF AssistantFrame, UserFrame
  <2> QED BY <2>1 DEF Parents
<1>2. CASE f \in ResultFrame \cup StreamEventFrame \cup RateLimitEventFrame
  BY <1>2 DEF ResultFrame, StreamEventFrame, RateLimitEventFrame
<1>3. CASE f \in SystemFrame \cup ControlRequestFrame \cup ControlResponseFrame
  <2>1. f.type \in {"system", "control_request", "control_response"}
    BY <1>3 DEF SystemFrame, ControlRequestFrame, ControlResponseFrame, SystemInit, SystemStatus,
       SystemSessionStateChanged, SystemTaskStarted, SystemTaskProgress, SystemTaskUpdated,
       SystemTaskNotification, SystemHook, SystemLocalCommandOutput, SystemCompactBoundary
  <2> QED BY <2>1
<1> QED BY <1>1, <1>2, <1>3 DEF InboundFrame

LEMMA TasksStep ==
    ASSUME [Next]_vars
    PROVE  (\E t \in TaskIds : TaskEvent(t)) \/ AgentStep \/ TasksReset \/ TasksStill
<1>1. ASSUME NEW f \in InboundFrame, Receive(f)
      PROVE  (\E t \in TaskIds : TaskEvent(t)) \/ AgentStep \/ TasksStill
  <2>1. CASE OnTask(f)
    BY <2>1, TaskFrames
  <2>2. CASE \/ OnInit(f) \/ OnSessionState(f) \/ OnHook(f) \/ OnLocalCommandOutput(f)
             \/ OnOtherSystem(f) \/ OnCanUseTool(f) \/ OnOtherControl(f)
    BY <2>2 DEF OnInit, OnSessionState, OnHook, OnLocalCommandOutput, OnOtherSystem, OnCanUseTool,
       OnOtherControl, TasksStill, taskVars, aggregatorVars, vars
  <2>3. CASE OnMain(f)
    <3>1. CASE f.parent # NoTool
      <4>1. SubAgentFrame(f.parent) /\ f.parent \in Tools
        BY <2>3, <3>1, SubAgentParents DEF OnMain
      <4> QED BY <4>1 DEF AgentStep
    <3>2. CASE f.parent = NoTool
      BY <2>3, <3>2 DEF OnMain, TasksStill, taskVars
    <3> QED BY <3>1, <3>2
  <2> QED BY <1>1, <2>1, <2>2, <2>3 DEF Receive
<1>2. CASE HydrateMessages \/ SendUserMessage \/ DismissShellEntry
  BY <1>2 DEF HydrateMessages, SendUserMessage, DismissShellEntry, TasksStill, taskVars
<1>3. ASSUME NEW s \in ShellSource, NEW g \in BOOLEAN, NEW lost \in BOOLEAN,
             BashCommand(s, g, lost)
      PROVE  TasksStill
  BY <1>3 DEF BashCommand, TasksStill, taskVars
<1>4. CASE RespondToPermission \/ CallbackDone \/ ChangeCallback
  BY <1>4 DEF RespondToPermission, CallbackDone, ChangeCallback, TasksStill, taskVars
<1>5. ASSUME NEW reset \in BOOLEAN, Respawn(reset) PROVE TasksReset \/ TasksStill
  BY <1>5 DEF Respawn, TasksStill, taskVars
<1>6. CASE Swap \/ MarkEnded \/ Tick \/ UNCHANGED vars
  BY <1>6 DEF Swap, MarkEnded, Tick, TasksStill, taskVars, aggregatorVars, vars
<1> QED BY <1>1, <1>2, <1>3, <1>4, <1>5, <1>6 DEF Next

(* What a task event does                                                  *)
LEMMA FlushedKeeps ==
    ASSUME NEW list \in Seq(TaskEntry), NEW p, NEW r, r = Flushed(list, p)
    PROVE  /\ DOMAIN r = DOMAIN list /\ Len(r) = Len(list)
           /\ \A i \in DOMAIN list : r[i].taskId = list[i].taskId /\ r[i].status = list[i].status
<1>1. /\ DOMAIN r = DOMAIN list
      /\ \A i \in DOMAIN list : \/ r[i] = list[i]
                                \/ \E x : r[i] = [list[i] EXCEPT !.transcript = x]
  BY DEF Flushed
<1>2. \A i \in DOMAIN list :
        list[i] \in [taskId : TaskIds, toolUseId : Parents, status : TaskStatus, transcript : Seq(Nat)]
  BY Elements DEF TaskEntry
<1>3. \A i \in DOMAIN list : r[i].taskId = list[i].taskId /\ r[i].status = list[i].status
  BY <1>1, <1>2
<1>4. Len(r) = Len(list)
  <2>1. Len(list) \in Nat /\ DOMAIN list = 1 .. Len(list)
    BY Elements
  <2>2. r = [i \in 1 .. Len(list) |-> r[i]]
    BY <1>1, <2>1 DEF Flushed
  <2> HIDE DEF Flushed
  <2> QED BY <2>1, <2>2
<1> QED BY <1>1, <1>3, <1>4

(* An event for t moves no orphans, or all of its tool use; the list stays *)
(* capped and keeps the running tasks.                                     *)
EventEffect(t) ==
  /\ QuietEvent(t) \/ \E list : AnnouncingEvent(t, list)
  /\ Capped(tasks') /\ Stay(tasks', t)
  /\ unannounced' \subseteq unannounced \cup {t} /\ now' = now

LEMMA TaskEventIs ==
    ASSUME TasksListed(tasks), NEW t \in TaskIds, TaskEvent(t)
    PROVE  EventEffect(t)
<1>1. ASSUME NEW tool \in {NoTool, ToolOf[t]}, TaskStarted(t, tool) PROVE EventEffect(t)
  <2> DEFINE list == IF TaskAt(t) = {} THEN Inserted(NewTask(t, tool, "running"))
                     ELSE Updated(t, "running", tool)
  <2>1. /\ tasks' = IF tool # NoTool /\ ParentAt(list, tool) # {} THEN Flushed(list, tool) ELSE list
        /\ pendingByParent' = IF tool = NoTool THEN pendingByParent
                              ELSE [pendingByParent EXCEPT ![tool] = <<>>]
        /\ evicted' = evicted \cup (FramesOf(tasks) \ FramesOf(tasks'))
        /\ unannounced' = IF TaskAt(t) = {} THEN unannounced \ {t} ELSE unannounced
        /\ UNCHANGED <<now, agentFrames, expired>>
    BY <1>1 DEF TaskStarted, Evictions
  <2>2. "running" \in TaskStatus
    BY DEF TaskStatus
  <2>3. /\ TasksListed(list) /\ Capped(list) /\ Others(list, t) /\ Stay(list, t)
        /\ \E k \in DOMAIN list : list[k].taskId = t
        /\ \A k \in DOMAIN list : list[k].taskId = t =>
             /\ TaskAt(t) = {} => list[k].transcript = <<>> /\ list[k].toolUseId = tool
             /\ TaskAt(t) # {} =>
                  \E i \in TaskAt(t) :
                    /\ list[k].transcript = tasks[i].transcript
                    /\ list[k].toolUseId = IF tool = NoTool THEN tasks[i].toolUseId ELSE tool
    <3>1. CASE TaskAt(t) = {}
      <4>1. list = Inserted(NewTask(t, tool, "running"))
        BY <3>1
      <4> HIDE DEF list
      <4> QED BY <2>2, <3>1, <4>1, InsertedEffect DEF Stay
    <3>2. CASE TaskAt(t) # {}
      <4>1. list = Updated(t, "running", tool)
        BY <3>2
      <4> HIDE DEF list
      <4>2. "running" \in TaskStatus \cup {"same"}
        BY <2>2
      <4>3. /\ TasksListed(list) /\ Capped(list) /\ Others(list, t) /\ Stay(list, t)
            /\ \A k \in DOMAIN list : list[k].taskId = t =>
                 \E i \in TaskAt(t) :
                   /\ list[k].transcript = tasks[i].transcript
                   /\ list[k].toolUseId = IF tool = NoTool THEN tasks[i].toolUseId ELSE tool
            /\ \E k \in DOMAIN list : list[k].taskId = t
        BY <3>2, <4>1, <4>2, UpdatedEffect
      <4> QED BY <3>2, <4>3
    <3> QED BY <3>1, <3>2
  <2> HIDE DEF list
  <2>4. Flags(t) /\ (TaskAt(t) = {} => t \notin unannounced') /\ unannounced' \subseteq unannounced \cup {t}
    BY <2>1 DEF Flags
  <2>5. CASE tool = NoTool
    <3>1. tasks' = list /\ UNCHANGED pendingByParent
      BY <2>1, <2>5
    <3>2. QuietEvent(t)
      BY <2>1, <2>3, <2>4, <2>5, <3>1 DEF QuietEvent
    <3> QED BY <2>1, <2>3, <2>4, <3>1, <3>2 DEF EventEffect
  <2>6. CASE tool = ToolOf[t]
    <3>1. tool # NoTool
      BY <2>6, ToolsAreTools
    <3>2. \A k \in DOMAIN list : list[k].taskId = t => list[k].toolUseId = tool
      BY <2>3, <3>1
    <3>3. ParentAt(list, tool) # {}
      BY <2>3, <3>2 DEF ParentAt
    <3>4. tasks' = Flushed(list, tool)
      BY <2>1, <3>1, <3>3
    <3>5. AnnouncingEvent(t, list)
      BY <2>1, <2>3, <2>4, <2>6, <3>1, <3>2, <3>4 DEF AnnouncingEvent
    <3>6. /\ DOMAIN tasks' = DOMAIN list /\ Len(tasks') = Len(list)
          /\ \A i \in DOMAIN list : tasks'[i].taskId = list[i].taskId /\ tasks'[i].status = list[i].status
      BY <2>3, <3>4, FlushedKeeps DEF TasksListed
    <3>7. Capped(tasks') /\ Stay(tasks', t)
      BY <2>3, <3>6 DEF Capped, Stay
    <3> QED BY <2>1, <2>4, <3>5, <3>7 DEF EventEffect
  <2> QED BY <2>5, <2>6
<1>2. ASSUME NEW status \in TaskStatus \cup {"same"}, tasks' = Updated(t, status, NoTool), Evictions,
             UNCHANGED <<pendingByParent, now, agentFrames, expired, unannounced>>
      PROVE  EventEffect(t)
  <2>1. /\ TasksListed(tasks') /\ Capped(tasks') /\ Others(tasks', t) /\ Stay(tasks', t)
        /\ \A k \in DOMAIN tasks' : tasks'[k].taskId = t =>
             \E i \in TaskAt(t) : /\ tasks'[k].transcript = tasks[i].transcript
                                  /\ tasks'[k].toolUseId = tasks[i].toolUseId
    BY <1>2, UpdatedEffect
  <2>2. QuietEvent(t)
    BY <1>2, <2>1 DEF QuietEvent, Flags, Evictions
  <2> QED BY <1>2, <2>1, <2>2 DEF EventEffect
<1>3. CASE TaskProgress(t)
  BY <1>2, <1>3 DEF TaskProgress
<1>4. ASSUME NEW raw \in TaskUpdatedPatch, TaskUpdated(t, raw) PROVE EventEffect(t)
  <2> DEFINE mapped == IF raw = "killed" THEN "stopped" ELSE raw
             status == IF mapped \in FinalStatus THEN mapped ELSE "same"
  <2>1. status \in TaskStatus \cup {"same"}
    BY DEF TaskStatus
  <2>2. /\ tasks' = Updated(t, status, NoTool) /\ Evictions
        /\ UNCHANGED <<pendingByParent, now, agentFrames, expired, unannounced>>
    BY <1>4 DEF TaskUpdated
  <2> HIDE DEF status
  <2> QED BY <1>2, <2>1, <2>2
<1>5. ASSUME NEW raw, TaskNotification(t, ToolOf[t], raw) PROVE EventEffect(t)
  <2> DEFINE status == IF raw \in FinalStatus THEN raw ELSE "completed"
  <2>1. status \in TaskStatus
    BY DEF TaskStatus, FinalStatus
  <2>2. /\ tasks' = IF TaskAt(t) = {} THEN Inserted(NewTask(t, ToolOf[t], status))
                    ELSE Updated(t, status, NoTool)
        /\ evicted' = evicted \cup (FramesOf(tasks) \ FramesOf(tasks'))
        /\ unannounced' = IF TaskAt(t) = {} THEN unannounced \cup {t} ELSE unannounced
        /\ UNCHANGED <<pendingByParent, now, agentFrames, expired>>
    BY <1>5 DEF TaskNotification, Evictions
  <2> HIDE DEF status
  <2>3. CASE TaskAt(t) # {}
    BY <1>2, <2>1, <2>2, <2>3 DEF Evictions
  <2>4. CASE TaskAt(t) = {}
    <3>1. tasks' = Inserted(NewTask(t, ToolOf[t], status))
      BY <2>2, <2>4
    <3>2. /\ TasksListed(tasks') /\ Capped(tasks') /\ Others(tasks', t)
          /\ \A i \in DOMAIN tasks : tasks[i].status = "running" =>
               \E k \in DOMAIN tasks' : tasks'[k].taskId = tasks[i].taskId
          /\ \A k \in DOMAIN tasks' : tasks'[k].taskId = t => tasks'[k].transcript = <<>>
      BY <2>1, <2>4, <3>1, InsertedEffect
    <3>3. Stay(tasks', t)
      BY <3>2 DEF Stay
    <3>4. QuietEvent(t)
      BY <2>2, <2>4, <3>2 DEF QuietEvent, Flags
    <3> QED BY <2>2, <3>2, <3>3, <3>4 DEF EventEffect
  <2> QED BY <2>3, <2>4
<1> QED BY <1>1, <1>3, <1>4, <1>5 DEF TaskEvent

(* TasksInv, step by step                                                  *)
TypedParts ==
  /\ pendingByParent \in Buffers /\ now \in Nat /\ agentFrames \in Seq(Tools)
  /\ GivenUp \subseteq DOMAIN agentFrames /\ unannounced \subseteq TaskIds

TasksParts == TypedParts /\ TasksListed(tasks) /\ Places /\ Capped(tasks)

(* TasksInv, in the parts in which it is proved                            *)
LEMMA TasksInvIs == TasksParts <=> TasksInv
<1>1. TasksTypeOK <=> tasks \in Seq(TaskEntry) /\ TypedParts
  BY DEF TasksTypeOK, TypedParts, Buffers, GivenUp
<1> QED BY <1>1 DEF TasksParts, TasksInv, Places, TasksListed

(* The types after an event of a task                                      *)
LEMMA EventTyped ==
    ASSUME TypedParts, TasksListed(tasks), Places, NEW t \in TaskIds, EventEffect(t)
    PROVE  TypedParts'
<1>1. /\ now' = now /\ unannounced' \subseteq TaskIds
  BY DEF EventEffect, TypedParts
<1>2. /\ UNCHANGED <<agentFrames, expired>>
      /\ evicted' = evicted \cup (FramesOf(tasks) \ FramesOf(tasks'))
  BY DEF EventEffect, QuietEvent, AnnouncingEvent
<1>3. FramesOf(tasks) \subseteq DOMAIN agentFrames
  BY FramesOfIs DEF Places, TranscriptsKept, Transcribed
<1>4. GivenUp' \subseteq DOMAIN agentFrames'
  BY <1>2, <1>3 DEF GivenUp, TypedParts
<1>5. pendingByParent' \in Buffers
  <2>1. CASE QuietEvent(t)
    BY <2>1 DEF QuietEvent, TypedParts
  <2>2. CASE \E list : AnnouncingEvent(t, list)
    <3>1. pendingByParent' = [pendingByParent EXCEPT ![ToolOf[t]] = <<>>]
      BY <2>2 DEF AnnouncingEvent
    <3>2. <<>> \in Seq([frame : Nat, addedAt : Nat])
      OBVIOUS
    <3> QED BY <3>1, <3>2 DEF TypedParts, Buffers
  <2> QED BY <2>1, <2>2 DEF EventEffect
<1> QED BY <1>1, <1>2, <1>4, <1>5 DEF TypedParts

(* Every step preserves them.                                              *)
LEMMA TasksPartsStep ==
    ASSUME TasksParts, [Next]_vars
    PROVE  TasksParts'
<1>0. /\ TypedParts /\ TasksListed(tasks) /\ Places /\ Capped(tasks)
      /\ pendingByParent \in Buffers /\ now \in Nat /\ agentFrames \in Seq(Tools)
      /\ GivenUp \subseteq DOMAIN agentFrames
  BY DEF TasksParts, TypedParts
<1>1. ASSUME NEW t \in TaskIds, TaskEvent(t)
      PROVE  TasksParts'
  <2>1. EventEffect(t)
    BY <1>0, <1>1, TaskEventIs
  <2>2. TypedParts'
    BY <1>0, <2>1, EventTyped
  <2>3. CASE QuietEvent(t)
    <3>1. Places'
      BY <1>0, <2>3, QuietEventSafe
    <3> QED BY <2>1, <2>2, <2>3, <3>1 DEF QuietEvent, EventEffect, TasksListed, Capped, TasksParts
  <2>4. CASE \E list : AnnouncingEvent(t, list)
    <3>1. Places' /\ TasksListed(tasks')
      BY <1>0, <2>4, AnnouncingEventSafe
    <3> QED BY <2>1, <2>2, <3>1 DEF EventEffect, TasksListed, Capped, TasksParts
  <2> QED BY <2>1, <2>3, <2>4 DEF EventEffect
<1>2. ASSUME NEW p \in Tools, SubAgentFrame(p)
      PROVE  TasksParts'
  <2>1. /\ Places' /\ TasksListed(tasks') /\ pendingByParent' \in Buffers
        /\ agentFrames' \in Seq(Tools) /\ GivenUp' \subseteq DOMAIN agentFrames'
    BY <1>0, <1>2, AgentFrameSafe
  <2>2. UNCHANGED <<now, unannounced>>
    BY <1>2 DEF SubAgentFrame
  <2>3. JoinedBy(p, Len(agentFrames) + 1, tasks')
    <3>1. Len(agentFrames) + 1 \in Nat
      BY <1>0
    <3>2. tasks' = IF ParentAt(tasks, p) = {} THEN tasks
                   ELSE [tasks EXCEPT ![First(ParentAt(tasks, p))].transcript
                                        = Append(@, Len(agentFrames) + 1)]
      BY <1>2 DEF SubAgentFrame
    <3> QED BY <1>0, <3>1, <3>2, FrameJoins
  <2>4. /\ DOMAIN tasks' = DOMAIN tasks
        /\ \A i \in DOMAIN tasks : tasks'[i].status = tasks[i].status
    BY <2>3 DEF JoinedBy
  <2>5. Len(tasks') = Len(tasks)
    <3>1. tasks \in Seq(TaskEntry) /\ tasks' \in Seq(TaskEntry)
      BY <1>0, <2>1 DEF TasksListed
    <3>2. Len(tasks) \in Nat /\ Len(tasks') \in Nat /\ 1 .. Len(tasks) = 1 .. Len(tasks')
      BY <2>4, <3>1, Elements
    <3> QED BY <3>2
  <2>6. Capped(tasks)'
    BY <1>0, <2>4, <2>5 DEF Capped
  <2> QED BY <1>0, <2>1, <2>2, <2>6 DEF TypedParts, TasksListed, TasksParts
<1>3. CASE TasksReset
  <2>1. /\ tasks' = <<>> /\ agentFrames' = <<>> /\ expired' = {} /\ evicted' = {}
        /\ pendingByParent' = [p \in Tools |-> <<>>] /\ unannounced' = {} /\ now' = now
    BY <1>3 DEF TasksReset
  <2>2. /\ \A p \in Tools : pendingByParent'[p] = <<>>
        /\ tasks' \in Seq(TaskEntry) /\ DOMAIN tasks' = {} /\ Len(tasks') = 0
        /\ agentFrames' \in Seq(Tools) /\ DOMAIN agentFrames' = {} /\ pendingByParent' \in Buffers
    BY <2>1 DEF Buffers
  <2>3. GivenUp' = {}
    BY <2>1 DEF GivenUp
  <2>4. TypedParts' /\ TasksListed(tasks)' /\ Capped(tasks)'
    BY <1>0, <2>1, <2>2, <2>3 DEF TypedParts, TasksListed, Capped
  <2>5. Places'
    BY <2>2 DEF Places, TranscriptsKept, OrphansKept, FramesPlaced, AnnouncedTakesOrphans,
       TranscriptInOrder
  <2> QED BY <2>4, <2>5 DEF TasksParts
<1>4. CASE TasksStill
  <2>1. UNCHANGED <<tasks, pendingByParent, agentFrames, expired, evicted, unannounced>> /\ now' \in Nat
    BY <1>0, <1>4 DEF TasksStill
  <2>2. UNCHANGED GivenUp
    BY <2>1 DEF GivenUp
  <2>3. TypedParts'
    BY <1>0, <2>1, <2>2 DEF TypedParts
  <2>4. Places'
    BY <1>0, <2>1, <2>2 DEF Places, TranscriptsKept, OrphansKept, FramesPlaced, AnnouncedTakesOrphans,
       TranscriptInOrder
  <2> QED BY <1>0, <2>1, <2>3, <2>4 DEF TasksListed, Capped, TasksParts
<1> QED BY <1>1, <1>2, <1>3, <1>4, TasksStep DEF AgentStep

(* TasksInv is inductive.                                                  *)
LEMMA TasksInvHolds == Spec => []TasksInv
<1>1. Init => TasksParts
  <2> SUFFICES ASSUME Init PROVE TasksParts
    OBVIOUS
  <2>1. /\ tasks = <<>> /\ agentFrames = <<>> /\ expired = {} /\ evicted = {}
        /\ pendingByParent = [p \in Tools |-> <<>>] /\ unannounced = {} /\ now = 0
    BY DEF Init, TasksInit
  <2>2. /\ \A p \in Tools : pendingByParent[p] = <<>>
        /\ tasks \in Seq(TaskEntry) /\ DOMAIN tasks = {} /\ Len(tasks) = 0
        /\ agentFrames \in Seq(Tools) /\ DOMAIN agentFrames = {} /\ pendingByParent \in Buffers
    BY <2>1 DEF Buffers
  <2>3. GivenUp = {}
    BY <2>1 DEF GivenUp
  <2>4. TypedParts /\ TasksListed(tasks) /\ Capped(tasks)
    BY <2>1, <2>2, <2>3, TasksAssumption DEF TypedParts, TasksListed, Capped
  <2>5. Places
    BY <2>2 DEF Places, TranscriptsKept, OrphansKept, FramesPlaced, AnnouncedTakesOrphans,
       TranscriptInOrder
  <2> QED BY <2>4, <2>5 DEF TasksParts
<1>2. TasksParts /\ [Next]_vars => TasksParts'
  BY TasksPartsStep
<1>3. TasksParts => TasksInv
  BY TasksInvIs
<1> QED BY <1>1, <1>2, <1>3, PTL DEF Spec

(* A set with at most one element has that many.                           *)
LEMMA AtMostOne ==
    ASSUME NEW S, \A x, y \in S : x = y
    PROVE  (S = {} /\ Cardinality(S) = 0) \/ (S # {} /\ Cardinality(S) = 1)
<1>1. CASE S = {}
  <2>1. Cardinality(S) = 0
    BY <1>1, FS_EmptySet
  <2> QED BY <1>1, <2>1
<1>2. CASE S # {}
  <2>1. PICK x \in S : S = {x}
    BY <1>2
  <2>2. Cardinality({x}) = 1
    BY FS_Singleton
  <2> QED BY <1>2, <2>1, <2>2
<1> QED BY <1>1, <1>2

(* A frame is at one position of one transcript or of one buffer at most.  *)
LEMMA OnePlace ==
    ASSUME TasksInv, NEW f \in DOMAIN agentFrames
    PROVE  /\ \A s \in ShownAt(f) : tasks[s[1]].toolUseId = agentFrames[f]
           /\ \A w \in WaitsAt(f) : w[1] = agentFrames[f]
           /\ Cardinality(ShownAt(f)) + Cardinality(WaitsAt(f)) =
                IF f \in expired \cup evicted THEN 0 ELSE 1
<1>0. /\ tasks \in Seq(TaskEntry)
      /\ \A i, j \in DOMAIN tasks : tasks[i].taskId = tasks[j].taskId => i = j
      /\ \A i \in DOMAIN tasks :
           /\ tasks[i].toolUseId \in {NoTool, ToolOf[tasks[i].taskId]}
           /\ tasks[i].toolUseId = NoTool => tasks[i].transcript = <<>>
  BY DEF TasksInv, TasksListed
<1>1. \A s : s \in ShownAt(f) <=>
        \E i \in DOMAIN tasks : \E k \in DOMAIN tasks[i].transcript :
          s = <<i, k>> /\ tasks[i].transcript[k] = f
  BY DEF ShownAt
<1>2. \A w : w \in WaitsAt(f) <=>
        \E p \in Tools : \E k \in DOMAIN pendingByParent[p] :
          w = <<p, k>> /\ pendingByParent[p][k].frame = f
  BY DEF WaitsAt
<1>3. \A i \in DOMAIN tasks : \A k \in DOMAIN tasks[i].transcript :
        /\ agentFrames[tasks[i].transcript[k]] = tasks[i].toolUseId
        /\ tasks[i].transcript[k] \notin GivenUp
        /\ ~Waiting(pendingByParent, tasks[i].transcript[k])
        /\ \A l \in DOMAIN tasks[i].transcript : tasks[i].transcript[k] = tasks[i].transcript[l] => k = l
  BY DEF TasksInv, TranscriptsKept, Transcribed
<1>4. \A p \in Tools : \A k \in DOMAIN pendingByParent[p] :
        /\ agentFrames[pendingByParent[p][k].frame] = p
        /\ pendingByParent[p][k].frame \notin GivenUp
        /\ Waiting(pendingByParent, pendingByParent[p][k].frame)
  BY DEF TasksInv, OrphansKept, Waiting
<1>5. \A s \in ShownAt(f) : tasks[s[1]].toolUseId = agentFrames[f]
  BY <1>1, <1>3
<1>6. \A w \in WaitsAt(f) : w[1] = agentFrames[f]
  BY <1>2, <1>4
(* Two tasks do not have the same tool use, one buffer not the same frame. *)
<1>7. \A r, s \in ShownAt(f) : r = s
  <2> SUFFICES ASSUME NEW i \in DOMAIN tasks, NEW k \in DOMAIN tasks[i].transcript,
                      NEW j \in DOMAIN tasks, NEW l \in DOMAIN tasks[j].transcript,
                      tasks[i].transcript[k] = f, tasks[j].transcript[l] = f
               PROVE  i = j /\ k = l
    BY <1>1
  <2>1. tasks[i].toolUseId = tasks[j].toolUseId /\ tasks[i].toolUseId # NoTool
    <3>1. tasks[i].transcript # <<>>
      OBVIOUS
    <3> QED BY <1>0, <1>3, <3>1
  <2>2. ToolOf[tasks[i].taskId] = ToolOf[tasks[j].taskId]
    BY <1>0, <2>1
  <2>3. tasks[i].taskId \in TaskIds /\ tasks[j].taskId \in TaskIds
    <3>1. tasks[i] \in TaskEntry /\ tasks[j] \in TaskEntry
      BY <1>0, Elements
    <3> QED BY <3>1 DEF TaskEntry
  <2>4. i = j
    BY <1>0, <2>2, <2>3, FramesAssumption
  <2> QED BY <1>3, <2>4
<1>8. \A v, w \in WaitsAt(f) : v = w
  <2> SUFFICES ASSUME NEW p \in Tools, NEW k \in DOMAIN pendingByParent[p], NEW l \in DOMAIN pendingByParent[p],
                      pendingByParent[p][k].frame = f, pendingByParent[p][l].frame = f
               PROVE  k = l
    BY <1>2, <1>6
  <2>1. pendingByParent[p] \in Seq([frame : Nat, addedAt : Nat])
    BY DEF TasksInv, TasksTypeOK
  <2>2. k \in Nat /\ l \in Nat /\ pendingByParent[p][k] \in [frame : Nat, addedAt : Nat]
    BY <2>1, Elements
  <2>3. ~(k < l) /\ ~(l < k)
    BY <2>2 DEF TasksInv, OrphansKept
  <2> QED BY <2>2, <2>3
<1>9. \A s \in ShownAt(f) : WaitsAt(f) = {} /\ f \notin GivenUp
  BY <1>1, <1>2, <1>3, <1>4
<1>10. \A w \in WaitsAt(f) : f \notin GivenUp
  BY <1>2, <1>4
<1>11. f \in GivenUp \/ WaitsAt(f) # {} \/ ShownAt(f) # {}
  <2>1. f \in GivenUp \/ Waiting(pendingByParent, f) \/ f \in FramesOf(tasks)
    BY DEF TasksInv, FramesPlaced
  <2>2. ASSUME Waiting(pendingByParent, f) PROVE WaitsAt(f) # {}
    <3>1. PICK p \in Tools : \E k \in DOMAIN pendingByParent[p] : pendingByParent[p][k].frame = f
      BY <2>2 DEF Waiting
    <3>2. PICK k \in DOMAIN pendingByParent[p] : pendingByParent[p][k].frame = f
      BY <3>1
    <3>3. <<p, k>> \in WaitsAt(f)
      BY <1>2, <3>2
    <3> QED BY <3>3
  <2>3. ASSUME f \in FramesOf(tasks) PROVE ShownAt(f) # {}
    <3>1. PICK i \in DOMAIN tasks : \E k \in DOMAIN tasks[i].transcript : tasks[i].transcript[k] = f
      BY <2>3, FramesOfIs
    <3>2. PICK k \in DOMAIN tasks[i].transcript : tasks[i].transcript[k] = f
      BY <3>1
    <3>3. <<i, k>> \in ShownAt(f)
      BY <1>1, <3>2
    <3> QED BY <3>3
  <2> QED BY <2>1, <2>2, <2>3
<1>12. /\ \/ ShownAt(f) = {} /\ Cardinality(ShownAt(f)) = 0
          \/ ShownAt(f) # {} /\ Cardinality(ShownAt(f)) = 1
       /\ \/ WaitsAt(f) = {} /\ Cardinality(WaitsAt(f)) = 0
          \/ WaitsAt(f) # {} /\ Cardinality(WaitsAt(f)) = 1
  BY <1>7, <1>8, AtMostOne
<1>13. Cardinality(ShownAt(f)) + Cardinality(WaitsAt(f)) = IF f \in expired \cup evicted THEN 0 ELSE 1
  BY <1>9, <1>10, <1>11, <1>12 DEF GivenUp
<1> QED BY <1>5, <1>6, <1>13

(* SubAgentFramesSafe of ClientState: a sub-agent frame is in one place    *)
(* only, that of its tool use, until the cap or the orphans' time limit    *)
(* take it away; transcripts are in arrival order; the cap holds but for   *)
(* running tasks, and a task has one entry (tasks.ts).                     *)
THEOREM SubAgentFramesAreSafe == Spec => []SubAgentFramesSafe
<1>1. ASSUME TasksInv PROVE CapSparesRunning
  <2>1. ASSUME NEW i \in DOMAIN tasks PROVE Cardinality(TaskAt(tasks[i].taskId)) = 1
    <3>1. TaskAt(tasks[i].taskId) = {i}
      BY <1>1 DEF TasksInv, TasksListed, TaskAt
    <3> QED BY <3>1, FS_Singleton
  <2> QED BY <1>1, <2>1 DEF TasksInv, Capped, CapSparesRunning
<1>2. TasksInv => SubAgentFramesSafe
  BY <1>1, OnePlace DEF TasksInv, AgentFramesKept, SubAgentFramesSafe
<1> QED BY <1>2, TasksInvHolds, PTL

(* A step takes no running task off the list, but for a reset and for an   *)
(* event of that task while the list is over the cap.                      *)
LEMMA RunningStaysStep ==
    ASSUME TasksInv, [Next]_vars
    PROVE  RunningStays
<1> DEFINE Gone(i) == \A j \in DOMAIN tasks' : tasks'[j].taskId # tasks[i].taskId
           gone == {i \in DOMAIN tasks : tasks[i].status = "running" /\ Gone(i)}
<1>0. TasksListed(tasks) /\ Len(tasks) \in Nat /\ TasksCap \in Nat
  BY TasksAssumption DEF TasksInv, TasksListed
<1>1. ASSUME NEW t \in TaskIds, TaskEvent(t)
      PROVE  gone # {} => Len(tasks) > TasksCap /\ Cardinality(gone) = 1
  <2>1. Stay(tasks', t)
    BY <1>0, <1>1, TaskEventIs DEF EventEffect
  <2>2. \A i \in gone : tasks[i].taskId = t /\ ~(Len(tasks) <= TasksCap)
    BY <2>1 DEF Stay
  <2>3. \A i, j \in gone : i = j
    BY <1>0, <2>2 DEF TasksListed
  <2> HIDE DEF gone
  <2>4. \/ gone = {} /\ Cardinality(gone) = 0
        \/ gone # {} /\ Cardinality(gone) = 1
    BY <2>3, AtMostOne
  <2> QED BY <1>0, <2>2, <2>4
<1>2. ASSUME NEW p \in Tools, SubAgentFrame(p) PROVE gone = {}
  <2>1. JoinedBy(p, Len(agentFrames) + 1, tasks')
    <3>1. Len(agentFrames) + 1 \in Nat
      BY DEF TasksInv, TasksTypeOK
    <3>2. tasks' = IF ParentAt(tasks, p) = {} THEN tasks
                   ELSE [tasks EXCEPT ![First(ParentAt(tasks, p))].transcript
                                        = Append(@, Len(agentFrames) + 1)]
      BY <1>2 DEF SubAgentFrame
    <3> QED BY <1>0, <3>1, <3>2, FrameJoins
  <2> QED BY <2>1 DEF JoinedBy
<1>3. CASE TasksReset
  BY <1>3 DEF TasksReset, RunningStays
<1>4. CASE TasksStill
  BY <1>4 DEF TasksStill, RunningStays
<1>5. (gone # {} => Len(tasks) > TasksCap /\ Cardinality(gone) = 1) => RunningStays
  BY DEF RunningStays
<1> QED BY <1>1, <1>2, <1>3, <1>4, <1>5, TasksStep DEF AgentStep

(* What a step does to the timeline and to the list of tasks               *)
LEMMA StepEffect ==
    ASSUME TasksInv, TimelineParts, [Next]_vars
    PROVE  RunningStays /\ RevisionTracks
BY RunningStaysStep, TimelinePartsStep DEF Bumped, RevisionTracks

(* StepsSafe of ClientState: no step takes a running task off the list but *)
(* a reset or, over the cap, the frame that finishes it (tasks.ts), nor    *)
(* changes what persistence saves without a new revision (messages.ts).    *)
THEOREM StepsAreSafe == Spec => StepsSafe
<1>1. TasksInv /\ TimelineParts /\ [Next]_vars => [RunningStays /\ RevisionTracks]_vars
  BY StepEffect
<1> QED BY <1>1, TasksInvHolds, TimelinePartsHold, PTL DEF Spec, StepsSafe

-----------------------------------------------------------------------------
(* The rest of the state holder                                            *)

(* A respawn is asked for only while one more child may come.              *)
LifeTyped ==
  /\ profile \in Profiles /\ child \in 1 .. MaxChild /\ swapping \in BOOLEAN
  /\ swapping => child < MaxChild
  /\ onCanUseTool \in BOOLEAN /\ permissionCallback \in BOOLEAN
  /\ late \subseteq DOMAIN askedBy
SessionTyped ==
  /\ sessionState \in SessionState /\ initSeen \in BOOLEAN /\ sessionId \in 0 .. MaxChild
HooksTyped ==
  /\ hookEvents \in Seq(Nat) /\ Len(hookEvents) <= HooksCap /\ hooksSeen \in Nat
HolderTyped == LifeTyped /\ SessionTyped /\ HooksTyped /\ spoken \subseteq MsgIds

(* Every step preserves LifeTyped.                                         *)
LEMMA LifeTypedStep ==
    ASSUME LifeTyped, askedBy \in Seq(Nat), deciding \subseteq DOMAIN askedBy, [Next]_vars
    PROVE  LifeTyped'
<1>0. child \in Nat /\ MaxChild \in Nat /\ child >= 1 /\ child <= MaxChild
  BY HolderAssumption DEF LifeTyped
<1>1. CASE AskStep
  <2>1. /\ askedBy' = Append(askedBy, child)
        /\ UNCHANGED <<profile, child, swapping, onCanUseTool, permissionCallback>>
        /\ late' \subseteq late \cup {Len(askedBy) + 1}
    BY <1>1 DEF AskStep, Ingest
  <2>2. DOMAIN askedBy \cup {Len(askedBy) + 1} \subseteq DOMAIN askedBy'
    BY <1>0, <2>1, Appended
  <2> QED BY <2>1, <2>2 DEF LifeTyped
<1>2. CASE AnswerStep
  <2>1. UNCHANGED <<profile, child, swapping, late, onCanUseTool, permissionCallback, askedBy>>
    BY <1>2 DEF AnswerStep, Respond, CallbackSettles
  <2> QED BY <2>1 DEF LifeTyped
<1>3. CASE CallbackStep
  BY <1>3 DEF CallbackStep, SetPermissionCallback, LifeTyped
<1>4. CASE RespawnStep
  BY <1>4 DEF RespawnStep, ClearQueue, LifeTyped
<1>5. CASE SwapStep
  <2>1. /\ swapping' = FALSE /\ child' = child + 1 /\ child < MaxChild
        /\ UNCHANGED <<profile, late, onCanUseTool, permissionCallback, askedBy>>
    BY <1>5 DEF SwapStep, permVars, LifeTyped
  <2>2. child' \in 1 .. MaxChild
    BY <1>0, <2>1
  <2> QED BY <2>1, <2>2 DEF LifeTyped
<1>6. CASE PermissionsStill
  BY <1>6 DEF PermissionsStill, permVars, LifeTyped
<1> QED BY <1>1, <1>2, <1>3, <1>4, <1>5, <1>6, PermissionsStep

(* The ring keeps the last HooksCap events (hooks.ts).                     *)
LEMMA RingKept ==
    ASSUME HooksTyped, NEW f, OnHook(f)
    PROVE  HooksTyped'
<1> DEFINE all == Append(hookEvents, hooksSeen + 1)
<1>1. /\ hooksSeen' = hooksSeen + 1 /\ HooksCap \in Nat
      /\ hookEvents' = IF Len(all) > HooksCap
                       THEN SubSeq(all, Len(all) - HooksCap + 1, Len(all)) ELSE all
  BY HolderAssumption DEF OnHook
<1>2. hooksSeen + 1 \in Nat /\ hookEvents \in Seq(Nat)
  BY DEF HooksTyped
<1>3. all \in Seq(Nat) /\ Len(all) \in Nat
  BY <1>2
<1> HIDE DEF all
<1>4. CASE Len(all) > HooksCap
  <2> DEFINE first == Len(all) - HooksCap + 1
  <2>1. first \in Nat /\ first >= 1 /\ first <= Len(all) + 1
    BY <1>1, <1>3, <1>4
  <2>2. hookEvents' = SubSeq(all, first, Len(all))
    BY <1>1, <1>4
  <2>3. Len(all) - first + 1 = HooksCap
    BY <1>1, <1>3
  <2> HIDE DEF first
  <2>4. SubSeq(all, first, Len(all)) \in Seq(Nat)
    BY <1>3, <2>1
  <2>5. Len(SubSeq(all, first, Len(all))) = Len(all) - first + 1
    BY <1>1, <1>3, <2>1, <2>3
  <2>6. hookEvents' \in Seq(Nat)
    BY <2>2, <2>4
  <2>7. Len(hookEvents') = HooksCap
    BY <2>2, <2>3, <2>5
  <2>8. HooksCap <= HooksCap
    BY <1>1
  <2> QED BY <1>1, <1>2, <2>6, <2>7, <2>8 DEF HooksTyped
<1>5. CASE Len(all) <= HooksCap
  BY <1>1, <1>2, <1>3, <1>5 DEF HooksTyped
<1> QED BY <1>1, <1>3, <1>4, <1>5

(* Every step preserves HolderTyped.                                       *)
LEMMA HolderTypedStep ==
    ASSUME HolderTyped, askedBy \in Seq(Nat), deciding \subseteq DOMAIN askedBy, [Next]_vars
    PROVE  HolderTyped'
<1>0. /\ LifeTyped /\ SessionTyped /\ HooksTyped /\ spoken \subseteq MsgIds
      /\ MaxChild \in Nat /\ child \in 0 .. MaxChild
  BY HolderAssumption DEF HolderTyped, LifeTyped
<1>1. LifeTyped'
  BY <1>0, LifeTypedStep
<1> DEFINE Rest == SessionTyped' /\ HooksTyped' /\ spoken' \subseteq MsgIds
           Still == UNCHANGED <<sessionVars, hookVars, spoken>>
<1> SUFFICES Rest
  BY <1>1 DEF HolderTyped
<1>2. Still => Rest
  BY <1>0 DEF SessionTyped, HooksTyped, sessionVars, hookVars
<1>3. /\ "running" \in SessionState /\ "requires_action" \in SessionState /\ "ended" \in SessionState
      /\ {"idle", "running", "requires_action"} \subseteq SessionState
  BY DEF SessionState
<1>4. ASSUME NEW f \in InboundFrame, Receive(f) PROVE Rest
  <2>1. CASE OnInit(f)
    BY <1>0, <1>3, <2>1 DEF OnInit, SessionTyped, HooksTyped, sessionVars, hookVars, binaryVars
  <2>2. CASE OnSessionState(f)
    <3>1. f.state \in SessionState
      BY <1>3, <2>2 DEF OnSessionState, SystemSessionStateChanged
    <3> QED BY <1>0, <2>2, <3>1 DEF OnSessionState, SessionTyped, HooksTyped, hookVars, binaryVars,
       aggregatorVars
  <2>3. CASE OnHook(f)
    <3>1. HooksTyped'
      BY <1>0, <2>3, RingKept
    <3> QED BY <1>0, <2>3, <3>1 DEF OnHook, SessionTyped, sessionVars, binaryVars
  <2>4. CASE OnTask(f) \/ OnLocalCommandOutput(f) \/ OnOtherSystem(f) \/ OnOtherControl(f)
    <3>1. Still
      BY <2>4 DEF OnTask, OnLocalCommandOutput, OnOtherSystem, OnOtherControl, sessionVars, hookVars,
         binaryVars, aggregatorVars, vars
    <3> QED BY <1>2, <3>1
  <2>5. CASE OnCanUseTool(f)
    BY <1>0, <1>3, <2>5 DEF OnCanUseTool, SessionTyped, HooksTyped, hookVars, binaryVars
  <2>6. CASE Emits(f) /\ OnMain(f)
    <3>1. UNCHANGED <<sessionVars, hookVars>>
      BY <2>6 DEF OnMain
    <3>2. spoken' \subseteq MsgIds
      <4>1. CASE f.type = "stream_event" /\ f.event.type = "message_start"
        <5>1. f.event \in StreamEvent
          BY <4>1, StreamFrames
        <5>2. f.event.id \in MsgIds
          BY <4>1, <5>1 DEF StreamEvent
        <5>3. spoken' = spoken \cup {f.event.id}
          BY <2>6, <4>1 DEF Emits, isStreamEventFrame
        <5> QED BY <1>0, <5>2, <5>3
      <4>2. CASE ~(f.type = "stream_event" /\ f.event.type = "message_start")
        <5>1. spoken' = spoken
          BY <2>6, <4>2 DEF Emits, isStreamEventFrame
        <5> QED BY <1>0, <5>1
      <4> QED BY <4>1, <4>2
    <3> QED BY <1>0, <3>1, <3>2 DEF SessionTyped, HooksTyped, sessionVars, hookVars
  <2> QED BY <1>4, <2>1, <2>2, <2>3, <2>4, <2>5, <2>6 DEF Receive
<1>5. CASE HydrateMessages \/ SendUserMessage \/ DismissShellEntry \/ CallbackDone \/ ChangeCallback
  <2>1. Still
    BY <1>5 DEF HydrateMessages, SendUserMessage, DismissShellEntry, CallbackDone, ChangeCallback,
       binaryVars
  <2> QED BY <1>2, <2>1
<1>6. ASSUME NEW s \in ShellSource, NEW g \in BOOLEAN, NEW lost \in BOOLEAN,
             BashCommand(s, g, lost)
      PROVE  Rest
  BY <1>2, <1>6 DEF BashCommand
<1>7. CASE RespondToPermission
  <2>1. sessionState' \in SessionState
    BY <1>0, <1>3, <1>7 DEF RespondToPermission, SessionTyped
  <2> QED BY <1>0, <1>7, <2>1 DEF RespondToPermission, SessionTyped, HooksTyped, hookVars, binaryVars
<1>8. CASE MarkEnded
  BY <1>0, <1>3, <1>8 DEF MarkEnded, SessionTyped, HooksTyped, hookVars, binaryVars, aggregatorVars
<1>9. ASSUME NEW reset \in BOOLEAN, Respawn(reset) PROVE Rest
  <2>1. CASE hookEvents' = <<>> /\ initSeen' = FALSE /\ sessionId' = 0
    <3>1. UNCHANGED <<sessionState, hooksSeen, spoken>>
      BY <1>9 DEF Respawn, binaryVars
    <3>2. hookEvents' \in Seq(Nat) /\ Len(hookEvents') <= HooksCap
      BY <2>1, HolderAssumption
    <3>3. 0 \in 0 .. MaxChild
      BY <1>0
    <3>4. SessionTyped'
      BY <1>0, <2>1, <3>1, <3>3 DEF SessionTyped
    <3>5. HooksTyped'
      BY <1>0, <3>1, <3>2 DEF HooksTyped
    <3> QED BY <1>0, <3>1, <3>4, <3>5
  <2>2. CASE UNCHANGED <<hookEvents, initSeen, sessionId>>
    <3>1. UNCHANGED <<sessionState, hooksSeen, spoken>>
      BY <1>9 DEF Respawn, binaryVars
    <3> QED BY <1>0, <2>2, <3>1 DEF SessionTyped, HooksTyped
  <2> QED BY <1>9, <2>1, <2>2 DEF Respawn
<1>10. CASE Swap \/ Tick \/ UNCHANGED vars
  <2>1. Still
    BY <1>10 DEF Swap, Tick, vars, aggregatorVars, binaryVars
  <2> QED BY <1>2, <2>1
<1> HIDE DEF Rest
<1> QED BY <1>4, <1>5, <1>6, <1>7, <1>8, <1>9, <1>10 DEF Next

(* TypeOK of ClientState: the variables of the holder and its aggregators  *)
(* keep their types, and the ring of hook events its cap.                  *)
THEOREM TypeCorrect == Spec => []TypeOK
<1>1. Init => HolderTyped
  <2> SUFFICES ASSUME Init PROVE HolderTyped
    OBVIOUS
  <2>1. 0 \in 0 .. MaxChild /\ 1 \in 1 .. MaxChild /\ HooksCap \in Nat
    BY HolderAssumption
  <2>2. /\ sessionState = "unknown" /\ initSeen = FALSE /\ sessionId = 0
        /\ hookEvents = <<>> /\ hooksSeen = 0 /\ profile \in Profiles /\ child = 1 /\ swapping = FALSE
        /\ spoken = {} /\ late = {} /\ onCanUseTool \in BOOLEAN /\ permissionCallback = FALSE
    BY DEF Init, PermissionsInit
  <2>3. LifeTyped
    BY <2>1, <2>2 DEF LifeTyped
  <2>4. SessionTyped
    BY <2>1, <2>2 DEF SessionTyped, SessionState
  <2>5. HooksTyped
    <3>1. hookEvents \in Seq(Nat) /\ Len(hookEvents) = 0
      BY <2>2
    <3> QED BY <2>1, <2>2, <3>1 DEF HooksTyped
  <2> QED BY <2>2, <2>3, <2>4, <2>5 DEF HolderTyped
<1>2. HolderTyped /\ PermissionsInv /\ [Next]_vars => HolderTyped'
  BY HolderTypedStep DEF PermissionsInv, QueueInv, QueueTyped
<1>3. HolderTyped /\ PermissionsInv /\ ShellInv /\ TimelineInv /\ TasksInv => TypeOK
  BY DEF HolderTyped, LifeTyped, SessionTyped, HooksTyped, PermissionsInv, QueueInv, QueueTyped,
     PermissionsTypeOK, ShellInv, ShellTyped, TimelineInv, TimelineTyped, TasksInv, TypeOK
<1> QED BY <1>1, <1>2, <1>3, PermissionsInvHolds, ShellInvHolds, TimelineInvHolds, TasksInvHolds,
       PTL DEF Spec
=============================================================================

------------------------------- MODULE Tasks -------------------------------
(***************************************************************************)
(* The tasks aggregator of packages/protocol/src/client/tasks.ts: a list   *)
(* of background tasks driven by system/task_* frames, and the routing of  *)
(* sub-agent frames (those with a parent_tool_use_id) into the transcript  *)
(* of the task with that tool use, or, while there is none, into a buffer  *)
(* of orphans that only the announcement of the task empties.              *)
(*                                                                         *)
(* A sub-agent frame is its arrival number; descriptions, summaries and    *)
(* usage figures are carried along by the code and left out here.  The     *)
(* variables agentFrames, expired, evicted and unannounced are histories   *)
(* that the properties read and no action's guard does.                    *)
(***************************************************************************)
EXTENDS Frames, Subsequences, Integers, SequencesExt

CONSTANTS
  TasksCap,     \* DEFAULT_TASKS_CAP
  OrphanTtl     \* DEFAULT_ORPHAN_TTL_MS, in ticks of the clock

ASSUME TasksAssumption == TasksCap \in Nat /\ OrphanTtl \in Nat

VARIABLES
  tasks,            \* TaskEntry[]
  pendingByParent,  \* orphans: per tool use, the frames and when they came
  now,              \* the clock
  agentFrames,      \* per arrival number since the last reset, its parent
  expired,          \* frames the garbage collection dropped
  evicted,          \* frames in the transcripts of evicted tasks
  unannounced       \* tasks whose entry a task_notification created

taskVars ==
  <<tasks, pendingByParent, now, agentFrames, expired, evicted, unannounced>>

FinalStatus == {"completed", "failed", "stopped"}
TaskStatus == {"running"} \cup FinalStatus

TaskEntry == [taskId : TaskIds, toolUseId : Parents, status : TaskStatus,
              transcript : Seq(Nat)]

TasksTypeOK ==
  /\ tasks \in Seq(TaskEntry)
  /\ pendingByParent \in [Tools -> Seq([frame : Nat, addedAt : Nat])]
  /\ now \in Nat
  /\ agentFrames \in Seq(Tools)
  /\ expired \cup evicted \subseteq DOMAIN agentFrames
  /\ unannounced \subseteq TaskIds

TasksInit ==
  /\ tasks = <<>>
  /\ pendingByParent = [p \in Tools |-> <<>>]
  /\ now = 0
  /\ agentFrames = <<>>
  /\ expired = {} /\ evicted = {} /\ unannounced = {}

----------------------------------------------------------------------------
(* Mutant: the oldest tasks go, finished or not. *)
capTasksOldest(arr, cap) ==
  IF Len(arr) <= cap THEN arr ELSE SubSeq(arr, Len(arr) - cap + 1, Len(arr))

(* capTasksKeepRunning: over the cap, the oldest finished tasks go first   *)
(* and a running one never goes.                                           *)
capTasksKeepRunning(arr, cap) ==
  LET overflow == Len(arr) - cap
      finished == {i \in DOMAIN arr : arr[i].status # "running"}
  IN  Kept(arr, {i \in DOMAIN arr :
                   i \in finished => Cardinality(UpTo(finished, i)) > overflow})

TaskAt(t) == {i \in DOMAIN tasks : tasks[i].taskId = t}
ParentAt(list, p) == {i \in DOMAIN list : list[i].toolUseId = p}
First(indices) == CHOOSE i \in indices : \A j \in indices : i <= j
FramesOf(list) ==
  UNION {ToSet(list[i].transcript) : i \in DOMAIN list}
Orphans == UNION {{q.frame : q \in ToSet(pendingByParent[p])} : p \in Tools}

NewTask(t, tool, status) ==
  [taskId |-> t, toolUseId |-> tool, status |-> status, transcript |-> <<>>]

(* upsertTask when the task has an entry, whose status and tool use the    *)
(* patch may change, and when its frame creates one.                       *)
Updated(t, status, tool) ==
  capTasksKeepRunning([i \in DOMAIN tasks |->
    IF i \in TaskAt(t)
    THEN [tasks[i] EXCEPT !.status = IF status \in TaskStatus THEN status ELSE @,
                          !.toolUseId = IF tool \in Tools THEN tool ELSE @]
    ELSE tasks[i]], TasksCap)
Inserted(entry) == capTasksKeepRunning(Append(tasks, entry), TasksCap)

(* flushPendingFor: the orphans of p move to the end of its transcript.    *)
Flushed(list, p) ==
  [i \in DOMAIN list |->
    IF i = First(ParentAt(list, p))
    THEN [list[i] EXCEPT !.transcript =
            @ \o [k \in DOMAIN pendingByParent[p] |-> pendingByParent[p][k].frame]]
    ELSE list[i]]

(* The transcripts the cap threw away in this step. *)
Evictions ==
  evicted' = evicted \cup (FramesOf(tasks) \ FramesOf(tasks'))

(* Mutant: the orphans stay buffered after they were moved. *)
TaskStartedKeepsOrphans(t, tool) ==
  LET list == IF TaskAt(t) = {} THEN Inserted(NewTask(t, tool, "running"))
              ELSE Updated(t, "running", tool)
  IN  /\ IF tool # NoTool /\ ParentAt(list, tool) # {}
         THEN tasks' = Flushed(list, tool) ELSE tasks' = list
      /\ Evictions
      /\ UNCHANGED <<pendingByParent, now, agentFrames, expired, unannounced>>

(* task_started: creates the task or sets it running again, learns the     *)
(* tool use it names and empties that tool use's orphans.                  *)
TaskStarted(t, tool) ==
  LET list == IF TaskAt(t) = {} THEN Inserted(NewTask(t, tool, "running"))
              ELSE Updated(t, "running", tool)
  IN  /\ IF tool # NoTool /\ ParentAt(list, tool) # {}
         THEN tasks' = Flushed(list, tool) ELSE tasks' = list
      /\ pendingByParent' = IF tool = NoTool THEN pendingByParent
                            ELSE [pendingByParent EXCEPT ![tool] = <<>>]
      /\ Evictions
      /\ unannounced' = IF TaskAt(t) = {} THEN unannounced \ {t} ELSE unannounced
      /\ UNCHANGED <<now, agentFrames, expired>>

(* task_progress: only carried data changes, and nothing for an unknown id *)
TaskProgress(t) ==
  /\ tasks' = Updated(t, "same", NoTool)
  /\ Evictions
  /\ UNCHANGED <<pendingByParent, now, agentFrames, expired, unannounced>>

(* task_updated: a final status is taken over, killed is shown as stopped, *)
(* any other status is ignored; an unknown id is ignored.                  *)
TaskUpdated(t, raw) ==
  LET mapped == IF raw = "killed" THEN "stopped" ELSE raw
  IN  /\ tasks' = Updated(t, IF mapped \in FinalStatus THEN mapped ELSE "same",
                         NoTool)
      /\ Evictions
      /\ UNCHANGED <<pendingByParent, now, agentFrames, expired, unannounced>>

(* task_notification: final whatever it says; creates an unknown task,     *)
(* without emptying the orphans of its tool use.                           *)
TaskNotification(t, tool, raw) ==
  LET status == IF raw \in FinalStatus THEN raw ELSE "completed"
  IN  /\ tasks' = IF TaskAt(t) = {} THEN Inserted(NewTask(t, tool, status))
                  ELSE Updated(t, status, NoTool)
      /\ Evictions
      /\ unannounced' = IF TaskAt(t) = {} THEN unannounced \cup {t}
                        ELSE unannounced
      /\ UNCHANGED <<pendingByParent, now, agentFrames, expired>>

HandleTaskEvent(f) ==
  \/ f.subtype = "task_started" /\ TaskStarted(f.task_id, f.tool_use_id)
  \/ f.subtype = "task_progress" /\ TaskProgress(f.task_id)
  \/ f.subtype = "task_updated" /\ TaskUpdated(f.task_id, f.status)
  \/ /\ f.subtype = "task_notification"
     /\ TaskNotification(f.task_id, f.tool_use_id, f.status)

(* gcPending: every orphan of age OrphanTtl or more is dropped. *)
Fresh(buf) == Kept(buf, {i \in DOMAIN buf : now - buf[i].addedAt < OrphanTtl})

(* handleSubAgentFrame: orphans are collected first, then the frame joins  *)
(* its task's transcript or the orphans.                                   *)
SubAgentFrame(p) ==
  LET n == Len(agentFrames) + 1
      kept == [q \in Tools |-> Fresh(pendingByParent[q])]
      at == ParentAt(tasks, p)
  IN  /\ agentFrames' = Append(agentFrames, p)
      /\ expired' = expired \cup
           {f \in Orphans : \A q \in Tools : \A e \in ToSet(kept[q]) : e.frame # f}
      /\ IF at = {}
         THEN /\ pendingByParent' = [kept EXCEPT ![p] =
                                       Append(@, [frame |-> n, addedAt |-> now])]
              /\ tasks' = tasks
         ELSE /\ pendingByParent' = kept
              /\ tasks' = [tasks EXCEPT ![First(at)].transcript = Append(@, n)]
      /\ UNCHANGED <<now, evicted, unannounced>>

TasksReset ==
  /\ tasks' = <<>>
  /\ pendingByParent' = [p \in Tools |-> <<>>]
  /\ agentFrames' = <<>>
  /\ expired' = {} /\ evicted' = {} /\ unannounced' = {}
  /\ UNCHANGED now

----------------------------------------------------------------------------
(* A sub-agent frame that arrived is in exactly one place: the transcript  *)
(* of a task with its tool use, the orphans of its tool use, or it went    *)
(* with its task under the cap or by the orphans' time limit.  tasks.ts    *)
(* moves frames between these in four handlers.                            *)
ShownAt(f) ==
  UNION {{i} \X {k \in DOMAIN tasks[i].transcript : tasks[i].transcript[k] = f}
           : i \in DOMAIN tasks}
WaitsAt(f) ==
  UNION {{p} \X {k \in DOMAIN pendingByParent[p] : pendingByParent[p][k].frame = f}
           : p \in Tools}
AgentFramesKept ==
  \A f \in DOMAIN agentFrames :
    /\ \A s \in ShownAt(f) : tasks[s[1]].toolUseId = agentFrames[f]
    /\ \A w \in WaitsAt(f) : w[1] = agentFrames[f]
    /\ Cardinality(ShownAt(f)) + Cardinality(WaitsAt(f)) =
         IF f \in expired \cup evicted THEN 0 ELSE 1

(* A transcript is in arrival order, for every task whose entry a          *)
(* task_started created: its orphans are moved before the next frame can   *)
(* be appended.  (For a task first heard of by its notification it is not: *)
(* the orphans stay behind until a late task_started appends them.)        *)
TranscriptInOrder ==
  \A i \in DOMAIN tasks : tasks[i].taskId \notin unannounced =>
    \A j, k \in DOMAIN tasks[i].transcript :
      j < k => tasks[i].transcript[j] < tasks[i].transcript[k]

(* The cap holds unless everything shown is running, and a task has one    *)
(* entry (capTasksKeepRunning, upsertTask).                                *)
CapSparesRunning ==
  /\ Len(tasks) <= TasksCap \/ \A i \in DOMAIN tasks : tasks[i].status = "running"
  /\ \A i \in DOMAIN tasks : Cardinality(TaskAt(tasks[i].taskId)) = 1

(* A running task leaves the list by a reset only, or, when more than the  *)
(* cap are running, by the frame that finishes it: then it goes unseen,    *)
(* and alone.                                                              *)
RunningStays ==
  LET Gone(i) == \A j \in DOMAIN tasks' : tasks'[j].taskId # tasks[i].taskId
      gone == {i \in DOMAIN tasks : tasks[i].status = "running" /\ Gone(i)}
  IN  gone # {} => \/ tasks' = <<>> /\ agentFrames' = <<>>
                   \/ Len(tasks) > TasksCap /\ Cardinality(gone) = 1
=============================================================================

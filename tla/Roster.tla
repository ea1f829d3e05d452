------------------------------- MODULE Roster -------------------------------
(***************************************************************************)
(* packages/element/src/lib/sessionHistory.svelte.ts: the sessions an      *)
(* element has seen, newest first, kept in the storage that createSession  *)
(* of session.svelte.ts resolved from the element's attributes.  Pages     *)
(* with the same storage each hold the list they loaded, and save it whole.*)
(***************************************************************************)
EXTENDS Integers, Sequences, SequencesExt, FiniteSets, Subsequences

CONSTANTS
  Tabs,
  SessionIds,
  Configs,    \* [custom, persist, key, host]: how the element was set up
  CAP,        \* 25
  MaxTouches  \* changes of session in a behaviour

NoId == "none"
ASSUME RosterAssumption == CAP \in Nat \ {0}

VARIABLES
  config,
  records,   \* [id, firstSeen, lastSeen], by tab
  lastId,    \* the session id of the last init, by tab
  kept,      \* what each backend holds under the roster's key, by tab
  now,       \* Date.now(), which two touches may share
  touches,
  forgot     \* history: the last session of a tab that the user forgot

ovars == <<config, records, lastId, kept, now, touches, forgot>>

(* resolveStorage: an element without a key has no storage of the browser's*)
(* and the memory of a host that listens takes only the key of the state.  *)
resolveStorage(cfg) ==
  CASE cfg.custom -> "custom"
    [] ~cfg.custom /\ cfg.persist \in {"local", "session"} /\ cfg.key -> cfg.persist
    [] OTHER -> IF cfg.host THEN "memory" ELSE "none"
(* The tabs that share what tab t saves                                    *)
Sharers(t) ==
  CASE resolveStorage(config) \in {"custom", "local"} -> Tabs
    [] resolveStorage(config) = "session" -> {t}
    [] OTHER -> {}

OInit ==
  /\ config \in Configs
  /\ records = [t \in Tabs |-> <<>>] /\ kept = [t \in Tabs |-> <<>>]
  /\ lastId = [t \in Tabs |-> NoId] /\ forgot = [t \in Tabs |-> NoId]
  /\ now = 1 /\ touches = 0

IdsOf(list) == {list[i].id : i \in DOMAIN list}
(* Array.prototype.sort, which leaves records seen at once in their order  *)
UpToHere(list, i) ==
  {j \in DOMAIN list :
     \/ list[j].lastSeen > list[i].lastSeen
     \/ list[j].lastSeen = list[i].lastSeen /\ j <= i}
Newest(list) ==
  [k \in DOMAIN list |->
     list[CHOOSE i \in DOMAIN list : Cardinality(UpToHere(list, i)) = k]]
KeepsAll(list) == list   \* mutant: no limit
Capped(list) == SubSeq(list, 1, Min({CAP, Len(list)}))

saveTo(t, list) ==
  /\ records' = [records EXCEPT ![t] = list]
  /\ kept' = [u \in Tabs |-> IF u \in Sharers(t) THEN list ELSE kept[u]]

Touched(list, id, at) ==
  IF id \in IdsOf(list)
  THEN Newest([i \in DOMAIN list |->
                 IF list[i].id = id THEN [list[i] EXCEPT !.lastSeen = at] ELSE list[i]])
  ELSE Capped(<<[id |-> id, firstSeen |-> at, lastSeen |-> at]>> \o list)

(* An init frame: only a change of session touches the list.               *)
touch(t, id) ==
  /\ touches < MaxTouches /\ touches' = touches + 1
  /\ id # lastId[t]
  /\ lastId' = [lastId EXCEPT ![t] = id]
  /\ forgot' = [forgot EXCEPT ![t] = NoId]
  /\ \E at \in {now, now + 1} :
       now' = at /\ saveTo(t, Touched(records[t], id, at))
  /\ UNCHANGED config
forget(t, id) ==
  /\ id \in IdsOf(records[t])
  /\ saveTo(t, Kept(records[t], {i \in DOMAIN records[t] : records[t][i].id # id}))
  /\ forgot' = [forgot EXCEPT ![t] = IF id = lastId[t] THEN id ELSE @]
  /\ UNCHANGED <<config, lastId, now, touches>>
(* A reload: createSessionHistory loads what is kept.                      *)
loadFrom(t) ==
  /\ records' = [records EXCEPT ![t] = IF Sharers(t) = {} THEN <<>> ELSE kept[t]]
  /\ lastId' = [lastId EXCEPT ![t] = NoId] /\ forgot' = [forgot EXCEPT ![t] = NoId]
  /\ UNCHANGED <<config, kept, now, touches>>

ONext ==
  \E t \in Tabs :
    \/ \E id \in SessionIds : touch(t, id) \/ forget(t, id)
    \/ loadFrom(t)

(***************************************************************************)
(* Properties                                                              *)
(***************************************************************************)

(* Each list is bounded, names a session once, newest first, however it    *)
(* was loaded, changed and saved.                                          *)
ListsInOrder ==
  \A list \in Range(records) \cup Range(kept) :
    /\ Len(list) <= CAP /\ Cardinality(IdsOf(list)) = Len(list)
    /\ \A i, j \in DOMAIN list : i < j => list[i].lastSeen >= list[j].lastSeen
    /\ \A i \in DOMAIN list : list[i].firstSeen <= list[i].lastSeen

(* The session a tab is in is on its list, unless it was forgotten there;  *)
(* and what is kept is one tab's list, never a mixture.                    *)
CurrentListed ==
  /\ \A t \in Tabs : lastId[t] \in IdsOf(records[t]) \cup {NoId, forgot[t]}
  /\ \A t \in Tabs : Sharers(t) # {} => kept[t] \in Range(records)

RosterSafe == ListsInOrder /\ CurrentListed
=============================================================================

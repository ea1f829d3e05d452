--------------------------- MODULE ProcessProofs ----------------------------
(***************************************************************************)
(* Theorems about Process, for any number of start() and end() calls, any  *)
(* frames and every place where a subscriber of the owner may throw: what  *)
(* the process is called, what its calls return and what it leaves behind; *)
(* and about Framing, for every text a child writes and every way the pipe *)
(* cuts it.                                                                *)
(***************************************************************************)
EXTENDS Process, Framing, SubsequencesProofs

USE CallersApart

-----------------------------------------------------------------------------
(* The invariants.                                                         *)

(* start() and end() take their own awaits.                                *)
RoleInv ==
  /\ \A s \in Starters : calls[s] \in {"none", "sending", "waiting"} \cup Settled
  /\ \A e \in Enders : calls[e] # "waiting"

(* A call that has not sent, or never will, has no ack; one whose ack is   *)
(* pending has yet to look at it, or gave up because its send was refused. *)
AckInv ==
  \A c \in Callers :
    /\ calls[c] \in {"none", "watching", "closing idle"} => acks[c] = "none"
    /\ acks[c] = "pending" =>
         \/ calls[c] \in {"sending", "waiting", "racing"}
         \/ calls[c] \in {"closing", "done", "failed"} /\ c \in unsent

TypeInv == TypeOK /\ RoleInv /\ AckInv

(* Only an end() that has left "ready" behind has an ack.                  *)
EnderInv == \A e \in Enders : acks[e] # "none" => state \in {"ending", "ended"}

(* An end() that closes or has returned has ended the process ...          *)
DoneInv ==
  \A e \in Enders :
    /\ calls[e] \in {"closing", "closing idle", "done"} => state = "ended"
    /\ calls[e] = "closing idle" => endedIdle

(* ... whose wire is closed, handlers detached and early metrics stopped,  *)
(* or an end() is still to do it, or failed.                               *)
CleanInv ==
  state = "ended" =>
    /\ \/ wire = "closed"
       \/ \E e \in Enders : calls[e] \in {"closing", "closing idle", "failed"}
    /\ \/ endedIdle
       \/ ~attached /\ metering # "early"
       \/ \E e \in Enders : calls[e] \in {"closing", "failed"}

-----------------------------------------------------------------------------
(* The lifecycle holder.                                                   *)
LEMMA SetEnded ==
  ASSUME state \in ProcessState
  PROVE  CanSet("ended") /\ (Set("ended") => state' = "ended")
BY DEF ProcessState, CanSet, Set, isValidTransition, Order

LEMMA SetReady ==
  ASSUME state \in ProcessState
  PROVE  /\ Set("ready") => state' = IF state = "idle" THEN "ready" ELSE state
         /\ SetThrows("ready") => \/ state \in {"ending", "ended"}
                                  \/ throwsOn = "ready"
BY DEF ProcessState, CanSet, Set, SetThrows, isValidTransition, Order

LEMMA SetEnding ==
  ASSUME state = "ready", Set("ending")
  PROVE  state' = "ending"
BY DEF ProcessState, CanSet, Set, isValidTransition, Order

(* The state after a step: as it was, or one further on.                   *)
LEMMA Steps ==
  ASSUME NEW fs, TypeInv, [Next(fs)]_vars
  PROVE  /\ state' \in ProcessState
         /\ state' # state =>
              \/ state = "idle" /\ state' = "ready"
                 /\ \E s \in Starters : acks[s] = "ok"
              \/ state = "ready" /\ state' = "ending"
              \/ state' = "ended"
         /\ state = "ended" => state' = "ended"
         /\ state = "ending" => state' \in {"ending", "ended"}
         /\ UNCHANGED Config
         /\ unsent \subseteq unsent'
<1>0. state \in ProcessState
  BY DEF TypeInv, TypeOK
<1>1. ASSUME NEW c \in Callers, StartReturns(c) PROVE
         /\ UNCHANGED <<Config, unsent>>
         /\ state' # state => /\ state = "idle" /\ state' = "ready"
                              /\ \E s \in Starters : acks[s] = "ok"
  BY <1>0, <1>1, SetReady DEF StartReturns
<1>2. ASSUME NEW c \in Callers, End(c) PROVE
         /\ UNCHANGED Config /\ unsent \subseteq unsent'
         /\ state' # state => \/ state = "idle" /\ state' = "ended"
                              \/ state = "ready" /\ state' = "ending"
  BY <1>0, <1>2, SetEnded, SetEnding DEF End, EndIdle, EndReady
<1>3. ASSUME NEW c \in Callers, EndSent(c) \/ EndRaced(c) PROVE
         /\ UNCHANGED Config /\ unsent \subseteq unsent'
         /\ state' # state => state' = "ended"
  BY <1>0, <1>3, SetEnded DEF EndSent, EndRaced, TearDown
<1>4. ASSUME NEW c \in Callers,
             AckTimesOut(c) \/ StartSent(c) \/ EndReturns(c) \/ Start(c)
      PROVE  UNCHANGED <<Config, state>> /\ unsent \subseteq unsent'
  BY <1>4 DEF AckTimesOut, StartSent, EndReturns, Start
<1>5. ASSUME NEW f, NEW c, HandleInbound(f, c) \/ Send(f)
      PROVE  UNCHANGED <<Config, state, unsent>>
  BY <1>5 DEF HandleInbound, Send
<1>6. CASE PeerCloses \/ OnMetrics \/ OffMetrics \/ UNCHANGED vars
  BY <1>0, <1>6 DEF PeerCloses, OnMetrics, OffMetrics, vars, Config
<1> QED BY <1>0, <1>1, <1>2, <1>3, <1>4, <1>5, <1>6
        DEF Next, CallStep, Judge, Segment, ProcessState
-----------------------------------------------------------------------------
(* The types.                                                              *)
AckStates == {"none", "pending", "ok", "error"}
CallStates == {"none", "sending", "waiting", "racing", "watching", "closing", "closing idle"}
              \cup Settled

(* An ack that is answered or given up was pending.                        *)
LEMMA RejectsType ==
  ASSUME TypeInv, NEW c \in Callers, acks[c] = "pending", Rejects(c)
  PROVE  /\ acks' = [acks EXCEPT ![c] = "error"]
         /\ unheard' \subseteq Callers \X {"sending", "closing", "done", "failed"}
<1>1. ~Awaited(c) => calls[c] \in {"sending", "closing", "done", "failed"}
  BY DEF TypeInv, AckInv, Awaited
<1>2. unheard \subseteq Callers \X {"sending", "closing", "done", "failed"}
  BY DEF TypeInv, TypeOK
<1>3. ~Awaited(c) =>
        <<c, calls[c]>> \in Callers \X {"sending", "closing", "done", "failed"}
  BY <1>1
<1> QED BY <1>2, <1>3 DEF Rejects

LEMMA TryResolveType ==
  ASSUME TypeInv, NEW f, NEW c, TryResolve(f, c)
  PROVE  /\ \/ UNCHANGED <<acks, unheard>>
            \/ /\ c \in Callers /\ acks[c] = "pending"
               /\ \/ acks' = [acks EXCEPT ![c] = "error"]
                  \/ acks' = [acks EXCEPT ![c] = "ok"]
         /\ unheard' \subseteq Callers \X {"sending", "closing", "done", "failed"}
<1>1. CASE UNCHANGED <<acks, unheard>>
  BY <1>1 DEF TypeInv, TypeOK
<1>2. CASE c \in Callers /\ acks[c] = "pending" /\ Rejects(c)
  BY <1>2, RejectsType
<1>3. CASE /\ c \in Callers /\ acks[c] = "pending"
           /\ acks' = [acks EXCEPT ![c] = "ok"] /\ UNCHANGED unheard
  BY <1>3 DEF TypeInv, TypeOK
<1> QED BY <1>1, <1>2, <1>3 DEF TryResolve

(* The end() calls that watch are told, whatever became of the one that    *)
(* tore the process down.                                                  *)
LEMMA TearDownType ==
  ASSUME TypeInv, NEW c \in Enders, calls[c] \in {"sending", "racing"}, TearDown(c)
  PROVE  /\ calls' \in [Callers -> CallStates]
         /\ calls'[c] \in {"closing", "failed"}
         /\ \A d \in Callers \ {c} :
              calls'[d] = calls[d] \/ (calls[d] = "watching" /\ calls'[d] = "done")
         /\ wire' \in {wire, "closing"} /\ (wire = "closed" => wire' = "closed")
         /\ state' = "ended"
<1>1. calls \in [Callers -> CallStates] /\ c \in Callers /\ state \in ProcessState
  BY DEF TypeInv, TypeOK, CallStates, Callers
<1>2. PICK k \in {"closing", "failed"} : calls' = WatchersTold([calls EXCEPT ![c] = k])
  BY DEF TearDown
<1>3. state' = "ended"
  BY <1>1, SetEnded DEF TearDown
<1>4. wire' \in {wire, "closing"} /\ (wire = "closed" => wire' = "closed")
  BY DEF TearDown, CloseCalled
<1> QED BY <1>1, <1>2, <1>3, <1>4 DEF WatchersTold, CallStates, Settled

(* A step that leaves the calls alone and may settle a pending ack.        *)
LEMMA AckOnly ==
  ASSUME TypeInv, UNCHANGED <<calls, unsent>>,
         \/ acks' = acks
         \/ \E c \in Callers, a \in {"error", "ok"} :
              acks[c] = "pending" /\ acks' = [acks EXCEPT ![c] = a]
  PROVE  acks' \in [Callers -> AckStates] /\ RoleInv' /\ AckInv'
<1>1. acks \in [Callers -> AckStates]
  BY DEF TypeInv, TypeOK, AckStates
<1>2. RoleInv'
  BY DEF TypeInv, RoleInv
<1>3. CASE acks' = acks
  BY <1>1, <1>2, <1>3 DEF TypeInv, AckInv
<1>4. ASSUME NEW c \in Callers, NEW a \in {"error", "ok"},
             acks[c] = "pending", acks' = [acks EXCEPT ![c] = a]
      PROVE  acks' \in [Callers -> AckStates] /\ AckInv'
  BY <1>1, <1>4 DEF TypeInv, AckInv, AckStates
<1> QED BY <1>2, <1>3, <1>4

LEMMA InitTypeInv == Init => TypeInv
<1> SUFFICES ASSUME Init PROVE TypeInv
  OBVIOUS
<1>1. calls = [c \in Callers |-> "none"] /\ acks = [c \in Callers |-> "none"]
  BY DEF Init
<1>2. RoleInv /\ AckInv
  BY <1>1 DEF RoleInv, AckInv, Callers
<1>3. /\ calls \in [Callers -> CallStates] /\ acks \in [Callers -> AckStates]
  BY <1>1 DEF CallStates, AckStates
<1>4. TypeOK
  BY <1>3 DEF Init, TypeOK, CallStates, AckStates, ProcessState
<1> QED BY <1>2, <1>4 DEF TypeInv

LEMMA NextTypeInv ==
  ASSUME NEW fs, TypeInv, [Next(fs)]_vars
  PROVE  TypeInv'
<1>0. /\ TypeOK /\ RoleInv /\ AckInv /\ state' \in ProcessState
      /\ UNCHANGED Config /\ Starters \subseteq Callers /\ Enders \subseteq Callers
      /\ calls \in [Callers -> CallStates] /\ acks \in [Callers -> AckStates]
  BY Steps DEF TypeInv, TypeOK, Callers, CallStates, AckStates
<1>c. mode' = mode /\ vse' = vse /\ throwsOn' = throwsOn
  BY <1>0 DEF Config
<1>t. ASSUME calls' \in [Callers -> CallStates], acks' \in [Callers -> AckStates],
             unsent' \subseteq Callers,
             unheard' \subseteq Callers \X {"sending", "closing", "done", "failed"},
             wire' \in {"open", "closing", "closed"},
             attached' \in BOOLEAN, endedIdle' \in BOOLEAN,
             metering' \in {"none", "early", "late"}
      PROVE  TypeOK'
  BY <1>0, <1>c, <1>t DEF TypeOK, CallStates, AckStates
<1>1. ASSUME NEW c \in Callers, AckTimesOut(c) PROVE TypeInv'
  <2>1. /\ acks' = [acks EXCEPT ![c] = "error"] /\ acks[c] = "pending"
        /\ unheard' \subseteq Callers \X {"sending", "closing", "done", "failed"}
    BY <1>1, RejectsType DEF AckTimesOut
  <2>2. acks' \in [Callers -> AckStates] /\ RoleInv' /\ AckInv'
    BY <1>1, <2>1, AckOnly DEF AckTimesOut
  <2> QED BY <1>0, <1>1, <1>t, <2>1, <2>2 DEF AckTimesOut, TypeInv, TypeOK
<1>2. ASSUME NEW f, NEW c, HandleInbound(f, c) PROVE TypeInv'
  <2>1. UNCHANGED <<acks, unheard>> \/ TryResolve(f, c)
    BY <1>2 DEF HandleInbound
  <2>2. /\ unheard' \subseteq Callers \X {"sending", "closing", "done", "failed"}
        /\ \/ acks' = acks
           \/ \E d \in Callers, a \in {"error", "ok"} :
                acks[d] = "pending" /\ acks' = [acks EXCEPT ![d] = a]
    BY <1>0, <2>1, TryResolveType DEF TypeOK
  <2>3. acks' \in [Callers -> AckStates] /\ RoleInv' /\ AckInv'
    BY <1>2, <2>2, AckOnly DEF HandleInbound
  <2> QED BY <1>0, <1>2, <1>t, <2>2, <2>3 DEF HandleInbound, TypeInv, TypeOK
<1>3. ASSUME NEW c \in Callers, Start(c) PROVE TypeInv'
  <2>1. TypeOK'
    BY <1>0, <1>3, <1>t DEF Start, TypeOK, CallStates, AckStates, Settled
  <2>2. RoleInv' /\ AckInv'
    BY <1>0, <1>3, ZenonT(60) DEF Start, RoleInv, AckInv, CallStates, Settled
  <2> QED BY <2>1, <2>2 DEF TypeInv
<1>4. ASSUME NEW c \in Callers, StartSent(c) PROVE TypeInv'
  <2>1. TypeOK'
    BY <1>0, <1>4, <1>t DEF StartSent, TypeOK, CallStates, Settled
  <2>2. RoleInv' /\ AckInv'
    BY <1>0, <1>4 DEF StartSent, RoleInv, AckInv, CallStates, Settled
  <2> QED BY <2>1, <2>2 DEF TypeInv
<1>5. ASSUME NEW c \in Callers, StartReturns(c) PROVE TypeInv'
  <2>0. PICK k \in Settled : calls' = [calls EXCEPT ![c] = k]
    BY <1>5 DEF StartReturns, Settled
  <2>1. TypeOK'
    BY <1>0, <1>5, <1>t, <2>0 DEF StartReturns, TypeOK, CallStates
  <2>2. RoleInv' /\ AckInv'
    BY <1>0, <1>5, <2>0 DEF StartReturns, RoleInv, AckInv, CallStates, Settled
  <2> QED BY <2>1, <2>2 DEF TypeInv
<1>6. ASSUME NEW c \in Callers, End(c) PROVE TypeInv'
  <2>0. c \in Enders /\ calls[c] = "none" /\ acks[c] = "none"
    BY <1>0, <1>6 DEF End, AckInv
  <2>1. CASE EndIdle(c)
    <3>1. PICK k \in {"failed", "closing idle"} : calls' = [calls EXCEPT ![c] = k]
      BY <2>1 DEF EndIdle
    <3>2. TypeOK'
      BY <1>0, <1>6, <1>t, <2>1, <3>1
         DEF End, EndIdle, CloseCalled, TypeOK, CallStates, Settled
    <3>3. RoleInv' /\ AckInv'
      BY <1>0, <2>0, <2>1, <3>1 DEF EndIdle, RoleInv, AckInv, CallStates, Settled
    <3> QED BY <3>2, <3>3 DEF TypeInv
  <2>2. CASE EndReady(c)
    <3>1. \/ calls' = [calls EXCEPT ![c] = "failed"] /\ UNCHANGED <<acks, unsent>>
          \/ /\ calls' = [calls EXCEPT ![c] = "sending"]
             /\ acks' = [acks EXCEPT ![c] = "pending"]
             /\ unsent' \in {unsent, unsent \cup {c}}
      BY <2>2 DEF EndReady
    <3>2. TypeOK'
      BY <1>0, <1>6, <1>t, <2>2, <3>1
         DEF End, EndReady, TypeOK, CallStates, AckStates, Settled
    <3>3. RoleInv' /\ AckInv'
      BY <1>0, <2>0, <3>1 DEF RoleInv, AckInv, CallStates, Settled
    <3> QED BY <3>2, <3>3 DEF TypeInv
  <2>3. CASE ~EndIdle(c) /\ ~EndReady(c)
    <3>1. /\ \E k \in {"done", "watching"} : calls' = [calls EXCEPT ![c] = k]
          /\ UNCHANGED <<acks, unsent, wire, endedIdle>>
      BY <1>6, <2>3 DEF End
    <3>2. TypeOK'
      BY <1>0, <1>6, <1>t, <3>1 DEF End, TypeOK, CallStates, Settled
    <3>3. RoleInv' /\ AckInv'
      BY <1>0, <2>0, <3>1 DEF RoleInv, AckInv, CallStates, Settled
    <3> QED BY <3>2, <3>3 DEF TypeInv
  <2> QED BY <2>1, <2>2, <2>3
<1>7. ASSUME NEW c \in Callers, EndSent(c) PROVE TypeInv'
  <2>1. CASE c \notin unsent /\ calls' = [calls EXCEPT ![c] = "racing"]
             /\ UNCHANGED <<state, wire, unsent>>
    <3>1. TypeOK'
      BY <1>0, <1>7, <1>t, <2>1 DEF EndSent, TypeOK, CallStates
    <3>2. RoleInv' /\ AckInv'
      BY <1>0, <1>7, <2>1 DEF EndSent, RoleInv, AckInv, CallStates
    <3> QED BY <3>1, <3>2 DEF TypeInv
  <2>2. CASE unsent' = unsent \cup {c} /\ TearDown(c)
    <3>1. c \in Enders /\ calls[c] = "sending"
      BY <1>7 DEF EndSent
    <3>2. /\ calls' \in [Callers -> CallStates]
          /\ calls'[c] \in {"closing", "failed"}
          /\ \A d \in Callers \ {c} :
               calls'[d] = calls[d] \/ (calls[d] = "watching" /\ calls'[d] = "done")
          /\ wire' \in {wire, "closing"}
      BY <2>2, <3>1, TearDownType
    <3>3. TypeOK'
      BY <1>0, <1>7, <1>t, <2>2, <3>2 DEF EndSent, TypeOK
    <3>4. RoleInv' /\ AckInv'
      BY <1>0, <1>7, <2>2, <3>1, <3>2 DEF EndSent, RoleInv, AckInv, Settled
    <3> QED BY <3>3, <3>4 DEF TypeInv
  <2> QED BY <1>7, <2>1, <2>2 DEF EndSent
<1>8. ASSUME NEW c \in Callers, EndRaced(c) PROVE TypeInv'
  <2>1. c \in Enders /\ calls[c] = "racing" /\ acks[c] \in {"ok", "error"} /\ TearDown(c)
    BY <1>8 DEF EndRaced
  <2>2. /\ calls' \in [Callers -> CallStates]
        /\ calls'[c] \in {"closing", "failed"}
        /\ \A d \in Callers \ {c} :
             calls'[d] = calls[d] \/ (calls[d] = "watching" /\ calls'[d] = "done")
        /\ wire' \in {wire, "closing"}
    BY <2>1, TearDownType
  <2>3. TypeOK'
    BY <1>0, <1>8, <1>t, <2>2 DEF EndRaced, TypeOK
  <2>4. RoleInv' /\ AckInv'
    BY <1>0, <1>8, <2>1, <2>2 DEF EndRaced, RoleInv, AckInv, Settled
  <2> QED BY <2>3, <2>4 DEF TypeInv
<1>9. ASSUME NEW c \in Callers, EndReturns(c) PROVE TypeInv'
  <2>1. TypeOK'
    BY <1>0, <1>9, <1>t DEF EndReturns, TypeOK, CallStates, Settled
  <2>2. RoleInv' /\ AckInv'
    BY <1>0, <1>9 DEF EndReturns, RoleInv, AckInv, CallStates, Settled
  <2> QED BY <2>1, <2>2 DEF TypeInv
<1>10. ASSUME NEW f, Send(f) PROVE TypeInv'
  BY <1>0, <1>10, <1>t, AckOnly DEF Send, TypeInv, TypeOK
<1>11. CASE PeerCloses \/ OnMetrics \/ OffMetrics
  BY <1>0, <1>11, <1>t, AckOnly DEF PeerCloses, OnMetrics, OffMetrics, TypeInv, TypeOK
<1>12. CASE UNCHANGED vars
  BY <1>0, <1>12, <1>t, AckOnly DEF vars, TypeInv, TypeOK
<1> QED BY <1>1, <1>2, <1>3, <1>4, <1>5, <1>6, <1>7, <1>8, <1>9, <1>10, <1>11, <1>12
        DEF Next, CallStep, Judge, Segment
-----------------------------------------------------------------------------
(* What a step does to the acks and to the calls.                          *)

(* An ack is registered by the call that has not begun, an end() only from *)
(* "ready", and settled once.                                              *)
LEMMA AckSteps ==
  ASSUME NEW fs, TypeInv, [Next(fs)]_vars, NEW d \in Callers, acks'[d] # acks[d]
  PROVE  \/ acks[d] = "pending" /\ acks'[d] \in {"ok", "error"} /\ calls' = calls
         \/ /\ acks[d] = "none" /\ acks'[d] = "pending"
            /\ d \in Enders => /\ state = "ready" /\ state' = "ending"
                               /\ \A e \in Callers \ {d} : acks'[e] = acks[e]
<1> DEFINE Settles == acks[d] = "pending" /\ acks'[d] \in {"ok", "error"} /\ calls' = calls
           Begins  == /\ acks[d] = "none" /\ acks'[d] = "pending"
                      /\ d \in Enders => /\ state = "ready" /\ state' = "ending"
                                         /\ \A e \in Callers \ {d} : acks'[e] = acks[e]
<1> SUFFICES Settles \/ Begins
  OBVIOUS
<1>0. acks \in [Callers -> AckStates] /\ AckInv
  BY DEF TypeInv, TypeOK, AckStates
<1>1. ASSUME NEW c \in Callers, AckTimesOut(c) PROVE Settles
  BY <1>0, <1>1 DEF AckTimesOut, Rejects
<1>2. ASSUME NEW f, NEW c, HandleInbound(f, c) PROVE Settles
  <2>1. TryResolve(f, c) /\ calls' = calls
    BY <1>2 DEF HandleInbound
  <2> QED BY <1>0, <2>1, TryResolveType
<1>3. ASSUME NEW c \in Callers, Start(c) PROVE Begins
  BY <1>0, <1>3, CallersApart DEF Start, AckInv
<1>4. ASSUME NEW c \in Callers, End(c) PROVE Begins
  <2>1. EndReady(c) /\ calls[c] = "none"
    BY <1>4 DEF End, EndIdle
  <2>2. acks' = [acks EXCEPT ![c] = "pending"] /\ state = "ready" /\ state' = "ending"
    BY <2>1, SetEnding DEF EndReady
  <2>3. acks[c] = "none" /\ c = d
    BY <1>0, <2>1, <2>2 DEF AckInv
  <2>4. \A e \in Callers \ {d} : acks'[e] = acks[e]
    BY <1>0, <2>2, <2>3
  <2> QED BY <1>0, <2>2, <2>3, <2>4
<1>5. ASSUME NEW c \in Callers,
             StartSent(c) \/ StartReturns(c) \/ EndSent(c) \/ EndRaced(c) \/ EndReturns(c)
      PROVE  FALSE
  BY <1>5 DEF StartSent, StartReturns, EndSent, EndRaced, EndReturns
<1>6. ASSUME NEW f, Send(f) PROVE FALSE
  BY <1>6 DEF Send
<1>7. ~(PeerCloses \/ OnMetrics \/ OffMetrics \/ UNCHANGED vars)
  BY DEF PeerCloses, OnMetrics, OffMetrics, vars
<1> HIDE DEF Settles, Begins
<1> QED BY <1>1, <1>2, <1>3, <1>4, <1>5, <1>6, <1>7 DEF Next, CallStep, Judge, Segment

(* An ack that was a success stays one.                                    *)
LEMMA OkStays ==
  ASSUME NEW fs, TypeInv, [Next(fs)]_vars, NEW d \in Callers, acks[d] = "ok"
  PROVE  acks'[d] = "ok"
BY AckSteps

(* A start() resolves on a success; if it fails on one, something overtook *)
(* it.                                                                     *)
LEMMA StartSteps ==
  ASSUME NEW fs, TypeInv, [Next(fs)]_vars, NEW s \in Starters,
         calls'[s] # calls[s]
  PROVE  /\ calls'[s] = "done" => acks[s] = "ok"
         /\ calls'[s] = "failed" /\ acks'[s] = "ok" =>
              state' \in {"ending", "ended"} \/ throwsOn' = "ready" \/ s \in unsent'
<1> DEFINE Goal == /\ calls'[s] = "done" => acks[s] = "ok"
                   /\ calls'[s] = "failed" /\ acks'[s] = "ok" =>
                        state' \in {"ending", "ended"} \/ throwsOn' = "ready" \/ s \in unsent'
<1> SUFFICES Goal
  OBVIOUS
<1>0. /\ calls \in [Callers -> CallStates] /\ s \in Callers /\ s \notin Enders
      /\ calls[s] # "watching" /\ state \in ProcessState /\ throwsOn' = throwsOn
      /\ calls[s] \in {"none", "sending", "waiting"} \cup Settled
  BY Steps DEF TypeInv, TypeOK, RoleInv, Callers, CallStates, Config, Settled
<1>1. ASSUME NEW c \in Callers, Start(c) PROVE Goal
  <2>1. c = s /\ calls[s] = "none"
    BY <1>0, <1>1 DEF Start
  <2>2. acks[s] = "none" /\ acks \in [Callers -> AckStates]
    BY <1>0, <2>1 DEF TypeInv, TypeOK, AckInv, AckStates
  <2>3. acks'[s] # "ok" /\ calls'[s] # "done"
    BY <1>0, <1>1, <2>1, <2>2 DEF Start
  <2> QED BY <2>3
<1>2. ASSUME NEW c \in Callers, StartSent(c) PROVE Goal
  BY <1>0, <1>2 DEF StartSent
<1>3. ASSUME NEW c \in Callers, StartReturns(c) PROVE Goal
  <2>1. c = s /\ acks[s] \in {"ok", "error"} /\ acks' = acks
    BY <1>0, <1>3 DEF StartReturns
  <2>2. CASE acks[s] = "error"
    BY <1>0, <1>3, <2>1, <2>2 DEF StartReturns
  <2>3. CASE acks[s] = "ok"
    <3>1. Set("ready") /\ (calls'[s] = "failed" => SetThrows("ready"))
      BY <1>0, <1>3, <2>1, <2>3 DEF StartReturns
    <3> QED BY <1>0, <2>1, <2>3, <3>1, SetReady
  <2> QED BY <2>1, <2>2, <2>3
<1>4. ASSUME NEW c \in Callers, End(c) PROVE FALSE
  BY <1>0, <1>4 DEF End, EndIdle, EndReady
<1>5. ASSUME NEW c \in Callers, EndSent(c) \/ EndRaced(c) PROVE FALSE
  <2>1. c \in Enders /\ calls[c] \in {"sending", "racing"}
    BY <1>5 DEF EndSent, EndRaced
  <2>2. calls' = [calls EXCEPT ![c] = "racing"] \/ TearDown(c)
    BY <1>5 DEF EndSent, EndRaced
  <2> QED BY <1>0, <2>1, <2>2, TearDownType
<1>6. ASSUME NEW c \in Callers, EndReturns(c) PROVE FALSE
  BY <1>0, <1>6 DEF EndReturns, Settled
<1>7. ASSUME NEW c \in Callers, AckTimesOut(c) PROVE FALSE
  BY <1>7 DEF AckTimesOut
<1>8. ASSUME NEW f, NEW c, HandleInbound(f, c) \/ Send(f) PROVE FALSE
  BY <1>8 DEF HandleInbound, Send
<1>9. ~(PeerCloses \/ OnMetrics \/ OffMetrics \/ UNCHANGED vars)
  BY DEF PeerCloses, OnMetrics, OffMetrics, vars
<1> HIDE DEF Goal
<1> QED BY <1>1, <1>2, <1>3, <1>4, <1>5, <1>6, <1>7, <1>8, <1>9
        DEF Next, CallStep, Judge, Segment

(* An ack is rejected unheard while its call awaits the end of its send,   *)
(* or after its send was refused.                                          *)
LEMMA UnheardSteps ==
  ASSUME NEW fs, TypeInv, [Next(fs)]_vars, NEW u \in unheard', u \notin unheard
  PROVE  u[1] \in unsent' \/ u[2] = "sending"
<1>r. ASSUME NEW c \in Callers, acks[c] = "pending", Rejects(c), unsent' = unsent
      PROVE  u[1] \in unsent' \/ u[2] = "sending"
  <2>1. ~Awaited(c) /\ u = <<c, calls[c]>>
    BY <1>r DEF Rejects
  <2> QED BY <1>r, <2>1 DEF Awaited, TypeInv, AckInv
<1>1. ASSUME NEW c \in Callers, AckTimesOut(c)
      PROVE  acks[c] = "pending" /\ Rejects(c) /\ unsent' = unsent
  BY <1>1 DEF AckTimesOut
<1>2. ASSUME NEW f, NEW c, HandleInbound(f, c)
      PROVE  c \in Callers /\ acks[c] = "pending" /\ Rejects(c) /\ unsent' = unsent
  BY <1>2 DEF HandleInbound, TryResolve
<1>3. ASSUME NEW c \in Callers,
             \/ Start(c) \/ StartSent(c) \/ StartReturns(c)
             \/ End(c) \/ EndSent(c) \/ EndRaced(c) \/ EndReturns(c)
      PROVE  FALSE
  BY <1>3 DEF Start, StartSent, StartReturns, End, EndSent, EndRaced, EndReturns
<1>4. ASSUME NEW f, Send(f) PROVE FALSE
  BY <1>4 DEF Send
<1>5. ~(PeerCloses \/ OnMetrics \/ OffMetrics \/ UNCHANGED vars)
  BY DEF PeerCloses, OnMetrics, OffMetrics, vars
<1> QED BY <1>r, <1>1, <1>2, <1>3, <1>4, <1>5 DEF Next, CallStep, Judge, Segment

-----------------------------------------------------------------------------
(* The safety of the calls.                                                *)
CallsInv == TypeInv /\ ReadyAcked /\ EnderInv /\ EndsOnce /\ StartsHonest /\ UnheardExplained

LEMMA NextCallsInv ==
  ASSUME NEW fs, CallsInv, [Next(fs)]_vars
  PROVE  CallsInv'
<1>0. /\ TypeInv /\ TypeInv' /\ ReadyAcked /\ EnderInv /\ EndsOnce /\ StartsHonest
      /\ UnheardExplained /\ Starters \subseteq Callers /\ Enders \subseteq Callers
  BY NextTypeInv DEF CallsInv, Callers
<1>s. /\ state' # state => \/ state = "idle" /\ state' = "ready"
                              /\ \E s \in Starters : acks[s] = "ok"
                           \/ state = "ready" /\ state' = "ending"
                           \/ state' = "ended"
      /\ state = "ended" => state' = "ended"
      /\ state = "ending" => state' \in {"ending", "ended"}
      /\ throwsOn' = throwsOn /\ unsent \subseteq unsent'
  BY <1>0, Steps DEF Config
<1>1. ReadyAcked'
  <2>1. state' \in {"ready", "ending"} => \E s \in Starters : acks[s] = "ok"
    BY <1>0, <1>s DEF ReadyAcked
  <2> QED BY <1>0, <2>1, OkStays DEF ReadyAcked
<1>2. EnderInv'
  <2> SUFFICES ASSUME NEW e \in Enders, acks'[e] # "none"
               PROVE  state' \in {"ending", "ended"}
    BY DEF EnderInv
  <2>1. CASE acks'[e] = acks[e]
    BY <1>0, <1>s, <2>1 DEF EnderInv
  <2>2. CASE acks'[e] # acks[e]
    BY <1>0, <1>s, <2>2, AckSteps DEF EnderInv
  <2> QED BY <2>1, <2>2
<1>3. EndsOnce'
  <2> SUFFICES ASSUME NEW c \in Enders, NEW d \in Enders, c # d,
                      acks'[c] # "none", acks'[d] # "none"
               PROVE  acks[c] # "none" /\ acks[d] # "none"
    BY <1>0 DEF EndsOnce
  <2>1. ASSUME NEW e \in Enders, NEW g \in Enders, e # g, acks'[e] # "none",
               acks'[g] # "none"
        PROVE  acks[e] # "none"
    <3> SUFFICES ASSUME acks[e] = "none" PROVE FALSE
      OBVIOUS
    <3>1. state = "ready" /\ acks'[g] = acks[g]
      BY <1>0, <2>1, AckSteps
    <3> QED BY <2>1, <3>1, <1>0 DEF EnderInv
  <2> QED BY <2>1
<1>4. StartsHonest'
  <2> SUFFICES ASSUME NEW s \in Starters
               PROVE  /\ calls'[s] = "done" => acks'[s] = "ok"
                      /\ calls'[s] = "failed" /\ acks'[s] = "ok" =>
                           state' \in {"ending", "ended"} \/ throwsOn' = "ready" \/ s \in unsent'
    BY DEF StartsHonest
  <2>1. CASE calls'[s] # calls[s]
    BY <1>0, <2>1, StartSteps, OkStays
  <2>2. CASE calls'[s] = calls[s] /\ acks'[s] = acks[s]
    BY <1>0, <1>s, <2>2 DEF StartsHonest
  <2>3. CASE calls'[s] = calls[s] /\ acks'[s] # acks[s]
    <3>1. acks[s] # "ok" /\ (acks'[s] = "ok" => acks[s] = "pending")
      BY <1>0, <2>3, AckSteps
    <3>2. calls'[s] = "failed" /\ acks'[s] = "ok" => s \in unsent'
      BY <1>0, <1>s, <2>3, <3>1 DEF TypeInv, AckInv
    <3> QED BY <1>0, <2>3, <3>1, <3>2 DEF StartsHonest
  <2> QED BY <2>1, <2>2, <2>3
<1>5. UnheardExplained'
  BY <1>0, <1>s, UnheardSteps DEF UnheardExplained
<1> QED BY <1>0, <1>1, <1>2, <1>3, <1>4, <1>5 DEF CallsInv

LEMMA InitCallsInv == Init => CallsInv
<1> SUFFICES ASSUME Init PROVE CallsInv
  OBVIOUS
<1>1. /\ calls = [c \in Callers |-> "none"] /\ acks = [c \in Callers |-> "none"]
      /\ state = "idle" /\ unheard = {}
      /\ Starters \subseteq Callers /\ Enders \subseteq Callers
  BY DEF Init, Callers
<1> QED BY <1>1, InitTypeInv DEF CallsInv, ReadyAcked, EnderInv, EndsOnce, StartsHonest,
                                 UnheardExplained

-----------------------------------------------------------------------------
(* The end.                                                                *)
EndInv == TypeInv /\ DoneInv /\ CleanInv

(* A step that lets no end() go on and undoes nothing.                     *)
LEMMA EndKept ==
  ASSUME EndInv, state = "ended" => state' = "ended",
         state' = "ended" => state = "ended",
         \A e \in Enders : \/ calls'[e] = calls[e]
                           \/ /\ calls[e] \notin {"closing", "closing idle", "failed"}
                              /\ calls'[e] \notin {"closing", "closing idle"}
                              /\ calls'[e] = "done" => state = "ended",
         wire = "closed" => wire' = "closed", attached' = attached,
         endedIdle' = endedIdle,
         state = "ended" => (metering' = "early" => metering = "early")
  PROVE  DoneInv' /\ CleanInv'
<1>1. DoneInv'
  BY DEF EndInv, DoneInv
<1>2. CleanInv'
  <2> SUFFICES ASSUME state = "ended" PROVE CleanInv'
    BY DEF CleanInv
  <2>1. \A e \in Enders : calls[e] \in {"closing", "closing idle", "failed"} =>
                             calls'[e] = calls[e]
    OBVIOUS
  <2> QED BY <2>1 DEF EndInv, CleanInv
<1> QED BY <1>1, <1>2

LEMMA NextEndInv ==
  ASSUME NEW fs, EndInv, [Next(fs)]_vars
  PROVE  EndInv'
<1>0. /\ TypeInv /\ TypeInv' /\ DoneInv /\ CleanInv
      /\ Starters \cap Enders = {} /\ Enders \subseteq Callers
      /\ calls \in [Callers -> CallStates] /\ state \in ProcessState
      /\ state = "ended" => state' = "ended"
  BY NextTypeInv, Steps, CallersApart DEF EndInv, TypeInv, TypeOK, CallStates, Callers
<1> SUFFICES DoneInv' /\ CleanInv'
  BY <1>0 DEF EndInv
<1>1. ASSUME NEW c \in Callers, AckTimesOut(c) PROVE DoneInv' /\ CleanInv'
  BY <1>1, EndKept DEF AckTimesOut
<1>2. ASSUME NEW f, NEW c, HandleInbound(f, c) \/ Send(f) PROVE DoneInv' /\ CleanInv'
  BY <1>2, EndKept DEF HandleInbound, Send
<1>3. ASSUME NEW c \in Callers, Start(c) \/ StartSent(c) PROVE DoneInv' /\ CleanInv'
  <2>1. \A e \in Enders : calls'[e] = calls[e]
    BY <1>0, <1>3 DEF Start, StartSent
  <2>2. UNCHANGED <<state, wire, attached, endedIdle, metering>>
    BY <1>3 DEF Start, StartSent
  <2> QED BY <2>1, <2>2, EndKept
<1>4. ASSUME NEW c \in Callers, StartReturns(c) PROVE DoneInv' /\ CleanInv'
  <2>1. \A e \in Enders : calls'[e] = calls[e]
    BY <1>0, <1>4 DEF StartReturns
  <2>2. state' = "ended" => state = "ended"
    BY <1>0, <1>4, SetReady DEF StartReturns
  <2>3. UNCHANGED <<wire, attached, endedIdle, metering>>
    BY <1>4 DEF StartReturns
  <2> QED BY <1>0, <2>1, <2>2, <2>3, EndKept
<1>5. ASSUME NEW c \in Callers, End(c) PROVE DoneInv' /\ CleanInv'
  <2>0. /\ c \in Enders /\ calls[c] = "none" /\ UNCHANGED <<attached, metering>>
        /\ \A e \in Enders \ {c} : calls'[e] = calls[e]
    BY <1>0, <1>5 DEF End, EndIdle, EndReady
  <2>1. CASE EndIdle(c)
    <3>1. state' = "ended" /\ endedIdle' = TRUE
      BY <1>0, <2>1, SetEnded DEF EndIdle
    <3>2. calls'[c] \in {"closing idle", "failed"}
      BY <1>0, <2>0, <2>1 DEF EndIdle
    <3> QED BY <1>0, <2>0, <3>1, <3>2 DEF DoneInv, CleanInv
  <2>2. CASE EndReady(c)
    <3>1. state' = "ending" /\ UNCHANGED <<wire, endedIdle>> /\ state = "ready"
      BY <2>2, SetEnding DEF EndReady
    <3>2. calls'[c] \in {"failed", "sending"}
      BY <1>0, <2>0, <2>2 DEF EndReady
    <3> QED BY <1>0, <2>0, <3>1, <3>2 DEF DoneInv, CleanInv
  <2>3. CASE ~EndIdle(c) /\ ~EndReady(c)
    <3>1. /\ UNCHANGED <<state, wire, endedIdle>>
          /\ calls'[c] \in {"done", "watching"} /\ (calls'[c] = "done" => state = "ended")
      BY <1>0, <1>5, <2>0, <2>3 DEF End
    <3> QED BY <2>0, <3>1, EndKept
  <2> QED BY <2>1, <2>2, <2>3
<1>t. ASSUME NEW c \in Enders, calls[c] \in {"sending", "racing"}, TearDown(c),
             UNCHANGED <<attached, metering, endedIdle>>
      PROVE  DoneInv' /\ CleanInv'
  <2>1. /\ calls'[c] \in {"closing", "failed"} /\ state' = "ended"
        /\ \A d \in Callers \ {c} :
             calls'[d] = calls[d] \/ (calls[d] = "watching" /\ calls'[d] = "done")
    BY <1>0, <1>t, TearDownType
  <2>2. \A d \in Enders \ {c} : calls'[d] = "closing idle" => calls[d] = "closing idle"
    BY <1>0, <2>1
  <2> QED BY <1>0, <1>t, <2>1, <2>2 DEF DoneInv, CleanInv
<1>6. ASSUME NEW c \in Callers, EndSent(c) PROVE DoneInv' /\ CleanInv'
  <2>1. c \in Enders /\ calls[c] = "sending" /\ UNCHANGED <<attached, metering, endedIdle>>
    BY <1>6 DEF EndSent
  <2>2. CASE calls' = [calls EXCEPT ![c] = "racing"] /\ UNCHANGED <<state, wire>>
    <3>1. \A e \in Enders : calls'[e] = calls[e]
                            \/ (calls[e] = "sending" /\ calls'[e] = "racing")
      BY <1>0, <2>1, <2>2
    <3> QED BY <2>1, <2>2, <3>1, EndKept
  <2>3. CASE TearDown(c)
    BY <1>t, <2>1, <2>3
  <2> QED BY <1>6, <2>2, <2>3 DEF EndSent
<1>7. ASSUME NEW c \in Callers, EndRaced(c) PROVE DoneInv' /\ CleanInv'
  BY <1>t, <1>7 DEF EndRaced
<1>8. ASSUME NEW c \in Callers, EndReturns(c) PROVE DoneInv' /\ CleanInv'
  <2>1. /\ c \in Enders /\ calls[c] \in {"closing", "closing idle"} /\ state = "ended"
    BY <1>0, <1>8 DEF EndReturns, TypeInv, RoleInv, DoneInv, Callers, Settled
  <2>2. /\ wire' = "closed" /\ calls' = [calls EXCEPT ![c] = "done"]
        /\ UNCHANGED <<state, endedIdle>>
        /\ \/ ~attached' /\ metering' = "none"
           \/ calls[c] = "closing idle"
    BY <1>8 DEF EndReturns
  <2>3. DoneInv'
    BY <1>0, <2>1, <2>2 DEF DoneInv
  <2>4. CleanInv'
    BY <1>0, <2>1, <2>2 DEF DoneInv, CleanInv
  <2> QED BY <2>3, <2>4
<1>9. CASE PeerCloses \/ OnMetrics \/ OffMetrics
  BY <1>9, EndKept DEF PeerCloses, OnMetrics, OffMetrics
<1>10. CASE UNCHANGED vars
  BY <1>10, EndKept DEF vars
<1> QED BY <1>1, <1>2, <1>3, <1>4, <1>5, <1>6, <1>7, <1>8, <1>9, <1>10
        DEF Next, CallStep, Judge, Segment

LEMMA InitEndInv == Init => EndInv
BY InitTypeInv DEF Init, EndInv, DoneInv, CleanInv, Callers

LEMMA Final == EndInv => EndIsFinal
BY DEF EndInv, DoneInv, CleanInv, EndIsFinal

-----------------------------------------------------------------------------
(* ProcessSafe, for any frames that come in or are sent: nothing calls the *)
(* process ready or ends it before an initialize was acknowledged, it is   *)
(* asked to end once, start() tells the truth, acks are rejected unheard   *)
(* only around a send, and a process that has ended is closed, detached    *)
(* and no longer timed.                                                    *)
THEOREM ProcessIsSafe ==
  ASSUME NEW CONSTANT fs
  PROVE  Spec(fs) => []ProcessSafe
<1>1. Init => CallsInv /\ EndInv
  BY InitCallsInv, InitEndInv
<1>2. CallsInv /\ EndInv /\ [Next(fs)]_vars => CallsInv' /\ EndInv'
  BY NextCallsInv, NextEndInv
<1>3. CallsInv /\ EndInv => ProcessSafe
  BY Final DEF CallsInv, TypeInv, ProcessSafe
<1> QED BY <1>1, <1>2, <1>3, PTL DEF Spec

-----------------------------------------------------------------------------
(* The framing of the pipe, for every text and every way it is cut.         *)

(* The line that ends at i begins at b.                                    *)
Begins(s, i, b) == /\ b \in 1 .. i /\ (b = 1 \/ s[b - 1] = Newline)
                   /\ \A j \in b .. i - 1 : s[j] # Newline

LEMMA FromIs ==
  ASSUME NEW s, NEW i \in Nat, i >= 1
  PROVE  /\ Begins(s, i, From(s, i))
         /\ \A b : Begins(s, i, b) => From(s, i) = b
<1> DEFINE S == {m \in Nat : \E b : Begins(s, m + 1, b)}
<1>1. 0 \in S
  <2>1. Begins(s, 1, 1)
    BY DEF Begins
  <2> QED BY <2>1
<1>2. ASSUME NEW m \in Nat, m \in S PROVE m + 1 \in S
  <2>1. PICK b : Begins(s, m + 1, b)
    BY <1>2
  <2>2. CASE s[m + 1] = Newline
    <3>1. (m + 2) - 1 = m + 1 /\ m + 2 \in 1 .. m + 2
      OBVIOUS
    <3>2. Begins(s, m + 2, m + 2)
      BY <2>2, <3>1 DEF Begins
    <3> QED BY <3>2
  <2>3. CASE s[m + 1] # Newline
    <3>1. \A j \in b .. (m + 2) - 1 : j \in b .. (m + 1) - 1 \/ j = m + 1
      BY <2>1 DEF Begins
    <3>2. Begins(s, m + 2, b)
      BY <2>1, <2>3, <3>1 DEF Begins
    <3> QED BY <3>2
  <2> QED BY <2>2, <2>3
<1>3. S \in SUBSET Nat
  OBVIOUS
<1>4. S = Nat
  <2> HIDE DEF S
  <2> QED BY <1>1, <1>2, <1>3, SetInduction
<1>5. i - 1 \in Nat /\ (i - 1) + 1 = i
  OBVIOUS
<1>6. \E b : Begins(s, i, b)
  BY <1>4, <1>5
<1>7. Begins(s, i, From(s, i))
  <2>1. \E b \in 1 .. i : (b = 1 \/ s[b - 1] = Newline) /\ \A j \in b .. i - 1 : s[j] # Newline
    BY <1>6 DEF Begins
  <2> QED BY <2>1 DEF From, Begins
<1>8. ASSUME NEW b, NEW c, Begins(s, i, b), Begins(s, i, c) PROVE ~(b < c)
  <2> SUFFICES ASSUME b < c PROVE FALSE
    OBVIOUS
  <2>1. b \in Nat /\ c \in Nat /\ c <= i /\ c # 1 /\ s[c - 1] = Newline
    BY <1>8 DEF Begins
  <2>2. c - 1 \in b .. i - 1
    BY <2>1
  <2> QED BY <1>8, <2>1, <2>2 DEF Begins
<1>9. ASSUME NEW b, Begins(s, i, b) PROVE From(s, i) = b
  <2>1. ~(b < From(s, i)) /\ ~(From(s, i) < b)
    BY <1>7, <1>8, <1>9
  <2>2. b \in Nat /\ From(s, i) \in Nat
    BY <1>7, <1>9 DEF Begins
  <2> QED BY <2>1, <2>2
<1> QED BY <1>7, <1>9

(* s is t from the place a on, the beginning of a line.                    *)
Stretch(s, t, a, m) ==
  /\ m \in Nat /\ a \in Nat /\ a >= 1 /\ a <= m + 1 /\ m <= Len(t)
  /\ a = 1 \/ t[a - 1] = Newline
  /\ s \in Seq(Chars) /\ Len(s) = m + 1 - a
  /\ \A i \in 1 .. Len(s) : s[i] = t[i + a - 1]

LEMMA FromMoves ==
  ASSUME NEW t \in Seq(Chars), NEW s, NEW a, NEW m, Stretch(s, t, a, m),
         NEW i \in Nat, i >= 1, i <= Len(s) + 1
  PROVE  From(t, i + a - 1) = From(s, i) + a - 1
<1> DEFINE b == From(s, i)
<1>1. Begins(s, i, b)
  BY FromIs
<1> HIDE DEF b
<1>2. b \in Nat /\ b >= 1 /\ b <= i /\ a \in Nat /\ a >= 1 /\ Len(s) \in Nat
  BY <1>1 DEF Begins, Stretch
<1>3. b + a - 1 \in 1 .. i + a - 1
  BY <1>2
<1>4. b + a - 1 = 1 \/ t[(b + a - 1) - 1] = Newline
  <2>1. CASE b = 1
    BY <1>2, <2>1 DEF Stretch
  <2>2. CASE b # 1
    <3>1. s[b - 1] = Newline /\ b - 1 \in 1 .. Len(s)
      BY <1>1, <1>2, <2>2 DEF Begins
    <3>2. (b + a - 1) - 1 = (b - 1) + a - 1
      BY <1>2
    <3> QED BY <3>1, <3>2 DEF Stretch
  <2> QED BY <2>1, <2>2
<1>5. ASSUME NEW j \in b + a - 1 .. (i + a - 1) - 1 PROVE t[j] # Newline
  <2>1. j - a + 1 \in b .. i - 1 /\ j - a + 1 \in 1 .. Len(s) /\ (j - a + 1) + a - 1 = j
    BY <1>2
  <2>2. s[j - a + 1] # Newline
    BY <1>1, <2>1 DEF Begins
  <2> QED BY <2>1, <2>2 DEF Stretch
<1>6. Begins(t, i + a - 1, b + a - 1)
  BY <1>3, <1>4, <1>5 DEF Begins
<1>7. i + a - 1 \in Nat /\ i + a - 1 >= 1
  BY <1>2
<1> QED BY <1>6, <1>7, FromIs DEF b

LEMMA Part ==
  ASSUME NEW t \in Seq(Chars), NEW x \in Nat, x >= 1, NEW y \in Nat, y <= Len(t), x <= y + 1
  PROVE  /\ SubSeq(t, x, y) \in Seq(Chars) /\ Len(SubSeq(t, x, y)) = y + 1 - x
         /\ \A i \in 1 .. y + 1 - x : SubSeq(t, x, y)[i] = t[x + i - 1]
<1>1. \A i \in x .. y : t[i] \in Chars
  <2>1. \A i \in x .. y : i \in DOMAIN t
    BY Elements
  <2> QED BY <2>1, Elements
<1>2. x \in Int /\ y \in Int /\ y - x + 1 = y + 1 - x /\ (~(x <= y) => y + 1 - x = 0)
  OBVIOUS
<1> QED BY <1>1, <1>2, SubSeqProperties

(* The line that ends at i; the place i of the stretch is j in the text.   *)
LineAt(s, i) == SubSeq(s, From(s, i), i - 1)
Placed(t, s, a, m, i, j) ==
  /\ t \in Seq(Chars) /\ Stretch(s, t, a, m)
  /\ i \in Nat /\ i >= 1 /\ i <= Len(s) + 1 /\ j = i + a - 1

LEMMA LineMoves ==
  ASSUME NEW t, NEW s, NEW a, NEW m, NEW i, NEW j, Placed(t, s, a, m, i, j)
  PROVE  LineAt(s, i) = LineAt(t, j)
<1>p. /\ t \in Seq(Chars) /\ Stretch(s, t, a, m)
      /\ i \in Nat /\ i >= 1 /\ i <= Len(s) + 1 /\ j = i + a - 1
  BY DEF Placed
<1> DEFINE b == From(s, i)
           p == SubSeq(s, b, i - 1)
           q == SubSeq(t, b + a - 1, (i + a - 1) - 1)
<1>1. b \in Nat /\ b >= 1 /\ b <= i
  BY <1>p, FromIs DEF Begins
<1>2. From(t, i + a - 1) = b + a - 1
  BY <1>p, FromMoves
<1>3. a \in Nat /\ a >= 1 /\ Len(s) \in Nat /\ s \in Seq(Chars) /\ Len(s) = m + 1 - a /\ m <= Len(t)
      /\ m \in Nat
  BY <1>p DEF Stretch
<1> HIDE DEF b
<1>4. /\ p \in Seq(Chars) /\ Len(p) = i - b
      /\ \A k \in 1 .. i - b : p[k] = s[b + k - 1]
  <2> DEFINE y == i - 1
  <2>1. y \in Nat /\ y <= Len(s) /\ b <= y + 1 /\ y + 1 - b = i - b
    BY <1>p, <1>1, <1>3
  <2> HIDE DEF y
  <2>2. /\ SubSeq(s, b, y) \in Seq(Chars) /\ Len(SubSeq(s, b, y)) = i - b
        /\ \A k \in 1 .. i - b : SubSeq(s, b, y)[k] = s[b + k - 1]
    BY <1>1, <1>3, <2>1, Part
  <2> QED BY <2>2 DEF y
<1>5. /\ q \in Seq(Chars) /\ Len(q) = i - b
      /\ \A k \in 1 .. i - b : q[k] = t[(b + a - 1) + k - 1]
  <2> DEFINE x == b + a - 1
             y == (i + a - 1) - 1
  <2>1. x \in Nat /\ x >= 1 /\ y \in Nat /\ y <= Len(t) /\ x <= y + 1 /\ y + 1 - x = i - b
    BY <1>p, <1>1, <1>3, Elements
  <2> HIDE DEF x, y
  <2>2. /\ SubSeq(t, x, y) \in Seq(Chars) /\ Len(SubSeq(t, x, y)) = i - b
        /\ \A k \in 1 .. i - b : SubSeq(t, x, y)[k] = t[x + k - 1]
    BY <1>p, <2>1, Part
  <2> QED BY <2>2 DEF x, y
<1> HIDE DEF p, q
<1>6. \A k \in 1 .. i - b : s[b + k - 1] = t[(b + a - 1) + k - 1]
  <2> SUFFICES ASSUME NEW k \in 1 .. i - b PROVE s[b + k - 1] = t[(b + a - 1) + k - 1]
    OBVIOUS
  <2>1. b + k - 1 \in 1 .. Len(s) /\ (b + k - 1) + a - 1 = (b + a - 1) + k - 1
    BY <1>p, <1>1, <1>3
  <2> QED BY <1>p, <2>1 DEF Stretch
<1>7. p = q
  BY <1>4, <1>5, <1>6, SeqEqual
<1> QED BY <1>p, <1>2, <1>7 DEF LineAt, b, p, q

(* What one read adds to the last line is a stretch of the text.           *)
LEMMA ReadIsStretch ==
  ASSUME NEW t \in Seq(Chars), NEW f \in Nat, NEW k \in Nat, f + k <= Len(t),
         NEW a, Begins(t, f + 1, a), NEW s, s = SubSeq(t, a, f) \o SubSeq(t, f + 1, f + k)
  PROVE  Stretch(s, t, a, f + k)
<1> DEFINE u == SubSeq(t, a, f)
           v == SubSeq(t, f + 1, f + k)
<1>1. /\ a \in Nat /\ a >= 1 /\ a <= f + 1 /\ (a = 1 \/ t[a - 1] = Newline)
      /\ Len(t) \in Nat /\ f <= Len(t)
  <2>1. Len(t) \in Nat
    OBVIOUS
  <2> QED BY <2>1 DEF Begins
<1>2. /\ u \in Seq(Chars) /\ Len(u) = f + 1 - a
      /\ \A i \in 1 .. f + 1 - a : u[i] = t[a + i - 1]
  BY <1>1, Part
<1>3. /\ v \in Seq(Chars) /\ Len(v) = k
      /\ \A i \in 1 .. k : v[i] = t[(f + 1) + i - 1]
  <2> DEFINE x == f + 1
             y == f + k
  <2>1. x \in Nat /\ x >= 1 /\ y \in Nat /\ y <= Len(t) /\ x <= y + 1 /\ y + 1 - x = k
    BY <1>1
  <2> HIDE DEF x, y
  <2>2. /\ SubSeq(t, x, y) \in Seq(Chars) /\ Len(SubSeq(t, x, y)) = k
        /\ \A i \in 1 .. k : SubSeq(t, x, y)[i] = t[x + i - 1]
    BY <2>1, Part
  <2> QED BY <2>2 DEF x, y
<1> HIDE DEF u, v
<1>4. s \in Seq(Chars) /\ Joins(s, u, v)
  BY <1>2, <1>3, Concatenated DEF u, v
<1>5. Len(s) = (f + k) + 1 - a /\ Len(s) \in Nat
  <2>1. Len(s) = Len(u) + Len(v)
    BY <1>4 DEF Joins
  <2> QED BY <1>1, <1>2, <1>3, <2>1
<1>6. DOMAIN s = 1 .. Len(s) /\ DOMAIN u = 1 .. f + 1 - a /\ DOMAIN v = 1 .. k
  BY <1>2, <1>3, <1>4
<1>7. ASSUME NEW i \in 1 .. Len(s) PROVE s[i] = t[i + a - 1]
  <2>1. CASE i \in DOMAIN u /\ s[i] = u[i]
    <3>1. i + a - 1 = a + i - 1
      BY <1>1
    <3> QED BY <1>2, <1>6, <2>1, <3>1
  <2>2. CASE i - Len(u) \in DOMAIN v /\ s[i] = v[i - Len(u)]
    <3>1. (f + 1) + (i - Len(u)) - 1 = i + a - 1
      BY <1>1, <1>2
    <3>2. v[i - Len(u)] = t[(f + 1) + (i - Len(u)) - 1]
      BY <1>3, <1>6, <2>2
    <3> QED BY <2>2, <3>1, <3>2
  <2> QED BY <1>4, <1>6, <2>1, <2>2 DEF Joins
<1>8. f + k \in Nat /\ a <= (f + k) + 1
  BY <1>1
<1> QED BY <1>1, <1>4, <1>5, <1>7, <1>8 DEF Stretch

LEMMA LinesOf ==
  ASSUME NEW s \in Seq(Chars)
  PROVE  /\ Lines(s) \in Seq(Seq(Chars)) /\ DOMAIN Lines(s) = DOMAIN s
         /\ \A i \in DOMAIN s : Lines(s)[i] = SubSeq(s, From(s, i), i - 1)
<1>1. \A i \in DOMAIN s : SubSeq(s, From(s, i), i - 1) \in Seq(Chars)
  <2> SUFFICES ASSUME NEW i \in DOMAIN s PROVE SubSeq(s, From(s, i), i - 1) \in Seq(Chars)
    OBVIOUS
  <2>1. i \in Nat /\ i >= 1 /\ i <= Len(s) /\ Len(s) \in Nat
    BY Elements
  <2>2. From(s, i) \in Nat /\ From(s, i) >= 1 /\ From(s, i) <= i
    BY <2>1, FromIs DEF Begins
  <2>3. i - 1 \in Nat /\ i - 1 <= Len(s) /\ From(s, i) <= (i - 1) + 1
    BY <2>1, <2>2
  <2> QED BY <2>2, <2>3, Part
<1>2. DOMAIN s = 1 .. Len(s) /\ Len(s) \in Nat
  BY Elements
<1>3. Lines(s) = [i \in 1 .. Len(s) |-> SubSeq(s, From(s, i), i - 1)]
  BY <1>2 DEF Lines
<1>4. Lines(s) \in Seq(Seq(Chars))
  BY <1>1, <1>2, <1>3, IsASeq
<1> QED BY <1>2, <1>3, <1>4

LEMMA EndsMove ==
  ASSUME NEW t \in Seq(Chars), NEW s, NEW a, NEW m, Stretch(s, t, a, m),
         NEW f \in Nat, Begins(t, f + 1, a)
  PROVE  \A i \in 1 .. Len(s) :
           /\ i + (a - 1) \in DOMAIN t /\ Lines(s)[i] = Lines(t)[i + (a - 1)]
           /\ i \in LineEnds(s) <=> i + (a - 1) \in LineEnds(t)
           /\ i \in Parsed(s) <=> i + (a - 1) \in Parsed(t)
           /\ i \in LineEnds(s) => f < i + (a - 1)
<1>1. /\ s \in Seq(Chars) /\ a \in Nat /\ a >= 1 /\ m \in Nat /\ m <= Len(t)
      /\ Len(s) = m + 1 - a /\ Len(s) \in Nat /\ Len(t) \in Nat
      /\ DOMAIN s = 1 .. Len(s) /\ DOMAIN t = 1 .. Len(t)
  <2>1. s \in Seq(Chars)
    BY DEF Stretch
  <2> QED BY <2>1, Elements DEF Stretch
<1> SUFFICES ASSUME NEW i \in 1 .. Len(s)
             PROVE  /\ i + (a - 1) \in DOMAIN t /\ Lines(s)[i] = Lines(t)[i + (a - 1)]
                    /\ i \in LineEnds(s) <=> i + (a - 1) \in LineEnds(t)
                    /\ i \in Parsed(s) <=> i + (a - 1) \in Parsed(t)
                    /\ i \in LineEnds(s) => f < i + (a - 1)
  OBVIOUS
<1> DEFINE j == i + (a - 1)
<1>2. i \in Nat /\ i >= 1 /\ i <= Len(s) /\ i <= Len(s) + 1 /\ j = i + a - 1 /\ j \in 1 .. Len(t)
      /\ j \in Nat
  BY <1>1
<1> HIDE DEF j
<1>3. Lines(s)[i] = Lines(t)[j]
  <2>1. Placed(t, s, a, m, i, j)
    BY <1>2 DEF Placed
  <2>2. LineAt(s, i) = LineAt(t, j)
    BY <2>1, LineMoves
  <2>3. Lines(s)[i] = LineAt(s, i)
    BY <1>1, LinesOf DEF LineAt
  <2>4. Lines(t)[j] = LineAt(t, j)
    BY <1>1, <1>2, LinesOf DEF LineAt
  <2> QED BY <2>2, <2>3, <2>4
<1>4. s[i] = t[j]
  BY <1>2 DEF Stretch
<1>5. i \in Newlines(s) <=> j \in Newlines(t)
  BY <1>1, <1>2, <1>4 DEF Newlines
<1>6. i \in LineEnds(s) <=> j \in LineEnds(t)
  BY <1>3, <1>5 DEF LineEnds
<1>7. i \in Parsed(s) <=> j \in Parsed(t)
  BY <1>3, <1>6 DEF Parsed
<1>8. ASSUME i \in LineEnds(s) PROVE f < j
  <2>1. t[j] = Newline
    BY <1>4, <1>8 DEF LineEnds, Newlines
  <2>2. j \notin a .. (f + 1) - 1
    BY <2>1 DEF Begins
  <2>3. a <= j
    BY <1>1, <1>2
  <2> QED BY <1>1, <1>2, <2>2, <2>3
<1> QED BY <1>1, <1>2, <1>3, <1>6, <1>7, <1>8 DEF j

(* The lines of a stretch come after the lines before it.                  *)
Marks(t, s, a, m, f, A, B, I, K) ==
  /\ t \in Seq(Chars) /\ Stretch(s, t, a, m) /\ f \in Nat /\ f <= m /\ Begins(t, f + 1, a)
  /\ A \in SUBSET DOMAIN t /\ B \in SUBSET LineEnds(s)
  /\ \A i \in 1 .. Len(s) : i \in B <=> i + (a - 1) \in A
  /\ I = A \cap 1 .. f /\ K = A \cap 1 .. m

LEMMA ReadGrows ==
  ASSUME NEW t, NEW s, NEW a, NEW m, NEW f, NEW A, NEW B, NEW I, NEW K,
         Marks(t, s, a, m, f, A, B, I, K)
  PROVE  Kept(Lines(t), I) \o Kept(Lines(s), B) = Kept(Lines(t), K)
<1> DEFINE d == a - 1
<1>m. /\ t \in Seq(Chars) /\ Stretch(s, t, a, m) /\ f \in Nat /\ f <= m /\ Begins(t, f + 1, a)
      /\ A \in SUBSET DOMAIN t /\ B \in SUBSET LineEnds(s)
      /\ \A i \in 1 .. Len(s) : i \in B <=> i + (a - 1) \in A
      /\ I = A \cap 1 .. f /\ K = A \cap 1 .. m
  BY DEF Marks
<1>1. /\ s \in Seq(Chars) /\ d \in Nat /\ a = d + 1 /\ d <= f /\ m \in Nat
      /\ Len(s) = m - d /\ DOMAIN s = 1 .. Len(s) /\ DOMAIN t = 1 .. Len(t)
  <2>1. s \in Seq(Chars)
    BY <1>m DEF Stretch
  <2> QED BY <1>m, <2>1, Elements DEF Stretch, Begins
<1>2. \A i \in 1 .. Len(s) :
        /\ i + d \in DOMAIN t /\ Lines(s)[i] = Lines(t)[i + d]
        /\ i \in LineEnds(s) => f < i + d
  BY <1>m, EndsMove
<1>3. \A i \in 1 .. Len(s) : i \in B <=> i + d \in A
  BY <1>m
<1>a. f + 1 \in Nat /\ a <= f + 1
  BY <1>m DEF Begins
<1> HIDE DEF d
<1>4. B \in SUBSET (1 .. Len(s))
  BY <1>m, <1>1 DEF LineEnds, Newlines
<1>5. \A j \in B : j + d \in DOMAIN Lines(t) /\ Lines(s)[j] = Lines(t)[j + d]
  BY <1>m, <1>2, <1>4, LinesOf
<1>6. \A i \in I, j \in B : i < j + d
  <2>1. \A j \in B : f < j + d /\ j \in Nat
    BY <1>m, <1>2, <1>4
  <2> QED BY <1>m, <1>1, <2>1
<1>7. K = I \cup {j + d : j \in B}
  <2>1. ASSUME NEW x \in K PROVE x \in I \cup {j + d : j \in B}
    <3>1. x \in Nat /\ x >= 1 /\ x <= m /\ x \in A
      BY <1>m, <1>1
    <3>2. CASE x <= f
      BY <1>m, <3>1, <3>2
    <3>3. CASE ~(x <= f)
      <4>1. x - d \in 1 .. Len(s) /\ (x - d) + d = x
        BY <1>m, <1>1, <3>1, <3>3
      <4>2. x - d \in B
        BY <1>3, <3>1, <4>1
      <4> QED BY <4>1, <4>2
    <3> QED BY <3>2, <3>3
  <2>2. ASSUME NEW x \in I PROVE x \in K
    BY <1>m, <1>1
  <2>3. ASSUME NEW j \in B PROVE j + d \in K
    <3>1. j + d \in A
      BY <1>3, <1>4
    <3>2. j \in 1 .. Len(s)
      BY <1>4
    <3>3. j + d \in 1 .. m
      BY <1>1, <3>2
    <3> QED BY <1>m, <3>1, <3>3
  <2> QED BY <2>1, <2>2, <2>3
<1>8. /\ Lines(t) \in Seq(Seq(Chars)) /\ Lines(s) \in Seq(Seq(Chars))
      /\ I \in SUBSET DOMAIN Lines(t) /\ B \in SUBSET DOMAIN Lines(s)
  BY <1>m, <1>1, <1>4, LinesOf
<1>9. Follows(Seq(Chars), Lines(s), B, d, Lines(t), I, K)
  BY <1>1, <1>5, <1>6, <1>7, <1>8 DEF Follows
<1> QED BY <1>9, KeptGrows

FramingInv ==
  /\ text \in Seq(Chars) /\ fed \in Nat /\ fed <= Len(text)
  /\ stdout \in {"open", "ended"}
  /\ LinesInOrder

LEMMA SetsOfLines ==
  ASSUME NEW s \in Seq(Chars)
  PROVE  Parsed(s) \in SUBSET LineEnds(s) /\ LineEnds(s) \in SUBSET DOMAIN s
BY DEF Parsed, LineEnds, Newlines

LEMMA FramingInitially == FramingInit => FramingInv
<1> SUFFICES ASSUME FramingInit PROVE FramingInv
  OBVIOUS
<1>1. text \in Seq(Chars) /\ fed = 0 /\ Len(text) \in Nat
  <2>1. text \in Seq(Chars)
    BY TextsAssumption DEF FramingInit
  <2> QED BY <2>1, Elements DEF FramingInit
<1>2. From(text, fed + 1) = 1
  <2>1. fed + 1 = 1
    BY <1>1
  <2>2. From(text, 1) \in 1 .. 1
    BY FromIs DEF Begins
  <2> QED BY <2>1, <2>2
<1>3. LastLine = <<>>
  <2> DEFINE u == SubSeq(text, 1, 0)
  <2>1. u \in Seq(Chars) /\ Len(u) = 0 + 1 - 1
    BY <1>1, Part
  <2> HIDE DEF u
  <2>2. u = <<>>
    BY <2>1, EmptySeq
  <2> QED BY <1>1, <1>2, <2>2 DEF LastLine, u
<1>4. \A A : A \cap 1 .. fed = {}
  BY <1>1
<1>5. Kept(Lines(text), {}) = <<>>
  BY <1>1, LinesOf, NothingKept
<1>6. LinesInOrder
  BY <1>3, <1>4, <1>5 DEF LinesInOrder, FramingInit
<1> QED BY <1>1, <1>6 DEF FramingInv, FramingInit

LEMMA ReadKeeps ==
  ASSUME FramingInv, NEW k \in Nat, Read(k)
  PROVE  FramingInv'
<1> DEFINE start == From(text, fed + 1)
           piece == buf \o SubSeq(text, fed + 1, fed + k)
           upto == fed + k
<1>1. /\ text \in Seq(Chars) /\ fed \in Nat /\ stdout = "open" /\ LinesInOrder
      /\ upto <= Len(text) /\ upto \in Nat /\ fed <= upto
  BY DEF FramingInv, Read
<1>2. /\ buf' = Rest(piece)
      /\ frames' = frames \o Kept(Lines(piece), Parsed(piece))
      /\ rawLines' = rawLines \o Kept(Lines(piece), LineEnds(piece) \ Parsed(piece))
      /\ fed' = upto /\ text' = text /\ stdout' = stdout
  BY DEF Read
<1>3. Begins(text, fed + 1, start)
  BY <1>1, FromIs
<1>4. piece = SubSeq(text, start, fed) \o SubSeq(text, fed + 1, fed + k)
  BY <1>1 DEF LinesInOrder, LastLine
<1> HIDE DEF start, piece
<1>5. Stretch(piece, text, start, upto)
  BY <1>1, <1>3, <1>4, ReadIsStretch
<1> HIDE DEF upto
<1>6. piece \in Seq(Chars) /\ Len(piece) \in Nat /\ Len(piece) = upto + 1 - start /\ start \in Nat /\ start >= 1
      /\ DOMAIN piece = 1 .. Len(piece)
  <2>1. piece \in Seq(Chars) /\ Len(piece) = upto + 1 - start /\ start \in Nat /\ start >= 1
    BY <1>5 DEF Stretch
  <2> QED BY <2>1, Elements
<1>7. \A i \in 1 .. Len(piece) :
        /\ i \in LineEnds(piece) <=> i + (start - 1) \in LineEnds(text)
        /\ i \in Parsed(piece) <=> i + (start - 1) \in Parsed(text)
  BY <1>1, <1>3, <1>5, EndsMove
<1>8. frames' = Kept(Lines(text), Parsed(text) \cap 1 .. upto)
  <2>1. frames = Kept(Lines(text), Parsed(text) \cap 1 .. fed)
    BY <1>1 DEF LinesInOrder
  <2>2. Parsed(text) \in SUBSET DOMAIN text /\ Parsed(piece) \in SUBSET LineEnds(piece)
    BY <1>1, <1>6, SetsOfLines
  <2>3. Kept(Lines(text), Parsed(text) \cap 1 .. fed) \o Kept(Lines(piece), Parsed(piece))
          = Kept(Lines(text), Parsed(text) \cap 1 .. upto)
    <3> DEFINE I == Parsed(text) \cap 1 .. fed
               K == Parsed(text) \cap 1 .. upto
    <3>1. Marks(text, piece, start, upto, fed, Parsed(text), Parsed(piece), I, K)
      BY <1>1, <1>3, <1>5, <1>7, <2>2 DEF Marks
    <3> HIDE DEF I, K
    <3>2. Kept(Lines(text), I) \o Kept(Lines(piece), Parsed(piece)) = Kept(Lines(text), K)
      BY <3>1, ReadGrows
    <3> QED BY <3>2 DEF I, K
  <2> QED BY <1>2, <2>1, <2>3
<1>9. rawLines' = Kept(Lines(text), (LineEnds(text) \ Parsed(text)) \cap 1 .. upto)
  <2> DEFINE A == LineEnds(text) \ Parsed(text)
             B == LineEnds(piece) \ Parsed(piece)
  <2>1. rawLines = Kept(Lines(text), A \cap 1 .. fed)
    BY <1>1 DEF LinesInOrder
  <2>2. A \in SUBSET DOMAIN text /\ B \in SUBSET LineEnds(piece)
    BY <1>1, SetsOfLines
  <2>3. \A i \in 1 .. Len(piece) : i \in B <=> i + (start - 1) \in A
    BY <1>7
  <2> HIDE DEF A, B
  <2>4. Kept(Lines(text), A \cap 1 .. fed) \o Kept(Lines(piece), B) = Kept(Lines(text), A \cap 1 .. upto)
    <3> DEFINE I == A \cap 1 .. fed
               K == A \cap 1 .. upto
    <3>1. Marks(text, piece, start, upto, fed, A, B, I, K)
      BY <1>1, <1>3, <1>5, <2>2, <2>3 DEF Marks
    <3> HIDE DEF I, K
    <3>2. Kept(Lines(text), I) \o Kept(Lines(piece), B) = Kept(Lines(text), K)
      BY <3>1, ReadGrows
    <3> QED BY <3>2 DEF I, K
  <2> QED BY <1>2, <2>1, <2>4 DEF A, B
<1>10. buf' = SubSeq(text, From(text, upto + 1), upto)
  <2> DEFINE i == Len(piece) + 1
             j == upto + 1
  <2>1. i \in Nat /\ i >= 1 /\ i <= Len(piece) + 1 /\ i - 1 = Len(piece)
        /\ j = i + start - 1 /\ j - 1 = upto
    BY <1>1, <1>6
  <2>2. Placed(text, piece, start, upto, i, j)
    BY <1>1, <1>5, <2>1 DEF Placed
  <2> HIDE DEF i, j
  <2>3. LineAt(piece, i) = LineAt(text, j)
    BY <2>2, LineMoves
  <2>4. SubSeq(piece, From(piece, i), Len(piece)) = SubSeq(text, From(text, j), upto)
    BY <2>1, <2>3 DEF LineAt
  <2> QED BY <1>2, <2>4 DEF Rest, i, j
<1>11. LinesInOrder'
  <2>1. stdout' = "open" /\ stdout' # "ended"
    BY <1>1, <1>2
  <2> QED BY <1>2, <1>8, <1>9, <1>10, <2>1 DEF LinesInOrder, LastLine
<1> QED BY <1>1, <1>2, <1>11 DEF FramingInv

LEMMA EndKeeps ==
  ASSUME FramingInv, StdoutEnds
  PROVE  FramingInv'
<1> DEFINE raw == Kept(Lines(text), (LineEnds(text) \ Parsed(text)) \cap 1 .. fed)
<1>1. /\ text \in Seq(Chars) /\ fed \in Nat /\ stdout = "open" /\ fed = Len(text)
      /\ stdout' = "ended" /\ rawLines' = rawLines \o flush /\ buf' = <<>>
      /\ text' = text /\ fed' = fed /\ frames' = frames
  BY DEF FramingInv, StdoutEnds
<1>2. rawLines = raw /\ buf = LastLine /\ frames = Kept(Lines(text), Parsed(text) \cap 1 .. fed)
  BY <1>1 DEF FramingInv, LinesInOrder
<1>3. raw \in Seq(Seq(Chars))
  <2> DEFINE A == (LineEnds(text) \ Parsed(text)) \cap 1 .. fed
  <2>1. A \in SUBSET DOMAIN Lines(text) /\ Lines(text) \in Seq(Seq(Chars))
    BY <1>1, SetsOfLines, LinesOf
  <2> HIDE DEF A
  <2>2. Kept(Lines(text), A) \in Seq(Seq(Chars))
    BY <2>1, KeptEffect
  <2> QED BY <2>2 DEF A
<1>4. LastLine \in Seq(Chars)
  <2>1. fed + 1 \in Nat /\ fed + 1 >= 1 /\ fed <= Len(text)
    BY <1>1
  <2>2. From(text, fed + 1) \in Nat /\ From(text, fed + 1) >= 1 /\ From(text, fed + 1) <= fed + 1
    BY <2>1, FromIs DEF Begins
  <2> QED BY <1>1, <2>1, <2>2, Part DEF LastLine
<1> HIDE DEF raw
<1>5. rawLines' = IF LastLine = <<>> THEN raw ELSE Append(raw, LastLine)
  <2>1. CASE LastLine = <<>>
    <3>1. raw \o <<>> = raw
      BY <1>3, ConcatEmptySeq
    <3> QED BY <1>1, <1>2, <2>1, <3>1 DEF flush
  <2>2. CASE LastLine # <<>>
    <3>1. Append(raw, LastLine) = raw \o <<LastLine>>
      BY <1>3, <1>4, AppendIsConcat
    <3> QED BY <1>1, <1>2, <2>2, <3>1 DEF flush
  <2> QED BY <2>1, <2>2
<1>6. LastLine' = LastLine
  BY <1>1 DEF LastLine
<1>7. raw' = raw
  BY <1>1 DEF raw
<1>8. LinesInOrder'
  <2>1. stdout' # "open"
    BY <1>1
  <2> QED BY <1>1, <1>2, <1>5, <1>6, <1>7, <2>1 DEF LinesInOrder, raw
<1> QED BY <1>1, <1>8 DEF FramingInv

LEMMA NoNewline ==
  ASSUME NEW t \in Seq(Chars), NEW i \in Nat, i >= 1, i <= Len(t) + 1,
         NEW p, p = LineAt(t, i)
  PROVE  p \in Seq(Chars) /\ \A k \in DOMAIN p : p[k] # Newline
<1> DEFINE b == From(t, i)
           y == i - 1
<1>1. b \in Nat /\ b >= 1 /\ b <= i /\ \A j \in b .. i - 1 : t[j] # Newline
  BY FromIs DEF Begins
<1>2. y \in Nat /\ y <= Len(t) /\ b <= y + 1 /\ \A j \in b .. y : t[j] # Newline
  BY <1>1, Elements
<1> HIDE DEF b, y
<1>3. /\ SubSeq(t, b, y) \in Seq(Chars) /\ Len(SubSeq(t, b, y)) = y + 1 - b
      /\ \A k \in 1 .. y + 1 - b : SubSeq(t, b, y)[k] = t[b + k - 1]
  BY <1>1, <1>2, Part
<1>4. p = SubSeq(t, b, y)
  BY DEF LineAt, b, y
<1>5. p \in Seq(Chars) /\ DOMAIN p = 1 .. y + 1 - b
  BY <1>3, <1>4, Elements
<1>6. ASSUME NEW k \in DOMAIN p PROVE p[k] # Newline
  <2>1. p[k] = t[b + k - 1]
    BY <1>3, <1>4, <1>5
  <2>2. b + k - 1 \in b .. y
    BY <1>1, <1>2, <1>5
  <2> QED BY <1>2, <2>1, <2>2
<1> QED BY <1>5, <1>6

LEMMA LinesApart == FramingInv => LinesWhole
<1> SUFFICES ASSUME FramingInv PROVE \A i \in DOMAIN rawLines : OneLine(rawLines[i])
  BY DEF FramingInv, LinesWhole
<1> DEFINE A == (LineEnds(text) \ Parsed(text)) \cap 1 .. fed
           raw == Kept(Lines(text), A)
<1>1. /\ text \in Seq(Chars) /\ fed \in Nat /\ fed <= Len(text)
      /\ rawLines = raw \/ (LastLine # <<>> /\ rawLines = Append(raw, LastLine))
  <2>1. stdout = "open" => rawLines = raw
    BY DEF FramingInv, LinesInOrder
  <2>2. stdout = "ended" => rawLines = IF LastLine = <<>> THEN raw ELSE Append(raw, LastLine)
    BY DEF FramingInv, LinesInOrder
  <2>3. /\ text \in Seq(Chars) /\ fed \in Nat /\ fed <= Len(text)
        /\ stdout = "open" \/ stdout = "ended"
    BY DEF FramingInv
  <2> HIDE DEF raw
  <2>4. CASE stdout = "open"
    BY <2>1, <2>3, <2>4
  <2>5. CASE stdout = "ended" /\ LastLine = <<>>
    BY <2>2, <2>3, <2>5
  <2>6. CASE stdout = "ended" /\ LastLine # <<>>
    BY <2>2, <2>3, <2>6
  <2> QED BY <2>3, <2>4, <2>5, <2>6
<1>2. A \in SUBSET LineEnds(text) /\ A \in SUBSET DOMAIN text
      /\ A \in SUBSET DOMAIN Lines(text) /\ Lines(text) \in Seq(Seq(Chars))
  BY <1>1, SetsOfLines, LinesOf
<1> HIDE DEF A
<1>3. raw \in Seq(Seq(Chars)) /\ \A k \in DOMAIN raw : \E i \in A : raw[k] = Lines(text)[i]
  BY <1>2, KeptElements
<1> HIDE DEF raw
<1>4. ASSUME NEW i \in A PROVE OneLine(Lines(text)[i])
  <2>1. i \in DOMAIN text /\ i \in LineEnds(text)
    BY <1>2
  <2>2. i \in Nat /\ i >= 1 /\ i <= Len(text) + 1
    BY <1>1, <2>1, Elements
  <2>3. Lines(text)[i] = LineAt(text, i)
    BY <1>1, <2>1, LinesOf DEF LineAt
  <2>4. \A k \in DOMAIN Lines(text)[i] : Lines(text)[i][k] # Newline
    BY <1>1, <2>2, <2>3, NoNewline
  <2> QED BY <2>1, <2>4 DEF LineEnds, OneLine
<1>5. \A k \in DOMAIN raw : OneLine(raw[k])
  BY <1>3, <1>4
<1>6. CASE rawLines = raw
  BY <1>5, <1>6
<1>7. CASE LastLine # <<>> /\ rawLines = Append(raw, LastLine)
  <2>1. LastLine = LineAt(text, fed + 1)
    <3>1. (fed + 1) - 1 = fed
      BY <1>1
    <3> QED BY <3>1 DEF LastLine, LineAt
  <2>2. fed + 1 \in Nat /\ fed + 1 >= 1 /\ fed + 1 <= Len(text) + 1
    BY <1>1, Elements
  <2>3. LastLine \in Seq(Chars) /\ OneLine(LastLine)
    BY <1>1, <1>7, <2>1, <2>2, NoNewline DEF OneLine
  <2>4. \A k \in DOMAIN rawLines : (k \in DOMAIN raw /\ rawLines[k] = raw[k]) \/ rawLines[k] = LastLine
    BY <1>3, <1>7, <2>3, Appended
  <2> QED BY <1>5, <2>3, <2>4
<1> QED BY <1>1, <1>6, <1>7

(* However the pipe cuts the child's text: the lines it ended are          *)
(* dispatched or handed to onRawLine, each once, whole and in order, and   *)
(* the buffer holds the line it has not ended (process/framing.ts, and the *)
(* pump of stdioTransport).                                                *)
THEOREM LinesAreWhole == FramingInit /\ [][FramingNext]_fvars => []LinesWhole
<1>1. FramingInit => FramingInv
  BY FramingInitially
<1>2. FramingInv /\ [FramingNext]_fvars => FramingInv'
  <2> SUFFICES ASSUME FramingInv, [FramingNext]_fvars PROVE FramingInv'
    OBVIOUS
  <2>1. CASE \E k \in 1 .. Len(text) : Read(k)
    <3>1. PICK k \in 1 .. Len(text) : Read(k)
      BY <2>1
    <3>2. k \in Nat
      OBVIOUS
    <3> QED BY <3>1, <3>2, ReadKeeps
  <2>2. CASE StdoutEnds
    BY <2>2, EndKeeps
  <2>3. CASE UNCHANGED fvars
    BY <2>3 DEF fvars, FramingInv, LinesInOrder, LastLine
  <2> QED BY <2>1, <2>2, <2>3 DEF FramingNext
<1>3. FramingInv => LinesWhole
  BY LinesApart
<1> QED BY <1>1, <1>2, <1>3, PTL
=============================================================================

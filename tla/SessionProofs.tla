--------------------------- MODULE SessionProofs ----------------------------
(***************************************************************************)
(* Theorems about Session, for any number of connections, respawns, modes  *)
(* and efforts: its types, one connection at a time, a status that tells   *)
(* the truth, respawns that ask for what the user sees, the session chosen *)
(* last, and an effort shown that is the one in use.                       *)
(***************************************************************************)
EXTENDS Session, SequenceTheorems, TLAPS

USE BoundsAssumption, EffortAssumption, FirstAssumption

-----------------------------------------------------------------------------
(* The types.  A respawn on its way, or attached, was asked for.           *)
Given == {r \in Respawn : asked[r] # None}

Known ==
    /\ queue \in Seq(Given) /\ toBridge \in Seq(Given)
    /\ awaiting \subseteq Given /\ child \in Given \cup {0}

TypeInv == TypeOK /\ Known

LEMMA SeqMono ==
    ASSUME NEW S, NEW T, S \subseteq T, NEW q \in Seq(S)
    PROVE  q \in Seq(T)
OBVIOUS

LEMMA HeadTail ==
    ASSUME NEW S, NEW q \in Seq(S), q # <<>>
    PROVE  Head(q) \in S /\ Tail(q) \in Seq(S)
OBVIOUS

LEMMA Joined ==
    ASSUME NEW S, NEW q \in Seq(S), NEW e \in S
    PROVE  Append(q, e) \in Seq(S) /\ <<e>> \o q \in Seq(S)
OBVIOUS

LEMMA ArgsGiven ==
    ASSUME NEW a \in Args, NEW m \in Mode, NEW e \in Effort \cup {None}
    PROVE  /\ [a EXCEPT !.mode = m] \in Args /\ [a EXCEPT !.effort = e] \in Args
           /\ [a EXCEPT !.effort = e].effort = e
           /\ [a EXCEPT !.mode = m].effort = a.effort
           /\ a # None /\ a.effort \in Effort \cup {None}
BY DEF Args

LEMMA AskType ==
    ASSUME TypeInv, NEW r \in Respawn, NEW a \in Args, Ask(r, a)
    PROVE  /\ asked' \in [Respawn -> Args \cup {None}]
           /\ pending' \subseteq Given'
           /\ probe' \in {"no", "asked", "done"}
           /\ r \in Given' /\ Given \subseteq Given'
<1>1. a # None
  BY ArgsGiven
<1> QED BY <1>1 DEF TypeInv, TypeOK, Ask, Given

LEMMA DialledType ==
    ASSUME TypeInv, Dialled
    PROVE  ready' \in [Conn -> {"none", "connecting", "open", "down", "closing", "gone"}]
BY DEF TypeInv, TypeOK, Dialled

LEMMA PostType ==
    ASSUME TypeInv, NEW r \in Respawn, Post(r), r \in Given', Given \subseteq Given'
    PROVE  /\ ready' \in [Conn -> {"none", "connecting", "open", "down", "closing", "gone"}]
           /\ queue' \in Seq(Given') /\ toBridge' \in Seq(Given')
<1>1. queue \in Seq(Given') /\ toBridge \in Seq(Given')
  BY SeqMono DEF TypeInv, Known
<1>2. Append(queue, r) \in Seq(Given') /\ Append(toBridge, r) \in Seq(Given')
  BY <1>1, Joined
<1> QED BY <1>1, <1>2, DialledType DEF Post

LEMMA GivenSeq ==
    ASSUME NEW q \in Seq(Given)
    PROVE  q \in Seq(Respawn)
BY SeqMono DEF Given

(* The types follow from those of the parts an action touches.             *)
LEMMA InitTypeInv == Init => TypeInv
<1> SUFFICES ASSUME Init PROVE TypeInv
  OBVIOUS
<1>1. <<>> \in Seq(Respawn) /\ <<>> \in Seq(Given) /\ <<>> \in Seq([of : Respawn, ok : BOOLEAN])
  OBVIOUS
<1>2. args \in Args /\ args.effort \in Effort \cup {None}
  BY DEF Init, Args
<1>3. TypeOK
  BY <1>1, <1>2 DEF Init, TypeOK
<1>4. Known
  BY <1>1 DEF Init, Known
<1> QED BY <1>3, <1>4 DEF TypeInv

(* A respawn sent by a call.                                               *)
LEMMA CallTypeInv ==
    ASSUME TypeInv, NEW r \in Respawn, NEW a \in Args, Ask(r, a), Post(r), args' = a,
           UNCHANGED <<status, connectStarted, transport, late, activeEffort, outcome,
                       awaiting, child, replies, raced, doubtful>>,
           pendingEffort' \in Effort \cup {None}, prev' \in Effort \cup {None},
           setter' \in Respawn \cup {0}, setter' = 0 <=> pendingEffort' = None
    PROVE  TypeInv'
<1>1. /\ asked' \in [Respawn -> Args \cup {None}] /\ pending' \subseteq Given'
      /\ probe' \in {"no", "asked", "done"}
      /\ r \in Given' /\ Given \subseteq Given'
  BY AskType
<1>2. /\ ready' \in [Conn -> {"none", "connecting", "open", "down", "closing", "gone"}]
      /\ queue' \in Seq(Given') /\ toBridge' \in Seq(Given')
  BY <1>1, PostType
<1>3. Known'
  BY <1>1, <1>2 DEF TypeInv, Known
<1>4. queue' \in Seq(Respawn) /\ toBridge' \in Seq(Respawn)
  <2>1. Given' \subseteq Respawn
    BY DEF Given
  <2> QED BY <1>2, <2>1, SeqMono
<1>5. pending' \subseteq {q \in Respawn : asked'[q] # None}
  BY <1>1 DEF Given
<1>6. TypeOK'
  BY <1>1, <1>2, <1>4, <1>5 DEF TypeInv, TypeOK
<1> QED BY <1>3, <1>6 DEF TypeInv

LEMMA SettledType ==
    ASSUME TypeInv, NEW r, NEW ok, Settled(r, ok)
    PROVE  pending' \subseteq pending /\ outcome' \in {"none", "ok", "fail"}
BY DEF TypeInv, TypeOK, Settled

LEMMA NextTypeInv == TypeInv /\ [Next]_vars => TypeInv'
<1> SUFFICES ASSUME TypeInv, [Next]_vars PROVE TypeInv'
  OBVIOUS
<1>0. TypeOK /\ Known
  BY DEF TypeInv
<1>e. <<>> \in Seq(Respawn) /\ <<>> \in Seq(Given') /\ <<>> \in Seq([of : Respawn, ok : BOOLEAN])
  OBVIOUS
<1>1. ASSUME NEW r \in Respawn, NEW m \in Mode, ChangeSession(r, m) PROVE TypeInv'
  <2>1. args' \in Args
    BY <1>0, <1>1, ArgsGiven DEF TypeOK, ChangeSession
  <2>2. /\ Ask(r, args') /\ Post(r)
        /\ UNCHANGED <<status, connectStarted, transport, late, activeEffort, outcome,
                       awaiting, child, replies, raced, doubtful>>
        /\ UNCHANGED <<pendingEffort, prev, setter>>
    BY <1>1 DEF ChangeSession, effortVars
  <2> QED BY <1>0, <2>1, <2>2, CallTypeInv DEF TypeOK
<1>2. ASSUME NEW r \in Respawn, NEW e \in Effort, SetEffort(r, e) PROVE TypeInv'
  <2>1. args' \in Args /\ args.effort \in Effort \cup {None}
    BY <1>0, <1>2, ArgsGiven DEF TypeOK, SetEffort
  <2>2. /\ Ask(r, args') /\ Post(r)
        /\ UNCHANGED <<status, connectStarted, transport, late, activeEffort, outcome,
                       awaiting, child, replies, raced, doubtful>>
        /\ pendingEffort' = e /\ setter' = r /\ prev' = args.effort
    BY <1>2 DEF SetEffort
  <2>3. r # 0 /\ e # None
    BY DEF Respawn
  <2> QED BY <2>1, <2>2, <2>3, CallTypeInv
<1>3. CASE OtherSend
  <2>1. ready' \in [Conn -> {"none", "connecting", "open", "down", "closing", "gone"}]
    BY <1>3, DialledType DEF OtherSend
  <2> QED BY <1>0, <1>3, <2>1 DEF OtherSend, TypeInv, TypeOK, Known, Given,
                                  effortVars, bridgeVars
<1>4. CASE Connect
  <2>1. /\ transport' \in Conn
        /\ ready' \in [Conn -> {"none", "connecting", "open", "down", "closing", "gone"}]
    BY <1>0, <1>4 DEF Connect, TypeOK
  <2>2. Known'
    BY <1>0, <1>4 DEF Connect, Known, Given, bridgeVars
  <2>3. TypeOK'
    BY <1>0, <1>4, <2>1 DEF Connect, TypeOK, effortVars, bridgeVars
  <2> QED BY <2>2, <2>3 DEF TypeInv
<1>5. CASE Disconnect
  <2>1. ready' \in [Conn -> {"none", "connecting", "open", "down", "closing", "gone"}]
    BY <1>0, <1>5 DEF Disconnect, TypeOK
  <2>2. Known' /\ queue' \in Seq(Respawn) /\ toBridge' \in Seq(Respawn)
    BY <1>5, <1>e DEF Disconnect, Cut, Known
  <2> QED BY <1>0, <1>5, <1>e, <2>1, <2>2 DEF Disconnect, Cut, TypeInv, TypeOK
<1>6. CASE EffortSet
  BY <1>0, <1>6 DEF EffortSet, TypeInv, TypeOK, Known, Given, connVars, bridgeVars
<1>7. CASE EffortFailed
  <2>1. args' \in Args
    BY <1>0, <1>7, ArgsGiven DEF TypeOK, EffortFailed
  <2> QED BY <1>0, <1>7, <2>1 DEF EffortFailed, TypeInv, TypeOK, Known, Given, connVars,
                                  bridgeVars
<1>8. ASSUME NEW r \in Respawn, Opened(r) PROVE TypeInv'
  <2>1. /\ asked' \in [Respawn -> Args \cup {None}] /\ pending' \subseteq Given'
        /\ probe' \in {"no", "asked", "done"}
        /\ r \in Given' /\ Given \subseteq Given' /\ Given' \subseteq Respawn
    BY <1>0, <1>8, AskType DEF Opened, TypeOK, Given
  <2>2. toBridge' \in Seq(Given')
    <3>1. queue \in Seq(Given')
      BY <1>0, <2>1, SeqMono DEF Known
    <3> QED BY <1>8, <2>1, <3>1, Joined DEF Opened
  <2>3. Known'
    BY <1>0, <1>8, <1>e, <2>1, <2>2 DEF Opened, Known
  <2>4. toBridge' \in Seq(Respawn) /\ queue' \in Seq(Respawn)
    BY <1>8, <1>e, <2>1, <2>2, SeqMono DEF Opened
  <2>5. pending' \subseteq {q \in Respawn : asked'[q] # None}
    BY <2>1 DEF Given
  <2>6. TypeOK'
    BY <1>0, <1>8, <2>1, <2>4, <2>5 DEF Opened, TypeOK, effortVars
  <2> QED BY <2>3, <2>6 DEF TypeInv
<1>9. CASE SocketClosed
  <2>1. Known' /\ queue' \in Seq(Respawn) /\ toBridge' \in Seq(Respawn)
    BY <1>9, <1>e DEF SocketClosed, Cut, Known
  <2> QED BY <1>0, <1>9, <1>e, <2>1 DEF SocketClosed, Cut, TypeInv, TypeOK, effortVars
<1>10. ASSUME NEW t \in Conn, FormerSocketClosed(t) PROVE TypeInv'
  BY <1>0, <1>10 DEF FormerSocketClosed, TypeInv, TypeOK, Known, Given, effortVars, bridgeVars
<1>11. ASSUME NEW r \in Respawn, Timeout(r) PROVE TypeInv'
  <2>1. pending' \subseteq pending /\ outcome' \in {"none", "ok", "fail"}
    BY <1>11, SettledType DEF Timeout
  <2> QED BY <1>0, <1>11, <2>1 DEF Timeout, TypeInv, TypeOK, Known, Given, connVars, bridgeVars
<1>12. CASE Result
  <2>1. pending' \subseteq pending /\ outcome' \in {"none", "ok", "fail"}
    BY <1>0, <1>12, SettledType DEF Result, TypeOK
  <2>2. replies' \in Seq([of : Respawn, ok : BOOLEAN])
    BY <1>0, <1>12, HeadTail DEF Result, TypeOK
  <2> QED BY <1>0, <1>12, <2>1, <2>2 DEF Result, TypeInv, TypeOK, Known, Given, connVars
<1>13. CASE Probe
  <2>1. ready' \in [Conn -> {"none", "connecting", "open", "down", "closing", "gone"}]
    BY <1>0, <1>13, DialledType DEF Probe, TypeOK
  <2> QED BY <1>0, <1>13, <2>1 DEF Probe, TypeInv, TypeOK, Known, Given, effortVars, bridgeVars
<1>14. CASE Probed
  <2>1. asked[child] \in Args
    BY <1>0, <1>14 DEF Probed, Known, Given, TypeOK
  <2>2. RunsAt(child) \in Effort
    BY <2>1, ArgsGiven DEF RunsAt
  <2>3. args' \in Args
    BY <1>0, <1>14, <2>2, ArgsGiven DEF TypeOK, Probed
  <2> QED BY <1>0, <1>14, <2>2, <2>3 DEF Probed, TypeInv, TypeOK, Known, Given, connVars,
                                         bridgeVars
<1>15. CASE ProbeFails
  BY <1>0, <1>15 DEF ProbeFails, TypeInv, TypeOK, Known, Given, connVars, effortVars, bridgeVars
<1>a. ASSUME NEW r \in Given, NEW ok \in BOOLEAN, Attach(r, ok)
      PROVE  /\ child' \in Given \cup {0}
             /\ replies' \in Seq([of : Respawn, ok : BOOLEAN])
  <2>1. [of |-> r, ok |-> ok] \in [of : Respawn, ok : BOOLEAN]
    BY DEF Given
  <2> QED BY <1>0, <1>a, <2>1, Joined DEF Attach, Known, TypeOK
<1>16. ASSUME NEW ok \in BOOLEAN, BridgeTakes(ok) PROVE TypeInv'
  <2>1. Head(toBridge) \in Given /\ toBridge' \in Seq(Given)
    BY <1>0, <1>16, HeadTail DEF BridgeTakes, Known
  <2>2. /\ child' \in Given \cup {0} /\ awaiting' \subseteq Given
        /\ replies' \in Seq([of : Respawn, ok : BOOLEAN])
    <3>1. CASE child = 0
      BY <1>0, <1>16, <1>a, <2>1, <3>1 DEF BridgeTakes, Known
    <3>2. CASE child # 0
      BY <1>0, <1>16, <2>1, <3>2 DEF BridgeTakes, Known, TypeOK
    <3> QED BY <3>1, <3>2
  <2>3. Given' = Given /\ queue' = queue
    BY <1>16 DEF BridgeTakes, Given
  <2>4. Known'
    BY <1>0, <2>1, <2>2, <2>3 DEF Known
  <2>5. toBridge' \in Seq(Respawn)
    BY <2>1, GivenSeq
  <2>6. child' \in Respawn \cup {0} /\ awaiting' \subseteq Respawn /\ raced' \in BOOLEAN
    BY <1>0, <1>16, <2>2 DEF Given, BridgeTakes, TypeOK
  <2>7. TypeOK'
    BY <1>0, <1>16, <2>2, <2>5, <2>6 DEF BridgeTakes, TypeOK, connVars, effortVars
  <2> QED BY <2>4, <2>7 DEF TypeInv
<1>17. ASSUME NEW r \in Respawn, NEW ok \in BOOLEAN, BridgeResumes(r, ok) PROVE TypeInv'
  <2>1. r \in Given /\ Attach(r, ok)
    BY <1>0, <1>17 DEF BridgeResumes, Known
  <2>2. /\ child' \in Given \cup {0} /\ awaiting' \subseteq Given
        /\ replies' \in Seq([of : Respawn, ok : BOOLEAN])
    BY <1>0, <1>17, <1>a, <2>1 DEF BridgeResumes, Known
  <2>3. Given' = Given /\ queue' = queue /\ toBridge' = toBridge
    BY <1>17 DEF BridgeResumes, Given
  <2>4. Known'
    BY <1>0, <2>2, <2>3 DEF Known
  <2>5. child' \in Respawn \cup {0} /\ awaiting' \subseteq Respawn
    BY <2>2 DEF Given
  <2>6. TypeOK'
    BY <1>0, <1>17, <2>2, <2>5 DEF BridgeResumes, TypeOK, connVars, effortVars
  <2> QED BY <2>4, <2>6 DEF TypeInv
<1>18. CASE UNCHANGED vars
  BY <1>0, <1>18 DEF vars, TypeInv, TypeOK, Known, Given, connVars, effortVars, bridgeVars
<1> QED BY <1>1, <1>2, <1>3, <1>4, <1>5, <1>6, <1>7, <1>8, <1>9, <1>10, <1>11, <1>12,
           <1>13, <1>14, <1>15, <1>16, <1>17, <1>18 DEF Next, UserCall, Continuation

(* Every reachable state of a session is well typed.                       *)
THEOREM TypeCorrect == Spec => []TypeOK
<1>1. TypeInv => TypeOK
  BY DEF TypeInv
<1> QED BY <1>1, InitTypeInv, NextTypeInv, PTL DEF Spec

-----------------------------------------------------------------------------
(* Connections.  connect() does nothing while there is a transport, and    *)
(* disconnect() leaves none that is not closing.                           *)
ConnInv ==
    /\ TypeInv
    /\ connectStarted <=> transport # 0
    /\ OneConnection
    /\ StatusTruth

LEMMA DialledConn ==
    ASSUME ConnInv, Dialled, UNCHANGED <<status, connectStarted, transport, late>>,
           TypeInv'
    PROVE  ConnInv'
<1>1. \A t \in Conn : ready'[t] = ready[t] \/ (t = transport /\ ready[t] = "down"
                                               /\ ready'[t] = "connecting")
  BY DEF ConnInv, TypeInv, TypeOK, Dialled
<1>2. OneConnection'
  BY <1>1 DEF ConnInv, OneConnection
<1>3. transport \in Conn \cup {0}
  BY DEF ConnInv, TypeInv, TypeOK
<1>4. StatusTruth'
  BY <1>1, <1>3 DEF ConnInv, StatusTruth
<1> QED BY <1>2, <1>4 DEF ConnInv

LEMMA NextConnInv == ConnInv /\ [Next]_vars => ConnInv'
<1> SUFFICES ASSUME ConnInv, [Next]_vars PROVE ConnInv'
  OBVIOUS
<1>0. /\ TypeInv /\ TypeInv'
      /\ ready \in [Conn -> {"none", "connecting", "open", "down", "closing", "gone"}]
      /\ transport \in Conn \cup {0} /\ 0 \notin Conn
      /\ connectStarted <=> transport # 0
      /\ OneConnection /\ StatusTruth
  BY NextTypeInv DEF ConnInv, TypeInv, TypeOK, Conn
<1>k. ASSUME UNCHANGED connVars PROVE ConnInv'
  BY <1>0, <1>k DEF connVars, ConnInv, OneConnection, StatusTruth
<1>1. ASSUME NEW r \in Respawn, NEW m \in Mode, ChangeSession(r, m) PROVE ConnInv'
  BY <1>0, <1>1, DialledConn DEF ChangeSession, Post
<1>2. ASSUME NEW r \in Respawn, NEW e \in Effort, SetEffort(r, e) PROVE ConnInv'
  BY <1>0, <1>2, DialledConn DEF SetEffort, Post
<1>3. CASE OtherSend
  BY <1>0, <1>3, DialledConn DEF OtherSend
<1>4. CASE Connect
  <2>1. PICK t \in Conn : /\ transport' = t /\ ready[t] = "none"
                          /\ ready' = [ready EXCEPT ![t] = "connecting"]
    BY <1>4 DEF Connect
  <2>2. connectStarted' = TRUE /\ status' = "connecting" /\ late' = FALSE /\ transport = 0
    BY <1>0, <1>4 DEF Connect
  <2>3. \A u \in Conn : ready[u] \notin {"connecting", "open", "down"}
    BY <1>0, <2>2 DEF OneConnection
  <2>4. OneConnection'
    BY <1>0, <2>1, <2>3 DEF OneConnection
  <2>5. StatusTruth'
    BY <1>0, <2>1, <2>2 DEF StatusTruth
  <2> QED BY <1>0, <2>1, <2>2, <2>4, <2>5 DEF ConnInv
<1>5. CASE Disconnect
  <2>1. /\ connectStarted' = FALSE /\ transport' = 0 /\ status' = "closed"
        /\ \A t \in Conn : /\ t # transport => ready'[t] = ready[t]
                           /\ t = transport => ready'[t] \in {"gone", "closing"}
    BY <1>5 DEF Disconnect
  <2>2. OneConnection'
    BY <1>0, <2>1 DEF OneConnection
  <2> QED BY <1>0, <2>1, <2>2 DEF ConnInv, StatusTruth
<1>6. ASSUME NEW r \in Respawn, Opened(r) PROVE ConnInv'
  <2>1. /\ ready[transport] = "connecting" /\ transport \in Conn
        /\ ready' = [ready EXCEPT ![transport] = "open"]
        /\ status' = "open" /\ UNCHANGED <<connectStarted, transport>>
    BY <1>0, <1>6 DEF Opened
  <2>2. OneConnection'
    BY <1>0, <2>1 DEF OneConnection
  <2> QED BY <1>0, <2>1, <2>2 DEF ConnInv, StatusTruth
<1>7. CASE SocketClosed
  <2>1. /\ transport \in Conn
        /\ ready' = [ready EXCEPT ![transport] = "down"]
        /\ status' = "closed" /\ UNCHANGED <<connectStarted, transport>>
    BY <1>0, <1>7 DEF SocketClosed
  <2>2. OneConnection'
    BY <1>0, <2>1 DEF OneConnection
  <2> QED BY <1>0, <2>1, <2>2 DEF ConnInv, StatusTruth
<1>8. ASSUME NEW t \in Conn, FormerSocketClosed(t) PROVE ConnInv'
  <2>1. /\ ready[t] = "closing" /\ ready' = [ready EXCEPT ![t] = "gone"]
        /\ status' = "closed" /\ late' = (late \/ status # "closed")
        /\ UNCHANGED <<connectStarted, transport>>
    BY <1>8 DEF FormerSocketClosed
  <2>2. OneConnection'
    BY <1>0, <2>1 DEF OneConnection
  <2>3. StatusTruth'
    BY <1>0, <2>1 DEF StatusTruth
  <2> QED BY <1>0, <2>1, <2>2, <2>3 DEF ConnInv
<1>9. CASE Probe
  <2>1. Dialled \/ ready' = ready
    BY <1>9 DEF Probe
  <2>2. UNCHANGED <<status, connectStarted, transport, late>>
    BY <1>9 DEF Probe
  <2> QED BY <1>0, <1>k, <2>1, <2>2, DialledConn DEF connVars
<1>10. ASSUME NEW r \in Respawn, Timeout(r) PROVE ConnInv'
  BY <1>k, <1>10 DEF Timeout
<1>11. CASE EffortSet \/ EffortFailed \/ Result \/ Probed \/ ProbeFails
  BY <1>k, <1>11 DEF EffortSet, EffortFailed, Result, Probed, ProbeFails
<1>12. ASSUME NEW r \in Respawn, NEW ok \in BOOLEAN, BridgeResumes(r, ok) PROVE ConnInv'
  BY <1>k, <1>12 DEF BridgeResumes
<1>13. ASSUME NEW ok \in BOOLEAN, BridgeTakes(ok) PROVE ConnInv'
  BY <1>k, <1>13 DEF BridgeTakes
<1>14. CASE UNCHANGED vars
  BY <1>k, <1>14 DEF vars
<1> QED BY <1>1, <1>2, <1>3, <1>4, <1>5, <1>6, <1>7, <1>8, <1>9, <1>10, <1>11, <1>12,
           <1>13, <1>14 DEF Next, UserCall, Continuation

LEMMA InitConnInv == Init => ConnInv
BY InitTypeInv DEF Init, ConnInv, OneConnection, StatusTruth

(* However often a user connects and disconnects, and the network fails,   *)
(* no transport but the current one has a socket that is not closing.      *)
THEOREM OneConnectionHolds == Spec => []OneConnection
<1>1. ConnInv => OneConnection
  BY DEF ConnInv
<1> QED BY <1>1, InitConnInv, NextConnInv, PTL DEF Spec

(* The status is "open" exactly while the socket is, unless a former       *)
(* transport's close event was the last to set it.                         *)
THEOREM StatusTruthHolds == Spec => []StatusTruth
<1>1. ConnInv => StatusTruth
  BY DEF ConnInv
<1> QED BY <1>1, InitConnInv, NextConnInv, PTL DEF Spec

-----------------------------------------------------------------------------
(* The effort.  The arguments carry what is pending, or else what is       *)
(* shown; a change under way falls back to what is shown; and the probe    *)
(* asks only while nothing is pending or known.                            *)
EffortInv ==
    /\ TypeInv
    /\ args.effort = IF pendingEffort # None THEN pendingEffort ELSE activeEffort
    /\ pendingEffort # None => prev = activeEffort
    /\ outcome # "none" => pendingEffort # None
    /\ probe = "asked" => pendingEffort = None /\ activeEffort = None

LEMMA EffortOf ==
    ASSUME NEW a \in Args, NEW e, NEW m
    PROVE  /\ [a EXCEPT !.effort = e].effort = e
           /\ [a EXCEPT !.mode = m].effort = a.effort
BY DEF Args

LEMMA NextEffortInv == EffortInv /\ [Next]_vars => EffortInv'
<1> SUFFICES ASSUME EffortInv, [Next]_vars PROVE EffortInv'
  OBVIOUS
<1>0. /\ TypeInv /\ TypeInv'
      /\ args \in Args /\ setter \in Respawn \cup {0} /\ 0 \notin Respawn
      /\ setter = 0 <=> pendingEffort = None
      /\ activeEffort \in Effort \cup {None} /\ pendingEffort \in Effort \cup {None}
      /\ args.effort = IF pendingEffort # None THEN pendingEffort ELSE activeEffort
      /\ pendingEffort # None => prev = activeEffort
      /\ outcome # "none" => pendingEffort # None
      /\ probe = "asked" => pendingEffort = None /\ activeEffort = None
  <2>1. TypeInv /\ TypeInv' /\ 0 \notin Respawn
    BY NextTypeInv DEF EffortInv, Respawn
  <2>2. /\ args \in Args /\ setter \in Respawn \cup {0}
        /\ setter = 0 <=> pendingEffort = None
        /\ activeEffort \in Effort \cup {None} /\ pendingEffort \in Effort \cup {None}
    BY <2>1 DEF TypeInv, TypeOK
  <2> QED BY <2>1, <2>2 DEF EffortInv
<1>k. ASSUME UNCHANGED <<args, activeEffort, pendingEffort, prev>>,
             outcome' = outcome \/ pendingEffort # None,
             probe' = "asked" => probe = "asked"
      PROVE  EffortInv'
  BY <1>0, <1>k DEF EffortInv
<1>1. ASSUME NEW r \in Respawn, NEW m \in Mode, ChangeSession(r, m) PROVE EffortInv'
  <2>1. args'.effort = args.effort
    BY <1>0, <1>1, EffortOf DEF ChangeSession
  <2>2. UNCHANGED <<activeEffort, pendingEffort, prev, outcome>> /\ probe' # "asked"
    BY <1>1 DEF ChangeSession, effortVars, Ask
  <2> QED BY <1>0, <2>1, <2>2 DEF EffortInv
<1>2. ASSUME NEW r \in Respawn, NEW e \in Effort, SetEffort(r, e) PROVE EffortInv'
  <2>1. args'.effort = e /\ e # None
    BY <1>0, <1>2, EffortOf DEF SetEffort
  <2>2. /\ pendingEffort = None /\ pendingEffort' = e /\ prev' = args.effort
        /\ activeEffort' = activeEffort /\ outcome' = outcome /\ probe' # "asked"
    BY <1>2 DEF SetEffort, Ask
  <2> QED BY <1>0, <2>1, <2>2 DEF EffortInv
<1>3. CASE OtherSend \/ Connect
  BY <1>k, <1>3 DEF OtherSend, Connect, effortVars
<1>5. CASE Disconnect
  <2>1. outcome' = outcome \/ setter \in pending
    BY <1>5 DEF Disconnect
  <2>2. pending \subseteq Respawn
    BY <1>0 DEF TypeInv, TypeOK
  <2>3. outcome' = outcome \/ pendingEffort # None
    BY <1>0, <2>1, <2>2
  <2> QED BY <1>5, <1>k, <2>3 DEF Disconnect
<1>6. CASE EffortSet
  BY <1>0, <1>6 DEF EffortSet, EffortInv
<1>7. CASE EffortFailed
  <2>1. args'.effort = prev /\ pendingEffort # None
    BY <1>0, <1>7, EffortOf DEF EffortFailed
  <2> QED BY <1>0, <1>7, <2>1 DEF EffortFailed, EffortInv
<1>8. ASSUME NEW r \in Respawn, Opened(r) PROVE EffortInv'
  BY <1>k, <1>8 DEF Opened, Ask, effortVars
<1>9. CASE SocketClosed
  BY <1>k, <1>9 DEF SocketClosed, effortVars
<1>10. ASSUME NEW t \in Conn, FormerSocketClosed(t) PROVE EffortInv'
  BY <1>k, <1>10 DEF FormerSocketClosed, effortVars
<1>a. ASSUME NEW r \in Respawn, NEW ok, Settled(r, ok)
      PROVE  outcome' = outcome \/ pendingEffort # None
  BY <1>0, <1>a DEF Settled
<1>11. ASSUME NEW r \in Respawn, Timeout(r) PROVE EffortInv'
  BY <1>k, <1>a, <1>11 DEF Timeout
<1>12. CASE Result
  <2>1. pending \subseteq Respawn
    BY <1>0 DEF TypeInv, TypeOK
  <2>2. outcome' = outcome \/ pendingEffort # None
    BY <1>a, <1>12, <2>1 DEF Result
  <2> QED BY <1>k, <1>12, <2>2 DEF Result
<1>13. CASE Probe
  <2>1. probe' = "asked" => args.effort = None
    BY <1>13 DEF Probe
  <2>2. UNCHANGED <<args, activeEffort, pendingEffort, prev, outcome>>
    BY <1>13 DEF Probe, effortVars
  <2> QED BY <1>0, <2>1, <2>2 DEF EffortInv
<1>14. CASE Probed
  <2>1. args'.effort = activeEffort'
    BY <1>0, <1>14, EffortOf DEF Probed
  <2>2. /\ UNCHANGED <<pendingEffort, prev, outcome>> /\ probe' = "done"
        /\ pendingEffort = None
    BY <1>0, <1>14 DEF Probed
  <2> QED BY <1>0, <2>1, <2>2 DEF EffortInv
<1>15. CASE ProbeFails
  BY <1>k, <1>15 DEF ProbeFails, effortVars
<1>16. ASSUME NEW ok \in BOOLEAN, BridgeTakes(ok) PROVE EffortInv'
  BY <1>k, <1>16 DEF BridgeTakes, effortVars
<1>17. ASSUME NEW r \in Respawn, NEW ok \in BOOLEAN, BridgeResumes(r, ok) PROVE EffortInv'
  BY <1>k, <1>17 DEF BridgeResumes, effortVars
<1>18. CASE UNCHANGED vars
  BY <1>k, <1>18 DEF vars, effortVars
<1> QED BY <1>1, <1>2, <1>3, <1>5, <1>6, <1>7, <1>8, <1>9, <1>10, <1>11, <1>12, <1>13,
           <1>14, <1>15, <1>16, <1>17, <1>18 DEF Next, UserCall, Continuation

(* Whatever becomes of the changes of effort, of the connection and of the *)
(* probe, the next respawn asks for the effort the user sees.              *)
THEOREM NextAsShownHolds == Spec => []NextAsShown
<1>1. Init => EffortInv
  BY InitTypeInv DEF Init, EffortInv
<1>2. EffortInv => NextAsShown
  BY DEF EffortInv, NextAsShown
<1> QED BY <1>1, <1>2, NextEffortInv, PTL DEF Spec
-----------------------------------------------------------------------------
(* The child.  What is on a connection is there only while its socket is   *)
(* open, and respawns wait only for one that is not.                       *)
Open == transport # 0 /\ ready[transport] = "open"

PipeInv ==
    /\ ~Open => toBridge = <<>> /\ awaiting = {} /\ child = 0
    /\ Open \/ transport = 0 => queue = <<>>

(* Unless respawns overtook each other, the bridge has a child or one      *)
(* respawn that awaits the end of the child before.                        *)
AloneInv ==
    ~raced => /\ child = 0 \/ awaiting = {}
              /\ \A p, q \in awaiting : p = q

(* The last respawn a connection holds, where it has got to.               *)
Newest ==
    IF queue # <<>> THEN {queue[Len(queue)]}
    ELSE IF toBridge # <<>> THEN {toBridge[Len(toBridge)]}
    ELSE awaiting \cup ({child} \ {0})

(* It asks for the session chosen last and for the effort that the next    *)
(* one would ask for, unless a change of effort was given up since or the  *)
(* effort is not known.                                                    *)
Asks(r) ==
    /\ asked[r].mode = args.mode
    /\ r \in doubtful \/ args.effort \in {None, RunsAt(r)}

NewestInv == ~raced => \A r \in Newest : Asks(r)

(* The respawn setEffort waits for is pending until it is settled.         *)
SetterInv == setter # 0 /\ outcome = "none" => setter \in pending

LEMMA LastType ==
    ASSUME NEW S, NEW q \in Seq(S), q # <<>>
    PROVE  /\ q[Len(q)] \in S
           /\ Tail(q) # <<>> => Tail(q)[Len(Tail(q))] = q[Len(q)]
           /\ Tail(q) = <<>> => Head(q) = q[Len(q)]
OBVIOUS

LEMMA LastJoined ==
    ASSUME NEW S, NEW q \in Seq(S), NEW e \in S
    PROVE  /\ Append(q, e) # <<>> /\ Append(q, e)[Len(Append(q, e))] = e
           /\ <<e>> \o q # <<>>
           /\ (<<e>> \o q)[Len(<<e>> \o q)] = IF q = <<>> THEN e ELSE q[Len(q)]
OBVIOUS

LEMMA NewestGiven ==
    ASSUME TypeInv
    PROVE  Newest \subseteq Given
BY LastType DEF Newest, TypeInv, Known

LEMMA DialledOpen ==
    ASSUME TypeInv, Dialled, transport' = transport
    PROVE  Open' <=> Open
BY DEF Open, Dialled, TypeInv, TypeOK

LEMMA PipeStep == ConnInv /\ PipeInv /\ [Next]_vars => PipeInv'
<1> SUFFICES ASSUME ConnInv, PipeInv, [Next]_vars PROVE PipeInv'
  OBVIOUS
<1>0. /\ TypeInv /\ connectStarted <=> transport # 0
      /\ ready \in [Conn -> {"none", "connecting", "open", "down", "closing", "gone"}]
      /\ transport \in Conn \cup {0}
  BY DEF ConnInv, TypeInv, TypeOK
<1>k. ASSUME UNCHANGED <<queue, toBridge, awaiting, child>>, transport' = transport,
             Dialled \/ ready' = ready
      PROVE  PipeInv'
  <2>1. Open' <=> Open
    BY <1>0, <1>k, DialledOpen DEF Open
  <2> QED BY <1>k, <2>1 DEF PipeInv
<1>p. ASSUME NEW r \in Respawn, Post(r), UNCHANGED <<transport, awaiting, child>>
      PROVE  PipeInv'
  <2>d. Dialled /\ transport' = transport
    BY <1>p DEF Post
  <2>1. Open' <=> Open
    BY <1>0, <2>d, DialledOpen DEF Open
  <2>2. /\ toBridge' = IF Open THEN Append(toBridge, r) ELSE toBridge
        /\ queue' = IF transport # 0 /\ ~Open THEN Append(queue, r) ELSE queue
    BY <1>p DEF Post, Open
  <2> QED BY <1>p, <2>1, <2>2 DEF PipeInv
<1>1. ASSUME NEW r \in Respawn, NEW m \in Mode, ChangeSession(r, m) PROVE PipeInv'
  BY <1>p, <1>1 DEF ChangeSession
<1>2. ASSUME NEW r \in Respawn, NEW e \in Effort, SetEffort(r, e) PROVE PipeInv'
  BY <1>p, <1>2 DEF SetEffort
<1>3. CASE OtherSend
  BY <1>k, <1>3 DEF OtherSend, bridgeVars
<1>4. CASE Connect
  <2>1. ~Open /\ transport = 0 /\ UNCHANGED <<queue, toBridge, awaiting, child>>
    BY <1>0, <1>4 DEF Connect, Open, bridgeVars
  <2>2. ~Open'
    BY <1>0, <1>4 DEF Connect, Open
  <2> QED BY <2>1, <2>2 DEF PipeInv
<1>5. CASE Disconnect \/ SocketClosed
  BY <1>5 DEF Disconnect, SocketClosed, Cut, PipeInv
<1>6. ASSUME NEW r \in Respawn, Opened(r) PROVE PipeInv'
  <2>1. Open' /\ queue' = <<>>
    BY <1>0, <1>6 DEF Opened, Open
  <2> QED BY <2>1 DEF PipeInv
<1>7. ASSUME NEW t \in Conn, FormerSocketClosed(t) PROVE PipeInv'
  <2>1. Open' <=> Open
    BY <1>0, <1>7 DEF FormerSocketClosed, Open
  <2> QED BY <1>7, <2>1 DEF FormerSocketClosed, bridgeVars, PipeInv
<1>8. CASE Probe
  BY <1>k, <1>8 DEF Probe, bridgeVars
<1>9. ASSUME NEW r \in Respawn, Timeout(r) PROVE PipeInv'
  BY <1>k, <1>9 DEF Timeout, connVars, bridgeVars
<1>10. CASE EffortSet \/ EffortFailed \/ Result \/ Probed \/ ProbeFails
  BY <1>k, <1>10 DEF EffortSet, EffortFailed, Result, Probed, ProbeFails, connVars, bridgeVars
<1>11. ASSUME NEW ok \in BOOLEAN, BridgeTakes(ok) PROVE PipeInv'
  <2>1. Open
    BY <1>11 DEF BridgeTakes, PipeInv
  <2> QED BY <1>11, <2>1 DEF BridgeTakes, PipeInv, connVars, Open
<1>12. ASSUME NEW r \in Respawn, NEW ok \in BOOLEAN, BridgeResumes(r, ok) PROVE PipeInv'
  <2>1. Open
    BY <1>12 DEF BridgeResumes, PipeInv
  <2> QED BY <1>12, <2>1 DEF BridgeResumes, PipeInv, connVars, Open
<1>13. CASE UNCHANGED vars
  BY <1>k, <1>13 DEF vars, connVars, bridgeVars
<1> QED BY <1>1, <1>2, <1>3, <1>4, <1>5, <1>6, <1>7, <1>8, <1>9, <1>10, <1>11, <1>12,
           <1>13 DEF Next, UserCall, Continuation

LEMMA AloneStep == AloneInv /\ [Next]_vars => AloneInv'
<1> SUFFICES ASSUME AloneInv, [Next]_vars PROVE AloneInv'
  OBVIOUS
<1>k. ASSUME UNCHANGED <<awaiting, child, raced>> PROVE AloneInv'
  BY <1>k DEF AloneInv
<1>1. ASSUME NEW r \in Respawn, NEW m \in Mode, ChangeSession(r, m) PROVE AloneInv'
  BY <1>k, <1>1 DEF ChangeSession
<1>2. ASSUME NEW r \in Respawn, NEW e \in Effort, SetEffort(r, e) PROVE AloneInv'
  BY <1>k, <1>2 DEF SetEffort
<1>3. CASE Disconnect \/ SocketClosed
  BY <1>3 DEF Disconnect, SocketClosed, Cut, AloneInv
<1>4. ASSUME NEW r \in Respawn, Opened(r) \/ Timeout(r) PROVE AloneInv'
  BY <1>k, <1>4 DEF Opened, Timeout, bridgeVars
<1>5. ASSUME NEW t \in Conn, FormerSocketClosed(t) PROVE AloneInv'
  BY <1>k, <1>5 DEF FormerSocketClosed, bridgeVars
<1>6. CASE OtherSend \/ Connect \/ EffortSet \/ EffortFailed \/ Result \/ Probe \/ Probed
           \/ ProbeFails
  BY <1>k, <1>6 DEF OtherSend, Connect, EffortSet, EffortFailed, Result, Probe, Probed,
                    ProbeFails, bridgeVars
<1>7. ASSUME NEW ok \in BOOLEAN, BridgeTakes(ok) PROVE AloneInv'
  <2> SUFFICES ASSUME ~raced' PROVE AloneInv'
    BY DEF AloneInv
  <2>1. awaiting = {}
    BY <1>7 DEF BridgeTakes
  <2>2. CASE child = 0
    BY <1>7, <2>1, <2>2 DEF BridgeTakes, AloneInv
  <2>3. CASE child # 0
    BY <1>7, <2>1, <2>3 DEF BridgeTakes, AloneInv
  <2> QED BY <2>2, <2>3
<1>8. ASSUME NEW r \in Respawn, NEW ok \in BOOLEAN, BridgeResumes(r, ok) PROVE AloneInv'
  <2> SUFFICES ASSUME ~raced PROVE AloneInv'
    BY <1>8 DEF AloneInv, BridgeResumes
  <2>1. awaiting' = {}
    BY <1>8 DEF BridgeResumes, AloneInv
  <2> QED BY <2>1 DEF AloneInv
<1>9. CASE UNCHANGED vars
  BY <1>k, <1>9 DEF vars, bridgeVars
<1> QED BY <1>1, <1>2, <1>3, <1>4, <1>5, <1>6, <1>7, <1>8, <1>9 DEF Next, UserCall, Continuation

(* A call's respawn is the newest of the connection, if there is one.      *)
LEMMA CallNewest ==
    ASSUME TypeInv, TypeInv', PipeInv, NEW r \in Respawn, Ask(r, args'), Post(r),
           UNCHANGED <<transport, awaiting, child>>
    PROVE  NewestInv'
<1>1. queue \in Seq(Respawn) /\ toBridge \in Seq(Respawn)
  BY DEF TypeInv, TypeOK
<1>2. /\ toBridge' = IF Open THEN Append(toBridge, r) ELSE toBridge
      /\ queue' = IF transport # 0 /\ ~Open THEN Append(queue, r) ELSE queue
  BY DEF Post, Open
<1>3. Newest' \subseteq {r}
  <2>1. CASE transport = 0
    BY <1>2, <2>1 DEF Newest, PipeInv, Open
  <2>2. CASE Open
    BY <1>1, <1>2, <2>2, LastJoined DEF Newest, PipeInv
  <2>3. CASE transport # 0 /\ ~Open
    BY <1>1, <1>2, <2>3, LastJoined DEF Newest
  <2> QED BY <2>1, <2>2, <2>3
<1>4. asked'[r] = args'
  BY DEF Ask, TypeInv, TypeOK
<1> QED BY <1>3, <1>4 DEF NewestInv, Asks, RunsAt

LEMMA NewestStep ==
    ConnInv /\ PipeInv /\ AloneInv /\ NewestInv /\ [Next]_vars => NewestInv'
<1> SUFFICES ASSUME ConnInv, PipeInv, AloneInv, NewestInv, [Next]_vars PROVE NewestInv'
  OBVIOUS
<1>0. TypeInv /\ TypeInv' /\ Newest \subseteq Given
  BY NewestGiven, NextTypeInv DEF ConnInv
<1>t. /\ queue \in Seq(Respawn) /\ toBridge \in Seq(Respawn)
      /\ args \in Args /\ asked \in [Respawn -> Args \cup {None}]
  BY <1>0 DEF TypeInv, TypeOK
<1>k. ASSUME UNCHANGED <<queue, toBridge, awaiting, child, raced, args, asked, doubtful>>
      PROVE  NewestInv'
  BY <1>k DEF NewestInv, Newest, Asks, RunsAt
<1>1. ASSUME NEW r \in Respawn, NEW m \in Mode, ChangeSession(r, m) PROVE NewestInv'
  BY <1>0, <1>1, CallNewest DEF ChangeSession
<1>2. ASSUME NEW r \in Respawn, NEW e \in Effort, SetEffort(r, e) PROVE NewestInv'
  BY <1>0, <1>2, CallNewest DEF SetEffort
<1>3. CASE Disconnect \/ SocketClosed
  BY <1>3 DEF Disconnect, SocketClosed, Cut, NewestInv, Newest
<1>4. CASE EffortFailed
  <2>1. /\ args' = [args EXCEPT !.effort = prev] /\ asked' = asked
        /\ Newest' = Newest /\ raced' = raced
        /\ Newest \subseteq doubtful'
    BY <1>0, <1>4 DEF EffortFailed, Newest, Given, bridgeVars
  <2>2. args'.mode = args.mode
    BY <1>t, <2>1 DEF Args
  <2> QED BY <2>1, <2>2 DEF NewestInv, Asks
<1>5. ASSUME NEW r \in Respawn, Opened(r) PROVE NewestInv'
  <2>1. /\ asked[r] = None /\ asked' = [asked EXCEPT ![r] = args]
        /\ toBridge' = <<r>> \o queue /\ queue' = <<>>
        /\ UNCHANGED <<raced, args, doubtful>>
    BY <1>5 DEF Opened, Ask
  <2>2. Newest' = IF queue = <<>> THEN {r} ELSE Newest
    BY <1>t, <2>1, LastJoined DEF Newest
  <2>3. CASE queue = <<>>
    BY <1>t, <2>1, <2>2, <2>3 DEF NewestInv, Asks, RunsAt
  <2>4. CASE queue # <<>>
    <3>1. \A q \in Newest : asked'[q] = asked[q]
      BY <1>0, <1>t, <2>1 DEF Given
    <3> QED BY <2>1, <2>2, <2>4, <3>1 DEF NewestInv, Asks, RunsAt
  <2> QED BY <2>3, <2>4
<1>6. CASE Probed
  <2> SUFFICES ASSUME ~raced PROVE \A r \in Newest' : Asks(r)'
    BY <1>6 DEF Probed, NewestInv, bridgeVars
  <2>1. Newest = {child}
    BY <1>6 DEF Probed, PipeInv, AloneInv, Newest
  <2>2. Newest' = Newest /\ asked' = asked
    BY <1>6 DEF Probed, Newest, bridgeVars
  <2>3. args'.mode = args.mode /\ args'.effort = RunsAt(child)
    BY <1>6, <1>t DEF Probed, Args
  <2> QED BY <2>1, <2>2, <2>3 DEF NewestInv, Asks, RunsAt
<1>7. CASE OtherSend \/ Connect \/ EffortSet \/ Result \/ Probe \/ ProbeFails
  BY <1>k, <1>7 DEF OtherSend, Connect, EffortSet, Result, Probe, ProbeFails, bridgeVars
<1>8. ASSUME NEW t \in Conn, FormerSocketClosed(t) PROVE NewestInv'
  BY <1>k, <1>8 DEF FormerSocketClosed, bridgeVars
<1>9. ASSUME NEW r \in Respawn, Timeout(r) PROVE NewestInv'
  BY <1>k, <1>9 DEF Timeout, bridgeVars
<1>s. ASSUME ~raced' => ~raced /\ Newest' \subseteq Newest, UNCHANGED <<args, asked, doubtful>>
      PROVE  NewestInv'
  BY <1>s DEF NewestInv, Asks, RunsAt
<1>10. ASSUME NEW ok \in BOOLEAN, BridgeTakes(ok) PROVE NewestInv'
  <2>1. /\ toBridge # <<>> /\ toBridge' = Tail(toBridge) /\ queue = <<>> /\ queue' = <<>>
        /\ UNCHANGED <<args, asked, doubtful>>
    BY <1>10 DEF BridgeTakes, PipeInv
  <2>2. ASSUME ~raced' PROVE ~raced /\ Newest' \subseteq Newest
    <3>1. ~raced /\ awaiting = {}
      BY <1>10, <2>2 DEF BridgeTakes
    <3>2. awaiting' \cup ({child'} \ {0}) \subseteq {Head(toBridge)}
      <4>1. CASE child = 0
        BY <1>10, <3>1, <4>1 DEF BridgeTakes, Attach
      <4>2. CASE child # 0
        BY <1>10, <3>1, <4>2 DEF BridgeTakes
      <4> QED BY <4>1, <4>2
    <3>3. Newest' \subseteq {toBridge[Len(toBridge)]}
      BY <1>t, <2>1, <3>2, LastType DEF Newest
    <3> QED BY <2>1, <3>1, <3>3 DEF Newest
  <2> QED BY <1>s, <2>1, <2>2
<1>11. ASSUME NEW r \in Respawn, NEW ok \in BOOLEAN, BridgeResumes(r, ok) PROVE NewestInv'
  <2>1. /\ awaiting' \cup ({child'} \ {0}) \subseteq awaiting \cup ({child} \ {0})
        /\ UNCHANGED <<queue, toBridge, raced, args, asked, doubtful>>
    BY <1>11 DEF BridgeResumes, Attach
  <2> QED BY <1>s, <2>1 DEF Newest
<1>12. CASE UNCHANGED vars
  BY <1>k, <1>12 DEF vars, bridgeVars
<1> QED BY <1>1, <1>2, <1>3, <1>4, <1>5, <1>6, <1>7, <1>8, <1>9, <1>10, <1>11, <1>12
        DEF Next, UserCall, Continuation

LEMMA SetterStep == EffortInv /\ SetterInv /\ [Next]_vars => SetterInv'
<1> SUFFICES ASSUME EffortInv, SetterInv, [Next]_vars PROVE SetterInv'
  OBVIOUS
<1>k. ASSUME pending \subseteq pending', UNCHANGED <<setter, outcome>> PROVE SetterInv'
  BY <1>k DEF SetterInv
<1>s. ASSUME NEW r, NEW ok, Settled(r, ok), setter' = setter PROVE SetterInv'
  BY <1>s DEF Settled, SetterInv
<1>1. ASSUME NEW r \in Respawn, NEW m \in Mode, ChangeSession(r, m) PROVE SetterInv'
  BY <1>k, <1>1 DEF ChangeSession, Ask, effortVars
<1>2. ASSUME NEW r \in Respawn, NEW e \in Effort, SetEffort(r, e) PROVE SetterInv'
  BY <1>2 DEF SetEffort, Ask, SetterInv
<1>3. CASE OtherSend \/ Connect \/ SocketClosed \/ Probe \/ Probed \/ ProbeFails
  BY <1>k, <1>3 DEF OtherSend, Connect, SocketClosed, Probe, Probed, ProbeFails, effortVars
<1>4. CASE Disconnect
  BY <1>4 DEF Disconnect, SetterInv
<1>5. CASE EffortSet \/ EffortFailed
  BY <1>5 DEF EffortSet, EffortFailed, SetterInv
<1>6. ASSUME NEW r \in Respawn, Opened(r) PROVE SetterInv'
  BY <1>k, <1>6 DEF Opened, Ask, effortVars
<1>7. ASSUME NEW r \in Respawn, Timeout(r) PROVE SetterInv'
  BY <1>s, <1>7 DEF Timeout
<1>8. ASSUME NEW t \in Conn, FormerSocketClosed(t) PROVE SetterInv'
  BY <1>k, <1>8 DEF FormerSocketClosed, effortVars
<1>9. CASE Result
  BY <1>k, <1>s, <1>9 DEF Result
<1>10. ASSUME NEW ok \in BOOLEAN, BridgeTakes(ok) PROVE SetterInv'
  BY <1>k, <1>10 DEF BridgeTakes, effortVars
<1>11. ASSUME NEW r \in Respawn, NEW ok \in BOOLEAN, BridgeResumes(r, ok) PROVE SetterInv'
  BY <1>k, <1>11 DEF BridgeResumes, effortVars
<1>12. CASE UNCHANGED vars
  BY <1>k, <1>12 DEF vars, effortVars
<1> QED BY <1>1, <1>2, <1>3, <1>4, <1>5, <1>6, <1>7, <1>8, <1>9, <1>10, <1>11, <1>12
        DEF Next, UserCall, Continuation

ChildInv == /\ ConnInv /\ EffortInv
            /\ PipeInv /\ AloneInv /\ NewestInv /\ SetterInv

LEMMA ChildHolds == Spec => []ChildInv
<1>1. Init => EffortInv /\ PipeInv /\ AloneInv /\ NewestInv /\ SetterInv
  BY InitTypeInv DEF Init, EffortInv, PipeInv, AloneInv, NewestInv, Newest, SetterInv, Open
<1> QED BY <1>1, InitConnInv, NextConnInv, NextEffortInv, PipeStep, AloneStep, NewestStep,
           SetterStep, PTL DEF Spec, ChildInv

LEMMA QuietNewest ==
    ASSUME PipeInv, Quiet, child # 0
    PROVE  Newest = {child}
BY DEF PipeInv, Quiet, Newest

(* Once every respawn has been answered, the child runs at the effort      *)
(* shown, unless respawns overtook each other or the child was asked for   *)
(* before a change of effort that was given up.                            *)
THEOREM EffortShownHolds == Spec => []EffortShown
<1>1. ASSUME ChildInv, Quiet, child # 0, ~raced, child \notin doubtful
      PROVE  activeEffort \in {None, RunsAt(child)}
  <2>1. args.effort \in {None, RunsAt(child)}
    BY <1>1, QuietNewest DEF ChildInv, NewestInv, Asks
  <2>2. pendingEffort = None
    BY <1>1 DEF ChildInv, SetterInv, EffortInv, TypeInv, TypeOK, Quiet
  <2> QED BY <1>1, <2>1, <2>2 DEF ChildInv, EffortInv
<1>2. ChildInv => EffortShown
  BY <1>1 DEF EffortShown
<1> QED BY <1>2, ChildHolds, PTL

(* ... and it has the session chosen last, whatever failed in between.     *)
THEOREM SessionIsLastHolds == Spec => []SessionIsLast
<1>1. ChildInv => SessionIsLast
  BY QuietNewest DEF ChildInv, NewestInv, Asks, SessionIsLast
<1> QED BY <1>1, ChildHolds, PTL
=============================================================================

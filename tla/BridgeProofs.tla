---------------------------- MODULE BridgeProofs ----------------------------
(***************************************************************************)
(* Theorems about the bridge, for any number of respawns: its types, that  *)
(* it loses no child unless respawns overtake each other or the close, and *)
(* that what it sends implements ConsumerView.                             *)
(***************************************************************************)
EXTENDS Bridge, SequenceTheorems, TLAPS

USE NoneAssumption, MaxFramesAssumption

-----------------------------------------------------------------------------
(* The type invariant is inductive.                                        *)
LEMMA InitTypeOK == Init => TypeOK
<1> SUFFICES ASSUME Init PROVE TypeOK
  OBVIOUS
<1>1. <<>> \in Seq(Sent)
  OBVIOUS
<1>2. Awaiting = {}
  BY DEF Init, Awaiting
<1> QED BY <1>1, <1>2 DEF Init, TypeOK

(* What a send leaves in `out`.                                            *)
LEMMA SendType ==
    ASSUME TypeOK, NEW m \in Sent, Send(m)
    PROVE  out' \in Seq(Sent)
BY DEF TypeOK, Send

LEMMA AttachType ==
    ASSUME TypeOK, NEW r \in Request, Attach(r) \/ AttachFails(r)
    PROVE  /\ proc' \in [Request -> {"unborn", "running", "dead", "reaped"}]
           /\ childT' \in Request \cup {None}
           /\ listening' \subseteq Request
           /\ out' \in Seq(Sent)
<1>1. Ok(r) \in Sent /\ Failed(r) \in Sent
  BY DEF Ok, Failed, Sent
<1>2. CASE Attach(r)
  BY <1>1, <1>2, SendType DEF Attach, TypeOK
<1>3. CASE AttachFails(r)
  BY <1>1, <1>3, SendType DEF AttachFails, TypeOK
<1> QED BY <1>2, <1>3

LEMMA NextTypeOK == TypeOK /\ [Next]_vars => TypeOK'
<1> SUFFICES ASSUME TypeOK, [Next]_vars PROVE TypeOK'
  OBVIOUS
<1> USE DEF TypeOK, Awaiting
<1>1. ASSUME NEW r \in Request, RespawnFirst(r) PROVE TypeOK'
  BY <1>1, AttachType DEF RespawnFirst
<1>2. ASSUME NEW r \in Request, RespawnReplace(r) PROVE TypeOK'
  BY <1>2 DEF RespawnReplace, Detach, BeginClose
<1>3. ASSUME NEW r \in Request, RespawnResume(r) PROVE TypeOK'
  BY <1>3, AttachType DEF RespawnResume
<1>4. CASE ConsumerFrame
  BY <1>4 DEF ConsumerFrame, procVars
<1>5. ASSUME NEW c \in Request, ChildFrame(c) PROVE TypeOK'
  <2>1. FrameOf(c) \in Sent
    BY DEF FrameOf, Sent
  <2>2. out' \in Seq(Sent)
    BY <1>5, <2>1, SendType DEF ChildFrame
  <2> QED BY <1>5, <2>2 DEF ChildFrame, procVars
<1>6. ASSUME NEW c \in Request, ChildDies(c) PROVE TypeOK'
  BY <1>6 DEF ChildDies
<1>7. ASSUME NEW c \in Request, ChildExited(c) PROVE TypeOK'
  BY <1>7 DEF ChildExited
<1>8. ASSUME NEW c \in Request, CloseStep(c) PROVE TypeOK'
  BY <1>8 DEF CloseStep, StdinEnded, TermTimeout, Killed
<1>9. CASE WsClose
  BY <1>9 DEF WsClose, Detach, BeginClose
<1>10. CASE UNCHANGED vars
  BY <1>10 DEF vars
<1> QED BY <1>1, <1>2, <1>3, <1>4, <1>5, <1>6, <1>7, <1>8, <1>9, <1>10 DEF Next

(* Every reachable state of the bridge is well typed, and every handler    *)
(* that awaits knows the child it is closing.                              *)
THEOREM TypeCorrect == Spec => []TypeOK
BY InitTypeOK, NextTypeOK, PTL DEF Spec

-----------------------------------------------------------------------------
(* Why no child is lost.  A child is started by its request and at the end *)
(* of its handler; the current one was not told to close; and as long as   *)
(* nothing was overtaken, a handler that awaits is the only one, on an     *)
(* open socket without a current child.                                    *)
OneAtATime ==
    /\ \A r \in Request : handler[r] # "done" => proc[r] = "unborn"
    /\ \A c \in Request : proc[c] = "unborn" => closing[c] = "no"
    /\ childT # None => closing[childT] = "no" /\ proc[childT] # "unborn"
    /\ ~raced => /\ \A r, s \in Awaiting : r = s
                 /\ Awaiting # {} => childT = None /\ ws # "closed"

OrphanInv == TypeOK /\ OneAtATime /\ NoOrphan

LEMMA InitOrphanInv == Init => OrphanInv
BY InitTypeOK DEF Init, OrphanInv, OneAtATime, NoOrphan, Unattended, Awaiting

LEMMA NextOrphanInv == OrphanInv /\ [Next]_vars => OrphanInv'
<1> SUFFICES ASSUME OrphanInv, [Next]_vars PROVE OrphanInv'
  OBVIOUS
<1>0. TypeOK /\ TypeOK'
  BY NextTypeOK DEF OrphanInv
<1> USE <1>0 DEF OrphanInv, OneAtATime, NoOrphan, Unattended, Awaiting, TypeOK
<1>1. ASSUME NEW r \in Request, RespawnFirst(r) PROVE OrphanInv'
  <2>1. ~raced' => ~raced /\ Awaiting = {}
    BY <1>1, Zenon DEF RespawnFirst
  <2>2. CASE Attach(r)
    <3>1. /\ handler' = [handler EXCEPT ![r] = "done"]
          /\ proc' = [proc EXCEPT ![r] = "running"]
          /\ childT' = r /\ ws = "open" /\ ws' = ws /\ closing' = closing
          /\ childT = None /\ handler[r] = "unsent"
      BY <1>1, <2>2 DEF RespawnFirst, Attach
    <3>2. OneAtATime'
      BY <2>1, <3>1
    <3>3. NoOrphan'
      BY <2>1, <3>1
    <3> QED BY <3>2, <3>3
  <2>3. CASE AttachFails(r)
    <3>1. /\ handler' = [handler EXCEPT ![r] = "done"]
          /\ proc' = proc /\ closing' = closing
          /\ childT' = childT /\ ws' = ws
      BY <1>1, <2>3 DEF RespawnFirst, AttachFails
    <3>2. OneAtATime'
      BY <2>1, <3>1
    <3>3. NoOrphan'
      BY <2>1, <3>1
    <3> QED BY <3>2, <3>3
  <2> QED BY <1>1, <2>2, <2>3 DEF RespawnFirst
<1>2. ASSUME NEW r \in Request, RespawnReplace(r) PROVE OrphanInv'
  <2>1. ~raced' => ~raced /\ Awaiting = {}
    BY <1>2, Zenon DEF RespawnReplace
  <2>2. /\ handler' = [handler EXCEPT ![r] = "awaiting"] /\ handler[r] = "unsent"
        /\ childT # None /\ childT' = None /\ ws = "open" /\ ws' = ws /\ proc' = proc
    BY <1>2 DEF RespawnReplace, Detach
  <2>3. /\ \A c \in Request : closing[c] # "no" => closing'[c] # "no"
        /\ \A c \in Request : closing'[c] # "no" => closing[c] # "no" \/ c = childT
    BY <1>2 DEF RespawnReplace, BeginClose
  <2>4. proc[childT] = "running" => closing'[childT] # "no"
    BY <1>2, <2>2 DEF RespawnReplace, BeginClose
  <2>5. OneAtATime'
    BY <2>1, <2>2, <2>3
  <2>6. NoOrphan'
    BY <2>1, <2>2, <2>3, <2>4
  <2> QED BY <2>5, <2>6
<1>3. ASSUME NEW r \in Request, RespawnResume(r) PROVE OrphanInv'
  <2>1. raced' = raced /\ r \in Awaiting
    BY <1>3 DEF RespawnResume
  <2>2. CASE Attach(r)
    <3>1. /\ handler' = [handler EXCEPT ![r] = "done"]
          /\ proc' = [proc EXCEPT ![r] = "running"]
          /\ childT' = r /\ ws' = ws /\ closing' = closing
      BY <1>3, <2>2 DEF RespawnResume, Attach
    <3>2. closing[r] = "no"
      BY <2>1
    <3>3. OneAtATime'
      BY <2>1, <3>1, <3>2, SMTT(30)
    <3>4. ~raced => /\ childT = None /\ ws # "closed"
                    /\ \A c \in Request : ~Unattended(c)
      BY <2>1
    <3>5. NoOrphan'
      BY <2>1, <3>1, <3>4
    <3> QED BY <3>3, <3>5
  <2>3. CASE AttachFails(r)
    <3>1. /\ handler' = [handler EXCEPT ![r] = "done"]
          /\ proc' = proc /\ closing' = closing /\ childT' = childT /\ ws' = ws
      BY <1>3, <2>3 DEF RespawnResume, AttachFails
    <3>2. OneAtATime'
      BY <2>1, <3>1
    <3>3. NoOrphan'
      BY <2>1, <3>1
    <3> QED BY <3>2, <3>3
  <2> QED BY <1>3, <2>2, <2>3 DEF RespawnResume
<1>4. CASE ConsumerFrame
  BY <1>4 DEF ConsumerFrame, procVars
<1>5. ASSUME NEW c \in Request, ChildFrame(c) PROVE OrphanInv'
  BY <1>5 DEF ChildFrame, procVars
<1>6. ASSUME NEW c \in Request, ChildDies(c) PROVE OrphanInv'
  BY <1>6 DEF ChildDies
<1>7. ASSUME NEW c \in Request, ChildExited(c) PROVE OrphanInv'
  BY <1>7 DEF ChildExited
<1>8. ASSUME NEW c \in Request, CloseStep(c) PROVE OrphanInv'
  <2>1. /\ closing[c] # "no" /\ closing'[c] # "no"
        /\ \A d \in Request \ {c} : closing'[d] = closing[d]
        /\ handler' = handler /\ proc' = proc /\ childT' = childT
        /\ raced' = raced /\ ws' = ws
    BY <1>8 DEF CloseStep, StdinEnded, TermTimeout, Killed
  <2> QED BY <2>1
<1>9. CASE WsClose
  <2>1. ~raced' => ~raced /\ Awaiting = {}
    BY <1>9, Zenon DEF WsClose
  <2>2. /\ childT' = None /\ ws' = "closed"
        /\ handler' = handler /\ proc' = proc
        /\ \A c \in Request : closing[c] # "no" => closing'[c] # "no"
        /\ \A c \in Request : closing'[c] # "no" => closing[c] # "no" \/ c = childT
    BY <1>9 DEF WsClose, Detach, BeginClose
  <2>3. childT # None /\ proc[childT] = "running" => closing'[childT] # "no"
    BY <1>9 DEF WsClose, BeginClose
  <2>4. OneAtATime'
    BY <2>1, <2>2
  <2>5. NoOrphan'
    BY <2>1, <2>2, <2>3
  <2> QED BY <2>4, <2>5
<1>10. CASE UNCHANGED vars
  BY <1>10 DEF vars
<1> QED BY <1>1, <1>2, <1>3, <1>4, <1>5, <1>6, <1>7, <1>8, <1>9, <1>10 DEF Next

(* However many respawns a consumer sends, as long as each is sent after   *)
(* the answer to the one before and none is under way when the socket      *)
(* closes, the bridge forgets no child it has not told to stop.            *)
THEOREM NoOrphanHolds == Spec => []NoOrphan
<1>1. Spec => []OrphanInv
  BY InitOrphanInv, NextOrphanInv, PTL DEF Spec
<1>2. OrphanInv => NoOrphan
  BY DEF OrphanInv
<1> QED BY <1>1, <1>2, PTL

-----------------------------------------------------------------------------
(* Why a superseded child is cut off: it was started, so no handler will   *)
(* attach it again, and it is not the current child.                       *)
StaleInv ==
    /\ TypeOK
    /\ \A r \in Request : handler[r] # "done" => proc[r] = "unborn"
    /\ \A c \in stale : proc[c] # "unborn" /\ c # childT

(* The same step also cuts the stale children off.                         *)
CutOff ==
    \A c \in stale :
        /\ stdin'[c] = stdin[c]
        /\ out' # out => out'[Len(out')] # FrameOf(c)

LEMMA InitStaleInv == Init => StaleInv
BY InitTypeOK DEF Init, StaleInv

LEMMA SentLast ==
    ASSUME TypeOK, NEW m \in Sent, Send(m), out' # out
    PROVE  out'[Len(out')] = m
BY DEF TypeOK, Send

LEMMA NextStaleInv ==
    ASSUME StaleInv, [Next]_vars
    PROVE  StaleInv' /\ CutOff
<1>0. TypeOK /\ TypeOK'
  BY NextTypeOK DEF StaleInv
<1>a. ASSUME NEW r \in Request, handler[r] # "done",
             handler' = [handler EXCEPT ![r] = "done"],
             Attach(r) \/ AttachFails(r), stdin' = stdin,
             \A c \in stale' : c \in stale \/ (proc[c] # "unborn" /\ childT = None)
      PROVE  StaleInv' /\ CutOff
  <2>1. \A c \in Request : /\ FrameOf(c) # Ok(r) /\ FrameOf(c) # Failed(r)
                           /\ Ok(r) \in Sent /\ Failed(r) \in Sent
    BY DEF FrameOf, Ok, Failed, Sent
  <2>2. CASE Attach(r)
    <3>1. StaleInv'
      BY <1>0, <1>a, <2>2 DEF StaleInv, TypeOK, Attach
    <3>2. CutOff
      BY <1>0, <1>a, <2>1, <2>2, SentLast DEF CutOff, Attach, TypeOK
    <3> QED BY <3>1, <3>2
  <2>3. CASE AttachFails(r)
    <3>1. StaleInv'
      BY <1>0, <1>a, <2>3 DEF StaleInv, TypeOK, AttachFails
    <3>2. CutOff
      BY <1>0, <1>a, <2>1, <2>3, SentLast DEF CutOff, AttachFails, TypeOK
    <3> QED BY <3>1, <3>2
  <2> QED BY <1>a, <2>2, <2>3
<1> USE <1>0 DEF StaleInv, CutOff, TypeOK
<1>1. ASSUME NEW r \in Request, RespawnFirst(r) PROVE StaleInv' /\ CutOff
  BY <1>1, <1>a DEF RespawnFirst
<1>2. ASSUME NEW r \in Request, RespawnReplace(r) PROVE StaleInv' /\ CutOff
  BY <1>2 DEF RespawnReplace, Detach
<1>3. ASSUME NEW r \in Request, RespawnResume(r) PROVE StaleInv' /\ CutOff
  <2>1. /\ handler[r] # "done" /\ handler' = [handler EXCEPT ![r] = "done"]
        /\ Attach(r) \/ AttachFails(r)
        /\ stdin' = stdin /\ stale' = stale
    BY <1>3 DEF RespawnResume
  <2>2. \A c \in stale' : c \in stale \/ (proc[c] # "unborn" /\ childT = None)
    BY <2>1
  <2> HIDE DEF StaleInv, CutOff, TypeOK
  <2> QED BY <1>a, <2>1, <2>2
<1>4. CASE ConsumerFrame
  BY <1>4 DEF ConsumerFrame, procVars
<1>5. ASSUME NEW c \in Request, ChildFrame(c) PROVE StaleInv' /\ CutOff
  <2>1. FrameOf(c) \in Sent /\ \A d \in Request : FrameOf(d) = FrameOf(c) => d = c
    BY DEF FrameOf, Sent
  <2>2. out' # out => childT = c /\ out'[Len(out')] = FrameOf(c)
    BY <1>5, <2>1, SentLast DEF ChildFrame
  <2>3. UNCHANGED <<childT, handler, proc, stdin, stale>>
    BY <1>5 DEF ChildFrame, procVars
  <2>4. StaleInv'
    BY <2>3
  <2>5. CutOff
    BY <2>1, <2>2, <2>3
  <2> QED BY <2>4, <2>5
<1>6. ASSUME NEW c \in Request, ChildDies(c) PROVE StaleInv' /\ CutOff
  BY <1>6 DEF ChildDies
<1>7. ASSUME NEW c \in Request, ChildExited(c) PROVE StaleInv' /\ CutOff
  BY <1>7 DEF ChildExited
<1>8. ASSUME NEW c \in Request, CloseStep(c) PROVE StaleInv' /\ CutOff
  <2>1. UNCHANGED <<childT, handler, proc, stdin, stale, out>>
    BY <1>8 DEF CloseStep, StdinEnded, TermTimeout, Killed
  <2> QED BY <2>1
<1>9. CASE WsClose
  BY <1>9 DEF WsClose, Detach
<1>10. CASE UNCHANGED vars
  BY <1>10 DEF vars
<1> QED BY <1>1, <1>2, <1>3, <1>4, <1>5, <1>6, <1>7, <1>8, <1>9, <1>10 DEF Next

(* However long its shutdown takes, a child superseded by a later respawn  *)
(* is neither written to nor heard from.                                   *)
THEOREM CutOffHolds == Spec => SupersededIsCutOff
<1>1. Init => StaleInv
  BY InitStaleInv
<1>2. StaleInv /\ [Next]_vars => StaleInv' /\ [CutOff]_vars
  BY NextStaleInv
<1>3. Spec => [][CutOff]_vars
  BY <1>1, <1>2, PTL DEF Spec
<1> QED BY <1>3 DEF SupersededIsCutOff, CutOff

-----------------------------------------------------------------------------
(* The refinement.  While the socket is open the current child is the one  *)
(* of the last ok reply, and a handler that has not ended has not replied. *)
StreamInv ==
    /\ ws = "open" /\ childT # None => View!IsCurrent(out, childT)
    /\ \A r \in Request : handler[r] # "done" => View!Unanswered(r)

LEMMA AppendSent ==
    ASSUME NEW s \in Seq(Sent), NEW m \in Sent
    PROVE  /\ Append(s, m) \in Seq(Sent)
           /\ Len(Append(s, m)) = Len(s) + 1
           /\ Append(s, m)[Len(s) + 1] = m
           /\ \A i \in 1 .. Len(s) : Append(s, m)[i] = s[i]
OBVIOUS

(* The child of an ok reply just sent is current.                          *)
LEMMA OkMakesCurrent ==
    ASSUME NEW s \in Seq(Sent), NEW r \in Request
    PROVE  View!IsCurrent(Append(s, Ok(r)), r)
<1>1. Ok(r) \in Sent
  BY DEF Ok, Sent
<1>2. Ok(r) = View!Ok(r)
  BY DEF Ok, View!Ok
<1>3. Len(s) \in Nat
  OBVIOUS
<1> QED BY <1>1, <1>2, <1>3, AppendSent DEF View!IsCurrent

(* A text that is no ok reply leaves the current child as it was.          *)
LEMMA OthersKeepCurrent ==
    ASSUME NEW s \in Seq(Sent), NEW m \in Sent, m.kind # "ok",
           NEW c \in Request, View!IsCurrent(s, c)
    PROVE  View!IsCurrent(Append(s, m), c)
<1>1. PICK i \in 1 .. Len(s) :
        /\ s[i] = View!Ok(c)
        /\ \A j \in (i + 1) .. Len(s) : s[j].kind # "ok"
  BY DEF View!IsCurrent
<1>2. Len(s) \in Nat /\ i \in 1 .. Len(Append(s, m))
  BY AppendSent
<1>3. Append(s, m)[i] = View!Ok(c)
  BY <1>1, AppendSent
<1>4. ASSUME NEW j \in (i + 1) .. Len(Append(s, m))
      PROVE  Append(s, m)[j].kind # "ok"
  <2>1. j \in (i + 1) .. Len(s) \/ j = Len(s) + 1
    BY <1>2, AppendSent
  <2> QED BY <2>1, <1>1, AppendSent
<1> QED BY <1>2, <1>3, <1>4 DEF View!IsCurrent

(* A text about another request leaves r unanswered.                       *)
LEMMA OthersKeepUnanswered ==
    ASSUME TypeOK, NEW r \in Request, View!Unanswered(r),
           NEW m \in Sent, m.kind = "frame" \/ m.of # r,
           out' = Append(out, m)
    PROVE  View!Unanswered(r)'
<1>1. m # View!Ok(r) /\ m # View!Failed(r)
  BY DEF View!Ok, View!Failed
<1>2. out \in Seq(Sent) /\ Len(out) \in Nat
  BY DEF TypeOK
<1>3. ASSUME NEW i \in 1 .. Len(out')
      PROVE  out'[i] # View!Ok(r) /\ out'[i] # View!Failed(r)
  <2>1. i \in 1 .. Len(out) \/ i = Len(out) + 1
    BY <1>2, AppendSent
  <2> QED BY <2>1, <1>1, <1>2, AppendSent DEF View!Unanswered
<1> QED BY <1>3 DEF View!Unanswered

(* The end of a respawn handler, either way: an answer, or nothing on a    *)
(* socket that is not open.                                                *)
LEMMA HandlerEnds ==
    ASSUME TypeOK, StreamInv, NEW r \in Request, handler[r] # "done",
           handler' = [handler EXCEPT ![r] = "done"], ws' = ws,
           Attach(r) \/ AttachFails(r)
    PROVE  /\ StreamInv'
           /\ View!Answer(r) \/ out' = out
<1>1. /\ Ok(r) \in Sent /\ Failed(r) \in Sent
      /\ Ok(r).kind = "ok" /\ Ok(r).of = r
      /\ Failed(r).kind # "ok" /\ Failed(r).of = r
      /\ Ok(r) = View!Ok(r) /\ Failed(r) = View!Failed(r)
  BY DEF Ok, Failed, Sent, View!Ok, View!Failed
<1>2. out \in Seq(Sent)
  BY DEF TypeOK
<1>3. View!Unanswered(r)
  BY DEF StreamInv
<1>4. PICK m \in {Ok(r), Failed(r)} :
        /\ Send(m)
        /\ m = Ok(r) => childT' = r
        /\ m = Failed(r) => childT' = childT
  <2>1. Ok(r) # Failed(r)
    BY <1>1
  <2>2. CASE Attach(r)
    BY <2>1, <2>2 DEF Attach
  <2>3. CASE AttachFails(r)
    BY <2>1, <2>3 DEF AttachFails
  <2> QED BY <2>2, <2>3
<1>5. View!Answer(r) \/ out' = out
  BY <1>1, <1>3, <1>4 DEF Send, View!Answer
<1>6. ws' = "open" /\ childT' # None => View!IsCurrent(out', childT')
  <2> SUFFICES ASSUME ws' = "open", childT' # None
               PROVE  View!IsCurrent(out', childT')
    OBVIOUS
  <2>1. out' = Append(out, m)
    BY <1>4 DEF Send
  <2>2. CASE m = Ok(r)
    BY <2>1, <2>2, <1>2, <1>4, OkMakesCurrent
  <2>3. CASE m = Failed(r)
    <3>1. childT \in Request /\ childT' = childT /\ View!IsCurrent(out, childT)
      BY <2>3, <1>4 DEF TypeOK, StreamInv
    <3> QED BY <3>1, <2>1, <2>3, <1>1, <1>2, OthersKeepCurrent
  <2> QED BY <2>2, <2>3, <1>4
<1>7. ASSUME NEW s \in Request, handler'[s] # "done"
      PROVE  View!Unanswered(s)'
  <2>1. s # r /\ handler[s] # "done" /\ View!Unanswered(s)
    BY <1>7 DEF TypeOK, StreamInv
  <2>2. CASE out' = out
    BY <2>1, <2>2 DEF View!Unanswered
  <2>3. CASE out' = Append(out, m)
    <3>1. m \in Sent /\ m.of # s
      BY <1>1, <1>4, <2>1
    <3> QED BY <2>1, <2>3, <3>1, OthersKeepUnanswered
  <2> QED BY <2>2, <2>3, <1>4 DEF Send
<1> QED BY <1>5, <1>6, <1>7 DEF StreamInv

(* A step that sends nothing, ends no handler and attaches no child.       *)
LEMMA QuietStep ==
    ASSUME StreamInv, out' = out,
           childT' \in {childT, None}, ws' = "open" => ws = "open",
           \A r \in Request : handler'[r] # "done" => handler[r] # "done"
    PROVE  StreamInv'
BY DEF StreamInv, View!Unanswered

ViewInv == TypeOK /\ StreamInv

LEMMA InitViewInv == Init => ViewInv /\ View!Init
<1> SUFFICES ASSUME Init PROVE ViewInv /\ View!Init
  OBVIOUS
<1>1. Len(out) = 0
  BY DEF Init
<1>2. \A r \in Request : View!Unanswered(r)
  BY <1>1 DEF View!Unanswered
<1> QED BY <1>2, InitTypeOK DEF Init, ViewInv, StreamInv, View!Init

LEMMA NextViewInv ==
    ASSUME ViewInv, [Next]_vars
    PROVE  ViewInv' /\ [View!Next]_out
<1>0. TypeOK /\ TypeOK' /\ StreamInv
  BY NextTypeOK DEF ViewInv
<1> USE <1>0 DEF ViewInv
<1>1. ASSUME NEW r \in Request, RespawnFirst(r) PROVE ViewInv' /\ [View!Next]_out
  BY <1>1, HandlerEnds DEF RespawnFirst, View!Next
<1>2. ASSUME NEW r \in Request, RespawnReplace(r) PROVE ViewInv' /\ [View!Next]_out
  <2>1. \A s \in Request : handler'[s] # "done" => handler[s] # "done"
    BY <1>2 DEF RespawnReplace, TypeOK
  <2> QED BY <1>2, <2>1, QuietStep DEF RespawnReplace, Detach
<1>3. ASSUME NEW r \in Request, RespawnResume(r) PROVE ViewInv' /\ [View!Next]_out
  BY <1>3, HandlerEnds DEF RespawnResume, View!Next
<1>4. CASE ConsumerFrame
  BY <1>4, QuietStep DEF ConsumerFrame
<1>5. ASSUME NEW c \in Request, ChildFrame(c) PROVE ViewInv' /\ [View!Next]_out
  <2>1. CASE out' = out
    BY <1>5, <2>1, QuietStep DEF ChildFrame
  <2>2. CASE out' # out
    <3>1. /\ childT = c /\ ws = "open" /\ out' = Append(out, FrameOf(c))
          /\ UNCHANGED <<ws, childT, handler>>
      BY <1>5, <2>2 DEF ChildFrame, Send
    <3>2. /\ FrameOf(c) \in Sent /\ FrameOf(c).kind = "frame"
          /\ FrameOf(c) = View!FrameOf(c) /\ out \in Seq(Sent) /\ c # None
      BY DEF FrameOf, Sent, View!FrameOf, TypeOK
    <3>3. View!IsCurrent(out, c)
      BY <3>1, <3>2 DEF StreamInv
    <3>4. View!Frame(c)
      BY <3>1, <3>2, <3>3 DEF View!Frame
    <3>5. View!IsCurrent(out', c)
      BY <3>1, <3>2, <3>3, OthersKeepCurrent
    <3>6. \A r \in Request : handler'[r] # "done" => View!Unanswered(r)'
      BY <3>1, <3>2, OthersKeepUnanswered DEF StreamInv
    <3> QED BY <3>1, <3>4, <3>5, <3>6 DEF StreamInv, View!Next
  <2> QED BY <2>1, <2>2
<1>6. ASSUME NEW c \in Request, ChildDies(c) PROVE ViewInv' /\ [View!Next]_out
  BY <1>6, QuietStep DEF ChildDies
<1>7. ASSUME NEW c \in Request, ChildExited(c) PROVE ViewInv' /\ [View!Next]_out
  BY <1>7, QuietStep DEF ChildExited
<1>8. ASSUME NEW c \in Request, CloseStep(c) PROVE ViewInv' /\ [View!Next]_out
  BY <1>8, QuietStep DEF CloseStep, StdinEnded, TermTimeout, Killed
<1>9. CASE WsClose
  BY <1>9, QuietStep DEF WsClose, Detach
<1>10. CASE UNCHANGED vars
  BY <1>10, QuietStep DEF vars
<1> QED BY <1>1, <1>2, <1>3, <1>4, <1>5, <1>6, <1>7, <1>8, <1>9, <1>10 DEF Next

(* The bridge implements ConsumerView: whatever respawns overtake each     *)
(* other, a respawn is answered at most once and a frame on the socket is  *)
(* from the child of the last ok reply.                                    *)
THEOREM Refinement == Spec => ImplementsConsumerView
<1>1. Init => ViewInv /\ View!Init
  BY InitViewInv
<1>2. ViewInv /\ [Next]_vars => ViewInv' /\ [View!Next]_out
  BY NextViewInv
<1>3. Spec => View!Spec
  BY <1>1, <1>2, PTL DEF Spec, View!Spec
<1> QED BY <1>3 DEF ImplementsConsumerView
=============================================================================

--------------------------- MODULE RequestProofs ----------------------------
(***************************************************************************)
(* Theorems about what sends a request and waits for its answer.  Of the   *)
(* intents of ClaudeClient, for any number of requests and modes: types,   *)
(* no stranded promise, no stuck spinner, and the mode shown being the one *)
(* the binary last granted.  Of the harness of the integration tests, for  *)
(* whatever the binary says: what was captured, and what the verdict of a  *)
(* test says of it.                                                        *)
(***************************************************************************)
EXTENDS Intents, Harness, SequenceTheorems, TLAPS

USE MaxReqAssumption, NoneAssumption

LEMMA InitTypeOK == Init => TypeOK
<1> SUFFICES ASSUME Init PROVE TypeOK
  OBVIOUS
<1>1. <<>> \in Seq(Req) /\ <<>> \in Seq(Answer)
  OBVIOUS
<1> QED BY <1>1 DEF Init, TypeOK

LEMMA RegisterType ==
    ASSUME TypeOK, NEW r \in Req, Register(r)
    PROVE  /\ pending' \subseteq Req
           /\ promise' \in [Req -> {"unused", "pending", "resolved", "rejected"}]
           /\ jobs' \subseteq {"sent", "then", "catch"} \X Req
           /\ wire' \in Seq(Req)
BY DEF Register, TypeOK

LEMMA RejectAllType ==
    ASSUME TypeOK, NEW queue, queue \subseteq jobs, RejectAll(queue)
    PROVE  /\ pending' \subseteq Req
           /\ promise' \in [Req -> {"unused", "pending", "resolved", "rejected"}]
           /\ jobs' \subseteq {"sent", "then", "catch"} \X Req
BY DEF RejectAll, TypeOK

LEMMA SettleType ==
    ASSUME TypeOK, NEW r \in Req,
           NEW how \in {"resolved", "rejected"}, NEW job \in {"then", "catch"},
           Settle(r, how, job)
    PROVE  /\ pending' \subseteq Req
           /\ promise' \in [Req -> {"unused", "pending", "resolved", "rejected"}]
           /\ jobs' \subseteq {"sent", "then", "catch"} \X Req
BY DEF Settle, TypeOK

(* The answer at the head of the queue, and the queue without it.          *)
LEMMA HeadTail ==
    ASSUME NEW S, NEW q \in Seq(S), q # <<>>
    PROVE  Head(q) \in S /\ Tail(q) \in Seq(S)
OBVIOUS

LEMMA HeadAnswer ==
    ASSUME TypeOK, answers # <<>>
    PROVE  Head(answers) \in Answer /\ Head(answers).id \in Req /\ Head(answers).ok \in BOOLEAN
<1>1. Head(answers) \in Answer
  BY HeadTail DEF TypeOK
<1> QED BY <1>1 DEF Answer

LEMMA NextTypeOK == TypeOK /\ [Next]_vars => TypeOK'
<1> SUFFICES ASSUME TypeOK, [Next]_vars PROVE TypeOK'
  OBVIOUS
<1>1. ASSUME NEW r \in Req, NEW m \in Mode, SetMode(r, m) PROVE TypeOK'
  <2>1. UNCHANGED <<link, disposed, answers, granted, activeMode>>
    BY <1>1 DEF SetMode, Register
  <2> QED BY <1>1, <2>1, RegisterType DEF SetMode, TypeOK
<1>2. ASSUME NEW r \in Req, OtherIntent(r) PROVE TypeOK'
  <2>1. UNCHANGED <<link, disposed, answers, granted, wants, clientVars>>
    BY <1>2 DEF OtherIntent, Register
  <2> QED BY <1>2, <2>1, RegisterType DEF OtherIntent, TypeOK, clientVars
<1>3. CASE AbortAllIntents
  BY <1>3, RejectAllType DEF AbortAllIntents, TypeOK, clientVars, binaryVars
<1>4. CASE Dispose
  BY <1>4, RejectAllType DEF Dispose, TypeOK, clientVars, binaryVars
<1>5. ASSUME NEW r \in Req, SendFailed(r) PROVE TypeOK'
  BY <1>5, RejectAllType DEF SendFailed, TypeOK, clientVars, binaryVars
<1>6. ASSUME NEW r \in Req, Resolved(r) PROVE TypeOK'
  BY <1>6 DEF Resolved, ModeReq, TypeOK, binaryVars
<1>7. ASSUME NEW r \in Req, Rejected(r) PROVE TypeOK'
  BY <1>7 DEF Rejected, ModeReq, TypeOK, binaryVars
<1>8. ASSUME NEW r \in Req, Timeout(r) PROVE TypeOK'
  BY <1>8, SettleType DEF Timeout, TypeOK, clientVars, binaryVars
<1>9. CASE Answered
  <2>1. Head(answers) \in Answer /\ Tail(answers) \in Seq(Answer)
    BY <1>9, HeadTail DEF Answered, TypeOK
  <2>2. /\ pending' \subseteq Req
        /\ promise' \in [Req -> {"unused", "pending", "resolved", "rejected"}]
        /\ jobs' \subseteq {"sent", "then", "catch"} \X Req
    <3>1. CASE Head(answers).id \in pending /\ ~disposed
      BY <1>9, <3>1, <2>1, SettleType DEF Answered, Answer
    <3>2. CASE ~(Head(answers).id \in pending /\ ~disposed)
      BY <1>9, <3>2 DEF Answered, TypeOK
    <3> QED BY <3>1, <3>2
  <2> QED BY <1>9, <2>1, <2>2 DEF Answered, TypeOK, clientVars
<1>10. CASE LinkEnds
  BY <1>10 DEF LinkEnds, TypeOK, clientVars
<1>11. ASSUME NEW ok \in BOOLEAN, BinaryAnswers(ok) PROVE TypeOK'
  <2>1. Head(wire) \in Req /\ Tail(wire) \in Seq(Req)
    BY <1>11, HeadTail DEF BinaryAnswers, TypeOK
  <2>2. answers' \in Seq(Answer)
    BY <1>11, <2>1 DEF BinaryAnswers, TypeOK, Answer
  <2> QED BY <1>11, <2>1, <2>2 DEF BinaryAnswers, TypeOK, clientVars
<1>12. CASE UNCHANGED vars
  BY <1>12 DEF vars, TypeOK, clientVars, binaryVars
<1> QED BY <1>1, <1>2, <1>3, <1>4, <1>5, <1>6, <1>7, <1>8, <1>9, <1>10, <1>11, <1>12
        DEF Next, Call, Microtask

(* Every reachable state of the intents is well typed.                     *)
THEOREM TypeCorrect == Spec => []TypeOK
BY InitTypeOK, NextTypeOK, PTL DEF Spec

-----------------------------------------------------------------------------
(* No stranded promise.                                                    *)
LEMMA NextEntryPerPromise ==
    TypeOK /\ EntryPerPromise /\ [Next]_vars => EntryPerPromise'
<1> SUFFICES ASSUME TypeOK, EntryPerPromise, [Next]_vars PROVE EntryPerPromise'
  OBVIOUS
<1>a. ASSUME NEW r \in Req, Register(r) PROVE EntryPerPromise'
  BY <1>a DEF Register, EntryPerPromise, TypeOK
<1>b. ASSUME NEW queue, RejectAll(queue) PROVE EntryPerPromise'
  BY <1>b DEF RejectAll, EntryPerPromise, TypeOK
<1>c. ASSUME NEW r \in Req, NEW how \in {"resolved", "rejected"}, NEW job,
             Settle(r, how, job)
      PROVE  EntryPerPromise'
  BY <1>c DEF Settle, EntryPerPromise, TypeOK
<1>1. ASSUME NEW r \in Req, SendFailed(r) \/ Resolved(r) \/ Rejected(r)
      PROVE  EntryPerPromise'
  BY <1>1, <1>b DEF SendFailed, Resolved, Rejected, EntryPerPromise
<1>2. CASE Answered
  <2>1. Head(answers).id \in Req
    BY <1>2, HeadAnswer DEF Answered
  <2> QED BY <1>2, <1>c, <2>1 DEF Answered, EntryPerPromise
<1>3. ASSUME NEW r \in Req, Timeout(r) PROVE EntryPerPromise'
  BY <1>3, <1>c DEF Timeout
<1>4. CASE AbortAllIntents \/ Dispose
  BY <1>4, <1>b DEF AbortAllIntents, Dispose
<1>5. ASSUME NEW r \in Req, (\E m \in Mode : SetMode(r, m)) \/ OtherIntent(r)
      PROVE  EntryPerPromise'
  BY <1>5, <1>a DEF SetMode, OtherIntent
<1>6. ASSUME LinkEnds \/ (\E ok \in BOOLEAN : BinaryAnswers(ok)) \/ UNCHANGED vars
      PROVE  EntryPerPromise'
  BY <1>6 DEF LinkEnds, BinaryAnswers, vars, EntryPerPromise
<1> QED BY <1>1, <1>2, <1>3, <1>4, <1>5, <1>6 DEF Next, Call, Microtask

(* A promise the client has not settled always has its entry and timer in  *)
(* the correlator, and an entry never outlives its promise.                *)
THEOREM EntryPerPromiseHolds == Spec => []EntryPerPromise
<1>1. Init => TypeOK /\ EntryPerPromise
  BY InitTypeOK DEF Init, EntryPerPromise
<1>2. TypeOK /\ EntryPerPromise /\ [Next]_vars => TypeOK' /\ EntryPerPromise'
  BY NextTypeOK, NextEntryPerPromise
<1> QED BY <1>1, <1>2, PTL DEF Spec

-----------------------------------------------------------------------------
(* No stuck spinner: a pending mode belongs to a change that waits, or     *)
(* whose continuation is about to clear it.                                *)
UnderWay(r) ==
    /\ ModeReq(r)
    /\ promise[r] = "pending" \/ <<"then", r>> \in jobs \/ <<"catch", r>> \in jobs

SpinnerInv ==
    /\ TypeOK /\ EntryPerPromise
    /\ pendingMode # None => \E r \in Req : UnderWay(r)

LEMMA NextSpinnerInv == SpinnerInv /\ [Next]_vars => SpinnerInv'
<1> SUFFICES ASSUME SpinnerInv, [Next]_vars PROVE SpinnerInv'
  OBVIOUS
<1>0. TypeOK /\ TypeOK' /\ EntryPerPromise /\ EntryPerPromise'
  BY NextTypeOK, NextEntryPerPromise DEF SpinnerInv
<1>a. ASSUME pendingMode' = None \/ (pendingMode' = pendingMode /\
                 \A q \in Req : UnderWay(q) => UnderWay(q)')
      PROVE  SpinnerInv'
  BY <1>0, <1>a DEF SpinnerInv
<1>b. ASSUME NEW queue, RejectAll(queue), {j \in jobs : j[1] # "sent"} \subseteq queue,
             UNCHANGED <<wants, pendingMode>>
      PROVE  SpinnerInv'
  <2>1. ASSUME NEW q \in Req, UnderWay(q) PROVE UnderWay(q)'
    <3>1. <<"then", q>> \in jobs => <<"then", q>> \in jobs'
      BY <1>b DEF RejectAll
    <3>2. <<"catch", q>> \in jobs => <<"catch", q>> \in jobs'
      BY <1>b DEF RejectAll
    <3>3. promise[q] = "pending" => <<"catch", q>> \in jobs'
      BY <1>b, <1>0 DEF RejectAll, EntryPerPromise
    <3> QED BY <1>b, <2>1, <3>1, <3>2, <3>3 DEF UnderWay, ModeReq
  <2> QED BY <1>a, <1>b, <2>1
<1>c. ASSUME NEW r \in Req,
             \/ Settle(r, "resolved", "then")
             \/ Settle(r, "rejected", "catch"),
             UNCHANGED <<wants, pendingMode>>
      PROVE  SpinnerInv'
  <2>1. ASSUME NEW q \in Req, UnderWay(q) PROVE UnderWay(q)'
    BY <1>c, <2>1, <1>0 DEF UnderWay, ModeReq, Settle, TypeOK
  <2> QED BY <1>a, <1>c, <2>1
<1>1. ASSUME NEW r \in Req, NEW m \in Mode, SetMode(r, m) PROVE SpinnerInv'
  <2>1. ModeReq(r)' /\ promise'[r] = "pending"
    BY <1>0, <1>1 DEF SetMode, Register, ModeReq, TypeOK
  <2>2. UnderWay(r)'
    BY <2>1 DEF UnderWay
  <2> QED BY <1>0, <2>2 DEF SpinnerInv
<1>2. ASSUME NEW r \in Req, OtherIntent(r) PROVE SpinnerInv'
  <2>1. ASSUME NEW q \in Req, UnderWay(q) PROVE UnderWay(q)'
    BY <1>0, <1>2, <2>1 DEF UnderWay, ModeReq, OtherIntent, Register, TypeOK
  <2> QED BY <1>a, <1>2, <2>1 DEF OtherIntent, clientVars
<1>3. CASE AbortAllIntents \/ Dispose
  BY <1>3, <1>b DEF AbortAllIntents, Dispose, clientVars
<1>4. ASSUME NEW r \in Req, SendFailed(r) PROVE SpinnerInv'
  BY <1>4, <1>b DEF SendFailed, clientVars
<1>5. ASSUME NEW r \in Req, Resolved(r) \/ Rejected(r) PROVE SpinnerInv'
  <2>1. CASE ModeReq(r)
    BY <1>a, <1>5, <2>1 DEF Resolved, Rejected
  <2>2. CASE ~ModeReq(r)
    <3>1. ASSUME NEW q \in Req, UnderWay(q) PROVE UnderWay(q)'
      <4>1. q # r
        BY <2>2, <3>1 DEF UnderWay
      <4> QED BY <1>5, <3>1, <4>1 DEF Resolved, Rejected, UnderWay, ModeReq
    <3>2. pendingMode' = pendingMode
      BY <1>5, <2>2 DEF Resolved, Rejected
    <3> QED BY <1>a, <3>1, <3>2
  <2> QED BY <2>1, <2>2
<1>6. ASSUME NEW r \in Req, Timeout(r) PROVE SpinnerInv'
  BY <1>6, <1>c DEF Timeout, clientVars
<1>7. CASE Answered
  <2>1. Head(answers).id \in Req
    BY <1>7, <1>0, HeadAnswer DEF Answered
  <2>2. CASE Head(answers).id \in pending /\ ~disposed
    BY <1>7, <1>c, <2>1, <2>2 DEF Answered, clientVars
  <2>3. CASE ~(Head(answers).id \in pending /\ ~disposed)
    BY <1>7, <1>a, <2>3 DEF Answered, clientVars, UnderWay, ModeReq
  <2> QED BY <2>2, <2>3
<1>8. ASSUME LinkEnds \/ (\E ok \in BOOLEAN : BinaryAnswers(ok)) \/ UNCHANGED vars
      PROVE  SpinnerInv'
  BY <1>8, <1>a DEF LinkEnds, BinaryAnswers, vars, clientVars, UnderWay, ModeReq
<1> QED BY <1>1, <1>2, <1>3, <1>4, <1>5, <1>6, <1>7, <1>8 DEF Next, Call, Microtask

(* Once no mode change waits and the continuations have run, no mode is    *)
(* pending, however many changes overlapped and however each ended.        *)
THEOREM NoStuckSpinnerHolds == Spec => []NoStuckSpinner
<1>1. Init => SpinnerInv
  BY InitTypeOK DEF Init, SpinnerInv, EntryPerPromise
<1>2. SpinnerInv => NoStuckSpinner
  BY DEF SpinnerInv, NoStuckSpinner, UnderWay
<1> QED BY <1>1, <1>2, NextSpinnerInv, PTL DEF Spec

-----------------------------------------------------------------------------
(* The last grant is the mode shown.  A request is on its way once, to the *)
(* binary or back, and is not resolved before its answer has arrived.      *)
Travelling ==
    /\ \A i \in 1 .. Len(wire) : promise[wire[i]] \notin {"unused", "resolved"}
    /\ \A i \in 1 .. Len(answers) : promise[answers[i].id] \notin {"unused", "resolved"}
    /\ \A i, j \in 1 .. Len(wire) : wire[i] = wire[j] => i = j
    /\ \A i, j \in 1 .. Len(answers) : answers[i].id = answers[j].id => i = j
    /\ \A i \in 1 .. Len(wire), j \in 1 .. Len(answers) : wire[i] # answers[j].id

(* Answers keep the order of the grants: one that tells of an earlier      *)
(* grant is ahead of the one that tells of the last.                       *)
InOrder ==
    \A i \in 1 .. Len(answers) :
        answers[i].ok /\ ModeReq(answers[i].id) /\ answers[i].id # granted
        => \E j \in (i + 1) .. Len(answers) : answers[j].id = granted

(* Once the client was told of the last grant, it shows it or is about to, *)
(* and no other change is about to be shown.                               *)
Shown ==
    granted # None /\ promise[granted] = "resolved" =>
        /\ \A r \in Req : <<"then", r>> \in jobs /\ ModeReq(r) => r = granted
        /\ activeMode = wants[granted] \/ <<"then", granted>> \in jobs

GrantInv ==
    /\ TypeOK /\ Travelling /\ InOrder /\ Shown
    /\ granted # None => ModeReq(granted) /\ promise[granted] # "unused"
    /\ \A r \in Req : <<"then", r>> \in jobs => promise[r] = "resolved"
    /\ \A r \in Req : promise[r] = "pending" <=> r \in pending

LEMMA AppendElt ==
    ASSUME NEW S, NEW q \in Seq(S), NEW e \in S
    PROVE  /\ Len(Append(q, e)) = Len(q) + 1
           /\ Append(q, e)[Len(q) + 1] = e
           /\ \A i \in 1 .. Len(q) : Append(q, e)[i] = q[i]
           /\ Len(q) \in Nat
OBVIOUS

LEMMA TailElt ==
    ASSUME NEW S, NEW q \in Seq(S), q # <<>>
    PROVE  /\ Len(Tail(q)) = Len(q) - 1 /\ Len(q) \in Nat \ {0}
           /\ Head(q) = q[1]
           /\ \A i \in 1 .. Len(Tail(q)) : Tail(q)[i] = q[i + 1]
OBVIOUS

LEMMA Elements ==
    ASSUME TypeOK
    PROVE  /\ wire \in Seq(Req) /\ Len(wire) \in Nat /\ Len(answers) \in Nat
           /\ \A i \in 1 .. Len(wire) : wire[i] \in Req
           /\ \A i \in 1 .. Len(answers) : answers[i].id \in Req
<1>1. /\ wire \in Seq(Req) /\ Len(wire) \in Nat /\ Len(answers) \in Nat
      /\ \A i \in 1 .. Len(wire) : wire[i] \in Req
      /\ \A i \in 1 .. Len(answers) : answers[i] \in Answer
  BY DEF TypeOK
<1>2. \A i \in 1 .. Len(answers) : answers[i].id \in Req
  BY <1>1 DEF Answer
<1> QED BY <1>1, <1>2

(* A step that moves no request, resolves none and shows nothing new.      *)
LEMMA NothingMoves ==
    ASSUME GrantInv, TypeOK', UNCHANGED <<wire, answers, granted, wants, activeMode>>,
           \A r \in Req : promise[r] # promise'[r] => promise[r] = "pending"
                                                   /\ promise'[r] = "rejected",
           \A r \in Req : promise'[r] = "pending" <=> r \in pending',
           \A r \in Req : <<"then", r>> \in jobs' <=> <<"then", r>> \in jobs
    PROVE  GrantInv'
<1>1. /\ \A i \in 1 .. Len(wire) : wire[i] \in Req
      /\ \A i \in 1 .. Len(answers) : answers[i].id \in Req
  BY Elements DEF GrantInv
<1>3. Travelling'
  BY <1>1 DEF GrantInv, Travelling
<1>4. InOrder'
  BY DEF GrantInv, InOrder, ModeReq
<1>5. Shown'
  BY DEF GrantInv, TypeOK, Shown, ModeReq
<1> QED BY <1>3, <1>4, <1>5 DEF GrantInv, TypeOK, ModeReq

(* A new request joins the end of the wire, if it goes anywhere.           *)
LEMMA RegisterGrantInv ==
    ASSUME GrantInv, TypeOK', NEW r \in Req, Register(r), activeMode' = activeMode,
           \A q \in Req \ {r} : wants'[q] = wants[q]
    PROVE  GrantInv'
<1>1. /\ wire \in Seq(Req) /\ Len(wire) \in Nat /\ Len(answers) \in Nat
      /\ \A i \in 1 .. Len(wire) : wire[i] \in Req /\ wire[i] # r
      /\ \A i \in 1 .. Len(answers) : answers[i].id \in Req /\ answers[i].id # r
  BY Elements DEF GrantInv, Register, Travelling
<1>2. /\ answers' = answers /\ granted' = granted
      /\ promise' = [promise EXCEPT ![r] = "pending"] /\ pending' = pending \cup {r}
      /\ promise[r] = "unused"
      /\ \A q \in Req : <<"then", q>> \in jobs' <=> <<"then", q>> \in jobs
  BY DEF Register
<1>3. \/ wire' = wire
      \/ /\ Len(wire') = Len(wire) + 1 /\ wire'[Len(wire) + 1] = r
         /\ \A i \in 1 .. Len(wire) : wire'[i] = wire[i]
  BY <1>1, AppendElt DEF Register
<1>4. Travelling'
  <2>1. CASE wire' = wire
    BY <1>1, <1>2, <2>1 DEF GrantInv, TypeOK, Travelling
  <2>2. CASE wire' # wire
    <3>1. \A i \in 1 .. Len(wire') : i \in 1 .. Len(wire) \/ i = Len(wire) + 1
      BY <1>1, <1>3, <2>2
    <3>a. /\ Travelling
          /\ promise'[r] = "pending" /\ \A q \in Req \ {r} : promise'[q] = promise[q]
      BY <1>2 DEF GrantInv, TypeOK
    <3>b. \A i \in 1 .. Len(wire) : promise'[wire[i]] \notin {"unused", "resolved"}
      BY <1>1, <3>a DEF Travelling
    <3>c. \A i \in 1 .. Len(answers) : promise'[answers[i].id] \notin {"unused", "resolved"}
      BY <1>1, <3>a DEF Travelling
    <3>2. \A i \in 1 .. Len(wire') : promise'[wire'[i]] \notin {"unused", "resolved"}
      <4> SUFFICES ASSUME NEW i \in 1 .. Len(wire')
                   PROVE  promise'[wire'[i]] \notin {"unused", "resolved"}
        OBVIOUS
      <4>1. CASE i \in 1 .. Len(wire)
        BY <1>3, <2>2, <3>b, <4>1
      <4>2. CASE i = Len(wire) + 1
        BY <1>3, <2>2, <3>a, <4>2
      <4> QED BY <3>1, <4>1, <4>2
    <3>3. \A i, j \in 1 .. Len(wire') : wire'[i] = wire'[j] => i = j
      BY <1>1, <1>3, <2>2, <3>1 DEF GrantInv, Travelling
    <3>4. \A i \in 1 .. Len(wire'), j \in 1 .. Len(answers) : wire'[i] # answers[j].id
      BY <1>1, <1>3, <2>2, <3>1 DEF GrantInv, Travelling
    <3> QED BY <1>2, <3>a, <3>c, <3>2, <3>3, <3>4 DEF Travelling
  <2> QED BY <2>1, <2>2
<1>5. InOrder'
  BY <1>1, <1>2 DEF GrantInv, TypeOK, InOrder, ModeReq
<1>6. Shown'
  BY <1>2 DEF GrantInv, TypeOK, Shown, ModeReq
<1> QED BY <1>2, <1>4, <1>5, <1>6 DEF GrantInv, TypeOK, ModeReq

(* An answer arrives.                                                      *)
LEMMA AnsweredGrantInv ==
    ASSUME GrantInv, TypeOK', Answered
    PROVE  GrantInv'
<1> DEFINE a == Head(answers)
<1>1. /\ a.id \in Req /\ a = answers[1] /\ 1 \in 1 .. Len(answers)
      /\ Len(answers') = Len(answers) - 1
      /\ \A i \in 1 .. Len(answers') : i + 1 \in 1 .. Len(answers) /\ answers'[i] = answers[i + 1]
      /\ Len(answers) \in Nat
  <2>1. answers \in Seq(Answer) /\ answers # <<>>
    BY DEF GrantInv, TypeOK, Answered
  <2>2. answers' = Tail(answers)
    BY DEF Answered
  <2> QED BY <2>1, <2>2, TailElt, HeadAnswer DEF GrantInv
<1>2. /\ \A i \in 1 .. Len(answers') : answers'[i].id \in Req /\ answers'[i].id # a.id
      /\ \A i \in 1 .. Len(wire) : wire[i] \in Req /\ wire[i] # a.id
  BY <1>1, Elements DEF GrantInv, Travelling
<1>3. /\ wire' = wire /\ granted' = granted /\ wants' = wants /\ activeMode' = activeMode
      /\ jobs = {}
  BY DEF Answered, clientVars
<1>4. /\ \A q \in Req \ {a.id} : promise'[q] = promise[q]
      /\ promise[a.id] # "unused" => promise'[a.id] # "unused"
      /\ \A q \in Req : promise'[q] = "pending" <=> q \in pending'
      /\ \A q \in Req : <<"then", q>> \in jobs' => q = a.id /\ a.ok /\ promise'[q] = "resolved"
      /\ \/ promise'[a.id] = promise[a.id]
         \/ promise'[a.id] = "rejected"
         \/ promise'[a.id] = "resolved" /\ a.ok /\ <<"then", a.id>> \in jobs'
  <2>1. CASE a.id \in pending /\ ~disposed
    <3>1. PICK how \in {"resolved", "rejected"}, job \in {"then", "catch"} :
             /\ Settle(a.id, how, job)
             /\ how = "resolved" <=> job = "then"
             /\ job = "then" => a.ok
      BY <2>1 DEF Answered
    <3>2. /\ promise'[a.id] = how /\ \A q \in Req \ {a.id} : promise'[q] = promise[q]
          /\ pending' = pending \ {a.id} /\ jobs' = {<<job, a.id>>}
      BY <1>1, <1>3, <3>1 DEF GrantInv, TypeOK, Settle
    <3>3. \A q \in Req : promise[q] = "pending" <=> q \in pending
      BY DEF GrantInv
    <3> QED BY <1>1, <3>1, <3>2, <3>3
  <2>2. CASE ~(a.id \in pending /\ ~disposed)
    BY <1>1, <1>3, <2>2 DEF GrantInv, Answered
  <2> QED BY <2>1, <2>2
<1>5. Travelling'
  <2>1. \A i \in 1 .. Len(wire) : promise'[wire[i]] \notin {"unused", "resolved"}
    BY <1>2, <1>4 DEF GrantInv, Travelling
  <2>2. \A i \in 1 .. Len(answers') : promise'[answers'[i].id] \notin {"unused", "resolved"}
    BY <1>1, <1>2, <1>4 DEF GrantInv, Travelling
  <2>3. \A i, j \in 1 .. Len(answers') : answers'[i].id = answers'[j].id => i = j
    BY <1>1, SMTT(30) DEF GrantInv, Travelling
  <2>4. \A i \in 1 .. Len(wire), j \in 1 .. Len(answers') : wire[i] # answers'[j].id
    BY <1>1 DEF GrantInv, Travelling
  <2> QED BY <1>3, <2>1, <2>2, <2>3, <2>4 DEF GrantInv, Travelling
<1>6. InOrder'
  <2> SUFFICES ASSUME NEW i \in 1 .. Len(answers'),
                      answers'[i].ok, ModeReq(answers'[i].id), answers'[i].id # granted'
               PROVE  \E j \in (i + 1) .. Len(answers') : answers'[j].id = granted'
    BY <1>3 DEF InOrder, ModeReq
  <2>a. i + 1 \in 1 .. Len(answers) /\ answers'[i] = answers[i + 1]
    BY <1>1
  <2>1. PICK k \in (i + 1 + 1) .. Len(answers) : answers[k].id = granted
    BY <1>3, <2>a DEF GrantInv, InOrder
  <2>2. k - 1 \in (i + 1) .. Len(answers') /\ answers'[k - 1] = answers[k]
    BY <1>1, <2>1
  <2> QED BY <1>3, <2>1, <2>2
<1>7. Shown'
  <2> SUFFICES ASSUME granted # None, promise'[granted] = "resolved"
               PROVE  /\ \A r \in Req : <<"then", r>> \in jobs' /\ ModeReq(r) => r = granted
                      /\ activeMode = wants[granted] \/ <<"then", granted>> \in jobs'
    BY <1>3 DEF Shown, ModeReq
  <2>0. granted \in Req
    BY DEF GrantInv, TypeOK
  <2>1. CASE promise[granted] = "resolved"
    <3>1. activeMode = wants[granted]
      BY <1>3, <2>1 DEF GrantInv, Shown
    <3>2. ~(a.ok /\ ModeReq(a.id) /\ a.id # granted)
      <4>1. \A j \in 1 .. Len(answers) : answers[j].id # granted
        BY <2>1 DEF GrantInv, Travelling
      <4>2. ASSUME a.ok, ModeReq(a.id), a.id # granted PROVE FALSE
        <5>1. PICK j \in 2 .. Len(answers) : answers[j].id = granted
          BY <1>1, <4>2 DEF GrantInv, InOrder
        <5>2. j \in 1 .. Len(answers)
          BY <1>1
        <5> QED BY <4>1, <5>1, <5>2
      <4> QED BY <4>2
    <3> QED BY <1>4, <3>1, <3>2
  <2>2. CASE promise[granted] # "resolved"
    <3>1. granted = a.id /\ <<"then", a.id>> \in jobs'
      BY <1>4, <2>0, <2>2
    <3> QED BY <1>4, <3>1
  <2> QED BY <2>1, <2>2
<1>8. granted # None => ModeReq(granted) /\ promise'[granted] # "unused"
  BY <1>4 DEF GrantInv, TypeOK
<1> QED BY <1>3, <1>4, <1>5, <1>6, <1>7, <1>8 DEF GrantInv, ModeReq

(* The binary answers its oldest request.                                  *)
LEMMA BinaryGrantInv ==
    ASSUME GrantInv, TypeOK', NEW ok \in BOOLEAN, BinaryAnswers(ok)
    PROVE  GrantInv'
<1> DEFINE r == Head(wire)
           n == Len(answers) + 1
<1>1. /\ r \in Req /\ r = wire[1] /\ 1 \in 1 .. Len(wire)
      /\ Len(wire') = Len(wire) - 1 /\ Len(wire) \in Nat
      /\ \A i \in 1 .. Len(wire') : i + 1 \in 1 .. Len(wire) /\ wire'[i] = wire[i + 1]
  <2>1. wire \in Seq(Req) /\ wire # <<>> /\ wire' = Tail(wire)
    BY DEF GrantInv, TypeOK, BinaryAnswers
  <2>2. Head(wire) \in Req
    BY <2>1
  <2> QED BY <2>1, <2>2, TailElt
<1>2. /\ Len(answers') = n /\ Len(answers) \in Nat
      /\ answers'[n].id = r /\ answers'[n].ok = ok
      /\ \A i \in 1 .. Len(answers) : answers'[i] = answers[i]
      /\ \A i \in 1 .. Len(answers') : i \in 1 .. Len(answers) \/ i = n
  <2>1. answers \in Seq(Answer) /\ [id |-> r, ok |-> ok] \in Answer
    BY <1>1 DEF GrantInv, TypeOK, Answer
  <2>2. answers' = Append(answers, [id |-> r, ok |-> ok])
    BY DEF BinaryAnswers
  <2> QED BY <2>1, <2>2, AppendElt
<1>3. /\ UNCHANGED <<promise, pending, wants, jobs, activeMode>>
      /\ granted' = IF ok /\ ModeReq(r) THEN r ELSE granted
  BY DEF BinaryAnswers, clientVars
<1>4. \A i \in 1 .. Len(answers) : answers[i].id # r
  BY <1>1 DEF GrantInv, Travelling
<1>5. promise[r] \notin {"unused", "resolved"}
  BY <1>1 DEF GrantInv, Travelling
<1>6. Travelling'
  <2>1. \A i \in 1 .. Len(wire') : promise[wire'[i]] \notin {"unused", "resolved"}
    BY <1>1, SMTT(30) DEF GrantInv, Travelling
  <2>2. \A i \in 1 .. Len(answers') : promise[answers'[i].id] \notin {"unused", "resolved"}
    BY <1>2, <1>5 DEF GrantInv, Travelling
  <2>3. \A i, j \in 1 .. Len(wire') : wire'[i] = wire'[j] => i = j
    BY <1>1 DEF GrantInv, Travelling
  <2>4. \A i, j \in 1 .. Len(answers') : answers'[i].id = answers'[j].id => i = j
    BY <1>2, <1>4 DEF GrantInv, Travelling
  <2>5. \A i \in 1 .. Len(wire'), j \in 1 .. Len(answers') : wire'[i] # answers'[j].id
    <3>1. \A i \in 1 .. Len(wire') : wire'[i] # r
      BY <1>1 DEF GrantInv, Travelling
    <3>2. \A i \in 1 .. Len(wire'), j \in 1 .. Len(answers) : wire'[i] # answers[j].id
      BY <1>1 DEF GrantInv, Travelling
    <3> SUFFICES ASSUME NEW i \in 1 .. Len(wire'), NEW j \in 1 .. Len(answers')
                 PROVE  wire'[i] # answers'[j].id
      OBVIOUS
    <3>3. CASE j \in 1 .. Len(answers)
      BY <1>2, <3>2, <3>3
    <3>4. CASE j = n
      BY <1>2, <3>1, <3>4
    <3> QED BY <1>2, <3>3, <3>4
  <2> QED BY <1>3, <2>1, <2>2, <2>3, <2>4, <2>5 DEF Travelling
<1>7. InOrder'
  <2> SUFFICES ASSUME NEW i \in 1 .. Len(answers'),
                      answers'[i].ok, ModeReq(answers'[i].id), answers'[i].id # granted'
               PROVE  \E j \in (i + 1) .. Len(answers') : answers'[j].id = granted'
    BY <1>3 DEF InOrder, ModeReq
  <2>1. i \in 1 .. Len(answers)
    BY <1>2, <1>3
  <2>2. CASE ok /\ ModeReq(r)
    BY <1>2, <1>3, <2>1, <2>2
  <2>3. CASE ~(ok /\ ModeReq(r))
    <3>1. PICK j \in (i + 1) .. Len(answers) : answers[j].id = granted
      BY <1>2, <1>3, <2>1, <2>3 DEF GrantInv, InOrder
    <3>2. j \in (i + 1) .. Len(answers') /\ answers'[j] = answers[j]
      BY <1>2, <2>1, <3>1
    <3> QED BY <1>3, <2>3, <3>1, <3>2
  <2> QED BY <2>2, <2>3
<1>8. Shown'
  BY <1>3, <1>5 DEF GrantInv, Shown, ModeReq
<1> QED BY <1>1, <1>3, <1>5, <1>6, <1>7, <1>8 DEF GrantInv, ModeReq

LEMMA NextGrantInv == GrantInv /\ [Next]_vars => GrantInv'
<1> SUFFICES ASSUME GrantInv, [Next]_vars PROVE GrantInv'
  OBVIOUS
<1>0. TypeOK /\ TypeOK'
  BY NextTypeOK DEF GrantInv
<1>a. ASSUME NEW queue, queue \subseteq jobs, \A q \in Req : <<"then", q>> \in jobs => <<"then", q>> \in queue,
             RejectAll(queue), UNCHANGED <<wire, answers, granted, wants, activeMode>>
      PROVE  GrantInv'
  <2>1. \A r \in Req : promise[r] # promise'[r] => promise[r] = "pending" /\ promise'[r] = "rejected"
    BY <1>0, <1>a DEF RejectAll, GrantInv, TypeOK
  <2>2. \A r \in Req : promise'[r] = "pending" <=> r \in pending'
    BY <1>0, <1>a DEF RejectAll, GrantInv, TypeOK
  <2>3. \A r \in Req : <<"then", r>> \in jobs' <=> <<"then", r>> \in jobs
    BY <1>a DEF RejectAll
  <2> QED BY <1>0, <1>a, <2>1, <2>2, <2>3, NothingMoves
<1>1. ASSUME NEW r \in Req, NEW m \in Mode, SetMode(r, m) PROVE GrantInv'
  BY <1>0, <1>1, RegisterGrantInv DEF SetMode, GrantInv, TypeOK
<1>2. ASSUME NEW r \in Req, OtherIntent(r) PROVE GrantInv'
  BY <1>0, <1>2, RegisterGrantInv DEF OtherIntent, clientVars
<1>3. CASE AbortAllIntents \/ Dispose
  BY <1>3, <1>a DEF AbortAllIntents, Dispose, clientVars, binaryVars
<1>4. ASSUME NEW r \in Req, SendFailed(r) PROVE GrantInv'
  BY <1>4, <1>a DEF SendFailed, clientVars, binaryVars
<1>5. ASSUME NEW r \in Req, Resolved(r) PROVE GrantInv'
  <2>1. /\ UNCHANGED <<pending, promise, wants, wire, answers, granted>>
        /\ jobs' = jobs \ {<<"then", r>>} /\ <<"then", r>> \in jobs
        /\ activeMode' = IF ModeReq(r) THEN wants[r] ELSE activeMode
    BY <1>5 DEF Resolved, binaryVars
  <2>2. Travelling' /\ InOrder'
    BY <2>1 DEF GrantInv, Travelling, InOrder, ModeReq
  <2>3. Shown'
    BY <2>1 DEF GrantInv, Shown, ModeReq
  <2> QED BY <1>0, <2>1, <2>2, <2>3 DEF GrantInv, ModeReq
<1>6. ASSUME NEW r \in Req, Rejected(r) PROVE GrantInv'
  BY <1>0, <1>6, NothingMoves DEF Rejected, binaryVars, GrantInv
<1>7. ASSUME NEW r \in Req, Timeout(r) PROVE GrantInv'
  <2>1. Settle(r, "rejected", "catch") /\ r \in pending
    BY <1>7 DEF Timeout
  <2>2. UNCHANGED <<wire, answers, granted, wants, activeMode>>
    BY <1>7 DEF Timeout, clientVars, binaryVars
  <2>3. \A q \in Req : promise[q] # promise'[q] => promise[q] = "pending" /\ promise'[q] = "rejected"
    BY <1>0, <2>1 DEF Settle, GrantInv, TypeOK
  <2>4. \A q \in Req : promise'[q] = "pending" <=> q \in pending'
    BY <1>0, <2>1 DEF Settle, GrantInv, TypeOK
  <2>5. \A q \in Req : <<"then", q>> \in jobs' <=> <<"then", q>> \in jobs
    BY <2>1 DEF Settle
  <2> QED BY <1>0, <2>2, <2>3, <2>4, <2>5, NothingMoves
<1>8. CASE Answered
  BY <1>0, <1>8, AnsweredGrantInv
<1>9. CASE LinkEnds
  <2>1. Len(wire') = 0 /\ Len(answers') = 0
    BY <1>9 DEF LinkEnds
  <2>2. UNCHANGED <<pending, promise, wants, jobs, activeMode, granted>>
    BY <1>9 DEF LinkEnds, clientVars
  <2>3. Travelling' /\ InOrder'
    BY <2>1 DEF Travelling, InOrder
  <2> QED BY <1>0, <2>2, <2>3 DEF GrantInv, Shown, ModeReq
<1>10. ASSUME NEW ok \in BOOLEAN, BinaryAnswers(ok) PROVE GrantInv'
  BY <1>0, <1>10, BinaryGrantInv
<1>11. CASE UNCHANGED vars
  BY <1>0, <1>11, NothingMoves DEF vars, clientVars, binaryVars, GrantInv
<1> QED BY <1>1, <1>2, <1>3, <1>4, <1>5, <1>6, <1>7, <1>8, <1>9, <1>10, <1>11
        DEF Next, Call, Microtask

LEMMA InitGrantInv == Init => GrantInv
<1> SUFFICES ASSUME Init PROVE GrantInv
  OBVIOUS
<1>1. Len(wire) = 0 /\ Len(answers) = 0
  BY DEF Init
<1>2. Travelling /\ InOrder
  BY <1>1 DEF Travelling, InOrder
<1> QED BY <1>2, InitTypeOK DEF Init, GrantInv, Shown

(* When the client was told of the binary's last mode change, the mode it  *)
(* shows is the binary's, whatever was aborted, overlapped or timed out.   *)
THEOREM LastGrantShownHolds == Spec => []LastGrantShown
<1>1. GrantInv => LastGrantShown
  BY DEF GrantInv, Shown, LastGrantShown
<1> QED BY <1>1, InitGrantInv, NextGrantInv, PTL DEF Spec

-----------------------------------------------------------------------------
(* The harness of the integration tests.                                   *)
Said == [kind : Kinds, to : Nat]
Prefix(p, q) == Len(p) <= Len(q) /\ \A i \in DOMAIN p : i \in DOMAIN q /\ p[i] = q[i]
Places == {"step", "wait", "grace", "term", "exit", "ended", "assert", "concluded", "crashed"}

HarnessTyped ==
  /\ test \in TESTS /\ at \in Places
  /\ said \in Seq(Said) /\ pipe \in Seq(Said) /\ frames \in Seq(Said)
  /\ pass \in BOOLEAN /\ threw \in BOOLEAN

(* What was read and what was not yet are what was said, and nothing that  *)
(* the scan stops was captured.                                            *)
StreamInv ==
  /\ Prefix(frames, said)
  /\ at # "crashed" => frames \o pipe = said
  /\ \A i \in DOMAIN frames : frames[i].kind # "leak"

(* The runner goes on from kill() only once it heard of the exit.          *)
EndInv ==
  /\ exitHeard => child = "exited"
  /\ at \in {"grace", "term", "exit"} => killed
  /\ at \in {"ended", "assert", "concluded"} => killed /\ exitHeard

(* Every wait passed was met; and a test that did not throw passed all.    *)
Met(i) == test.steps[i].kind = "wait_for" =>
            \E j \in DOMAIN frames : pred(test.steps[i].predicate, frames[j])
StepInv ==
  /\ step \in 1 .. Len(test.steps) + 1
  /\ \A i \in 1 .. step - 1 : Met(i)
  /\ at = "wait" => step <= Len(test.steps)
  /\ at \notin {"step", "wait", "crashed"} /\ ~threw => step = Len(test.steps) + 1

(* The fixture and the verdict are made of what was captured.              *)
VerdictInv ==
  /\ written # NoFixture =>
       /\ written \in Seq(Said) /\ Prefix(written, frames)
       /\ ~threw /\ at \in {"assert", "concluded", "crashed"}
  /\ at = "assert" => ~threw
  /\ at = "concluded" /\ pass => ~threw /\ test.expected \subseteq Observed /\ "odd" \notin Observed

HarnessInv == HarnessTyped /\ StreamInv /\ EndInv /\ StepInv /\ VerdictInv

LEMMA BeginningOf ==
  ASSUME NEW T, NEW p \in Seq(T), NEW q \in Seq(T), Prefix(p, q)
  PROVE  IsPrefix(p, q)
<1>1. Len(p) \in Nat /\ Len(q) \in Nat /\ DOMAIN p = 1 .. Len(p) /\ DOMAIN q = 1 .. Len(q)
  OBVIOUS
<1>2. /\ Len(p) <= Len(q) /\ 1 \in Int /\ Len(p) \in Int
      /\ \A i \in 1 .. Len(p) : p[i] \in T /\ q[i] \in T /\ p[i] = q[i]
  BY <1>1 DEF Prefix
<1> DEFINE a == SubSeq(p, 1, Len(p))
           b == SubSeq(q, 1, Len(p))
           n == IF 1 <= Len(p) THEN Len(p) - 1 + 1 ELSE 0
<1>3. a \in Seq(T) /\ Len(a) = n /\ \A i \in 1 .. Len(p) - 1 + 1 : a[i] = p[1 + i - 1]
  BY <1>2, SubSeqProperties
<1>4. b \in Seq(T) /\ Len(b) = n /\ \A i \in 1 .. Len(p) - 1 + 1 : b[i] = q[1 + i - 1]
  BY <1>2, SubSeqProperties
<1> HIDE DEF a, b
<1>5. \A i \in 1 .. Len(p) : a[i] = p[i] /\ b[i] = q[i]
  <2> SUFFICES ASSUME NEW i \in 1 .. Len(p) PROVE a[i] = p[i] /\ b[i] = q[i]
    OBVIOUS
  <2>1. 1 + i - 1 = i /\ i \in 1 .. Len(p) - 1 + 1
    BY <1>1
  <2> QED BY <1>3, <1>4, <2>1
<1>6. Len(a) = Len(b) /\ \A i \in 1 .. Len(a) : a[i] = b[i]
  BY <1>1, <1>2, <1>3, <1>4, <1>5
<1>7. a = b
  BY <1>3, <1>4, <1>6, SeqEqual
<1> QED BY <1>2, <1>7 DEF IsPrefix, a, b

LEMMA ReadOne ==
  ASSUME NEW T, NEW p \in Seq(T), NEW q \in Seq(T), q # <<>>
  PROVE  /\ Head(q) \in T /\ Tail(q) \in Seq(T) /\ Append(p, Head(q)) \in Seq(T)
         /\ Append(p, Head(q)) \o Tail(q) = p \o q
         /\ Prefix(p, Append(p, Head(q))) /\ Prefix(Append(p, Head(q)), p \o q)
<1>1. Head(q) \in T /\ Tail(q) \in Seq(T) /\ <<Head(q)>> \in Seq(T)
  BY HeadTailProperties
<1>2. Append(p, Head(q)) = p \o <<Head(q)>> /\ <<Head(q)>> \o Tail(q) = q
  BY <1>1
<1>3. Append(p, Head(q)) \o Tail(q) = p \o q
  BY <1>1, <1>2, ConcatAssociative
<1> DEFINE r == Append(p, Head(q))
<1>4. r \in Seq(T) /\ Prefix(p, r)
  BY <1>1 DEF Prefix
<1> HIDE DEF r
<1>5. Prefix(r, r \o Tail(q))
  BY <1>1, <1>4, ConcatProperties DEF Prefix
<1> QED BY <1>1, <1>3, <1>4, <1>5 DEF r

LEMMA PrefixGrows ==
  ASSUME NEW T, NEW p \in Seq(T), NEW q \in Seq(T), NEW r \in Seq(T), Prefix(p, q), Prefix(q, r)
  PROVE  Prefix(p, r)
BY DEF Prefix

LEMMA SaysOne ==
  ASSUME NEW T, NEW p \in Seq(T), NEW q \in Seq(T), NEW x \in T
  PROVE  /\ Append(q, x) \in Seq(T) /\ Prefix(q, Append(q, x))
         /\ p \o Append(q, x) = Append(p \o q, x)
<1>1. <<x>> \in Seq(T) /\ Append(q, x) = q \o <<x>>
  OBVIOUS
<1>2. p \o q \in Seq(T)
  BY ConcatProperties
<1>3. Append(p \o q, x) = (p \o q) \o <<x>>
  BY <1>2
<1>4. Prefix(q, Append(q, x))
  BY DEF Prefix
<1> QED BY <1>1, <1>3, <1>4, ConcatAssociative

(* The steps of a test.                                                    *)
LEMMA Tests ==
  ASSUME test \in TESTS
  PROVE  Len(test.steps) \in Nat /\ DOMAIN test.steps = 1 .. Len(test.steps)
<1>1. \A q : Test(q).steps = q
  BY DEF Test
<1>2. \A a, b, c, d, e : /\ Len(<<a, b, c>>) = 3 /\ DOMAIN <<a, b, c>> = 1 .. 3
                         /\ Len(<<a, b, c, d, e>>) = 5 /\ DOMAIN <<a, b, c, d, e>> = 1 .. 5
  OBVIOUS
<1> QED BY <1>1, <1>2 DEF TESTS, InitThenEnd, Probe

LEMMA ObservesMore ==
  ASSUME NEW p, NEW q, Prefix(p, q)
  PROVE  ObservedIn(p) \subseteq ObservedIn(q)
<1> SUFFICES ASSUME NEW x \in ObservedIn(p) PROVE x \in ObservedIn(q)
  OBVIOUS
<1>1. PICK i \in DOMAIN p : x \in Discriminants1(p[i])
  BY DEF ObservedIn
<1>2. i \in DOMAIN q /\ q[i] = p[i]
  BY DEF Prefix
<1> QED BY <1>1, <1>2 DEF ObservedIn

LEMMA HarnessImplies == HarnessInv => HarnessSafe
<1> SUFFICES ASSUME HarnessInv PROVE HarnessSafe
  OBVIOUS
<1> USE DEF HarnessInv
<1>1. IsPrefix(frames, said)
  BY BeginningOf DEF HarnessTyped, StreamInv
<1>2. "leak" \notin Observed
  BY DEF StreamInv, Observed, ObservedIn, Discriminants1, Answers
<1>3. at \in {"ended", "assert", "concluded"} => child = "exited" /\ killed
  BY DEF EndInv
<1>4. ASSUME at = "concluded", pass
      PROVE  /\ step > Len(test.steps) /\ test.expected \subseteq Observed
             /\ \A i \in DOMAIN test.steps : Met(i)
  <2>1. test.expected \subseteq Observed /\ step = Len(test.steps) + 1
    BY <1>4 DEF VerdictInv, StepInv
  <2>2. Len(test.steps) \in Nat /\ DOMAIN test.steps = 1 .. Len(test.steps)
    BY Tests DEF HarnessTyped
  <2>3. \A i \in 1 .. step - 1 : Met(i)
    BY DEF StepInv
  <2>4. step > Len(test.steps) /\ step - 1 = Len(test.steps)
    BY <2>1, <2>2
  <2> QED BY <2>1, <2>2, <2>3, <2>4
<1>5. written # NoFixture => IsPrefix(written, frames) /\ ~threw
  BY BeginningOf DEF HarnessTyped, VerdictInv
<1>6. ASSUME at = "concluded", written # NoFixture, pass
      PROVE  Replays(written) \/ "strange" \in ObservedIn(written)
  <2>1. ObservedIn(written) \subseteq Observed /\ "odd" \notin Observed
    BY <1>6, ObservesMore DEF VerdictInv, Observed
  <2> QED BY <2>1 DEF Replays
<1>7. at # "crashed" => frames \o pipe = said
  BY DEF StreamInv
<1> QED BY <1>1, <1>2, <1>3, <1>4, <1>5, <1>6, <1>7 DEF HarnessSafe, Met

LEMMA HarnessInit == HInit => HarnessInv
<1> SUFFICES ASSUME HInit PROVE HarnessInv
  OBVIOUS
<1> USE DEF HInit
<1>1. HarnessTyped
  <2>1. <<>> \in Seq(Said) /\ "step" \in Places
    BY DEF Places
  <2>2. pass \in BOOLEAN /\ threw \in BOOLEAN
    OBVIOUS
  <2> QED BY <2>1, <2>2 DEF HarnessTyped
<1>2. StreamInv
  <2>1. <<>> \in Seq(Said) /\ <<>> \o <<>> = <<>>
    OBVIOUS
  <2> QED BY <2>1 DEF StreamInv, Prefix
<1>3. EndInv
  BY DEF EndInv
<1>4. StepInv
  BY Tests DEF StepInv
<1>5. VerdictInv
  BY DEF VerdictInv
<1> QED BY <1>1, <1>2, <1>3, <1>4, <1>5 DEF HarnessInv

(* What was captured and what was made of it stay, while nothing is read   *)
(* and the test neither ends nor is judged.                                *)
Judged == {"assert", "concluded", "crashed"}
LEMMA Unread ==
  ASSUME HarnessInv, UNCHANGED <<test, pipe, said, frames, written, pass>>,
         at' \in Places, threw' \in BOOLEAN, EndInv', StepInv',
         at \in Judged => at' = at /\ threw' = threw,
         at' \in {"assert", "concluded"} => at' = at
  PROVE  HarnessInv'
<1>1. HarnessTyped'
  BY DEF HarnessInv, HarnessTyped
<1>2. StreamInv'
  BY DEF HarnessInv, StreamInv, Judged
<1>3. VerdictInv'
  <2>1. Observed' = Observed
    BY DEF Observed
  <2>2. VerdictInv /\ written \in Seq(Said) \cup {NoFixture}
    BY DEF HarnessInv, VerdictInv
  <2>3. written # NoFixture => ~threw' /\ at' \in Judged
    BY <2>2 DEF VerdictInv, Judged
  <2>4. at' = "assert" => ~threw'
    BY <2>2 DEF VerdictInv, Judged
  <2>5. at' = "concluded" /\ pass => ~threw' /\ test.expected \subseteq Observed /\ "odd" \notin Observed
    BY <2>2 DEF VerdictInv, Judged
  <2> QED BY <2>1, <2>2, <2>3, <2>4, <2>5 DEF VerdictInv, Judged
<1> QED BY <1>1, <1>2, <1>3 DEF HarnessInv

(* The binary and the clock: the runner does not move.                     *)
LEMMA Outside ==
  ASSUME HarnessInv, UNCHANGED <<runner, pipe, said, frames>>,
         exitHeard => exitHeard', exitHeard' => child' = "exited"
  PROVE  HarnessInv'
<1>1. UNCHANGED <<test, step, at, killed, threw, written, pass, pipe, said, frames>>
  BY DEF runner
<1>2. EndInv'
  BY <1>1 DEF HarnessInv, EndInv
<1>3. StepInv'
  BY <1>1 DEF HarnessInv, StepInv, Met
<1>4. at \in Places /\ threw \in BOOLEAN
  BY DEF HarnessInv, HarnessTyped
<1> QED BY <1>1, <1>2, <1>3, <1>4, Unread

LEMMA ChildSaysKeeps ==
  ASSUME HarnessInv, NEW f \in Said, ChildSays(f)
  PROVE  HarnessInv'
<1>1. /\ pipe' = Append(pipe, f) /\ said' = Append(said, f)
      /\ UNCHANGED <<test, step, at, killed, threw, written, pass, child, frames, exitHeard>>
  BY DEF ChildSays, runner
<1>2. said \in Seq(Said) /\ pipe \in Seq(Said) /\ frames \in Seq(Said)
  BY DEF HarnessInv, HarnessTyped
<1>3. /\ said' \in Seq(Said) /\ pipe' \in Seq(Said) /\ Prefix(said, said')
      /\ frames \o pipe' = Append(frames \o pipe, f)
  BY <1>1, <1>2, SaysOne
<1>4. HarnessTyped'
  BY <1>1, <1>3 DEF HarnessInv, HarnessTyped
<1>5. StreamInv'
  BY <1>1, <1>2, <1>3, PrefixGrows DEF HarnessInv, StreamInv
<1>6. EndInv'
  BY <1>1 DEF HarnessInv, EndInv
<1>7. StepInv'
  BY <1>1 DEF HarnessInv, StepInv, Met
<1>8. VerdictInv'
  BY <1>1 DEF HarnessInv, VerdictInv, Observed
<1> QED BY <1>4, <1>5, <1>6, <1>7, <1>8 DEF HarnessInv

(* A frame is read: a captured frame stays captured.                       *)
LEMMA DataKeeps == ASSUME HarnessInv, Data PROVE HarnessInv'
<1> DEFINE f == Head(pipe)
           awaited == at = "wait" /\ pred(Waiting.predicate, f)
<1>1. /\ pipe # <<>> /\ at \notin {"ended", "concluded", "crashed"} /\ pipe' = Tail(pipe)
      /\ UNCHANGED <<test, killed, threw, written, pass, child, said, exitHeard>>
  BY DEF Data
<1>2. frames \in Seq(Said) /\ pipe \in Seq(Said) /\ said \in Seq(Said) /\ at \in Places
  BY DEF HarnessInv, HarnessTyped
<1>3. /\ f \in Said /\ pipe' \in Seq(Said) /\ Append(frames, f) \in Seq(Said)
      /\ Append(frames, f) \o pipe' = frames \o pipe
      /\ Prefix(frames, Append(frames, f)) /\ Prefix(Append(frames, f), frames \o pipe)
  BY <1>1, <1>2, ReadOne
<1>4. frames \o pipe = said
  BY <1>1 DEF HarnessInv, StreamInv
<1>5. CASE f.kind = "leak"
  <2>1. at' = "crashed" /\ UNCHANGED <<frames, step>>
    BY <1>5 DEF Data
  <2>2. HarnessTyped'
    BY <1>1, <1>3, <2>1 DEF HarnessInv, HarnessTyped, Places
  <2>3. StreamInv'
    BY <1>1, <2>1 DEF HarnessInv, StreamInv
  <2>4. EndInv'
    BY <1>1, <2>1 DEF HarnessInv, EndInv
  <2>5. StepInv'
    BY <1>1, <2>1 DEF HarnessInv, StepInv, Met
  <2>6. VerdictInv'
    BY <1>1, <2>1 DEF HarnessInv, VerdictInv
  <2> QED BY <2>2, <2>3, <2>4, <2>5, <2>6 DEF HarnessInv
<1>6. CASE f.kind # "leak"
  <2>1. /\ frames' = Append(frames, f) /\ at' = IF awaited THEN "step" ELSE at
        /\ step' = IF awaited THEN step + 1 ELSE step
    BY <1>6 DEF Data
  <2>l. Len(frames) \in Nat /\ DOMAIN frames' = 1 .. Len(frames) + 1 /\ frames'[Len(frames) + 1] = f
        /\ \A j \in DOMAIN frames : j \in DOMAIN frames' /\ frames'[j] = frames[j]
    BY <1>2, <1>3, <2>1
  <2>2. HarnessTyped'
    BY <1>1, <1>2, <1>3, <2>1 DEF HarnessInv, HarnessTyped, Places
  <2>3. StreamInv'
    <3>1. \A i \in DOMAIN frames' : i \in DOMAIN frames \/ frames'[i] = f
      BY <1>2, <2>l
    <3>2. \A i \in DOMAIN frames' : frames'[i].kind # "leak"
      BY <1>6, <2>l, <3>1 DEF HarnessInv, StreamInv
    <3> QED BY <1>1, <1>3, <1>4, <2>1, <3>2 DEF StreamInv
  <2>4. EndInv'
    BY <1>1, <2>1 DEF HarnessInv, EndInv
  <2>5. StepInv'
    <3>1. \A i : Met(i) => Met(i)'
      BY <1>1, <2>l DEF Met
    <3>2. step \in 1 .. Len(test.steps) + 1 /\ \A i \in 1 .. step - 1 : Met(i)
      BY DEF HarnessInv, StepInv
    <3>3. Len(test.steps) \in Nat
      BY Tests DEF HarnessInv, HarnessTyped
    <3>4. CASE awaited
      <4>1. step' = step + 1 /\ at' = "step" /\ step <= Len(test.steps)
        BY <2>1, <3>4 DEF HarnessInv, StepInv
      <4>2. \A i : i = step => Met(i)'
        <5>1. pred(test.steps[step].predicate, f)
          BY <3>4 DEF Waiting
        <5>2. Len(frames) + 1 \in DOMAIN frames' /\ frames'[Len(frames) + 1] = f
          BY <2>l
        <5> HIDE DEF f
        <5>3. \E j \in DOMAIN frames' : pred(test.steps[step].predicate, frames'[j])
          BY <5>1, <5>2
        <5>4. \E j \in DOMAIN frames' : pred(test'.steps[step].predicate, frames'[j])
          BY <1>1, <5>3
        <5> QED BY <5>4 DEF Met
      <4>3. step' \in 1 .. Len(test.steps) + 1
        BY <3>2, <3>3, <4>1
      <4>4. \A i \in 1 .. step' - 1 : i \in 1 .. step - 1 \/ i = step
        BY <3>2, <3>3, <4>1
      <4>5. \A i \in 1 .. step' - 1 : Met(i)'
        BY <3>1, <3>2, <4>2, <4>4
      <4>6. step' \in 1 .. Len(test'.steps) + 1 /\ at' = "step"
        BY <1>1, <4>1, <4>3
      <4> QED BY <4>5, <4>6 DEF StepInv
    <3>5. CASE ~awaited
      <4>1. step' = step /\ at' = at
        BY <2>1, <3>5
      <4> QED BY <1>1, <3>1, <3>2, <4>1 DEF HarnessInv, StepInv
    <3> QED BY <3>4, <3>5
  <2>6. VerdictInv'
    <3>1. written # NoFixture => written \in Seq(Said) /\ Prefix(written, frames') /\ ~threw /\ at = "assert"
      <4> SUFFICES ASSUME written # NoFixture PROVE Prefix(written, frames')
        BY <1>1 DEF HarnessInv, VerdictInv
      <4>1. written \in Seq(Said) /\ Prefix(written, frames) /\ frames' \in Seq(Said)
        BY <1>3, <2>1 DEF HarnessInv, VerdictInv
      <4> QED BY <1>2, <1>3, <2>1, <4>1, PrefixGrows
    <3>2. at = "assert" => at' = "assert" /\ ~threw
      BY <2>1 DEF HarnessInv, VerdictInv
    <3>3. at' # "concluded" /\ (at' = "assert" => at = "assert")
      BY <1>1, <2>1
    <3> QED BY <1>1, <3>1, <3>2, <3>3 DEF VerdictInv
  <2> QED BY <2>2, <2>3, <2>4, <2>5, <2>6 DEF HarnessInv
<1> QED BY <1>5, <1>6

(* kill() begins: a test that has not thrown has passed all its steps.     *)
LEMMA ShutKeeps ==
  ASSUME HarnessInv, NEW failed \in BOOLEAN, Shut(failed), at \in {"step", "wait"},
         ~failed => step > Len(test.steps),
         UNCHANGED <<test, step, written, pass, child, pipe, said, frames, exitHeard>>
  PROVE  HarnessInv'
<1>1. /\ at' = IF exitHeard THEN "ended" ELSE "grace"
      /\ killed' = TRUE /\ threw' = failed
  BY DEF Shut
<1>2. EndInv'
  BY <1>1 DEF HarnessInv, EndInv
<1>3. StepInv'
  <2>1. Len(test.steps) \in Nat /\ step \in 1 .. Len(test.steps) + 1
    BY Tests DEF HarnessInv, HarnessTyped, StepInv
  <2>2. ~failed => step = Len(test.steps) + 1
    BY <2>1
  <2> QED BY <1>1, <2>1, <2>2 DEF HarnessInv, StepInv, Met
<1>4. at' \in Places /\ at' \notin Judged /\ at \notin Judged /\ threw' \in BOOLEAN
  BY <1>1 DEF Places, Judged
<1> QED BY <1>2, <1>3, <1>4, Unread DEF Judged

(* The next step of the test.                                              *)
LEMMA StepGoes ==
  ASSUME HarnessInv, at = "step", at' = "step", step <= Len(test.steps), step' = step + 1,
         UNCHANGED <<test, written, pass, child, pipe, said, frames, exitHeard, killed, threw>>,
         Met(step)
  PROVE  HarnessInv'
<1>1. EndInv'
  BY DEF HarnessInv, EndInv
<1>2. StepInv'
  <2>1. Len(test.steps) \in Nat /\ step \in 1 .. Len(test.steps) + 1 /\ \A i \in 1 .. step - 1 : Met(i)
    BY Tests DEF HarnessInv, HarnessTyped, StepInv
  <2>2. step' \in 1 .. Len(test.steps) + 1 /\ \A i \in 1 .. step' - 1 : i \in 1 .. step - 1 \/ i = step
    BY <2>1
  <2>3. \A i : Met(i)' <=> Met(i)
    BY DEF Met
  <2>4. \A i \in 1 .. step' - 1 : Met(i)'
    BY <2>1, <2>2, <2>3
  <2> QED BY <2>2, <2>4 DEF StepInv
<1>3. at' \in Places /\ at \notin Judged /\ at' \notin Judged /\ threw' \in BOOLEAN
  BY DEF Places, Judged, HarnessInv, HarnessTyped
<1> QED BY <1>1, <1>2, <1>3, Unread DEF Judged

LEMMA SendStepKeeps == ASSUME HarnessInv, SendStep PROVE HarnessInv'
<1>1. /\ at = "step" /\ step <= Len(test.steps) /\ Waiting.kind = "control_request"
      /\ UNCHANGED <<test, written, pass, child, pipe, said, frames, exitHeard>>
  BY DEF SendStep
<1>2. CASE stdin' = stdin \cup {step} /\ step' = step + 1 /\ UNCHANGED <<at, killed, threw>>
  <2>1. Met(step)
    BY <1>1 DEF Met, Waiting
  <2> QED BY <1>1, <1>2, <2>1, StepGoes
<1>3. CASE child = "exited" /\ Shut(TRUE) /\ UNCHANGED step
  BY <1>1, <1>3, ShutKeeps
<1>4. CASE at' = "crashed" /\ UNCHANGED <<killed, threw, step>>
  <2>1. EndInv' /\ StepInv'
    BY <1>1, <1>4 DEF HarnessInv, EndInv, StepInv, Met
  <2>2. at' \in Places /\ at \notin Judged /\ threw' \in BOOLEAN
    BY <1>1, <1>4 DEF HarnessInv, HarnessTyped, Places, Judged
  <2> QED BY <1>1, <1>4, <2>1, <2>2, Unread
<1> QED BY <1>2, <1>3, <1>4 DEF SendStep

LEMMA WaitForKeeps == ASSUME HarnessInv, WaitFor PROVE HarnessInv'
<1>1. /\ at = "step" /\ step <= Len(test.steps)
      /\ UNCHANGED <<test, killed, threw, written, pass, child, pipe, said, frames, exitHeard>>
  BY DEF WaitFor
<1>2. CASE step' = step + 1 /\ at' = at /\ \E i \in DOMAIN frames : pred(Waiting.predicate, frames[i])
  <2>1. Met(step)
    BY <1>2 DEF Met, Waiting
  <2> QED BY <1>1, <1>2, <2>1, StepGoes
<1>3. CASE step' = step /\ at' = "wait"
  <2>1. EndInv'
    BY <1>1, <1>3 DEF HarnessInv, EndInv
  <2>2. StepInv'
    BY <1>1, <1>3 DEF HarnessInv, StepInv, Met
  <2>3. at' \in Places /\ at \notin Judged /\ at' \notin Judged /\ threw' \in BOOLEAN
    BY <1>1, <1>3 DEF HarnessInv, HarnessTyped, Places, Judged
  <2> QED BY <1>1, <2>1, <2>2, <2>3, Unread DEF Judged
<1> QED BY <1>2, <1>3 DEF WaitFor

(* The rest of kill().                                                     *)
LEMMA KillKeeps == ASSUME HarnessInv, KillWaits \/ KillTimesOut PROVE HarnessInv'
<1>1. /\ at \in {"grace", "term", "exit"} /\ at' \in {"term", "exit", "ended"}
      /\ at' = "ended" => exitHeard
      /\ UNCHANGED <<test, step, killed, threw, written, pass, child, pipe, said, frames, exitHeard>>
  <2>1. CASE KillWaits
    BY <2>1 DEF KillWaits
  <2>2. CASE KillTimesOut
    <3>1. at \in {"grace", "term"} /\ at' = AfterSignal[at]
          /\ UNCHANGED <<test, step, killed, threw, written, pass, child, pipe, said, frames, exitHeard>>
      BY <2>2 DEF KillTimesOut, NextSignal
    <3>2. at' \in {"term", "exit"}
      BY <3>1 DEF AfterSignal
    <3> QED BY <3>1, <3>2
  <2> QED BY <2>1, <2>2
<1>2. EndInv'
  BY <1>1 DEF HarnessInv, EndInv
<1>3. StepInv'
  BY <1>1 DEF HarnessInv, StepInv, Met
<1>4. at' \in Places /\ at \notin Judged /\ at' \notin Judged /\ threw' \in BOOLEAN
  BY <1>1 DEF HarnessInv, HarnessTyped, Places, Judged
<1> QED BY <1>1, <1>2, <1>3, <1>4, Unread DEF Judged

(* main: the fixture is what was captured then; the verdict looks at what  *)
(* is captured now.                                                        *)
LEMMA FixtureKeeps ==
  ASSUME HarnessInv, NEW updateFixtures \in BOOLEAN, writeFixture(updateFixtures)
  PROVE  HarnessInv'
<1>1. /\ at = "ended" /\ at' = IF threw THEN "concluded" ELSE "assert"
      /\ written' = IF ~threw /\ updateFixtures THEN frames ELSE written
      /\ pass' = (~threw /\ ~idleFired)
      /\ UNCHANGED <<test, step, killed, threw, child, pipe, said, frames, exitHeard>>
  BY DEF writeFixture
<1>2. HarnessTyped'
  <2>1. pass' \in BOOLEAN /\ at' \in Places
    BY <1>1 DEF Places
  <2> QED BY <1>1, <2>1 DEF HarnessInv, HarnessTyped
<1>3. StreamInv'
  BY <1>1 DEF HarnessInv, StreamInv
<1>4. EndInv'
  BY <1>1 DEF HarnessInv, EndInv
<1>5. StepInv'
  BY <1>1 DEF HarnessInv, StepInv, Met
<1>6. VerdictInv'
  <2>1. written = NoFixture /\ frames \in Seq(Said) /\ Prefix(frames, frames)
    BY <1>1 DEF HarnessInv, HarnessTyped, VerdictInv, Prefix
  <2>2. written' # NoFixture => written' = frames /\ ~threw /\ at' = "assert"
    BY <1>1, <2>1
  <2>3. (at' = "assert" => ~threw) /\ (at' = "concluded" => ~pass')
    BY <1>1
  <2> QED BY <1>1, <2>1, <2>2, <2>3 DEF VerdictInv
<1> QED BY <1>2, <1>3, <1>4, <1>5, <1>6 DEF HarnessInv

LEMMA AssertKeeps == ASSUME HarnessInv, assertFixture PROVE HarnessInv'
<1>1. /\ at = "assert" /\ at' = "concluded"
      /\ pass' = (pass /\ "odd" \notin Observed /\ test.expected \subseteq Observed)
      /\ UNCHANGED <<test, step, killed, threw, written, child, pipe, said, frames, exitHeard>>
  BY DEF assertFixture
<1>2. HarnessTyped'
  <2>1. pass' \in BOOLEAN /\ at' \in Places
    BY <1>1 DEF Places
  <2> QED BY <1>1, <2>1 DEF HarnessInv, HarnessTyped
<1>3. StreamInv'
  BY <1>1 DEF HarnessInv, StreamInv
<1>4. EndInv'
  BY <1>1 DEF HarnessInv, EndInv
<1>5. StepInv'
  BY <1>1 DEF HarnessInv, StepInv, Met
<1>6. VerdictInv'
  <2>1. Observed' = Observed /\ ~threw
    BY <1>1 DEF Observed, HarnessInv, VerdictInv
  <2>2. written # NoFixture => written \in Seq(Said) /\ Prefix(written, frames)
    BY DEF HarnessInv, VerdictInv
  <2>3. pass' => test.expected \subseteq Observed /\ "odd" \notin Observed
    BY <1>1
  <2> QED BY <1>1, <2>1, <2>2, <2>3 DEF VerdictInv
<1> QED BY <1>2, <1>3, <1>4, <1>5, <1>6 DEF HarnessInv

LEMMA HarnessStep == HarnessInv /\ [HNext]_hvars => HarnessInv'
<1> SUFFICES ASSUME HarnessInv, [HNext]_hvars PROVE HarnessInv'
  OBVIOUS
<1>1. ASSUME NEW kind \in Kinds, NEW to \in 0 .. 5, ChildSays(FrameOf(kind, to)) PROVE HarnessInv'
  BY <1>1, ChildSaysKeeps DEF Said, FrameOf
<1>2. CASE ChildExits \/ KillDelivered
  BY <1>2, Outside DEF ChildExits, KillDelivered
<1>3. CASE Data
  BY <1>3, DataKeeps
<1>4. CASE ExitHeard
  BY <1>4, Outside DEF ExitHeard
<1>5. CASE SendStep
  BY <1>5, SendStepKeeps
<1>6. CASE WaitFor
  BY <1>6, WaitForKeeps
<1>7. CASE StepsDone
  BY <1>7, ShutKeeps DEF StepsDone
<1>8. CASE KillWaits \/ KillTimesOut
  BY <1>8, KillKeeps
<1>9. CASE assertFixture
  BY <1>9, AssertKeeps
<1>10. CASE \E updateFixtures \in BOOLEAN : writeFixture(updateFixtures)
  BY <1>10, FixtureKeeps
<1>11. CASE IdleFires
  BY <1>11, Outside DEF IdleFires, HarnessInv, EndInv
<1>12. CASE WaitTimesOut
  BY <1>12, ShutKeeps DEF WaitTimesOut
<1>13. CASE UNCHANGED hvars
  BY <1>13, Outside DEF hvars, runner, HarnessInv, EndInv
<1> QED BY <1>1, <1>2, <1>3, <1>4, <1>5, <1>6, <1>7, <1>8, <1>9, <1>10, <1>11, <1>12, <1>13
        DEF HNext, RunnerStep, TimerStep

(* Whatever the binary says or does, and whenever the timers fire: what is *)
(* captured is what was said, a concluded test left no process behind, and *)
(* a verdict and a fixture are those of what was captured.                 *)
THEOREM HarnessHolds == HInit /\ [][HNext]_hvars => []HarnessSafe
BY HarnessInit, HarnessStep, HarnessImplies, PTL
=============================================================================

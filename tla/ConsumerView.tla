---------------------------- MODULE ConsumerView ----------------------------
(***************************************************************************)
(* What the consumer of one bridge connection may rely on, and all it      *)
(* sees: the stream of texts the bridge sends.  Each respawn is answered   *)
(* at most once, and a frame always belongs to the child of the last       *)
(* respawn that was answered ok: true, so that a consumer which has read   *)
(* `respawnResult` attributes every later frame to the session it asked    *)
(* for.  The stream may end at any moment (the socket closes).             *)
(***************************************************************************)
EXTENDS Naturals, Sequences

CONSTANT Request

VARIABLE stream

Ok(r)      == [kind |-> "ok",    of |-> r]
Failed(r)  == [kind |-> "fail",  of |-> r]
FrameOf(c) == [kind |-> "frame", of |-> c]

Unanswered(r) ==
    \A i \in 1 .. Len(stream) : stream[i] # Ok(r) /\ stream[i] # Failed(r)

(* c is the child of the last ok reply of stream s.                        *)
IsCurrent(s, c) ==
    \E i \in 1 .. Len(s) :
        /\ s[i] = Ok(c)
        /\ \A j \in (i + 1) .. Len(s) : s[j].kind # "ok"

Init == stream = <<>>

Answer(r) ==
    /\ Unanswered(r)
    /\ stream' \in {Append(stream, Ok(r)), Append(stream, Failed(r))}

Frame(c) ==
    /\ IsCurrent(stream, c)
    /\ stream' = Append(stream, FrameOf(c))

Next == \E r \in Request : Answer(r) \/ Frame(r)

Spec == Init /\ [][Next]_stream
=============================================================================

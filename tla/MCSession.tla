----------------------------- MODULE MCSession ------------------------------
(***************************************************************************)
(* Session for TLC.  Two transports, so that one can close late under the  *)
(* other; three respawns, of which the hook asks for one or two, so that   *)
(* a change of effort meets a change of session or a redial; two efforts,  *)
(* one of them the binary's own, and two session modes.                    *)
(***************************************************************************)
EXTENDS Session
=============================================================================

----------------------------- MODULE MCWsClient -----------------------------
(***************************************************************************)
(* WsClient for TLC.  Three sockets: one lost, one opened too early, one   *)
(* opened by the timer; two sends beside those of the hook.                *)
(***************************************************************************)
EXTENDS WsClient, TLC

Symmetry == Permutations(Call)
=============================================================================

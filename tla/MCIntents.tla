----------------------------- MODULE MCIntents ------------------------------
(***************************************************************************)
(* Intents for TLC.  Three requests and two modes: a change that times     *)
(* out, one that overtakes it and one aborted with either.                 *)
(***************************************************************************)
EXTENDS Intents
=============================================================================

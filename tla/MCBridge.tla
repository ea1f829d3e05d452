------------------------------ MODULE MCBridge ------------------------------
(***************************************************************************)
(* Bridge for TLC.  Three respawns are the least with which one handler    *)
(* awaits the first child's end while another attaches a second child that *)
(* the first then replaces.  The requests are interchangeable.             *)
(***************************************************************************)
EXTENDS Bridge, TLC

Symmetry == Permutations(Request)
=============================================================================

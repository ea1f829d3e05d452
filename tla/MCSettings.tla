------------------------------ MODULE MCSettings ----------------------------
(* Mode changes and a reload, a page that was told its mode and sends a    *)
(* message, sessions and a reload.                                         *)
EXTENDS Settings

MCProfiles ==
    {[loads |-> 2, calls |-> 2, kinds |-> {"mode"}, opt |-> None],
     [loads |-> 1, calls |-> 2, kinds |-> {"mode", "message"}, opt |-> "plan"],
     [loads |-> 2, calls |-> 4, kinds |-> {"session", "message"}, opt |-> None]}
=============================================================================

--------------------------- MODULE MCTurnExecution ---------------------------
(* Small instances of TurnExecution. *)
EXTENDS TurnExecution

CONSTANT position

\* The turns of one position overlap: the registry has one entry for all of them.
OnePosition == [t \in Turns |-> position]
=============================================================================

---------------------------- MODULE MCTurnExport ----------------------------
(* Small instances of TurnExport. *)
EXTENDS TurnExport

CONSTANT position

\* The turns of one position overlap: the registry has one entry for all of them.
OnePosition == [t \in Turns |-> position]

\* Turns overlap until the export of one begins, then the others have been answered or are still
\* to come: a turn and the export of another have nothing in common.
Focus ==
  (\E c \in DOMAIN call : call[c] # Export!Idle) \/ (\E t \in SessionTurns : file[t] # "none") =>
    \A t \in Turns \ SessionTurns : step[t] \in {"new", "answered"}
=============================================================================

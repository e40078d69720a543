--------------------------- MODULE MCTurnReports ---------------------------
(***************************************************************************)
(* What is read back from the files, checked in one run: either the record *)
(* of one turn is made of what its engine writes, or reports are asked for *)
(* while two turns of a position and a session of its are under way, or    *)
(* groups are created, joined, written to and listed at the same time.     *)
(***************************************************************************)
EXTENDS TurnReports, TurnRecords, GroupStore, TLC

CONSTANTS
  p, s,            \* a position, and a session of it
  x, y             \* two more positions, the members of every new group

VARIABLE part      \* "record", "report" or "groups"

MCTurns == 1 .. 2
MCPositionOf == [c \in {p, s} |-> p]
MCResults == {<<"completed", 3, "">>, <<"failed", 1, "position_budget_exceeded">>}
MCZones == {-1, 1}
MCRosters == {{x, y}}

MCVars == <<reportVars, recordVars, groupVars, part>>

MCInit == Init /\ RecordInit /\ GroupInit /\ part \in {"record", "report", "groups"}

MCNext ==
  /\ \/ part = "report" /\ Next /\ UNCHANGED <<recordVars, groupVars>>
     \/ part = "record" /\ RecordNext /\ UNCHANGED <<reportVars, groupVars>>
     \/ part = "groups" /\ GroupNext /\ UNCHANGED <<reportVars, recordVars>>
  /\ UNCHANGED part

MCSpec == MCInit /\ [][MCNext]_MCVars

\* Neither a report nor the list of groups is refused for what a well-behaved request does: see
\* RefusalsExplained of TurnReports and ListStopsAtUnfinished of GroupStore.
RefusedForAReason == RefusalsExplained /\ ListStopsAtUnfinished

\* MembersStay says nothing about a group of which two additions overlapped: what follows such
\* a moment is not explored.
OneAdditionAtATime == overlapped = {}

\* Ids of conversations are only ever compared for equality.
Symmetry == Permutations(Uuids)
=============================================================================

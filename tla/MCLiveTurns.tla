----------------------------- MODULE MCLiveTurns -----------------------------
(* Small instances of LiveTurns. *)
EXTENDS LiveTurns

CONSTANTS u1, g1, g2, m1, p1, p2, p3

\* The first member of the group also works on a personal turn; the second has to join first, a
\* third may join at the same time.
TheMentions == [m \in Messages |-> <<g1, g2>>]
ThePositions == [t \in Turns |-> IF t = g2 THEN p2 ELSE p1]

\* The two disturbances: a fault, and somebody else who joins the group.
Faulty == faults > 0
Joins == adding[p3] # None

(***************************************************************************)
(* Bounds: at most two events are under way, and one when there is a       *)
(* disturbance. Engines write text, and the personal turn overlaps the     *)
(* first group turn (without polls, which the second one has), only while  *)
(* there is no disturbance, of which there is one kind at a time. The      *)
(* second group turn writes one delta, the others more only when nothing   *)
(* else is at work.                                                        *)
(***************************************************************************)
Focus ==
  /\ Len(line) <= (IF Faulty \/ Joins THEN 1 ELSE 2)
  /\ ~(Faulty /\ Joins)
  /\ (\E t \in Turns : engine[t].emitted > 0) => ~Faulty /\ ~Joins
  /\ \A t \in Turns : engine[t].emitted > 1 => reads = 0 /\ t # g2 /\ \A o \in Turns \ {t} : at[o] \in {"new", "done"}
  /\ (\E u \in PersonalTurns : at[u] # "new") => ~Faulty /\ ~Joins /\ reads = 0 /\ at[g2] = "new"
=============================================================================

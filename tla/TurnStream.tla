----------------------------- MODULE TurnStream -----------------------------
(***************************************************************************)
(* apps/desktop/renderer/src/turns/turnStream.ts: what the renderer makes  *)
(* of the turn events.  The stream is a value that pure functions replace: *)
(* the personal turn it waits for, the live runs in the order they were    *)
(* started, and the group turns known to have settled, oldest first.       *)
(*                                                                         *)
(* A run is [turn, run, position, text]: a group run has its turn and gets *)
(* its engine's run id with its first event, a personal run has the run id *)
(* only.  It is keyed by the run id once it has one, by the turn until     *)
(* then.  The rest of a group run's identity (group, message, position,    *)
(* engine) is fixed by its turn.  Every turn has one engine run, named by  *)
(* the turn.  The sequence guard is left out: one server, one ordered      *)
(* channel, so it never refuses (LiveTurns).                               *)
(***************************************************************************)
EXTENDS Integers, Sequences, SequencesExt

CONSTANTS
  LiveCap,     \* LIVE_RUNS_CAP
  SettledCap,  \* SETTLED_GROUP_RUNS_CAP
  None

ASSUME StreamAssumption ==
  /\ LiveCap \in Nat \ {0} /\ SettledCap \in Nat \ {0}
  /\ LiveCap <= SettledCap       \* 32 and 64

EmptyStream == [pending |-> None, runs |-> << >>, settled |-> << >>]

Newest(list, cap) == SubSeq(list, IF Len(list) > cap THEN Len(list) - cap + 1 ELSE 1, Len(list))

\* evictIfOverCap: the runs that started first go.
Bounded(runs) == Newest(runs, LiveCap)

\* The members of a list that are in K, in their order (SelectSeq for the condition "in K").
Kept(list, K) ==
  LET kept[n \in 0..Len(list)] ==
        IF n = 0 THEN << >>
        ELSE IF list[n] \in K THEN Append(kept[n - 1], list[n]) ELSE kept[n - 1]
  IN  kept[Len(list)]

\* rememberSettledGroupRun: once each, the latest last (the code puts those of one seq in the order of
\* their ids, which only tells between runs settled with no event in between).
Remembered(settled, turn) == Newest(Append(Kept(settled, Range(settled) \ {turn}), turn), SettledCap)

\* One run after the other is remembered.
AllRemembered(settled, gone) ==
  LET after[n \in 0..Len(gone)] ==
        IF n = 0 THEN settled ELSE Remembered(after[n - 1], gone[n].turn)
  IN  after[Len(gone)]

IsGroupRun(run) == run.turn # None
GroupRuns(s, turns) == {r \in Range(s.runs) : IsGroupRun(r) /\ r.turn \in turns}
PersonalRuns(s) == {r \in Range(s.runs) : ~IsGroupRun(r)}
Without(s, gone) == Kept(s.runs, Range(s.runs) \ gone)

\* state.runs[runId] and state.runs[turnId]
KeyedByRun(s, id) == {i \in DOMAIN s.runs : s.runs[i].run = id}
Seeds(s, turn) == {i \in DOMAIN s.runs : s.runs[i].turn = turn /\ s.runs[i].run = None}

BeginPending(s, position) == [s EXCEPT !.pending = [position |-> position, run |-> None]]

\* Variant: the 202 seeds whatever has settled before it (refuted by GroupRunsSettle).
BeginGroupRunAlways(s, turn, position) ==
  IF Seeds(s, turn) # {} THEN s
  ELSE [s EXCEPT !.runs =
          Bounded(Append(@, [turn |-> turn, run |-> None, position |-> position, text |-> << >>]))]

\* The 202 names the turns; one that has settled in the meantime is not seeded.
BeginGroupRun(s, turn, position) ==
  IF Seeds(s, turn) # {} \/ turn \in Range(s.settled) THEN s
  ELSE [s EXCEPT !.runs =
          Bounded(Append(@, [turn |-> turn, run |-> None, position |-> position, text |-> << >>]))]

\* Variant: the timeline removes its markers without remembering (refuted by GroupRunsSettle).
ReconcileForgetting(s, ended) == [s EXCEPT !.runs = Without(s, GroupRuns(s, ended))]

\* A timeline settles the group runs whose message and terminal record it holds.
Reconcile(s, ended) ==
  LET gone == GroupRuns(s, ended) IN
  [s EXCEPT !.runs = Without(s, gone), !.settled = AllRemembered(@, Kept(s.runs, gone))]

CancelPending(s) == [s EXCEPT !.pending = None]

ClearPersonal(s) == [s EXCEPT !.pending = None, !.runs = Without(s, PersonalRuns(s))]

\* The answer of a personal POST: its run, or without a run id all of the position, is over.
SettlePending(s, run, position) ==
  LET over == {r \in PersonalRuns(s) : IF run # None THEN r.run = run ELSE r.position = position}
  IN  [s EXCEPT !.pending = None, !.runs = Without(s, over)]

-----------------------------------------------------------------------------
(* applyTurnEvent *)

\* The first event of a seeded group run keys it by its engine run.
Adopted(s, i, e) == [s EXCEPT !.runs[i].run = e.run, !.runs[i].text = @ \o e.text]

Bound(s, e) ==
  [s EXCEPT !.pending.run = e.run,
            !.runs = Bounded(Append(@, [turn |-> None, run |-> e.run,
                                        position |-> s.pending.position, text |-> e.text]))]

\* turn.started and turn.model.delta
ApplyProgress(s, e) ==
  LET existing == KeyedByRun(s, e.run)
      seeded == Seeds(s, e.turn)
  IN
  IF \E i \in existing : IsGroupRun(s.runs[i]) /\ s.runs[i].turn # e.turn THEN s
  ELSE IF existing # {} THEN [s EXCEPT !.runs[CHOOSE i \in existing : TRUE].text = @ \o e.text]
  ELSE IF e.turn # None THEN
    IF seeded = {} THEN s ELSE Adopted(s, CHOOSE i \in seeded : TRUE, e)
  ELSE IF s.pending # None /\ s.pending.run \in {None, e.run} THEN Bound(s, e)
  ELSE s

\* turn.completed and turn.failed: without group attribution a group run does not end.
ApplyTerminal(s, e) ==
  IF e.turn # None THEN
    [s EXCEPT !.runs = Without(s, {r \in GroupRuns(s, {e.turn}) : r.run \in {None, e.run}}),
              !.settled = Remembered(@, e.turn)]
  ELSE [s EXCEPT !.runs = Without(s, {r \in PersonalRuns(s) : r.run = e.run})]

\* turn.indeterminate carries no run id: it ends its group turn, or the position's personal runs.
ApplyIndeterminate(s, e) ==
  IF e.turn # None THEN
    [s EXCEPT !.runs = Without(s, GroupRuns(s, {e.turn})), !.settled = Remembered(@, e.turn)]
  ELSE [s EXCEPT !.runs = Without(s, {r \in PersonalRuns(s) : r.position = e.position})]

ApplyTurnEvent(s, e) ==
  CASE e.type = "progress" -> ApplyProgress(s, e)
    [] e.type = "terminal" -> ApplyTerminal(s, e)
    [] e.type = "indeterminate" -> ApplyIndeterminate(s, e)
=============================================================================

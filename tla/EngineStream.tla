---------------------------- MODULE EngineStream ----------------------------
(***************************************************************************)
(* The engine.v1 stream as apps/server/src/engine/driver-cli.ts accepts it *)
(* line by line.  A line is what the validation tells apart: "bad" is one  *)
(* parseEngineEvent refuses, one too long, one with another runId, or the  *)
(* chunk with which the output outgrows its bound.                         *)
(***************************************************************************)
EXTENDS Integers, Sequences, SequencesExt

CONSTANT MaxEvents      \* MAX_TURN_EVENTS

Terminals == {"completed", "failed"}
Lines == {"started", "progress", "bad"} \cup Terminals

Ended(es) == es # <<>> /\ Last(es) \in Terminals

\* consumeLine: run.started first and only first, nothing after a terminal, bounded.
Accepts(es, l) ==
  /\ l # "bad"
  /\ Len(es) < MaxEvents
  /\ (l = "started") <=> (es = <<>>)
  /\ ~ Ended(es)
=============================================================================

---------------------------- MODULE TurnExport ----------------------------
(***************************************************************************)
(* The execution of turns with the export of the completed ones:           *)
(* TurnExecution with ContextExport, joined by the end of executeTurn in   *)
(* apps/server/src/routes/turns.ts and by resumeContextExports in          *)
(* apps/server/src/routes/workspace.ts.                                    *)
(***************************************************************************)
EXTENDS TurnExecution

CONSTANTS SessionTurns,   \* the turns posted to a session; the others go to a position or a group
          Opens,          \* requests that open the workspace
          MaxJobs         \* bound: export jobs under way at once

ASSUME TurnExportAssumption ==
  /\ SessionTurns \subseteq Turns
  /\ Opens \cap Turns = {}
  /\ MaxJobs \in Nat \ {0}

VARIABLES file, vault, call, jobs, job   \* see ContextExport

Export == INSTANCE ContextExport WITH Callers <- SessionTurns \cup Opens, Turns <- SessionTurns

exportVars == <<file, vault, call, jobs, job>>
allVars == <<record, owned, run, step, hook, published, cancelled, file, vault, call, jobs, job>>

InitWithExport == Init /\ Export!ExportInit

-----------------------------------------------------------------------------

\* The steps of executeTurn up to finish.
Executes(t) ==
  /\ BeginClaims(t) \/ BeginPersists(t) \/ BeginFails(t) \/ Drive(t) \/ DriveEnds(t) \/ FinishFails(t)
  /\ UNCHANGED exportVars

Stores(t) == FinishWrites(t) /\ UNCHANGED exportVars

\* executeTurn exports its turn if it belongs to a session and completed.
ExportsOutcome(t) ==
  IF t \in SessionTurns /\ Outcome(run[t]) = "completed"
  THEN Export!Enqueue(t, {t})
  ELSE UNCHANGED exportVars

\* finish, or finishSession, returns and the export is called.
Returns(t) == FinishReturns(t) /\ ExportsOutcome(t)

\* Variant: the response waits for the job, not for the call (refuted by TurnsAreAnswered).
AnswersExported(t) ==
  /\ Publish(t)
  /\ t \in SessionTurns /\ Outcome(run[t]) = "completed" => file[t] = "done"
  /\ UNCHANGED exportVars

\* The export is awaited, whether it returns or throws, but not the job it starts.
Answers(t) ==
  /\ Publish(t)
  /\ t \in SessionTurns => call[t] = Export!Idle
  /\ UNCHANGED exportVars

Others ==
  /\ \/ \E t \in Turns : Recover(t)
     \/ \E p \in Positions : Cancel(p)
  /\ UNCHANGED exportVars

\* Reopening lists the sessions and exports the turns whose records say completed; the same
\* caller may return only when it is through.
Open(o) ==
  /\ Export!Enqueue(o, { t \in SessionTurns : record[t] = "completed" })
  /\ UNCHANGED vars

Restarts == Restart /\ Export!Forgotten

Exporting == Export!ExportWorks /\ UNCHANGED vars
ExportFailing == Export!ExportFails /\ UNCHANGED vars

NextWithExport ==
  \/ \E t \in Turns : Executes(t) \/ Stores(t) \/ Returns(t) \/ Answers(t)
  \/ \E o \in Opens : Open(o)
  \/ Others \/ Restarts \/ Exporting \/ ExportFailing

SpecWithExport == InitWithExport /\ [][NextWithExport]_allVars

\* File operations return or throw, the driver settles, and an adapter process is killed when
\* its time is up.
FairnessWithExport ==
  /\ \A t \in Turns :
       /\ WF_allVars(BeginPersists(t) /\ UNCHANGED exportVars)
       /\ WF_allVars(Drive(t) /\ UNCHANGED exportVars)
       /\ WF_allVars(DriveEnds(t) /\ UNCHANGED exportVars)
       /\ WF_allVars(Stores(t))
       /\ WF_allVars(Returns(t))
       /\ WF_allVars(Answers(t))
  /\ \A c \in SessionTurns \cup Opens : WF_allVars(Export!EnqueueStep(c) /\ UNCHANGED vars)
  /\ \A j \in 1 .. MaxJobs : WF_allVars(Export!JobStep(j) /\ UNCHANGED vars)

FairSpecWithExport == SpecWithExport /\ FairnessWithExport

-----------------------------------------------------------------------------
(* Properties *)

\* A state file says done only of a turn both of whose occurrences the provider has distilled,
\* however jobs of the same turn overlap, fail and are repeated.
DoneMeansDistilled ==
  \A t \in SessionTurns : file[t] = "done" => \A r \in Export!Roles : vault[t][r] = "done"

\* docs/api-contract-v0.md:374, "下一次 workspace-open/restart 最多重试导出": if the workspace is
\* opened again and again and from some time on nothing fails, a completed turn is exported.
\* (Not for good: an open that read the file before can write pending over done.)
RetriesConverge ==
  \A t \in SessionTurns :
    /\ \A o \in Opens : []<><<Open(o)>>_allVars
    /\ <>[][~ Restarts /\ ~ ExportFailing]_allVars
    /\ <>[](record[t] = "completed")
    => []<>(file[t] = "done")
=============================================================================

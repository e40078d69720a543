--------------------------- MODULE ContextExport ---------------------------
(***************************************************************************)
(* apps/server/src/context-export/exporter.ts and adapter-cli.ts: how the  *)
(* input and the output of a completed session turn reach the Context      *)
(* provider.  ContextExportService keeps a state file per turn and a map of*)
(* the jobs under way; the work itself is done by short-lived adapter      *)
(* processes.                                                              *)
(*                                                                         *)
(* enqueueCompletedTurn is called for one turn by executeTurn and for every*)
(* completed turn by resumeContextExports when a workspace is opened.      *)
(*                                                                         *)
(* Left out: attempts (nothing reads it) and the comparison of the digests,*)
(* which cannot differ: a turn is completed once and its digest is a       *)
(* function of its record.  An adapter process that is timed out may take  *)
(* effect after its rejection; here it does so when it is rejected, which  *)
(* nothing below tells apart.                                              *)
(***************************************************************************)
EXTENDS Naturals, FiniteSets

CONSTANTS Turns, Callers,   \* the turns; the calls of enqueueCompletedTurn: a caller makes one at a time
          MaxJobs           \* bound: how many jobs may be under way at once, a positive number

VARIABLES
  file,     \* <sessionId>/<turnId>.json: its status, "none" if there is no file
  vault,    \* the provider: what it holds of each occurrence of a turn
  call,     \* what each caller is doing
  jobs,     \* ContextExportService.jobs: its keys
  job       \* the runs under way, whosever key they hold

exportVars == <<file, vault, call, jobs, job>>

Roles == {"user", "assistant"}
Statuses == {"none", "pending", "failed", "done"}

Idle == [at |-> "idle"]
NoJob == [at |-> "none"]

\* A caller takes the turns it has left one after the other.
Following(left) ==
  IF left = {} THEN {Idle}
  ELSE { [at |-> "read", of |-> t, left |-> left \ {t}] : t \in left }

Calls ==
  {Idle}
  \cup [at : {"read", "write", "written"}, of : Turns, left : SUBSET Turns]
  \cup [at : {"check"}, of : Turns, left : SUBSET Turns, seen : Statuses]

Runs ==
  {NoJob}
  \cup [at : {"attempt", "close", "fail", "leave"}, of : Turns]
  \cup [at : {"ingest", "distill"}, of : Turns, role : Roles]

ExportInit ==
  /\ file = [t \in Turns |-> "none"]
  /\ vault = [t \in Turns |-> [r \in Roles |-> "unknown"]]
  /\ call = [c \in Callers |-> Idle]
  /\ jobs = {}
  /\ job = [j \in 1 .. MaxJobs |-> NoJob]

-----------------------------------------------------------------------------
(* enqueueCompletedTurn *)

\* The caller hands over the turns it has found completed.
Enqueue(c, turns) ==
  /\ call[c] = Idle
  /\ \E next \in Following(turns) : call' = [call EXCEPT ![c] = next]
  /\ UNCHANGED <<file, vault, jobs, job>>

Read(c) ==
  /\ call[c].at = "read"
  /\ call' = [call EXCEPT ![c] =
                [at |-> "check", of |-> @.of, left |-> @.left, seen |-> file[@.of]]]
  /\ UNCHANGED <<file, vault, jobs, job>>

Return(c) == \E next \in Following(call[c].left) : call' = [call EXCEPT ![c] = next]

\* Both are looked at after the read has been awaited: the file may have changed since.
Check(c) ==
  /\ call[c].at = "check"
  /\ IF call[c].seen = "done" \/ call[c].of \in jobs
     THEN Return(c)
     ELSE call' = [call EXCEPT ![c] = [at |-> "write", of |-> @.of, left |-> @.left]]
  /\ UNCHANGED <<file, vault, jobs, job>>

Intend(c) ==
  /\ call[c].at = "write"
  /\ file' = [file EXCEPT ![call[c].of] = "pending"]
  /\ call' = [call EXCEPT ![c].at = "written"]
  /\ UNCHANGED <<vault, jobs, job>>

Free == { j \in 1 .. MaxJobs : job[j] = NoJob }

\* Once the write has been awaited: the key is entered only now, another caller may have done
\* so meanwhile.
StartJob(c) ==
  /\ call[c].at = "written"
  /\ Free # {}
  /\ LET j == CHOOSE free \in Free : \A other \in Free : free <= other
     IN  job' = [job EXCEPT ![j] = [at |-> "attempt", of |-> call[c].of]]
  /\ jobs' = jobs \cup {call[c].of}
  /\ Return(c)
  /\ UNCHANGED <<file, vault>>

\* A read or a write throws, the write also after its rename.  The callers swallow it, and the
\* turns that were still to come are not exported.
EnqueueThrows(c) ==
  /\ call[c].at \in {"read", "write", "written"}
  /\ call' = [call EXCEPT ![c] = Idle]
  /\ UNCHANGED <<file, vault, jobs, job>>

-----------------------------------------------------------------------------
(* ContextExportService.run, once per entry of the map *)

GoJob(j, at) == job' = [job EXCEPT ![j] = [at |-> at, of |-> @.of]]
Serve(j, at, role) == job' = [job EXCEPT ![j] = [at |-> at, of |-> @.of, role |-> role]]

AfterOccurrence(j) ==
  IF job[j].role = "user" THEN Serve(j, "ingest", "assistant") ELSE GoJob(j, "close")

WriteFile(j, status) == file' = [file EXCEPT ![job[j].of] = status]

Attempt(j) ==
  /\ job[j].at = "attempt"
  /\ WriteFile(j, "pending")
  /\ Serve(j, "ingest", "user")
  /\ UNCHANGED <<vault, call, jobs>>

\* The provider's side of an adapter process.
Holds(j, status) == vault' = [vault EXCEPT ![job[j].of][job[j].role] = status]
Ingested(j) ==
  IF vault[job[j].of][job[j].role] = "unknown" THEN Holds(j, "pending") ELSE UNCHANGED vault

\* Variant: an occurrence the provider knows is taken as distilled (refuted by DoneMeansDistilled).
IngestOnce(j) ==
  /\ job[j].at = "ingest"
  /\ Ingested(j)
  /\ IF vault[job[j].of][job[j].role] # "unknown"
     THEN AfterOccurrence(j)
     ELSE Serve(j, "distill", job[j].role)
  /\ UNCHANGED <<file, call, jobs>>

\* A replay inserts nothing; an occurrence already done is not distilled again.
Ingest(j) ==
  /\ job[j].at = "ingest"
  /\ Ingested(j)
  /\ IF vault[job[j].of][job[j].role] = "done"
     THEN AfterOccurrence(j)
     ELSE Serve(j, "distill", job[j].role)
  /\ UNCHANGED <<file, call, jobs>>

Distill(j) ==
  /\ job[j].at = "distill"
  /\ Holds(j, "done")
  /\ AfterOccurrence(j)
  /\ UNCHANGED <<file, call, jobs>>

Close(j) ==
  /\ job[j].at = "close"
  /\ WriteFile(j, "done")
  /\ GoJob(j, "leave")
  /\ UNCHANGED <<vault, call, jobs>>

\* A write or an adapter process fails or is timed out, with or without its effect, or answers
\* something else than it should.
JobFails(j) ==
  /\ \/ job[j].at \in {"attempt", "close"} /\ UNCHANGED <<file, vault>>
     \/ job[j].at = "attempt" /\ WriteFile(j, "pending") /\ UNCHANGED vault
     \/ job[j].at = "close" /\ WriteFile(j, "done") /\ UNCHANGED vault
     \/ job[j].at \in {"ingest", "distill"} /\ UNCHANGED <<file, vault>>
     \/ job[j].at = "ingest" /\ Ingested(j) /\ UNCHANGED file
     \/ job[j].at = "distill" /\ Holds(j, "done") /\ UNCHANGED file
  /\ GoJob(j, "fail")
  /\ UNCHANGED <<call, jobs>>

RecordFailure(j) ==
  /\ job[j].at = "fail"
  /\ WriteFile(j, "failed")
  /\ GoJob(j, "leave")
  /\ UNCHANGED <<vault, call, jobs>>

\* The rejection of run is swallowed.
FailureLost(j) ==
  /\ job[j].at = "fail"
  /\ GoJob(j, "leave")
  /\ UNCHANGED <<file, vault, call, jobs>>

\* Variant: the key stays (refuted by RetriesConverge).
LeaveKeepingKey(j) ==
  /\ job[j].at = "leave"
  /\ job' = [job EXCEPT ![j] = NoJob]
  /\ UNCHANGED <<file, vault, call, jobs>>

\* The finally deletes the key of the turn, also if another job has entered it since.
Leave(j) ==
  /\ job[j].at = "leave"
  /\ jobs' = jobs \ {job[j].of}
  /\ job' = [job EXCEPT ![j] = NoJob]
  /\ UNCHANGED <<file, vault, call>>

-----------------------------------------------------------------------------

\* The control plane dies; files and the provider remain.
Forgotten ==
  /\ call' = [c \in Callers |-> Idle]
  /\ jobs' = {}
  /\ job' = [j \in 1 .. MaxJobs |-> NoJob]
  /\ UNCHANGED <<file, vault>>

EnqueueStep(c) == Read(c) \/ Check(c) \/ Intend(c) \/ StartJob(c)
JobStep(j) == Attempt(j) \/ Ingest(j) \/ Distill(j) \/ Close(j) \/ RecordFailure(j) \/ Leave(j)

ExportWorks == (\E c \in Callers : EnqueueStep(c)) \/ (\E j \in 1 .. MaxJobs : JobStep(j))
ExportFails == (\E c \in Callers : EnqueueThrows(c)) \/ (\E j \in 1 .. MaxJobs : JobFails(j) \/ FailureLost(j))
=============================================================================

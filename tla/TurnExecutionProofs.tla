------------------------ MODULE TurnExecutionProofs ------------------------
(***************************************************************************)
(* Proofs about TurnExecution for every set of turns and positions, however*)
(* many turns of one position overlap, and about TurnExport, which adds the*)
(* export of completed turns, for any number of opens and jobs.            *)
(*                                                                         *)
(* The step of a turn fixes what the store and the driver hold of it       *)
(* (StepFixes); an outcome on disk is the one the driver resolved to       *)
(* (OutcomeOfRun); a cancelled turn is one whose run was aborted before it *)
(* resolved (CancelledWasAborted).  The registry needs no more than that   *)
(* whoever leaves "driving" clears the entry of its position (HookIsLive). *)
(*                                                                         *)
(* The export takes nothing from a turn but its outcome: its steps stutter *)
(* in TurnExecution, so all of this holds with it as well.  Of its own it  *)
(* needs that a job which is past an occurrence left it distilled, and that*)
(* nothing the provider has distilled is ever undone (JobsInOrder).        *)
(***************************************************************************)
EXTENDS TurnExport, TLAPS

StepFixes ==
  \A t \in Turns :
    /\ step[t] = "new" => record[t] = "absent" /\ run[t] = "idle"
    /\ step[t] = "claimed" => record[t] = "absent" /\ run[t] = "idle" /\ t \in owned
    /\ step[t] = "persisted" => record[t] = "running" /\ run[t] = "idle" /\ t \in owned
    /\ step[t] = "driving" => record[t] = "running" /\ run[t] \in {"open", "aborted"} /\ t \in owned
    /\ step[t] = "ended" => record[t] = "running" /\ run[t] \in Driver!Results /\ t \in owned
    /\ step[t] = "storing" => record[t] = Outcome(run[t]) /\ run[t] \in Driver!Results /\ t \in owned
    /\ step[t] = "stored" =>
         record[t] \in {Outcome(run[t]), "interrupted"} /\ run[t] \in Driver!Results /\ t \notin owned
    /\ step[t] = "answered" => record[t] \in {published[t], "interrupted"} /\ t \notin owned
    /\ published[t] # "none" => step[t] = "answered"

OutcomeOfRun == \A t \in Turns : record[t] \in {"completed", "failed"} => run[t] = record[t]

CancelledWasAborted ==
  \A t \in cancelled :
    /\ run[t] \in {"aborted", "cancelled", "gone"}
    /\ record[t] # "absent"
    /\ published[t] \in {"none", "indeterminate"}

IInv == TypeOK /\ StepFixes /\ OutcomeOfRun /\ CancelledWasAborted /\ HookIsLive

-----------------------------------------------------------------------------

\* The initial state satisfies the inductive invariant.
LEMMA InitIInv == Init => IInv
  BY TurnExecutionAssumption
  DEF Init, Ledger!LedgerInit, Driver!ContractInit, IInv, TypeOK, StepFixes, OutcomeOfRun,
      CancelledWasAborted, HookIsLive, Ledger!Records, Ledger!Outcomes, Driver!RunStates,
      Steps, InFlight

\* Every step of a request, a cancel, a recovery or a restart preserves it.
LEMMA IInvPreserved ==
  ASSUME IInv, [Next]_vars
  PROVE  IInv'
<1> USE TurnExecutionAssumption
    DEF IInv, TypeOK, StepFixes, OutcomeOfRun, CancelledWasAborted, HookIsLive,
        Ledger!Records, Ledger!Outcomes, Driver!RunStates, Driver!Results, Driver!Trusted,
        Steps, InFlight, Go
<1>1. ASSUME NEW t \in Turns, BeginClaims(t) \/ BeginPersists(t) \/ BeginFails(t) PROVE IInv'
  BY <1>1 DEF BeginClaims, BeginPersists, BeginFails, Ledger!Claim, Ledger!Start, Ledger!Release
<1>2. ASSUME NEW t \in Turns, Drive(t) PROVE IInv'
  BY <1>2 DEF Drive, Driver!Open
<1>3. ASSUME NEW t \in Turns, DriveEnds(t) PROVE IInv'
  BY <1>3 DEF DriveEnds, Driver!Resolve
<1>4. ASSUME NEW t \in Turns, FinishWrites(t) PROVE IInv'
  BY <1>4 DEF FinishWrites, Ledger!Settle, Outcome
<1>5. ASSUME NEW t \in Turns, FinishReturns(t) \/ FinishFails(t) PROVE IInv'
  BY <1>5 DEF FinishReturns, FinishFails, Ledger!Release
<1>6. ASSUME NEW t \in Turns, Publish(t) PROVE IInv'
  BY <1>6 DEF Publish, Outcome
<1>7. ASSUME NEW t \in Turns, Recover(t) PROVE IInv'
  BY <1>7 DEF Recover, Ledger!Interrupt
<1>8. ASSUME NEW p \in Positions, Cancel(p) PROVE IInv'
  BY <1>8 DEF Cancel, Driver!Abort
<1>9. CASE Restart
  BY <1>9 DEF Restart, Ledger!Forget, Driver!Forget
<1>10. CASE UNCHANGED vars
  BY <1>10 DEF vars
<1> QED BY <1>1, <1>2, <1>3, <1>4, <1>5, <1>6, <1>7, <1>8, <1>9, <1>10 DEF Next, Execute

-----------------------------------------------------------------------------

\* Every reachable state satisfies the inductive invariant.
THEOREM Invariance == Spec => []IInv
<1>1. Init => IInv
  BY InitIInv
<1>2. IInv /\ [Next]_vars => IInv'
  BY IInvPreserved
<1> QED BY <1>1, <1>2, PTL DEF Spec

\* turns/running.ts: a registered abort hook belongs to a run that has not resolved.
THEOREM HookIsLiveHolds == Spec => []HookIsLive
<1>1. IInv => HookIsLive
  BY DEF IInv
<1> QED BY <1>1, Invariance, PTL

\* handleTurnCancel: a turn that a cancel was answered for is neither recorded nor broadcast
\* as completed or failed.
THEOREM CancelledIsIndeterminateHolds == Spec => []CancelledIsIndeterminate
<1>1. IInv => CancelledIsIndeterminate
  BY DEF IInv, TypeOK, OutcomeOfRun, CancelledWasAborted, CancelledIsIndeterminate,
         Ledger!Records, Ledger!Outcomes
<1> QED BY <1>1, Invariance, PTL

\* executeTurn: the bus announces only what the store has made durable.
THEOREM PublishedIsDurableHolds == Spec => []PublishedIsDurable
<1>1. IInv => PublishedIsDurable
  BY DEF IInv, StepFixes, PublishedIsDurable
<1> QED BY <1>1, Invariance, PTL

-----------------------------------------------------------------------------
(* TurnExport *)

\* A step of the execution with its export is one of the execution, or leaves it alone.
LEMMA ExecutionStutters ==
  ASSUME [NextWithExport]_allVars
  PROVE  [Next]_vars
<1>1. ASSUME NEW t \in Turns, Executes(t) \/ Stores(t) \/ Returns(t) \/ Answers(t) PROVE Next
  BY <1>1 DEF Executes, Stores, Returns, Answers, Next, Execute
<1>2. ASSUME NEW o \in Opens, Open(o) PROVE UNCHANGED vars
  BY <1>2 DEF Open
<1>3. CASE Others \/ Restarts
  BY <1>3 DEF Others, Restarts, Next
<1>4. CASE Exporting \/ ExportFailing \/ UNCHANGED allVars
  BY <1>4 DEF Exporting, ExportFailing, allVars, vars
<1> QED BY <1>1, <1>2, <1>3, <1>4 DEF NextWithExport

\* The execution with its export implements the execution: whatever is exported, repeated or
\* fails, executeTurn and cancel behave as without it.
THEOREM ExportIsIsolated == SpecWithExport => Spec
<1>1. InitWithExport => Init
  BY DEF InitWithExport
<1>2. [NextWithExport]_allVars => [Next]_vars
  BY ExecutionStutters
<1> QED BY <1>1, <1>2, PTL DEF SpecWithExport, Spec

\* The same as CancelledIsIndeterminateHolds and PublishedIsDurableHolds, with the export.
THEOREM CancelledAndPublishedWithExport ==
  SpecWithExport => [](CancelledIsIndeterminate /\ PublishedIsDurable)
BY ExportIsIsolated, CancelledIsIndeterminateHolds, PublishedIsDurableHolds, PTL

-----------------------------------------------------------------------------

\* A call is at a turn and has turns of sessions left; the read has been awaited at "check".
CallersTyped ==
  /\ call = [c \in SessionTurns \cup Opens |-> call[c]]
  /\ \A c \in SessionTurns \cup Opens :
       call[c].at # "idle" =>
         /\ {"at", "of", "left"} \subseteq DOMAIN call[c]
         /\ call[c].of \in SessionTurns /\ call[c].left \subseteq SessionTurns

\* The types of the files, of what the provider holds and of the jobs.
JobsTyped ==
  /\ file \in [SessionTurns -> Export!Statuses]
  /\ vault \in [SessionTurns -> [Export!Roles -> {"unknown", "pending", "done"}]]
  /\ job \in [1 .. MaxJobs -> Export!Runs]

\* The occurrences a job is past have been distilled, and so have both of a turn whose file says
\* done.
JobsInOrder ==
  /\ \A j \in 1 .. MaxJobs :
       /\ job[j].at \in {"ingest", "distill"} /\ job[j].role = "assistant" => vault[job[j].of]["user"] = "done"
       /\ job[j].at = "close" => \A r \in Export!Roles : vault[job[j].of][r] = "done"
  /\ DoneMeansDistilled

\* The inductive invariant of the export.
ExportInv == CallersTyped /\ JobsTyped /\ JobsInOrder

\* A caller takes the turns it was given, one after the other.
LEMMA FollowingIsTyped ==
  ASSUME CallersTyped, NEW c \in SessionTurns \cup Opens, NEW left \in SUBSET SessionTurns,
         NEW next \in Export!Following(left), call' = [call EXCEPT ![c] = next]
  PROVE  CallersTyped'
<1>1. next.at # "idle" =>
        {"at", "of", "left"} \subseteq DOMAIN next /\ next.of \in SessionTurns /\ next.left \subseteq SessionTurns
  <2>1. CASE left = {}
    BY <2>1 DEF Export!Following, Export!Idle
  <2>2. CASE left # {}
    <3>1. PICK t \in left : next = [at |-> "read", of |-> t, left |-> left \ {t}]
      BY <2>2 DEF Export!Following
    <3>. QED BY <3>1
  <2>. QED BY <2>1, <2>2
<1>2. call' = [d \in SessionTurns \cup Opens |-> IF d = c THEN next ELSE call[d]]
  BY DEF CallersTyped
<1>3. call' = [d \in SessionTurns \cup Opens |-> call'[d]]
  BY <1>2
<1>4. \A d \in SessionTurns \cup Opens : call'[d] = next \/ call'[d] = call[d]
  BY <1>2
<1>. QED BY <1>1, <1>3, <1>4 DEF CallersTyped

\* The fields of a job under way.
LEMMA JobFields ==
  ASSUME JobsTyped, NEW j \in 1 .. MaxJobs
  PROVE  /\ job[j].at \in {"attempt", "close", "fail", "leave", "ingest", "distill"} => job[j].of \in SessionTurns
         /\ job[j].at \in {"ingest", "distill"} => job[j].role \in Export!Roles
BY DEF JobsTyped, Export!Runs, Export!NoJob

\* One job goes on: the others keep their turns, and what the provider has distilled stays.
LEMMA JobGoesOn ==
  ASSUME CallersTyped, JobsTyped, JobsInOrder, NEW j \in 1 .. MaxJobs, NEW r \in Export!Runs,
         job' = [job EXCEPT ![j] = r], UNCHANGED call,
         file' \in [SessionTurns -> Export!Statuses],
         vault' \in [SessionTurns -> [Export!Roles -> {"unknown", "pending", "done"}]],
         \A t \in SessionTurns, role \in Export!Roles : vault[t][role] = "done" => vault'[t][role] = "done",
         \A t \in SessionTurns : file'[t] = "done" => file[t] = "done" \/ \A role \in Export!Roles : vault'[t][role] = "done",
         r.at \in {"ingest", "distill"} /\ r.role = "assistant" => vault'[r.of]["user"] = "done",
         r.at = "close" => \A role \in Export!Roles : vault'[r.of][role] = "done"
  PROVE  ExportInv'
<1>1. CallersTyped' /\ JobsTyped'
  BY DEF CallersTyped, JobsTyped
<1>2. DoneMeansDistilled'
  BY DEF JobsInOrder, DoneMeansDistilled
<1>3. ASSUME NEW k \in 1 .. MaxJobs
      PROVE  /\ job'[k].at \in {"ingest", "distill"} /\ job'[k].role = "assistant" => vault'[job'[k].of]["user"] = "done"
             /\ job'[k].at = "close" => \A role \in Export!Roles : vault'[job'[k].of][role] = "done"
  <2>1. CASE k = j
    BY <2>1 DEF JobsTyped
  <2>2. CASE k # j
    <3>1. job'[k] = job[k]
      BY <2>2 DEF JobsTyped
    <3>2. "user" \in Export!Roles
      BY DEF Export!Roles
    <3>. QED BY <3>1, <3>2, JobFields DEF JobsInOrder
  <2>. QED BY <2>1, <2>2
<1>. QED BY <1>1, <1>2, <1>3 DEF ExportInv, JobsInOrder

\* What each step of enqueueCompletedTurn does to the invariant.
LEMMA EnqueuePreserves ==
  ASSUME ExportInv, NEW c \in SessionTurns \cup Opens, Export!EnqueueStep(c) \/ Export!EnqueueThrows(c)
  PROVE  ExportInv'
<1>. USE DEF ExportInv
<1>1. CASE Export!Read(c)
  <2>1. UNCHANGED <<file, vault, jobs, job>>
    BY <1>1 DEF Export!Read
  <2>2. CallersTyped'
    BY <1>1 DEF Export!Read, CallersTyped
  <2>. QED BY <2>1, <2>2 DEF JobsTyped, JobsInOrder, DoneMeansDistilled
<1>2. ASSUME Export!Return(c), call[c].at # "idle" PROVE CallersTyped'
  <2>1. PICK next \in Export!Following(call[c].left) : call' = [call EXCEPT ![c] = next]
    BY <1>2 DEF Export!Return
  <2>. QED BY <2>1, <1>2, FollowingIsTyped DEF CallersTyped
<1>3. CASE Export!Check(c)
  <2>1. UNCHANGED <<file, vault, jobs, job>> /\ call[c].at = "check"
    BY <1>3 DEF Export!Check
  <2>2. CASE call' = [call EXCEPT ![c] = [at |-> "write", of |-> @.of, left |-> @.left]]
    BY <2>1, <2>2 DEF CallersTyped, JobsTyped, JobsInOrder, DoneMeansDistilled
  <2>3. CASE Export!Return(c)
    BY <2>1, <2>3, <1>2 DEF JobsTyped, JobsInOrder, DoneMeansDistilled
  <2>. QED BY <1>3, <2>2, <2>3 DEF Export!Check
<1>4. CASE Export!Intend(c)
  <2>1. UNCHANGED <<vault, jobs, job>> /\ call[c].of \in SessionTurns
    BY <1>4 DEF Export!Intend, CallersTyped
  <2>2. CallersTyped'
    BY <1>4 DEF Export!Intend, CallersTyped
  <2>3. file' = [file EXCEPT ![call[c].of] = "pending"]
    BY <1>4 DEF Export!Intend
  <2>4. file' \in [SessionTurns -> Export!Statuses] /\ \A t \in SessionTurns : file'[t] = "done" => file[t] = "done"
    BY <2>1, <2>3 DEF JobsTyped, Export!Statuses
  <2>. QED BY <2>1, <2>2, <2>4 DEF JobsTyped, JobsInOrder, DoneMeansDistilled
<1>5. CASE Export!StartJob(c)
  <2>. DEFINE j == CHOOSE free \in Export!Free : \A other \in Export!Free : free <= other
              r == [at |-> "attempt", of |-> call[c].of]
  <2>1. call[c].at = "written" /\ call[c].of \in SessionTurns /\ UNCHANGED <<file, vault>>
    BY <1>5 DEF Export!StartJob, CallersTyped
  <2>2. job' = [job EXCEPT ![j] = r]
    BY <1>5 DEF Export!StartJob
  <2>3. CallersTyped'
    BY <1>2, <1>5, <2>1 DEF Export!StartJob
  <2>4. r \in Export!Runs /\ r.at = "attempt"
    BY <2>1 DEF Export!Runs
  <2>. HIDE DEF j, r
  <2>5. job' \in [1 .. MaxJobs -> Export!Runs] /\ \A k \in 1 .. MaxJobs : job'[k] = job[k] \/ job'[k].at = "attempt"
    BY <2>2, <2>4 DEF JobsTyped
  <2>. QED BY <2>1, <2>3, <2>5 DEF JobsTyped, JobsInOrder, DoneMeansDistilled
<1>6. CASE Export!EnqueueThrows(c)
  BY <1>6 DEF Export!EnqueueThrows, Export!Idle, CallersTyped, JobsTyped, JobsInOrder, DoneMeansDistilled
<1>. QED BY <1>1, <1>3, <1>4, <1>5, <1>6 DEF Export!EnqueueStep

\* What each step of a job does to the invariant.
LEMMA JobPreserves ==
  ASSUME ExportInv, NEW j \in 1 .. MaxJobs,
         Export!JobStep(j) \/ Export!JobFails(j) \/ Export!FailureLost(j)
  PROVE  ExportInv'
<1>. DEFINE t == job[j].of
            role == job[j].role
<1>0. CallersTyped /\ JobsTyped /\ JobsInOrder
  BY DEF ExportInv
<1>1. ASSUME NEW status \in Export!Statuses, Export!WriteFile(j, status), t \in SessionTurns,
             status = "done" => \A r \in Export!Roles : vault[t][r] = "done"
      PROVE  /\ file' \in [SessionTurns -> Export!Statuses]
             /\ \A u \in SessionTurns :
                  file'[u] = "done" => file[u] = "done" \/ \A r \in Export!Roles : vault[u][r] = "done"
  BY <1>0, <1>1 DEF Export!WriteFile, JobsTyped
<1>2. ASSUME NEW status \in {"pending", "done"}, Export!Holds(j, status), t \in SessionTurns, role \in Export!Roles,
             status = "pending" => vault[t][role] = "unknown"
      PROVE  /\ vault' \in [SessionTurns -> [Export!Roles -> {"unknown", "pending", "done"}]]
             /\ \A u \in SessionTurns, r \in Export!Roles : vault[u][r] = "done" => vault'[u][r] = "done"
             /\ vault'[t][role] = status
  BY <1>0, <1>2 DEF Export!Holds, JobsTyped
<1>3. ASSUME Export!Ingested(j), t \in SessionTurns, role \in Export!Roles
      PROVE  /\ vault' \in [SessionTurns -> [Export!Roles -> {"unknown", "pending", "done"}]]
             /\ \A u \in SessionTurns, r \in Export!Roles : vault[u][r] = "done" => vault'[u][r] = "done"
  BY <1>0, <1>2, <1>3 DEF Export!Ingested, JobsTyped
<1>4. ASSUME NEW at \in {"attempt", "close", "fail", "leave"}, t \in SessionTurns
      PROVE  [at |-> at, of |-> t] \in Export!Runs
  BY <1>4 DEF Export!Runs
<1>5. ASSUME NEW at \in {"ingest", "distill"}, NEW r \in Export!Roles, t \in SessionTurns
      PROVE  [at |-> at, of |-> t, role |-> r] \in Export!Runs
  BY <1>5 DEF Export!Runs
<1>6. "user" \in Export!Roles /\ "assistant" \in Export!Roles /\ Export!Roles = {"user", "assistant"}
        /\ \A r \in Export!Roles : r = "user" \/ r = "assistant"
  BY DEF Export!Roles
<1>7. ASSUME NEW at \in {"fail", "leave"}, Export!GoJob(j, at), t \in SessionTurns, UNCHANGED call,
             file' \in [SessionTurns -> Export!Statuses],
             vault' \in [SessionTurns -> [Export!Roles -> {"unknown", "pending", "done"}]],
             \A u \in SessionTurns, r \in Export!Roles : vault[u][r] = "done" => vault'[u][r] = "done",
             \A u \in SessionTurns : file'[u] = "done" => file[u] = "done" \/ \A r \in Export!Roles : vault'[u][r] = "done"
      PROVE  ExportInv'
  <2>1. job' = [job EXCEPT ![j] = [at |-> at, of |-> t]]
    BY <1>7 DEF Export!GoJob
  <2>. QED BY <2>1, <1>0, <1>4, <1>7, JobGoesOn
<1>8. ASSUME Export!AfterOccurrence(j), job[j].at \in {"ingest", "distill"}, UNCHANGED <<file, call>>,
             vault' \in [SessionTurns -> [Export!Roles -> {"unknown", "pending", "done"}]],
             \A u \in SessionTurns, r \in Export!Roles : vault[u][r] = "done" => vault'[u][r] = "done",
             vault'[t][role] = "done"
      PROVE  ExportInv'
  <2>0. t \in SessionTurns /\ role \in Export!Roles
    BY <1>0, <1>8, JobFields
  <2>1. CASE role = "user"
    <3>1. job' = [job EXCEPT ![j] = [at |-> "ingest", of |-> t, role |-> "assistant"]]
      BY <2>1, <1>8 DEF Export!AfterOccurrence, Export!Serve
    <3>. QED BY <3>1, <2>0, <2>1, <1>0, <1>5, <1>6, <1>8, JobGoesOn DEF JobsTyped
  <2>2. CASE role # "user"
    <3>1. job' = [job EXCEPT ![j] = [at |-> "close", of |-> t]]
      BY <2>2, <1>8 DEF Export!AfterOccurrence, Export!GoJob
    <3>2. role = "assistant" /\ vault[t]["user"] = "done"
      BY <2>0, <2>2, <1>0, <1>6, <1>8 DEF JobsInOrder
    <3>3. \A r \in Export!Roles : vault'[t][r] = "done"
      BY <3>2, <2>0, <1>6, <1>8
    <3>. QED BY <3>1, <3>3, <2>0, <1>0, <1>4, <1>8, JobGoesOn DEF JobsTyped
  <2>. QED BY <2>1, <2>2
<1>9. CASE Export!Attempt(j)
  <2>1. /\ t \in SessionTurns /\ Export!WriteFile(j, "pending") /\ UNCHANGED <<vault, call>>
        /\ job' = [job EXCEPT ![j] = [at |-> "ingest", of |-> t, role |-> "user"]]
    BY <1>0, <1>9, JobFields DEF Export!Attempt, Export!Serve
  <2>2. "pending" \in Export!Statuses
    BY DEF Export!Statuses
  <2>. QED BY <2>1, <2>2, <1>0, <1>1, <1>5, <1>6, JobGoesOn DEF JobsTyped
<1>10. CASE Export!Ingest(j)
  <2>1. /\ t \in SessionTurns /\ role \in Export!Roles /\ Export!Ingested(j) /\ UNCHANGED <<file, call>>
        /\ job[j].at = "ingest"
    BY <1>0, <1>10, JobFields DEF Export!Ingest
  <2>2. CASE vault[t][role] = "done" /\ Export!AfterOccurrence(j)
    BY <2>1, <2>2, <1>3, <1>8
  <2>3. CASE vault[t][role] # "done" /\ Export!Serve(j, "distill", role)
    <3>1. job' = [job EXCEPT ![j] = [at |-> "distill", of |-> t, role |-> role]]
      BY <2>3 DEF Export!Serve
    <3>2. role = "assistant" => vault[t]["user"] = "done"
      BY <2>1, <1>0 DEF JobsInOrder
    <3>. QED BY <3>1, <3>2, <2>1, <1>0, <1>3, <1>5, <1>6, JobGoesOn DEF JobsTyped
  <2>. QED BY <2>2, <2>3, <1>10 DEF Export!Ingest
<1>11. CASE Export!Distill(j)
  <2>1. /\ t \in SessionTurns /\ role \in Export!Roles /\ Export!Holds(j, "done") /\ UNCHANGED <<file, call>>
        /\ job[j].at = "distill" /\ Export!AfterOccurrence(j)
    BY <1>0, <1>11, JobFields DEF Export!Distill
  <2>. QED BY <2>1, <1>2, <1>8
<1>12. CASE Export!Close(j)
  <2>1. /\ t \in SessionTurns /\ Export!WriteFile(j, "done") /\ UNCHANGED <<vault, call>>
        /\ Export!GoJob(j, "leave") /\ \A r \in Export!Roles : vault[t][r] = "done"
    BY <1>0, <1>12, JobFields DEF Export!Close, JobsInOrder
  <2>2. "done" \in Export!Statuses
    BY DEF Export!Statuses
  <2>. QED BY <2>1, <2>2, <1>0, <1>1, <1>7 DEF JobsTyped
<1>13. CASE Export!RecordFailure(j)
  <2>1. /\ t \in SessionTurns /\ Export!WriteFile(j, "failed") /\ UNCHANGED <<vault, call>> /\ Export!GoJob(j, "leave")
    BY <1>0, <1>13, JobFields DEF Export!RecordFailure
  <2>2. "failed" \in Export!Statuses
    BY DEF Export!Statuses
  <2>. QED BY <2>1, <2>2, <1>0, <1>1, <1>7 DEF JobsTyped
<1>14. CASE Export!Leave(j)
  <2>1. job' = [job EXCEPT ![j] = Export!NoJob] /\ UNCHANGED <<file, vault, call>>
    BY <1>14 DEF Export!Leave
  <2>2. Export!NoJob \in Export!Runs /\ Export!NoJob.at = "none"
    BY DEF Export!Runs, Export!NoJob
  <2>. QED BY <2>1, <2>2, <1>0, JobGoesOn DEF JobsTyped
<1>15. CASE Export!JobFails(j)
  <2>0. /\ Export!GoJob(j, "fail") /\ UNCHANGED call /\ t \in SessionTurns
        /\ job[j].at \in {"ingest", "distill"} => role \in Export!Roles
    BY <1>0, <1>15, JobFields DEF Export!JobFails
  <2>1. CASE UNCHANGED <<file, vault>>
    BY <2>0, <2>1, <1>0, <1>7 DEF JobsTyped
  <2>2. CASE job[j].at = "attempt" /\ Export!WriteFile(j, "pending") /\ UNCHANGED vault
    <3>1. "pending" \in Export!Statuses
      BY DEF Export!Statuses
    <3>. QED BY <3>1, <2>0, <2>2, <1>0, <1>1, <1>7 DEF JobsTyped
  <2>3. CASE job[j].at = "close" /\ Export!WriteFile(j, "done") /\ UNCHANGED vault
    <3>1. "done" \in Export!Statuses /\ \A r \in Export!Roles : vault[t][r] = "done"
      BY <2>3, <1>0 DEF Export!Statuses, JobsInOrder
    <3>. QED BY <3>1, <2>0, <2>3, <1>0, <1>1, <1>7 DEF JobsTyped
  <2>4. CASE job[j].at = "ingest" /\ Export!Ingested(j) /\ UNCHANGED file
    BY <2>0, <2>4, <1>0, <1>3, <1>7 DEF JobsTyped
  <2>5. CASE job[j].at = "distill" /\ Export!Holds(j, "done") /\ UNCHANGED file
    BY <2>0, <2>5, <1>0, <1>2, <1>7 DEF JobsTyped
  <2>. QED BY <1>15, <2>1, <2>2, <2>3, <2>4, <2>5 DEF Export!JobFails
<1>16. CASE Export!FailureLost(j)
  <2>1. t \in SessionTurns /\ Export!GoJob(j, "leave") /\ UNCHANGED <<file, vault, call>>
    BY <1>0, <1>16, JobFields DEF Export!FailureLost
  <2>. QED BY <2>1, <1>0, <1>7 DEF JobsTyped
<1>. QED BY <1>9, <1>10, <1>11, <1>12, <1>13, <1>14, <1>15, <1>16 DEF Export!JobStep

\* The inductive invariant of the export, for any number of turns, opens and jobs.
THEOREM ExportInvariant == SpecWithExport => []ExportInv
<1>. USE TurnExportAssumption
<1>1. InitWithExport => ExportInv
  <2>. SUFFICES ASSUME Export!ExportInit PROVE ExportInv
    BY DEF InitWithExport
  <2>1. CallersTyped
    BY DEF Export!ExportInit, CallersTyped, Export!Idle
  <2>2. JobsTyped
    BY DEF Export!ExportInit, JobsTyped, Export!Statuses, Export!Roles, Export!Runs, Export!NoJob
  <2>3. JobsInOrder
    BY DEF Export!ExportInit, JobsInOrder, DoneMeansDistilled, Export!NoJob
  <2>. QED BY <2>1, <2>2, <2>3 DEF ExportInv
<1>2. ExportInv /\ [NextWithExport]_allVars => ExportInv'
  <2>. SUFFICES ASSUME ExportInv, [NextWithExport]_allVars PROVE ExportInv'
    OBVIOUS
  <2>1. ASSUME UNCHANGED exportVars PROVE ExportInv'
    BY <2>1 DEF exportVars, ExportInv, CallersTyped, JobsTyped, JobsInOrder, DoneMeansDistilled
  <2>2. ASSUME NEW c \in SessionTurns \cup Opens, NEW turns \in SUBSET SessionTurns, Export!Enqueue(c, turns)
        PROVE  ExportInv'
    <3>1. PICK next \in Export!Following(turns) : call' = [call EXCEPT ![c] = next]
      BY <2>2 DEF Export!Enqueue
    <3>2. CallersTyped'
      BY <3>1, FollowingIsTyped DEF ExportInv
    <3>3. UNCHANGED <<file, vault, jobs, job>>
      BY <2>2 DEF Export!Enqueue
    <3>. QED BY <3>2, <3>3 DEF ExportInv, JobsTyped, JobsInOrder, DoneMeansDistilled
  <2>3. ASSUME NEW t \in Turns, Executes(t) \/ Stores(t) \/ Answers(t) PROVE ExportInv'
    BY <2>1, <2>3 DEF Executes, Stores, Answers
  <2>4. ASSUME NEW t \in Turns, Returns(t) PROVE ExportInv'
    <3>1. CASE t \in SessionTurns /\ Export!Enqueue(t, {t})
      BY <3>1, <2>2
    <3>. QED BY <3>1, <2>1, <2>4 DEF Returns, ExportsOutcome
  <2>5. ASSUME NEW o \in Opens, Open(o) PROVE ExportInv'
    BY <2>2, <2>5 DEF Open
  <2>6. CASE Others
    BY <2>1, <2>6 DEF Others
  <2>7. CASE Restarts
    <3>1. Export!Forgotten
      BY <2>7 DEF Restarts
    <3>2. CallersTyped'
      BY <3>1 DEF Export!Forgotten, CallersTyped, Export!Idle
    <3>3. JobsTyped'
      BY <3>1 DEF Export!Forgotten, ExportInv, JobsTyped, Export!Runs
    <3>4. JobsInOrder'
      BY <3>1 DEF Export!Forgotten, ExportInv, JobsInOrder, DoneMeansDistilled, Export!NoJob
    <3>. QED BY <3>2, <3>3, <3>4 DEF ExportInv
  <2>8. CASE Exporting
    BY <2>8, EnqueuePreserves, JobPreserves DEF Exporting, Export!ExportWorks
  <2>9. CASE ExportFailing
    BY <2>9, EnqueuePreserves, JobPreserves DEF ExportFailing, Export!ExportFails
  <2>10. CASE UNCHANGED allVars
    BY <2>1, <2>10 DEF allVars, exportVars
  <2>. QED BY <2>3, <2>4, <2>5, <2>6, <2>7, <2>8, <2>9, <2>10 DEF NextWithExport
<1>. QED BY <1>1, <1>2, PTL DEF SpecWithExport

\* context-export/exporter.ts: a state file says done only of what the provider has distilled.
THEOREM DoneMeansDistilledHolds == SpecWithExport => []DoneMeansDistilled
<1>1. ExportInv => DoneMeansDistilled
  BY DEF ExportInv, JobsInOrder
<1>. QED BY <1>1, ExportInvariant, PTL
=============================================================================

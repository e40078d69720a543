--------------------------- MODULE TurnExecution ---------------------------
(***************************************************************************)
(* apps/server/src/routes/turns.ts, executeTurn and handleTurnCancel, with *)
(* turns/running.ts: the way of a turn through the store, the driver and   *)
(* the event bus, and the abort hooks that cancellation finds by position. *)
(* Session and group turns of a position run through the same code, so     *)
(* several turns of one position may be under way.                         *)
(*                                                                         *)
(* The store is the TurnLedger that TurnStore implements, the engine driver*)
(* the DriverContract that TurnDriver implements.  TurnExport adds what    *)
(* follows a completed session turn, and the fairness.                     *)
(***************************************************************************)
EXTENDS Naturals

CONSTANTS Turns, Positions,
          PositionOf,   \* the position each turn is posted to
          None          \* undefined

ASSUME TurnExecutionAssumption ==
  /\ PositionOf \in [Turns -> Positions]
  /\ None \notin Turns

VARIABLES
  record, owned,  \* the store: TurnLedger
  run,            \* the driver: DriverContract
  step,           \* where executeTurn is for each turn
  hook,           \* RunningTurnRegistry.aborts: whose abort a position's entry is
  published,      \* what the terminal event on the bus said of each turn, or "none"
  cancelled       \* observation: turns whose abort a cancel answered with 200

Ledger == INSTANCE TurnLedger
Driver == INSTANCE DriverContract WITH Runs <- Turns

vars == <<record, owned, run, step, hook, published, cancelled>>

(***************************************************************************)
(* new        not posted               driving   turnRun was called        *)
(* claimed    begin has the key        ended     it resolved; hook removed *)
(* persisted  the running record is in place                               *)
(* storing    finish replaced it       stored    finish returned           *)
(* answered   published, 200           failed    the request threw         *)
(***************************************************************************)
InFlight == {"claimed", "persisted", "driving", "ended", "storing", "stored"}
Steps == InFlight \cup {"new", "answered", "failed", "gone"}

\* Variant: a cancelled run counts as failed (refuted by CancelledIsIndeterminate).
CancelledFails(state) == IF state = "cancelled" THEN "failed" ELSE state

\* The status executeTurn records for a result of turnRun.
Outcome(state) == IF state = "cancelled" THEN "indeterminate" ELSE state

Go(t, here) == step' = [step EXCEPT ![t] = here]

Init ==
  /\ Ledger!LedgerInit
  /\ Driver!ContractInit
  /\ step = [t \in Turns |-> "new"]
  /\ hook = [p \in Positions |-> None]
  /\ published = [t \in Turns |-> "none"]
  /\ cancelled = {}

-----------------------------------------------------------------------------
(* executeTurn *)

BeginClaims(t) ==
  /\ step[t] = "new"
  /\ Ledger!Claim(t)
  /\ Go(t, "claimed")
  /\ UNCHANGED <<run, hook, published, cancelled>>

BeginPersists(t) ==
  /\ step[t] = "claimed"
  /\ Ledger!Start(t)
  /\ Go(t, "persisted")
  /\ UNCHANGED <<run, hook, published, cancelled>>

\* begin threw: before its write, or after the rename.
BeginFails(t) ==
  /\ step[t] \in {"claimed", "persisted"}
  /\ Ledger!Release(t)
  /\ Go(t, "failed")
  /\ UNCHANGED <<run, hook, published, cancelled>>

\* turnRun calls setAbort before it returns its promise: the position's entry is now this
\* turn's, whoever's it was.
Drive(t) ==
  /\ step[t] = "persisted"
  /\ Driver!Open(t)
  /\ hook' = [hook EXCEPT ![PositionOf[t]] = t]
  /\ Go(t, "driving")
  /\ UNCHANGED <<record, owned, published, cancelled>>

\* The promise resolves (or throws: indeterminate) and the finally deletes the position's entry.
DriveEnds(t) ==
  /\ step[t] = "driving"
  /\ Driver!Resolve(t)
  /\ hook' = [hook EXCEPT ![PositionOf[t]] = None]
  /\ Go(t, "ended")
  /\ UNCHANGED <<record, owned, published, cancelled>>

FinishWrites(t) ==
  /\ step[t] = "ended"
  /\ Ledger!Settle(t)
  /\ record'[t] = Outcome(run[t])
  /\ Go(t, "storing")
  /\ UNCHANGED <<run, hook, published, cancelled>>

FinishReturns(t) ==
  /\ step[t] = "storing"
  /\ Ledger!Release(t)
  /\ Go(t, "stored")
  /\ UNCHANGED <<run, hook, published, cancelled>>

\* The request fails without an event; the store keeps the key.
FinishFails(t) ==
  /\ step[t] \in {"ended", "storing"}
  /\ Go(t, "failed")
  /\ UNCHANGED <<record, owned, run, hook, published, cancelled>>

\* Variant: the event does not wait for finish (refuted by PublishedIsDurable).
PublishEarly(t) ==
  /\ step[t] \in {"ended", "stored"}
  /\ published' = [published EXCEPT ![t] = Outcome(run[t])]
  /\ Go(t, "answered")
  /\ UNCHANGED <<record, owned, run, hook, cancelled>>

\* After the awaited, isolated context export: the event and the response in one go.
Publish(t) ==
  /\ step[t] = "stored"
  /\ published' = [published EXCEPT ![t] = Outcome(run[t])]
  /\ Go(t, "answered")
  /\ UNCHANGED <<record, owned, run, hook, cancelled>>

-----------------------------------------------------------------------------
(* The other actors *)

\* handleTurnCancel with an entry for the position; without one it answers 404 and changes
\* nothing.  A second abort of the same run does nothing and answers 200 again.
Cancel(p) ==
  /\ hook[p] # None
  /\ Driver!Abort(hook[p]) \/ (run[hook[p]] # "open" /\ UNCHANGED run)
  /\ cancelled' = cancelled \cup {hook[p]}
  /\ UNCHANGED <<record, owned, step, hook, published>>

\* A history request recovers a record nobody owns.
Recover(t) ==
  /\ Ledger!Interrupt(t)
  /\ UNCHANGED <<run, step, hook, published, cancelled>>

\* Memory is lost; the engine processes of the old server no longer have a reader.
Restart ==
  /\ Ledger!Forget
  /\ Driver!Forget
  /\ step' = [t \in Turns |-> IF step[t] \in InFlight THEN "gone" ELSE step[t]]
  /\ hook' = [p \in Positions |-> None]
  /\ UNCHANGED <<published, cancelled>>

Execute(t) ==
  \/ BeginClaims(t) \/ BeginPersists(t) \/ BeginFails(t) \/ Drive(t) \/ DriveEnds(t)
  \/ FinishWrites(t) \/ FinishReturns(t) \/ FinishFails(t) \/ Publish(t)

Next ==
  \/ \E t \in Turns : Execute(t) \/ Recover(t)
  \/ \E p \in Positions : Cancel(p)
  \/ Restart

Spec == Init /\ [][Next]_vars

-----------------------------------------------------------------------------
(* Properties *)

\* Every variable has its type.
TypeOK ==
  /\ record \in [Turns -> Ledger!Records]
  /\ owned \subseteq Turns
  /\ run \in [Turns -> Driver!RunStates]
  /\ step \in [Turns -> Steps]
  /\ hook \in [Positions -> Turns \cup {None}]
  /\ published \in [Turns -> Ledger!Outcomes \cup {"none"}]
  /\ cancelled \subseteq Turns

\* An entry of the registry is the hook of a run that has not resolved, however the turns of
\* a position overlap and whatever fails: a 200 answer to a cancel is never about a turn that
\* has already ended.
HookIsLive ==
  \A p \in Positions :
    hook[p] # None =>
      /\ PositionOf[hook[p]] = p
      /\ step[hook[p]] = "driving"
      /\ run[hook[p]] \in {"open", "aborted"}

\* docs/api-contract-v0.md:317: a turn whose cancellation was answered with 200 is recorded
\* and broadcast as indeterminate, never as completed or failed.
CancelledIsIndeterminate ==
  \A t \in cancelled :
    /\ record[t] \in {"running", "indeterminate", "interrupted"}
    /\ published[t] \in {"none", "indeterminate"}

\* docs/api-contract-v0.md:288: turn.completed, turn.failed and turn.indeterminate are
\* broadcast only once the record that says the same is durable, and a turn whose finish
\* failed is not broadcast.  (The record of a finished turn may later be overwritten by a
\* recovery that read it before, see TurnStore.)
PublishedIsDurable ==
  \A t \in Turns :
    published[t] # "none" => record[t] \in {published[t], "interrupted"} /\ t \notin owned

\* Every posted turn is answered, fails, or dies with the process.
TurnsAreAnswered ==
  \A t \in Turns : step[t] = "claimed" ~> step[t] \in {"answered", "failed", "gone"}

\* docs/api-contract-v0.md:316: cancel answers 404 when no turn of the position is running.
RunningTurnIsCancellable ==
  \A t \in Turns : run[t] = "open" => hook[PositionOf[t]] # None
=============================================================================

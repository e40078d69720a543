----------------------------- MODULE TurnLedger -----------------------------
(***************************************************************************)
(* What the control plane promises about the durable record of a turn,     *)
(* whatever files, awaits and directory scans it takes to keep the promise.*)
(*                                                                         *)
(* A turn is claimed by the running process before anything is written,    *)
(* its record appears as "running", and only the process that claims it    *)
(* settles it with the engine's outcome.  A process that dies forgets all  *)
(* its claims.  A record nobody claims may be marked "interrupted"         *)
(* (status indeterminate, code turn_interrupted); a claimed one never is.  *)
(***************************************************************************)

CONSTANT Turns      \* the turn identities (random UUIDs, never reused)

VARIABLES record,   \* the durable record of each turn
          owned     \* the turns the live process claims

ledgerVars == <<record, owned>>

\* What the engine run came to: turns/store.ts TurnRecord.status once finish wrote it.
Outcomes == {"completed", "failed", "indeterminate"}

Records == {"absent", "running", "interrupted"} \cup Outcomes

LedgerInit ==
  /\ record = [t \in Turns |-> "absent"]
  /\ owned = {}

\* The process takes responsibility for a turn nothing is stored of.
Claim(t) ==
  /\ t \notin owned
  /\ record[t] = "absent"
  /\ owned' = owned \cup {t}
  /\ UNCHANGED record

\* The owner makes the turn durable before it runs the engine.
Start(t) ==
  /\ t \in owned
  /\ record[t] = "absent"
  /\ record' = [record EXCEPT ![t] = "running"]
  /\ UNCHANGED owned

\* The owner, and nobody else, stores the outcome of the run, once.
Settle(t) ==
  /\ t \in owned
  /\ record[t] = "running"
  /\ \E o \in Outcomes : record' = [record EXCEPT ![t] = o]
  /\ UNCHANGED owned

\* The owner gives the turn up: it settled, or its begin was refused.
Release(t) ==
  /\ t \in owned
  /\ owned' = owned \ {t}
  /\ UNCHANGED record

\* Recovery reaches only turns without an owner.
Interrupt(t) ==
  /\ t \notin owned
  /\ record[t] # "absent"
  /\ record' = [record EXCEPT ![t] = "interrupted"]
  /\ UNCHANGED owned

\* The process dies: claims are memory, records are disk.
Forget ==
  /\ owned' = {}
  /\ UNCHANGED record

LedgerNext ==
  \/ \E t \in Turns : Claim(t) \/ Start(t) \/ Settle(t) \/ Release(t) \/ Interrupt(t)
  \/ Forget

LedgerSpec == LedgerInit /\ [][LedgerNext]_ledgerVars

=============================================================================

------------------------------ MODULE TurnStore ------------------------------
(***************************************************************************)
(* apps/server/src/turns/store.ts, class TurnStore: the durable record of  *)
(* every turn, kept in one directory per conversation.  A conversation is  *)
(* a position's or an explicit session's; begin/beginSession,              *)
(* finish/finishSession and history/sessionHistory are the same code over  *)
(* two directory layouts and are one definition here.                      *)
(*                                                                         *)
(* The server is one thread, so an action is what runs between two awaits  *)
(* that other requests can tell apart.  An atomic write is a rename        *)
(* followed by chmod and the directory fsync: it can still throw after the *)
(* record has been replaced.                                               *)
(***************************************************************************)
EXTENDS Integers, FiniteSets, FiniteSetsExt

CONSTANTS
  Turns,            \* turn ids: random UUIDs, each begun at most once
  Conversations,    \* position and session conversation directories
  ConversationOf,   \* the conversation each turn is posted to
  Readers,          \* history requests
  MaxTurns,         \* MAX_TURNS_PER_POSITION
  MaxBytes,         \* MAX_HISTORY_BYTES
  RunningBytes,     \* size of a record without events or output
  OutcomeBytes,     \* sizes a settled record can take
  NoTurn            \* null value of a reader's current record

ASSUME TurnStoreAssumption ==
  /\ ConversationOf \in [Turns -> Conversations]
  /\ NoTurn \notin Turns
  /\ MaxTurns \in Nat
  /\ MaxBytes \in Nat
  /\ RunningBytes \in Nat
  /\ OutcomeBytes \subseteq Nat

VARIABLES
  record,   \* disk: status of each turn's JSON file, "absent" before it exists
  bytes,    \* disk: size of that file
  active,   \* memory: the activeTurns set of keys
  pc,       \* where the executor of each turn is (see Phases)
  scan,     \* where each history request is
  todo,     \* file names a history request has still to read
  cur,      \* the record it holds
  raw,      \* the status it read in that record
  seen      \* historyBytes so far

diskVars   == <<record, bytes>>
readerVars == <<scan, todo, cur, raw, seen>>
vars       == <<record, bytes, active, pc, scan, todo, cur, raw, seen>>

Outcomes == {"completed", "failed", "indeterminate"}

\* An indeterminate record whose code is turn_interrupted is told apart from an
\* engine outcome: only recovery writes it.
Statuses == {"absent", "running", "interrupted"} \cup Outcomes

(***************************************************************************)
(* idle      the POST has not reached the store                            *)
(* admitted  assertCapacity passed; conversation metadata is being loaded  *)
(* starting  key added, the running record is being written                *)
(* started   the running record is in place, not yet synced                *)
(* executing begin returned: the engine runs, then finish writes           *)
(* settled   the outcome is in place, not yet synced                       *)
(* done      finish returned         rejected  begin threw                 *)
(* stuck     finish threw            gone      the process died            *)
(***************************************************************************)
InFlight == {"admitted", "starting", "started", "executing", "settled"}
Ended    == {"done", "rejected", "stuck", "gone"}
Phases   == {"idle"} \cup InFlight \cup Ended

\* The executor phases between activeTurns.add and the finish that deletes the key.
Holding == {"starting", "started", "executing", "settled"}

Stored(c) == {t \in Turns : ConversationOf[t] = c /\ record[t] # "absent"}

StoredBytes(c) == MapThenSumSet(LAMBDA t : bytes[t], Stored(c))

\* assertCapacity: a conversation that already holds the bound accepts no turn.
Full(c) == Cardinality(Stored(c)) >= MaxTurns \/ StoredBytes(c) >= MaxBytes

Init ==
  /\ record = [t \in Turns |-> "absent"]
  /\ bytes = [t \in Turns |-> 0]
  /\ active = {}
  /\ pc = [t \in Turns |-> "idle"]
  /\ scan = [r \in Readers |-> "idle"]
  /\ todo = [r \in Readers |-> {}]
  /\ cur = [r \in Readers |-> NoTurn]
  /\ raw = [r \in Readers |-> "absent"]
  /\ seen = [r \in Readers |-> 0]

-----------------------------------------------------------------------------
(* begin / beginSession *)

\* The capacity check reads the directory; the answer is used after an await.
AssertCapacity(t) ==
  /\ pc[t] = "idle"
  /\ pc' = [pc EXCEPT ![t] = IF Full(ConversationOf[t]) THEN "rejected" ELSE "admitted"]
  /\ UNCHANGED <<diskVars, active, readerVars>>

\* Directories or conversation metadata could not be prepared: nothing is claimed yet.
PrepareFails(t) ==
  /\ pc[t] \in {"idle", "admitted"}
  /\ pc' = [pc EXCEPT ![t] = "rejected"]
  /\ UNCHANGED <<diskVars, active, readerVars>>

\* Variant: the key is forgotten (refuted by LiveTurnNotInterrupted).
ClaimNoKey(t) ==
  /\ pc[t] = "admitted"
  /\ pc' = [pc EXCEPT ![t] = "starting"]
  /\ UNCHANGED <<diskVars, active, readerVars>>

\* The key is added before the record exists, so no scan meets an unowned running record.
ClaimKey(t) ==
  /\ pc[t] = "admitted"
  /\ pc' = [pc EXCEPT ![t] = "starting"]
  /\ active' = active \cup {t}
  /\ UNCHANGED <<diskVars, readerVars>>

WriteRunning(t) ==
  /\ pc[t] = "starting"
  /\ pc' = [pc EXCEPT ![t] = "started"]
  /\ record' = [record EXCEPT ![t] = "running"]
  /\ bytes' = [bytes EXCEPT ![t] = RunningBytes]
  /\ UNCHANGED <<active, readerVars>>

\* Variant: a begin that throws keeps its key (refuted by OrphansAreRecovered).
BeginFailsKeepingKey(t) ==
  /\ pc[t] \in {"starting", "started"}
  /\ pc' = [pc EXCEPT ![t] = "rejected"]
  /\ UNCHANGED <<diskVars, active, readerVars>>

\* Variant: it removes the file it may have written (refuted by ImplementsLedger).
BeginFailsErasing(t) ==
  /\ pc[t] \in {"starting", "started"}
  /\ pc' = [pc EXCEPT ![t] = "rejected"]
  /\ active' = active \ {t}
  /\ record' = [record EXCEPT ![t] = "absent"]
  /\ UNCHANGED <<bytes, readerVars>>

\* The write threw, before the rename or after it: the key goes, the file may stay.
BeginWriteFails(t) ==
  /\ pc[t] \in {"starting", "started"}
  /\ pc' = [pc EXCEPT ![t] = "rejected"]
  /\ active' = active \ {t}
  /\ UNCHANGED <<diskVars, readerVars>>

BeginReturns(t) ==
  /\ pc[t] = "started"
  /\ pc' = [pc EXCEPT ![t] = "executing"]
  /\ UNCHANGED <<diskVars, active, readerVars>>

-----------------------------------------------------------------------------
(* finish / finishSession, called once with the outcome the driver resolved to *)

WriteTerminal(t) ==
  /\ pc[t] = "executing"
  /\ pc' = [pc EXCEPT ![t] = "settled"]
  /\ \E o \in Outcomes, n \in OutcomeBytes :
       /\ record' = [record EXCEPT ![t] = o]
       /\ bytes' = [bytes EXCEPT ![t] = n]
  /\ UNCHANGED <<active, readerVars>>

FinishReturns(t) ==
  /\ pc[t] = "settled"
  /\ pc' = [pc EXCEPT ![t] = "done"]
  /\ active' = active \ {t}
  /\ UNCHANGED <<diskVars, readerVars>>

\* The write threw, before the rename or after it: the key stays for the process's life.
FinishFails(t) ==
  /\ pc[t] \in {"executing", "settled"}
  /\ pc' = [pc EXCEPT ![t] = "stuck"]
  /\ UNCHANGED <<diskVars, active, readerVars>>

-----------------------------------------------------------------------------
(* history / sessionHistory: a directory listing, then one record at a time *)

Rest(r) ==
  /\ scan' = [scan EXCEPT ![r] = "idle"]
  /\ todo' = [todo EXCEPT ![r] = {}]
  /\ cur' = [cur EXCEPT ![r] = NoTurn]
  /\ raw' = [raw EXCEPT ![r] = "absent"]
  /\ seen' = [seen EXCEPT ![r] = 0]

\* More names than the bound fail the request: it does not start.
HistoryList(r, c) ==
  /\ scan[r] = "idle"
  /\ Cardinality(Stored(c)) <= MaxTurns
  /\ scan' = [scan EXCEPT ![r] = "scanning"]
  /\ todo' = [todo EXCEPT ![r] = Stored(c)]
  /\ UNCHANGED <<diskVars, active, pc, cur, raw, seen>>

\* A stable read: the status as of the last lstat, used only after close was awaited.
HistoryRead(r, t) ==
  /\ scan[r] = "scanning"
  /\ t \in todo[r]
  /\ seen[r] + bytes[t] <= MaxBytes
  /\ scan' = [scan EXCEPT ![r] = "holding"]
  /\ todo' = [todo EXCEPT ![r] = @ \ {t}]
  /\ cur' = [cur EXCEPT ![r] = t]
  /\ raw' = [raw EXCEPT ![r] = record[t]]
  /\ seen' = [seen EXCEPT ![r] = @ + bytes[t]]
  /\ UNCHANGED <<diskVars, active, pc>>

\* The status read earlier meets the activeTurns of now.
HistoryDecide(r) ==
  /\ scan[r] = "holding"
  /\ scan' = [scan EXCEPT ![r] = IF raw[r] = "running" /\ cur[r] \notin active
                                   THEN "recovering" ELSE "scanning"]
  /\ UNCHANGED <<diskVars, active, pc, todo, cur, raw, seen>>

HistoryRecover(r) ==
  /\ scan[r] = "recovering"
  /\ scan' = [scan EXCEPT ![r] = "scanning"]
  /\ record' = [record EXCEPT ![cur[r]] = "interrupted"]
  /\ bytes' = [bytes EXCEPT ![cur[r]] = RunningBytes]
  /\ UNCHANGED <<active, pc, todo, cur, raw, seen>>

\* The request answers, or throws: unreadable or changing record, byte bound, failed write.
HistoryEnds(r) ==
  /\ scan[r] # "idle"
  /\ Rest(r)
  /\ UNCHANGED <<diskVars, active, pc>>

-----------------------------------------------------------------------------

\* The control plane stops and starts again: memory is lost, the files stay.
Restart ==
  /\ active' = {}
  /\ pc' = [t \in Turns |-> IF pc[t] \in InFlight \cup {"stuck"} THEN "gone" ELSE pc[t]]
  /\ scan' = [r \in Readers |-> "idle"]
  /\ todo' = [r \in Readers |-> {}]
  /\ cur' = [r \in Readers |-> NoTurn]
  /\ raw' = [r \in Readers |-> "absent"]
  /\ seen' = [r \in Readers |-> 0]
  /\ UNCHANGED diskVars

Begin(t) ==
  \/ AssertCapacity(t) \/ PrepareFails(t) \/ ClaimKey(t)
  \/ WriteRunning(t) \/ BeginWriteFails(t) \/ BeginReturns(t)

Finish(t) == WriteTerminal(t) \/ FinishReturns(t) \/ FinishFails(t)

History(r) ==
  \/ \E c \in Conversations : HistoryList(r, c)
  \/ \E t \in Turns : HistoryRead(r, t)
  \/ HistoryDecide(r) \/ HistoryRecover(r) \/ HistoryEnds(r)

Next ==
  \/ \E t \in Turns : Begin(t) \/ Finish(t)
  \/ \E r \in Readers : History(r)
  \/ Restart

Spec == Init /\ [][Next]_vars

(***************************************************************************)
(* Recovery is driven by whoever reads the history.  The assumption is that*)
(* readers keep coming and that neither storage faults nor restarts defeat *)
(* every single attempt: a step of a scan that keeps becoming possible is  *)
(* eventually taken.  Turns themselves are not fair: nobody has to post.   *)
(***************************************************************************)
ScanFairness ==
  \A r \in Readers :
    /\ \A c \in Conversations : SF_vars(HistoryList(r, c))
    /\ \A t \in Turns : SF_vars(HistoryRead(r, t))
    /\ \A t \in Turns : SF_vars(cur[r] = t /\ HistoryDecide(r))
    /\ \A t \in Turns : SF_vars(cur[r] = t /\ HistoryRecover(r))
    /\ WF_vars(HistoryEnds(r))

FairSpec == Spec /\ ScanFairness

-----------------------------------------------------------------------------
(* Properties *)

\* Every variable has its type, and no scan reads past the byte bound of a history.
TypeOK ==
  /\ record \in [Turns -> Statuses]
  /\ bytes \in [Turns -> Nat]
  /\ active \subseteq Turns
  /\ pc \in [Turns -> Phases]
  /\ scan \in [Readers -> {"idle", "scanning", "holding", "recovering"}]
  /\ todo \in [Readers -> SUBSET Turns]
  /\ cur \in [Readers -> Turns \cup {NoTurn}]
  /\ raw \in [Readers -> Statuses]
  /\ seen \in [Readers -> 0 .. MaxBytes]

\* While the engine runs, the turn's record stays on disk as running and its key stays
\* claimed, whatever scans, failing writes of other turns and refusals happen meanwhile:
\* recovery and session rotation both rely on it.
OwnedWhileExecuting ==
  \A t \in Turns :
    pc[t] \in {"started", "executing"} => t \in active /\ record[t] = "running"

\* A key outlives its executor only when finish itself could not persist the outcome
\* (the "persistence-indeterminate" turn that blocks rotation until a restart).
LeakOnlyAfterFailedFinish ==
  \A t \in active : pc[t] \in Holding \cup {"stuck"}

\* A history request never marks a turn as interrupted whose executor is still at work.
LiveTurnNotInterrupted ==
  [][\A t \in Turns :
       record[t] # "interrupted" /\ record'[t] = "interrupted"
         => pc[t] \in {"done", "rejected", "gone"}]_vars

\* The store keeps the abstract promise, with the activeTurns keys as the claims.
Ledger == INSTANCE TurnLedger WITH owned <- active
ImplementsLedger == Ledger!LedgerSpec

\* docs/api-contract-v0.md:302: only a leftover running record is turned into
\* indeterminate/turn_interrupted; an outcome once stored is the outcome.
OutcomeIsFinal ==
  [][\A t \in Turns : record[t] \in Outcomes => record'[t] = record[t]]_vars

\* What the bounds on admission are for: the history of a conversation stays readable
\* (history refuses a conversation that exceeds either bound).
HistoryReadable ==
  \A c \in Conversations :
    Cardinality(Stored(c)) <= MaxTurns /\ StoredBytes(c) <= MaxBytes

\* A running record left behind by a refused begin or by a dead process is eventually
\* marked interrupted, unless its conversation has outgrown the bounds of a history.
Orphan(t) == record[t] = "running" /\ pc[t] \in {"rejected", "gone"}
OrphansAreRecovered ==
  \A t \in Turns : Orphan(t) ~> (record[t] = "interrupted" \/ ~ HistoryReadable)
=============================================================================

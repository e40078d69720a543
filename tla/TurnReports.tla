---------------------------- MODULE TurnReports ----------------------------
(***************************************************************************)
(* GET /reports: apps/server/src/routes/reports.ts and reportRecords of    *)
(* apps/server/src/turns/store.ts read, without any lock, what turns and   *)
(* session creations write at the same time: the directories, metadata and *)
(* records of conversations, and readAuthoritativeSessionIndex             *)
(* (apps/server/src/sessions/store.ts) the sessions of the positions.      *)
(* Whatever the scan cannot make sense of refuses the whole report.        *)
(*                                                                         *)
(* A conversation is that of a position, with an id made up when its       *)
(* metadata is first written, or that of a session, with the session's id. *)
(* Metadata is written once per process: metadataLocks keeps the promise.  *)
(* Which records read back is TurnRecords' matter.  Bounds on counts and   *)
(* sizes are left out, as are the admission checks of TurnStore.           *)
(***************************************************************************)
EXTENDS Integers, FiniteSets

CONSTANTS
  Turns,           \* turns, numbers in the order of their ids
  Conversations,   \* positions and sessions
  Sessions,        \* those that are sessions
  PositionOf,      \* the position of each conversation
  Uuids,           \* conversationIds of positions
  PerTask,         \* budget.perTask.tokens
  Results,         \* <<status, totalTokens, error code>> of a run
  MaxCrashes,      \* bound of the model
  MaxAudits,       \* bound of the model: lines the engine appends to the audit
  None

ASSUME ReportsAssumption ==
  /\ Sessions \subseteq Conversations
  /\ {None, "pending"} \cap (Uuids \cup Sessions) = {} /\ None \notin Conversations \cup {"pending"}
  /\ Results \subseteq {"completed", "failed", "indeterminate"} \X Nat \X {"", "other", "position_budget_exceeded"}
  /\ None \notin [turn : Turns, conversation : Uuids \cup Sessions, updated : Nat, tokens : Nat,
                  status : {"running", "completed", "failed", "indeterminate"},
                  code : {"", "other", "position_budget_exceeded"}]

VARIABLES
  dirs,         \* conversations with a directory
  ready,        \* and those of them with a turns directory
  metadata,     \* conversationId in conversation.json, None if there is no such file
  locks,        \* metadataLocks: None, "pending", or the id the promise resolved to
  ids,          \* those of Uuids that are not made up yet
  temps,        \* turns whose record has a temporary
  records,      \* the record of each turn, None before it is renamed into place
  indexed,      \* sessions in the position files
  creating,     \* the session whose position file has a temporary, or None
  turns,        \* of each turn: where it is, its conversation, the id that has, the turn's stamp
  clock,        \* the server's clock
  audits,       \* lines of org-audit.jsonl
  crashes,
  report        \* the request: where it is and what it has read

diskVars  == <<dirs, ready, metadata, temps, records, indexed, creating, audits>>
reportVars == <<diskVars, locks, ids, turns, clock, crashes, report>>

Idle == [at |-> "idle", of |-> None, id |-> None, now |-> 0]
Asked == [at |-> "idle", source |-> "position", entries |-> {}, entry |-> None, id |-> None,
          files |-> {}, got |-> {}, audits |-> 0, sessions |-> {}, why |-> "none",
          owed |-> {}, owedAudits |-> 0, moved |-> FALSE]

Init ==
  /\ dirs = {} /\ ready = {}
  /\ metadata = [c \in Conversations |-> None]
  /\ locks = [c \in Conversations |-> None]
  /\ ids = Uuids
  /\ temps = {} /\ records = [t \in Turns |-> None]
  /\ indexed = {} /\ creating = None
  /\ turns = [t \in Turns |-> Idle]
  /\ clock = 0 /\ audits = 0 /\ crashes = 0
  /\ report = Asked

Goes(t, at) == turns' = [turns EXCEPT ![t].at = at]

\* Every step of a writer moves the ground under a report that is under way.
Moves == report' = [report EXCEPT !.moved = @ \/ report.at \notin {"idle", "answered", "refused"}]

-----------------------------------------------------------------------------
(* Sessions *)

CreateSession ==
  /\ creating = None
  /\ \E s \in Sessions \ indexed : creating' = s
  /\ Moves
  /\ UNCHANGED <<dirs, ready, metadata, temps, records, indexed, audits, locks, ids, turns, clock, crashes>>

SessionCreated ==
  /\ creating # None
  /\ indexed' = indexed \cup {creating}
  /\ creating' = None
  /\ Moves
  /\ UNCHANGED <<dirs, ready, metadata, temps, records, audits, locks, ids, turns, clock, crashes>>

-----------------------------------------------------------------------------
(* Turns *)

\* begin is called: for a session, when it is in its position's file.
Begin(t) ==
  /\ turns[t].at = "idle"
  /\ \E c \in Conversations \ (Sessions \ indexed) :
       turns' = [turns EXCEPT ![t] = [at |-> "mkdir", of |-> c, id |-> None, now |-> clock]]
  /\ clock' = clock + 1
  /\ UNCHANGED <<diskVars, locks, ids, crashes, report>>

\* preparePositionDirectories, prepareSessionDirectories: the two directories one by one.
MakeDir(t) ==
  /\ turns[t].at = "mkdir"
  /\ dirs' = dirs \cup {turns[t].of}
  /\ Goes(t, "mkturns")
  /\ Moves
  /\ UNCHANGED <<ready, metadata, temps, records, indexed, creating, audits, locks, ids, clock, crashes>>

MakeTurnsDir(t) ==
  /\ turns[t].at = "mkturns"
  /\ ready' = ready \cup {turns[t].of}
  /\ Goes(t, "ensure")
  /\ Moves
  /\ UNCHANGED <<dirs, metadata, temps, records, indexed, creating, audits, locks, ids, clock, crashes>>

\* Variant: a promise that is not resolved yet is not shared (refuted by RecordsOfTheirConversation).
EnsureIfResolved(t) ==
  LET c == turns[t].of IN
  /\ turns[t].at = "ensure"
  /\ IF locks[c] \in {None, "pending"}
     THEN /\ locks' = [locks EXCEPT ![c] = "pending"]
          /\ Goes(t, "load")
     ELSE /\ turns' = [turns EXCEPT ![t].at = "write", ![t].id = locks[c]]
          /\ UNCHANGED locks
  /\ UNCHANGED <<diskVars, ids, clock, crashes, report>>

\* ensureConversation, ensureSessionConversation
Ensure(t) ==
  LET c == turns[t].of IN
  /\ turns[t].at = "ensure"
  /\ IF locks[c] = None
     THEN /\ locks' = [locks EXCEPT ![c] = "pending"]
          /\ Goes(t, "load")
     ELSE /\ locks[c] # "pending"
          /\ turns' = [turns EXCEPT ![t].at = "write", ![t].id = locks[c]]
          /\ UNCHANGED locks
  /\ UNCHANGED <<diskVars, ids, clock, crashes, report>>

Resolved(t, id) ==
  /\ locks' = [locks EXCEPT ![turns[t].of] = id]
  /\ turns' = [turns EXCEPT ![t].at = "write", ![t].id = id]

\* loadOrCreateConversation, loadOrCreateSessionConversation: there is metadata, or there is none.
Load(t) ==
  LET c == turns[t].of IN
  /\ turns[t].at = "load"
  /\ IF metadata[c] # None
     THEN Resolved(t, metadata[c]) /\ UNCHANGED ids
     ELSE /\ \E id \in IF c \in Sessions THEN {c} ELSE ids :
               /\ turns' = [turns EXCEPT ![t].at = "create", ![t].id = id]
               /\ ids' = ids \ {id}
          /\ UNCHANGED locks
  /\ UNCHANGED <<diskVars, clock, crashes, report>>

Create(t) ==
  /\ turns[t].at = "create"
  /\ metadata' = [metadata EXCEPT ![turns[t].of] = turns[t].id]
  /\ Resolved(t, turns[t].id)
  /\ Moves
  /\ UNCHANGED <<dirs, ready, temps, records, indexed, creating, audits, ids, clock, crashes>>

\* The write fails, before or after its rename; whoever waited for the promise fails as well.
CreateFails(t) ==
  LET c == turns[t].of IN
  /\ turns[t].at = "create"
  /\ metadata' \in {metadata, [metadata EXCEPT ![c] = turns[t].id]}
  /\ locks' = [locks EXCEPT ![c] = None]
  /\ turns' = [u \in Turns |-> IF u = t \/ (turns[u].of = c /\ turns[u].at = "ensure")
                              THEN [turns[u] EXCEPT !.at = "failed"] ELSE turns[u]]
  /\ Moves
  /\ UNCHANGED <<dirs, ready, temps, records, indexed, creating, audits, ids, clock, crashes>>

\* writeTurn, writeSessionTurn: a temporary, which is renamed, or removed when something fails.
OpenTemporary(t) ==
  /\ turns[t].at \in {"write", "finish"}
  /\ temps' = temps \cup {t}
  /\ Goes(t, IF turns[t].at = "write" THEN "rename" ELSE "replace")
  /\ Moves
  /\ UNCHANGED <<dirs, ready, metadata, records, indexed, creating, audits, locks, ids, clock, crashes>>

Record(t, status, tokens, code) ==
  [turn |-> t, conversation |-> turns[t].id, status |-> status, updated |-> turns[t].now,
   tokens |-> tokens, code |-> code]

Rename(t) ==
  /\ turns[t].at = "rename"
  /\ records' = [records EXCEPT ![t] = Record(t, "running", 0, "")]
  /\ temps' = temps \ {t}
  /\ Goes(t, "executing")
  /\ Moves
  /\ UNCHANGED <<dirs, ready, metadata, indexed, creating, audits, locks, ids, clock, crashes>>

\* The run is over; updatedAt is now.
Ends(t) ==
  /\ turns[t].at = "executing"
  /\ turns' = [turns EXCEPT ![t].at = "finish", ![t].now = clock]
  /\ clock' = clock + 1
  /\ UNCHANGED <<diskVars, locks, ids, crashes, report>>

Replace(t) ==
  /\ turns[t].at = "replace"
  /\ \E r \in Results : records' = [records EXCEPT ![t] = Record(t, r[1], r[2], r[3])]
  /\ temps' = temps \ {t}
  /\ Goes(t, "done")
  /\ Moves
  /\ UNCHANGED <<dirs, ready, metadata, indexed, creating, audits, locks, ids, clock, crashes>>

\* Before its rename or after it.
WriteFails(t) ==
  /\ turns[t].at \in {"rename", "replace"}
  /\ temps' = temps \ {t}
  /\ records' \in {records, [records EXCEPT ![t] =
                     IF turns[t].at = "rename" THEN Record(t, "running", 0, "")
                     ELSE Record(t, "indeterminate", 0, "other")]}
  /\ Goes(t, "failed")
  /\ Moves
  /\ UNCHANGED <<dirs, ready, metadata, indexed, creating, audits, locks, ids, clock, crashes>>

\* The engine applies a change of the organization.
Audit ==
  /\ audits < MaxAudits
  /\ audits' = audits + 1
  /\ Moves
  /\ UNCHANGED <<dirs, ready, metadata, temps, records, indexed, creating, locks, ids, turns, clock, crashes>>

\* The process is gone; its files stay as they are, temporaries included.
Crash ==
  /\ crashes < MaxCrashes
  /\ crashes' = crashes + 1
  /\ locks' = [c \in Conversations |-> None]
  /\ turns' = [t \in Turns |-> IF turns[t].at \in {"idle", "done"} THEN turns[t] ELSE [turns[t] EXCEPT !.at = "failed"]]
  /\ creating' = None
  /\ report' = Asked
  /\ UNCHANGED <<dirs, ready, metadata, temps, records, indexed, audits, ids, clock>>

-----------------------------------------------------------------------------
(* The report *)

Reads(r) == report' = r /\ UNCHANGED <<diskVars, locks, ids, turns, clock, crashes>>
Refused(why) == [Asked EXCEPT !.at = "refused", !.why = why]

\* handleReports, up to the first stat of the audit.
Ask ==
  /\ report.at = "idle"
  /\ Reads([report EXCEPT !.at = "audit", !.audits = audits, !.moved = FALSE, !.owedAudits = audits,
                          !.owed = {t \in Turns : records[t] # None}])

\* readOrgAudit: the file is read, and must not have grown since it was opened.
ReadAudit ==
  /\ report.at = "audit"
  /\ Reads(IF audits = report.audits THEN [report EXCEPT !.at = "list"] ELSE Refused("audit"))

Entries(source) == IF source = "position" THEN dirs \ Sessions ELSE dirs \cap Sessions

\* Variant: no conversations of positions, no report (refuted by ReportIsTrue).
ListBoth ==
  /\ report.at = "list"
  /\ LET es == Entries(report.source)
     IN  Reads([report EXCEPT !.entries = es,
                              !.at = IF es = {} THEN "answered"
                                     ELSE IF report.source = "session" THEN "index" ELSE "scan"])

\* Variant: the index is read first (refuted by RefusedForAReason).
ListKnowing ==
  /\ report.at = "list"
  /\ Reads([report EXCEPT !.entries = Entries(report.source), !.at = "scan",
                          !.sessions = IF report.source = "position" THEN indexed ELSE @])

\* A root of conversations; one that does not exist is passed over.
List ==
  /\ report.at = "list"
  /\ LET es == Entries(report.source)
     IN  Reads([report EXCEPT !.entries = es,
                              !.at = IF report.source = "session" /\ es # {} THEN "index" ELSE "scan"])

\* readAuthoritativeSessionIndex: a temporary that was listed may be gone when it is read.
ReadIndex ==
  /\ report.at = "index"
  /\ \/ Reads([report EXCEPT !.at = "scan", !.sessions = indexed])
     \/ report.moved /\ Reads(Refused("temporary"))

\* The next conversation: the index knows its session, and its metadata is there and its own.
ReadMetadata ==
  /\ report.at = "scan"
  /\ \E c \in report.entries :
       Reads(IF c \in Sessions /\ c \notin report.sessions THEN Refused("orphan")
             ELSE IF metadata[c] = None THEN Refused("unprepared")
             ELSE [report EXCEPT !.at = "turns", !.entry = c, !.id = metadata[c],
                                 !.entries = @ \ {c}])

ListTurns ==
  /\ report.at = "turns"
  /\ Reads(IF report.entry \notin ready THEN Refused("unprepared")
           ELSE LET own == {t \in Turns : turns[t].of = report.entry}
                IN  [report EXCEPT !.at = "files",
                                   !.files = {<<t, "record">> : t \in {t \in own : records[t] # None}}
                                             \cup {<<t, "temporary">> : t \in own \cap temps}])

\* A stable read of one file; one that is replaced meanwhile is not stable.
ReadFile ==
  /\ report.at = "files"
  /\ \E f \in report.files :
       \/ Reads(IF f[2] = "temporary"
                THEN IF f[1] \in temps THEN [report EXCEPT !.files = @ \ {f}] ELSE Refused("temporary")
                ELSE IF records[f[1]].conversation # report.id THEN Refused("record")
                ELSE [report EXCEPT !.files = @ \ {f}, !.got = @ \cup {records[f[1]]}])
       \/ report.moved /\ Reads(Refused("unstable"))

NextConversation ==
  /\ report.at = "files" /\ report.files = {}
  /\ Reads([report EXCEPT !.at = "scan"])

NextSource ==
  /\ report.at = "scan" /\ report.entries = {}
  /\ Reads(IF report.source = "position" THEN [report EXCEPT !.at = "list", !.source = "session"]
           ELSE [report EXCEPT !.at = "answered"])

-----------------------------------------------------------------------------
(* What the answer says *)

\* Variant: oldest first (refuted by ReportIsTrue).
OldestFirst(a, b) == a.updated < b.updated \/ (a.updated = b.updated /\ a.turn < b.turn)

\* compareReportRecords
NewestFirst(a, b) == a.updated > b.updated \/ (a.updated = b.updated /\ a.turn > b.turn)

\* The first of the records reportRecords returns, sorted.
Latest(rs) == CHOOSE r \in rs : \A s \in rs \ {r} : NewestFirst(r, s)

\* The records of a role's position.
Own(position) == {r \in report.got : PositionOf[turns[r.turn].of] = position}

StoppedByBudget(r) == r.code \in {"turn_budget_exceeded", "position_budget_exceeded"}

\* buildBudgets: of one role.
Budget(position) ==
  LET own == Own(position) IN
  IF own = {} THEN "unobserved"
  ELSE IF Latest(own).tokens > PerTask \/ \E r \in own : StoppedByBudget(r) THEN "exceeded" ELSE "within"

-----------------------------------------------------------------------------

Turn(t) ==
  \/ Begin(t) \/ MakeDir(t) \/ MakeTurnsDir(t) \/ Ensure(t) \/ Load(t) \/ Create(t) \/ CreateFails(t)
  \/ OpenTemporary(t) \/ Rename(t) \/ Ends(t) \/ Replace(t) \/ WriteFails(t)

Scan ==
  \/ Ask \/ ReadAudit \/ List \/ ReadIndex \/ ReadMetadata \/ ListTurns \/ ReadFile
  \/ NextConversation \/ NextSource

Next == (\E t \in Turns : Turn(t)) \/ CreateSession \/ SessionCreated \/ Audit \/ Crash \/ Scan

Spec == Init /\ [][Next]_reportVars

\* Bound of the model: one report, which is asked for at any time.
UntilAnswered == report.at \notin {"answered", "refused"}

\* Turns differ in nothing but their ids, which only break ties of stamps that never tie.
InOrder == \A t, u \in Turns : t < u /\ turns[u].at # "idle" => turns[t].at # "idle"

-----------------------------------------------------------------------------
(* Properties *)

\* reportRecords and history refuse a record with another conversationId than the metadata of
\* its conversation: turns that start a conversation at the same time, failing writes of the
\* metadata and restarts never leave one behind.
RecordsOfTheirConversation ==
  \A t \in Turns : records[t] # None => records[t].conversation = metadata[turns[t].of]

\* An answered report has every record that was stored when it was asked for, and every line of
\* the audit.
ReportIsComplete ==
  report.at = "answered" =>
    report.owed \subseteq {r.turn : r \in report.got} /\ report.owedAudits <= report.audits

\* A budget is exceeded if and only if the turn that was settled or begun last used more, or some
\* turn was stopped by it.
BudgetIsOfTheLatest ==
  report.at = "answered" =>
    \A r \in report.got :
      LET position == PositionOf[turns[r.turn].of] IN
      (\A s \in Own(position) : s.updated <= r.updated) =>
         (Budget(position) = "exceeded" <=>
            r.tokens > PerTask \/ \E s \in Own(position) : StoppedByBudget(s))

\* docs/api-contract-v0.md:261: a report is complete, and what it says is that of the latest turn,
\* although it is read from many files while they are written.
ReportIsTrue == ReportIsComplete /\ BudgetIsOfTheLatest

\* reports.test.ts:316: a refusal is never about the writers' own order of things.  A session is
\* indexed before it has a conversation, and the index is read after the conversations were
\* listed; what does refuse a report is a file that changed under it, or a conversation whose
\* first turn is still being set up or never got as far.
RefusalsExplained ==
  [][report.at # "refused" /\ report'.at = "refused" =>
       CASE report'.why = "unprepared" -> \E c \in dirs : metadata[c] = None \/ c \notin ready
         [] report'.why \in {"audit", "temporary", "unstable"} -> report.moved
         [] report'.why \in {"orphan", "record"} -> FALSE]_reportVars
=============================================================================

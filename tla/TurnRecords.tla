---------------------------- MODULE TurnRecords ----------------------------
(***************************************************************************)
(* What a turn record is.  Two programs judge it: the driver               *)
(* (apps/server/src/engine/driver-cli.ts, parseEngineEvent, consumeLine)   *)
(* accepts the events of a run one by one, executeTurn makes a record of   *)
(* them, the store writes it without looking at it, and every later read   *)
(* asks isTurnRecord (apps/server/src/turns/store.ts) about it: one record *)
(* it refuses makes the history and the reports of the workspace fail.     *)
(*                                                                         *)
(* Of an event the model keeps its type, run and time stamp, whether its   *)
(* other fields are those of the frozen shape and within their bounds      *)
(* ("fields": both programs have the same rules for them), and whether it  *)
(* echoes the conversationRef of its envelope.  Times are in hours.        *)
(***************************************************************************)
EXTENDS EngineStream

CONSTANTS
  MaxStream,    \* bound of the model: events of a stream
  Moments,      \* hours since Epoch at which an engine looks at its clock
  Zones,        \* the offsets from UTC, in hours, in which it writes them
  Runs          \* runIds

\* The last year of four digits, and how far it is from Epoch, the start of the calendar below.
LastYear == 9999
DaysToCome == 2921941
HoursToCome == 24 * DaysToCome

ASSUME RecordsAssumption ==
  /\ \A z \in Zones : z \in -23 .. 23
  /\ \A m \in Moments : m \in Nat /\ \A z \in Zones : m + z \in 0 .. HoursToCome - 1

VARIABLES
  stream,       \* events accepted
  seen,         \* observation: the moments they were stamped, -1 for a stamp of another form
  record        \* the turn's record on disk

recordVars == <<stream, seen, record>>

-----------------------------------------------------------------------------
(* Time stamps *)

IsLeap(year) == year % 4 = 0 /\ (year % 100 # 0 \/ year % 400 = 0)

\* Variant: every fourth year is a leap year in one of two places (refuted by RecordsReadBack).
JulianDaysInMonth(year, month) ==
  IF month = 2 THEN IF year % 4 = 0 /\ year % 100 # 0 THEN 29 ELSE 28
  ELSE IF month \in {4, 6, 9, 11} THEN 30 ELSE 31

DaysInMonth(year, month) ==
  IF month = 2 THEN IF IsLeap(year) THEN 29 ELSE 28
  ELSE IF month \in {4, 6, 9, 11} THEN 30 ELSE 31

\* Days since 1970-01-01, with years that begin in March.
DaysFromCivil(year, month, day) ==
  LET adjusted  == IF month <= 2 THEN year - 1 ELSE year
      era       == adjusted \div 400
      yearOfEra == adjusted - era * 400
      dayOfYear == (153 * (IF month > 2 THEN month - 3 ELSE month + 9) + 2) \div 5 + day - 1
      dayOfEra  == yearOfEra * 365 + yearOfEra \div 4 - yearOfEra \div 100 + dayOfYear
  IN  era * 146097 + dayOfEra - 719468

\* parseRfc3339Instant.  A stamp of another form may be one Date.parse understands.
IsRfc3339(s) ==
  /\ s.form = "rfc3339"
  /\ s.year \in 1 .. LastYear /\ s.month \in 1 .. 12
  /\ s.day \in 1 .. DaysInMonth(s.year, s.month)
  /\ s.hour \in 0 .. 23 /\ s.zone \in -23 .. 23

Instant(s) == DaysFromCivil(s.year, s.month, s.day) * 24 + s.hour - s.zone

-----------------------------------------------------------------------------
(* Events *)

EventTypes == {"run.started", "model.delta", "usage", "approval.requested", "approval.granted",
               "approval.denied", "run.completed", "run.failed"}

\* The type of an event as EngineStream has it.
LineOf(type) == CASE type = "run.started"   -> "started"
                  [] type = "run.completed" -> "completed"
                  [] type = "run.failed"    -> "failed"
                  [] type \in EventTypes \ {"run.started", "run.completed", "run.failed"} -> "progress"
                  [] type \notin EventTypes -> "bad"

\* exactKeys and the bounds: the frozen shape has no conversationRef.
ExactFields(e) == e.fields = "exact" /\ ~ e.echo

\* baseEvent: whatever Date.parse understands.
BaseEvent(e) == e.stamp.form \in {"rfc3339", "parsable"}

\* parseEngineEvent
ParsedEvent(e) == e.type \in EventTypes /\ BaseEvent(e) /\ ExactFields(e)

\* hasExactKeys and the bounds of the store, once a conversationRef has been stripped.
KeptFields(e) == e.fields = "exact"

\* Variant: the approval events were never added (refuted by RecordsReadBack).
FrozenFive(e) ==
  /\ e.type \in {"run.started", "model.delta", "usage", "run.completed", "run.failed"}
  /\ IsRfc3339(e.stamp)
  /\ KeptFields(e)

\* validateEngineEvent
StoredEvent(e) == e.type \in EventTypes /\ IsRfc3339(e.stamp) /\ KeptFields(e)

\* isValidEventSequence
IsEventSequence(es) ==
  \A i \in 1 .. Len(es) :
    /\ es[i].type = "run.started" <=> i = 1
    /\ es[i].type \in {"run.completed", "run.failed"} => i = Len(es)
    /\ es[i].run = es[1].run
    /\ i > 1 => Instant(es[i - 1].stamp) <= Instant(es[i].stamp)

-----------------------------------------------------------------------------
(* Records *)

\* isTurnRecord.  "run", "output" and "error" hold what the record has, or "" for no such key.
IsTurnRecord(r) ==
  LET es == r.events
      ends(type) == es # <<>> /\ Last(es).type = type
  IN  /\ r.created <= r.updated
      /\ \A i \in 1 .. Len(es) : StoredEvent(es[i])
      /\ IsEventSequence(es)
      /\ r.run = (IF es = <<>> THEN "" ELSE es[1].run)
      /\ \/ r.status = "running" /\ es = <<>> /\ r.output = "" /\ r.error = ""
         \/ r.status = "completed" /\ ends("run.completed") /\ r.output = "terminal" /\ r.error = ""
         \/ r.status = "failed" /\ ends("run.failed") /\ r.output = "" /\ r.error = "terminal"
         \/ r.status = "indeterminate" /\ r.output = "" /\ r.error # ""

Running == [status |-> "running", events |-> <<>>, run |-> "", output |-> "", error |-> "",
            created |-> 1, updated |-> 1]

\* The record executeTurn makes of a trusted and of an indeterminate result.
TrustedRecord(es, now) ==
  LET completed == Last(es).type = "run.completed"
  IN  [Running EXCEPT !.status = IF completed THEN "completed" ELSE "failed",
                      !.events = es, !.run = Last(es).run, !.updated = now,
                      !.output = IF completed THEN "terminal" ELSE "",
                      !.error = IF completed THEN "" ELSE "terminal"]

IndeterminateRecord(es, now) ==
  [Running EXCEPT !.status = "indeterminate", !.events = es, !.error = "code", !.updated = now,
                  !.run = IF es = <<>> THEN "" ELSE es[1].run]

-----------------------------------------------------------------------------
(* The engine's clock *)

\* The calendar by which an engine knows the date: the days of 1999-12-31 and after, one by one.
Epoch == [year |-> 1999, month |-> 12, day |-> 31]
Lengths(year) == <<31, IF year % 400 = 0 \/ (year % 4 = 0 /\ year % 100 # 0) THEN 29 ELSE 28,
                   31, 30, 31, 30, 31, 31, 30, 31, 30, 31>>
Next1(d) ==
  IF d.day < Lengths(d.year)[d.month] THEN [year |-> d.year, month |-> d.month, day |-> d.day + 1]
  ELSE IF d.month < 12 THEN [year |-> d.year, month |-> d.month + 1, day |-> 1]
  ELSE [year |-> d.year + 1, month |-> 1, day |-> 1]

Calendar[n \in Nat] == IF n = 0 THEN Epoch ELSE Next1(Calendar[n - 1])

\* A moment as an engine in a zone writes it.
Rendered(moment, zone) ==
  LET date == Calendar[(moment + zone) \div 24]
  IN  [form |-> "rfc3339", year |-> date.year, month |-> date.month, day |-> date.day,
       hour |-> (moment + zone) % 24, zone |-> zone]

OtherStamp(form) == [Rendered(24, 0) EXCEPT !.form = form]

-----------------------------------------------------------------------------

RecordInit == stream = <<>> /\ seen = <<>> /\ record = Running

\* consumeLine: an event the driver takes.
EngineEmits ==
  /\ record = Running /\ Len(stream) < MaxStream
  /\ \E type \in EventTypes, run \in Runs, moment \in Moments \cup {-1}, zone \in Zones,
        form \in {"parsable", "none"}, fields \in {"exact", "wrong"}, echo \in BOOLEAN :
       LET e == [type |-> type, run |-> run, fields |-> fields, echo |-> echo,
                 stamp |-> IF moment = -1 THEN OtherStamp(form) ELSE Rendered(moment, zone)]
       IN  /\ ParsedEvent(e)
           /\ Accepts([i \in 1 .. Len(stream) |-> LineOf(stream[i].type)], LineOf(type))
           /\ stream # <<>> => run = stream[1].run
           /\ stream' = Append(stream, e)
           /\ seen' = Append(seen, moment)
  /\ UNCHANGED record

\* The run ends, by itself or because of a line that is refused, a stop, or a bad exit, and the
\* turn is finished at the server's time.
Finishes ==
  /\ record = Running
  /\ \E now \in 0 .. 2 :
       \/ /\ stream # <<>> /\ LineOf(Last(stream).type) \in Terminals
          /\ record' = TrustedRecord(stream, now)
       \/ record' = IndeterminateRecord(stream, now)
  /\ UNCHANGED <<stream, seen>>

\* history, when the turn's process is gone.
Recovers ==
  /\ record = Running
  /\ \E now \in 0 .. 2 : record' = IndeterminateRecord(<<>>, now)
  /\ UNCHANGED <<stream, seen>>

RecordNext == EngineEmits \/ Finishes \/ Recovers

-----------------------------------------------------------------------------

\* The engine wrote RFC 3339 times, none before an earlier one.
WellStamped ==
  \A i \in 1 .. Len(seen) : seen[i] # -1 /\ (i > 1 => seen[i - 1] <= seen[i])

\* store.ts:52-55, "every event the driver accepts persists and reads back intact": whatever
\* the driver took, however the run ended, every later read takes the record.  It holds for
\* engines that stamp in order and as RFC 3339 says, and as long as the server's clock is not
\* set back: the driver is content with what Date.parse understands and does not look at order.
RecordsReadBack == WellStamped /\ record.updated >= record.created => IsTurnRecord(record)
=============================================================================

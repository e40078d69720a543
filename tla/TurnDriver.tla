----------------------------- MODULE TurnDriver -----------------------------
(***************************************************************************)
(* apps/server/src/engine/driver-cli.ts, CliEngineDriver.turnRun: one run  *)
(* of the engine process.  The child writes NDJSON lines into a pipe, exits*)
(* and closes; an abort, the timeout and a protocol error each freeze the  *)
(* accepted events and terminate the child, which may go on writing, ignore*)
(* SIGTERM, exit 0 anyway, or leave a descendant that keeps the pipe open. *)
(***************************************************************************)
EXTENDS EngineStream

CONSTANT
  MaxLines      \* bound of the model: complete lines the engine writes

ASSUME TurnDriverAssumption == MaxEvents \in Nat \ {0} /\ MaxLines \in Nat

VARIABLES
  child,        \* "none", "starting", "running", "exited", "closed"
  exitedZero,   \* its exit code was 0
  held,         \* a descendant still holds the pipe
  pipe,         \* lines written and not yet read
  written,      \* number of lines written, up to MaxLines
  tail,         \* what follows the last newline at exit: a line, or "none"
  signal,       \* last signal sent to the child: "none", "term", "kill"
  events,       \* lines accepted
  forwarded,    \* lines passed to onEvent
  acceptingOutput, aborted, timedOut, protocolError,
  result        \* "none" until resolve, then "trusted" or the code of an indeterminate result

childVars == <<child, exitedZero, held, pipe, written, tail>>
stopVars  == <<acceptingOutput, aborted, timedOut, protocolError, signal>>
vars == <<childVars, stopVars, events, forwarded, result>>

Settled == result # "none"
Stopped == aborted \/ timedOut \/ protocolError

Init ==
  /\ child = "none" /\ exitedZero = FALSE /\ held = FALSE
  /\ pipe = <<>> /\ written = 0 /\ tail = "none"
  /\ signal = "none"
  /\ events = <<>> /\ forwarded = <<>>
  /\ acceptingOutput = TRUE
  /\ aborted = FALSE /\ timedOut = FALSE /\ protocolError = FALSE
  /\ result = "none"

-----------------------------------------------------------------------------
(* The engine process *)

\* turnRun is called: the abort hook is handed out and spawn follows in the same tick.
Call ==
  /\ child = "none"
  /\ child' = "starting"
  /\ UNCHANGED <<exitedZero, held, pipe, written, tail, stopVars, events, forwarded, result>>

Spawn ==
  /\ child = "starting" /\ ~ Settled
  /\ child' = "running"
  /\ UNCHANGED <<exitedZero, held, pipe, written, tail, stopVars, events, forwarded, result>>

\* spawn throws, or emits "error" before any other callback can run.
SpawnFails ==
  /\ child = "starting" /\ ~ Settled
  /\ result' = "turn_engine_unavailable"
  /\ acceptingOutput' = FALSE
  /\ UNCHANGED <<childVars, aborted, timedOut, protocolError, signal, events, forwarded>>

EngineWrites ==
  /\ child = "running"
  /\ written < MaxLines
  /\ \E l \in Lines : pipe' = Append(pipe, l)
  /\ written' = written + 1
  /\ UNCHANGED <<child, exitedZero, held, tail, stopVars, events, forwarded, result>>

\* On its own, after SIGTERM, or by SIGKILL, which leaves no exit code 0.
EngineExits ==
  /\ child = "running"
  /\ child' = "exited"
  /\ exitedZero' \in {z \in BOOLEAN : z => signal # "kill"}
  /\ tail' \in Lines \cup {"none"}
  /\ held' \in BOOLEAN
  /\ UNCHANGED <<pipe, written, stopVars, events, forwarded, result>>

DescendantLeaves ==
  /\ held
  /\ held' = FALSE
  /\ UNCHANGED <<child, exitedZero, pipe, written, tail, stopVars, events, forwarded, result>>

-----------------------------------------------------------------------------
(* Stopping the run *)

\* terminateChild: SIGTERM now, SIGKILL when the grace period ends.
TerminateChild == signal' = IF signal = "none" THEN "term" ELSE signal

\* Variant: only the timeout escalates to SIGKILL (refuted by StoppedRunSettles).
ForceKillOnTimeout ==
  /\ signal = "term" /\ timedOut
  /\ child = "running"
  /\ signal' = "kill"
  /\ UNCHANGED <<childVars, acceptingOutput, aborted, timedOut, protocolError, events,
                 forwarded, result>>

ForceKill ==
  /\ signal = "term"
  /\ child = "running"
  /\ signal' = "kill"
  /\ UNCHANGED <<childVars, acceptingOutput, aborted, timedOut, protocolError, events,
                 forwarded, result>>

\* The hook given to setAbort.
Abort ==
  /\ child \in {"running", "exited"} /\ ~ aborted
  /\ aborted' = TRUE
  /\ acceptingOutput' = FALSE
  /\ TerminateChild
  /\ UNCHANGED <<childVars, timedOut, protocolError, events, forwarded, result>>

TimerFires ==
  /\ child \in {"running", "exited"} /\ ~ timedOut
  /\ timedOut' = TRUE
  /\ acceptingOutput' = FALSE
  /\ TerminateChild
  /\ UNCHANGED <<childVars, aborted, protocolError, events, forwarded, result>>

-----------------------------------------------------------------------------
(* Reading the stream *)

\* Variant: terminals do not wait (refuted by TerminalMeansTrusted).
ForwardAtOnce(es, l) == Append(es, l)

\* Terminals wait for the exit code; everything else is forwarded at once.
Forward(es, l) == IF l \in Terminals THEN es ELSE Append(es, l)

ReadLine ==
  /\ pipe # <<>>
  /\ pipe' = Tail(pipe)
  /\ LET l == Head(pipe) IN
     \/ /\ acceptingOutput /\ Accepts(events, l)
        /\ events' = Append(events, l)
        /\ forwarded' = Forward(forwarded, l)
        /\ UNCHANGED stopVars
     \/ /\ acceptingOutput /\ ~ Accepts(events, l)
        /\ protocolError' = TRUE
        /\ acceptingOutput' = FALSE
        /\ TerminateChild
        /\ UNCHANGED <<aborted, timedOut, events, forwarded>>
     \/ ~ acceptingOutput /\ UNCHANGED <<stopVars, events, forwarded>>
  /\ UNCHANGED <<child, exitedZero, held, written, tail, result>>

\* Variant: a good exit outweighs the abort (refuted by ImplementsContract).
CloseByExit(es, invalid) ==
  IF ~ invalid /\ exitedZero /\ Ended(es) THEN "trusted"
  ELSE IF aborted THEN "turn_cancelled"
  ELSE IF timedOut THEN "turn_timeout"
  ELSE IF invalid \/ exitedZero THEN "turn_protocol_invalid"
  ELSE "turn_process_failed"

\* The code with which close settles a run, given the events and the protocol verdict that
\* include the unterminated last line.
CloseResult(es, invalid) ==
  IF aborted THEN "turn_cancelled"
  ELSE IF timedOut THEN "turn_timeout"
  ELSE IF invalid THEN "turn_protocol_invalid"
  ELSE IF ~ exitedZero THEN "turn_process_failed"
  ELSE IF ~ Ended(es) THEN "turn_protocol_invalid"
  ELSE "trusted"

Close ==
  /\ child = "exited" /\ pipe = <<>> /\ ~ held
  /\ child' = "closed"
  /\ acceptingOutput' = FALSE
  /\ LET last  == acceptingOutput /\ tail # "none"
         taken == last /\ Accepts(events, tail)
         es    == IF taken THEN Append(events, tail) ELSE events
         fs    == IF taken THEN Forward(forwarded, tail) ELSE forwarded
     IN /\ protocolError' = (protocolError \/ (last /\ ~ taken))
        /\ events' = es
        /\ result' = CloseResult(es, protocolError')
        /\ forwarded' = IF result' = "trusted" THEN Append(fs, Last(es)) ELSE fs
  /\ UNCHANGED <<exitedZero, held, pipe, written, tail, aborted, timedOut, signal>>

-----------------------------------------------------------------------------

Next ==
  \/ Call \/ Spawn \/ SpawnFails \/ EngineWrites \/ EngineExits \/ DescendantLeaves
  \/ ForceKill \/ Abort \/ TimerFires \/ ReadLine \/ Close

Spec == Init /\ [][Next]_vars

-----------------------------------------------------------------------------
(* Properties *)

\* Every variable has its type, and no more events are accepted than the bound.
TypeOK ==
  /\ child \in {"none", "starting", "running", "exited", "closed"}
  /\ exitedZero \in BOOLEAN /\ held \in BOOLEAN
  /\ pipe \in Seq(Lines) /\ written \in 0 .. MaxLines /\ tail \in Lines \cup {"none"}
  /\ signal \in {"none", "term", "kill"}
  /\ events \in Seq(Lines \ {"bad"}) /\ Len(events) <= MaxEvents
  /\ forwarded \in Seq(Lines \ {"bad"})
  /\ acceptingOutput \in BOOLEAN /\ aborted \in BOOLEAN
  /\ timedOut \in BOOLEAN /\ protocolError \in BOOLEAN
  /\ result \in {"none", "trusted", "turn_engine_unavailable", "turn_cancelled", "turn_timeout",
                 "turn_protocol_invalid", "turn_process_failed"}

\* driver-cli.ts:652-654: a process that was stopped, broke the protocol or did not exit 0
\* never shows its terminal to onEvent; whoever saw one can rely on the whole stream.
TerminalMeansTrusted ==
  (\E i \in 1 .. Len(forwarded) : forwarded[i] \in Terminals) =>
    /\ result = "trusted"
    /\ exitedZero /\ ~ Stopped
    /\ forwarded = events
    /\ \A i \in 1 .. Len(events) :
         /\ events[i] = "started" <=> i = 1
         /\ events[i] \in Terminals <=> i = Len(events)

\* turnRun keeps what executeTurn relies on.
Run == CASE result = "trusted"            -> Last(events)
         [] result = "turn_cancelled"     -> "cancelled"
         [] Settled /\ result \notin {"trusted", "turn_cancelled"} -> "indeterminate"
         [] ~ Settled /\ child = "none"   -> "idle"
         [] ~ Settled /\ child # "none"   -> IF aborted THEN "aborted" ELSE "open"

Contract == INSTANCE DriverContract WITH Runs <- {"turn"}, run <- [r \in {"turn"} |-> Run]
ImplementsContract == Contract!ContractSpec

\* A stopped run settles even if the engine ignores SIGTERM, unless a descendant of it keeps
\* the pipe open for good.
StoppedRunSettles == <>[]held \/ (Stopped ~> Settled)
=============================================================================

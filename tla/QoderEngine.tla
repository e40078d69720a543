---------------------------- MODULE QoderEngine ----------------------------
(***************************************************************************)
(* apps/server/bin/qoder-engine.mjs, the adapter that is the engine of the *)
(* desktop: runCli starts one process per command.                         *)
(*                                                                         *)
(* "turn run" (turnRunQoder, turnRunClaude) translates what the Qoder or   *)
(* the Claude CLI writes into the engine.v1 stream that TurnDriver reads;  *)
(* the adapter and its CLI take the place of the arbitrary engine there,   *)
(* which stays for every other engine.                                     *)
(* "hire validate" reads the request file, see StableRead.  "org apply" is *)
(* part of OrgMutation.                                                    *)
(*                                                                         *)
(* A line of the CLI is what handleLine and handleClaudeLine tell apart: a *)
(* message with text, a streamed part of one, a result, or anything else.  *)
(* Which part of a text is emitted is left out: turnRunClaude emits the    *)
(* parts and then, textSnapshot not being kept, the whole message again.   *)
(* What the adapter has written when it exits is taken to be in the pipe.  *)
(* Texts and outputs are taken to stay within the bounds of the driver     *)
(* (MAX_TURN_LINE_BYTES, MAX_TURN_OUTPUT_BYTES), the number of events not. *)
(***************************************************************************)
EXTENDS TurnDriver

CONSTANTS
  MaxCliLines,                   \* bound of the model: complete lines the CLI writes
  Pieces, MaxPieces, MaxWrites   \* see StableRead

ASSUME QoderEngineAssumption == Pieces # {} /\ MaxPieces \in Nat

VARIABLES
  command,      \* "turn" or "hire"
  host,         \* the engine of the run: "other" for any program, or this adapter with
                \* DIGITAL_EMPLOYEE_ENGINE_MODEL "qoder", or "claude" for both of its values
  adapter,      \* "none", "resolving", "translating", "over"
  cli,          \* the CLI process: "none", "running", "exited"
  cliPipe,      \* lines it has written and the adapter has not read
  cliTail,      \* what follows its last newline when it exits, or "none"
  cliZero,      \* its exit code was 0
  cliWritten,   \* number of lines it wrote, up to MaxCliLines
  said,         \* observation: the first result it wrote as a complete line, or "none"
  named, disk, writes, reader    \* see StableRead

cliVars == <<cli, cliPipe, cliTail, cliZero, cliWritten, said>>
turnVars == <<vars, adapter, cliVars>>
readVars == <<named, disk, writes, reader>>
engineVars == <<command, host, turnVars, readVars>>

Request == INSTANCE StableRead WITH LooksFirst <- TRUE
Record == INSTANCE StableRead WITH LooksFirst <- FALSE

CliResults == {"success", "error"}
CliLines == {"text", "part", "other"} \cup CliResults

EngineInit ==
  /\ command \in {"turn", "hire", "store"}
  /\ host \in {"qoder", "claude", "other"}
  /\ Init
  /\ adapter = "none"
  /\ cli = "none" /\ cliPipe = <<>> /\ cliTail = "none" /\ cliZero = FALSE /\ cliWritten = 0
  /\ said = "none"
  /\ IF command = "store" THEN Record!ReadInit ELSE Request!ReadInit

-----------------------------------------------------------------------------
(* The adapter *)

\* What no step of adapter and CLI touches of the driver.
Driver == UNCHANGED <<written, held, stopVars, events, forwarded, result>>

\* emit, to the driver's end of the pipe.
Emit(lines) ==
  /\ pipe' = pipe \o lines
  /\ UNCHANGED <<child, exitedZero, tail>>

\* Variant: a terminal is emitted but the process goes on (refuted by VerdictOfCli).
EmitLastStaying(lines) ==
  /\ Emit(lines)
  /\ UNCHANGED adapter

\* fail and complete: the terminal, and process.exit(0).
EmitLast(lines) ==
  /\ pipe' = pipe \o lines
  /\ child' = "exited" /\ exitedZero' = TRUE /\ tail' = "none"
  /\ adapter' = "over"

\* The request on stdin has ended; one that does not parse is an empty input.
Starts ==
  /\ child = "running" /\ adapter = "none"
  /\ Emit(<<"started">>)
  /\ adapter' = "resolving"
  /\ Driver /\ UNCHANGED cliVars

\* No executable, an unknown permission mode, a failed probe or an unsupported version of the
\* Claude CLI, or spawn fails, with a throw or with an "error" event.
Refuses ==
  /\ child = "running" /\ adapter = "resolving"
  /\ EmitLast(<<"failed">>)
  /\ Driver /\ UNCHANGED cliVars

SpawnsCli ==
  /\ child = "running" /\ adapter = "resolving"
  /\ adapter' = "translating"
  /\ cli' = "running"
  /\ UNCHANGED <<child, exitedZero, pipe, tail, cliPipe, cliTail, cliZero, cliWritten, said>>
  /\ Driver

\* Variant: is_error and the subtype of a result are not looked at (refuted by VerdictOfCli).
AlwaysCompletes(line) == "completed"

Terminal(line) == IF line = "success" THEN "completed" ELSE "failed"

\* A usage goes before run.completed: turnRunQoder leaves it out if there is none.
Endings(last) ==
  IF host = "claude" THEN {<<"progress", last>>} ELSE {<<last>>, <<"progress", last>>}

\* handleLine, handleClaudeLine
ReadsCli ==
  /\ child = "running" /\ adapter = "translating" /\ cliPipe # <<>>
  /\ LET line == Head(cliPipe) IN
     \/ /\ line = "text" \/ (line = "part" /\ host = "claude")
        /\ Emit(<<"progress">>)
        /\ UNCHANGED adapter
     \/ /\ line = "other" \/ (line = "part" /\ host = "qoder")
        /\ UNCHANGED <<child, exitedZero, pipe, tail, adapter>>
     \/ /\ line = "success"
        /\ \E lines \in Endings(Terminal(line)) : EmitLast(lines)
     \/ /\ line = "error"
        /\ EmitLast(<<Terminal(line)>>)
  /\ cliPipe' = Tail(cliPipe)
  /\ UNCHANGED <<cli, cliTail, cliZero, cliWritten, said>>
  /\ Driver

\* The close event of the CLI: there was no result in a complete line, and what follows the
\* last newline is not looked at.
CliClosed ==
  /\ child = "running" /\ adapter = "translating"
  /\ cli = "exited" /\ cliPipe = <<>>
  /\ EmitLast(<<IF cliZero THEN "completed" ELSE "failed">>)
  /\ Driver /\ UNCHANGED cliVars

\* A signal ends the adapter, perhaps within a line; its CLI is not told.
Killed ==
  /\ child = "running" /\ signal # "none"
  /\ child' = "exited" /\ exitedZero' = FALSE
  /\ tail' \in {"none", "bad"}
  /\ adapter' = "over"
  /\ UNCHANGED <<pipe, cliVars>>
  /\ Driver

-----------------------------------------------------------------------------
(* The CLI *)

CliWrites ==
  /\ cli = "running" /\ cliWritten < MaxCliLines
  /\ cliWritten' = cliWritten + 1
  /\ \E line \in CliLines :
       /\ cliPipe' = Append(cliPipe, line)
       /\ said' = IF said = "none" /\ line \in CliResults THEN line ELSE said
  /\ UNCHANGED <<vars, adapter, cli, cliTail, cliZero>>

CliExits ==
  /\ cli = "running"
  /\ cli' = "exited"
  /\ cliZero' \in BOOLEAN
  /\ cliTail' \in CliLines \cup {"none"}
  /\ UNCHANGED <<vars, adapter, cliPipe, cliWritten, said>>

-----------------------------------------------------------------------------

DriverStep == Call \/ Spawn \/ SpawnFails \/ ForceKill \/ Abort \/ TimerFires \/ ReadLine \/ Close
AdapterStep == Starts \/ Refuses \/ SpawnsCli \/ ReadsCli \/ CliClosed \/ Killed

OfDriver == UNCHANGED <<adapter, cliVars, command, host, readVars>>

TurnRun ==
  /\ \/ DriverStep /\ UNCHANGED <<adapter, cliVars>>
     \/ host # "other" /\ (AdapterStep \/ CliWrites \/ CliExits)
     \/ /\ host = "other"
        /\ EngineWrites \/ EngineExits \/ DescendantLeaves
        /\ UNCHANGED <<adapter, cliVars>>
  /\ UNCHANGED <<command, host, readVars>>

ReadsFile ==
  /\ IF command = "store" THEN Record!ReadNext ELSE Request!ReadNext
  /\ UNCHANGED <<command, host, turnVars>>

EngineNext ==
  \/ command = "turn" /\ TurnRun
  \/ command \in {"hire", "store"} /\ ReadsFile

(***************************************************************************)
(* The kill timer and the stream events are the event loop's; a process    *)
(* that was sent SIGKILL ends, whichever engine it is.  Nothing is assumed *)
(* of an engine that has not been stopped, nor of its descendants.         *)
(***************************************************************************)
EngineSpec ==
  /\ EngineInit /\ [][EngineNext]_engineVars
  /\ WF_engineVars(ForceKill /\ OfDriver)
  /\ WF_engineVars(signal = "kill" /\ ((EngineExits /\ OfDriver) \/ (Killed /\ UNCHANGED <<command, host, readVars>>)))
  /\ WF_engineVars(ReadLine /\ OfDriver)
  /\ WF_engineVars(Close /\ OfDriver)

-----------------------------------------------------------------------------
(* Properties *)

\* A run of the adapter that nobody stopped is trusted by the driver, whatever the CLI writes,
\* whenever it exits and whoever is slow, unless it has more events than the driver takes
\* (docs/api-contract-v0.md:286); and what is then reported is the first result the CLI wrote,
\* or without one its exit code.
VerdictOfCli ==
  host # "other" =>
    /\ Settled /\ ~ aborted /\ ~ timedOut =>
         result \in {"trusted", "turn_engine_unavailable"} \/ Len(events) = MaxEvents
    /\ result = "trusted" =>
         (Last(events) = "completed") = IF said = "none" THEN cli = "exited" /\ cliZero
                                        ELSE said = "success"

\* stable-read.ts, "one bounded immutable snapshot" in qoder-engine.mjs: the content a read
\* comes to is all of what the path held when it was looked at last, however the file was
\* replaced, rewritten piece by piece, grown or removed meanwhile.
ReadIsCurrent ==
  [][reader.at # "closing" /\ reader'.at = "closing" =>
       named # 0 /\ reader.buffer = disk[named].pieces]_engineVars
=============================================================================

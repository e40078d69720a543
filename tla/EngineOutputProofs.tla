------------------------- MODULE EngineOutputProofs -------------------------
(***************************************************************************)
(* Proofs about what an engine writes, for every bound on events, lines,   *)
(* deltas and polls: one run of TurnDriver with the adapter of QoderEngine *)
(* or any other program as its engine, the forwarder of LiveTurns that     *)
(* passes on what a run streams, and the bounded read of StableRead.       *)
(*                                                                         *)
(* What the driver has accepted is the beginning of a legal stream, and    *)
(* what it has forwarded is the same without its terminal (DriverInv).     *)
(* With the adapter, as long as nobody stops the run, the events accepted  *)
(* and the lines still in the pipe are together a legal stream that ends   *)
(* exactly when the adapter does, with the verdict of its CLI              *)
(* (AdapterInv).  What a forwarder has published and what it holds are     *)
(* together what the engine emitted, up to the cap (ForwardersOK).  A read *)
(* has in its buffer the beginning of what the file it opened held then,   *)
(* as long as that file's times have not moved (ReadInv).                  *)
(*                                                                         *)
(* The renderer's stream holds at most LiveCap runs, one for a key, none   *)
(* of a turn it remembers as settled, and the turns on the channel are the *)
(* ones their messages asked for (ChannelOK).  The text on the channel and *)
(* the text shown are what the engine wrote, in its order, without gaps as *)
(* long as nothing was lost (TextInv).                                     *)
(***************************************************************************)
EXTENDS QoderEngine, LiveTurns, SequenceTheorems, WellFoundedInduction, TLAPS

\* A stream as consumeLine lets it grow: started first and only there, a terminal only last.
Legal(es) ==
  \A i \in 1 .. Len(es) : (es[i] = "started" <=> i = 1) /\ (es[i] \in Terminals => i = Len(es))

\* onEvent is behind by the terminal, and by nothing else.
Forwarding ==
  /\ result # "trusted" => \A i \in 1 .. Len(forwarded) : forwarded[i] \notin Terminals
  /\ ~ Settled => IF Ended(events) THEN Append(forwarded, Last(events)) = events
                  ELSE forwarded = events

\* Where the child is, who has stopped the run and what it has come to.
Phases ==
  /\ child \in {"none", "starting"} => ~ Stopped /\ events = <<>> /\ pipe = <<>>
  /\ child \in {"none", "running", "exited"} => ~ Settled
  /\ child = "closed" => Settled /\ pipe = <<>>
  /\ acceptingOutput <=> ~ Stopped /\ ~ Settled
  /\ signal # "none" => Stopped
  /\ aborted /\ Settled <=> result = "turn_cancelled"
  /\ result = "trusted" =>
       child = "closed" /\ exitedZero /\ ~ Stopped /\ Ended(events) /\ forwarded = events

\* The inductive invariant of TurnDriver.
DriverInv == TypeOK /\ Legal(events) /\ Forwarding /\ Phases

\* What the adapter has emitted, as long as the driver drops nothing of it.
Undelivered == events \o pipe

\* What the first result of the CLI, or else its exit code, says.
Succeeds == IF said = "none" THEN cli = "exited" /\ cliZero ELSE said = "success"

\* The types of what the adapter adds to TurnDriver.
CliTypeOK ==
  /\ cli \in {"none", "running", "exited"}
  /\ cliPipe \in Seq(CliLines)
  /\ said \in CliResults \cup {"none"}
  /\ cliZero \in BOOLEAN
  /\ adapter \in {"none", "resolving", "translating", "over"}

\* How far the adapter is, seen from its process, its pipe and its CLI.
AdapterPhases ==
  /\ ~ held
  /\ tail # "none" => Stopped
  /\ adapter = "none" => child \in {"none", "starting", "running"} /\ pipe = <<>> /\ events = <<>>
  /\ adapter \in {"resolving", "translating"} => child = "running"
  /\ adapter = "over" => child \in {"exited", "closed"}
  /\ adapter \in {"none", "resolving"} => cli = "none" /\ cliPipe = <<>> /\ said = "none"
  /\ adapter = "translating" => cli # "none"

\* The result the adapter will come to first is the one the CLI wrote first.
ResultAhead ==
  adapter = "translating" =>
    /\ said = "none" => \A i \in 1 .. Len(cliPipe) : cliPipe[i] \notin CliResults
    /\ said # "none" =>
         \E i \in 1 .. Len(cliPipe) :
           cliPipe[i] = said /\ \A j \in 1 .. i - 1 : cliPipe[j] \notin CliResults

\* Every line parses and carries the run's id.
NoneBad(es) == \A i \in 1 .. Len(es) : es[i] # "bad"

\* As long as nobody stops the run, what is accepted or in the pipe is a legal stream; it ends
\* when the adapter does, with what the CLI said.
StreamSaysSo ==
  ~ Stopped =>
    /\ Legal(Undelivered) /\ NoneBad(Undelivered)
    /\ adapter # "none" => Undelivered # <<>>
    /\ adapter = "over" <=> Ended(Undelivered)
    /\ adapter = "over" => exitedZero /\ (Last(Undelivered) = "completed") = Succeeds
    /\ adapter = "over" /\ cli = "running" => said # "none"
    /\ Settled => result \in {"trusted", "turn_engine_unavailable"}

\* The driver finds nothing to refuse in what the adapter writes but its length.
OnlyTooLong == protocolError => aborted \/ timedOut \/ Len(events) = MaxEvents

\* The invariant of a run whose engine is the adapter.
AdapterRun == CliTypeOK /\ AdapterPhases /\ ResultAhead /\ StreamSaysSo /\ OnlyTooLong

\* It claims nothing of a run with any other program as its engine.
AdapterInv == host # "other" => AdapterRun

\* The inductive invariant of QoderEngine.
EngineInv == DriverInv /\ AdapterInv

-----------------------------------------------------------------------------
(* Streams *)

\* A line that Accepts lets through keeps a legal stream legal.
LEMMA LegalExtends ==
  ASSUME NEW es \in Seq(Lines), NEW l \in Lines, Legal(es), Accepts(es, l)
  PROVE  Legal(Append(es, l)) /\ ~ Ended(es)
<1>1. es = <<>> \/ es[Len(es)] \notin Terminals
  BY DEF Accepts, Ended, Last
<1>2. \A i \in 1 .. Len(es) : es[i] \notin Terminals
  BY <1>1 DEF Legal
<1>3. l = "started" <=> Len(es) = 0
  BY DEF Accepts
<1>. QED
  BY <1>2, <1>3 DEF Legal, Accepts, Ended, Last

\* A legal stream that is a single line longer than another ends in its terminal, or has none.
LEMMA EndedExtends ==
  ASSUME NEW es \in Seq(Lines), NEW l \in Lines
  PROVE  /\ Ended(Append(es, l)) <=> l \in Terminals
         /\ Last(Append(es, l)) = l
         /\ Append(es, l) # <<>>
BY DEF Ended, Last

\* An accepted line is one more legal line in what is accepted, and in what is forwarded unless
\* it is a terminal.
LEMMA AcceptedLine ==
  ASSUME NEW es \in Seq(Lines \ {"bad"}), NEW fs \in Seq(Lines \ {"bad"}), NEW l \in Lines,
         Accepts(es, l)
  PROVE  /\ l \in Lines \ {"bad"}
         /\ Append(es, l) \in Seq(Lines \ {"bad"})
         /\ Len(Append(es, l)) <= MaxEvents
         /\ Forward(fs, l) \in Seq(Lines \ {"bad"})
<1>1. l \in Lines \ {"bad"} /\ Len(es) < MaxEvents
  BY DEF Accepts
<1>2. MaxEvents \in Nat /\ Len(es) \in Nat /\ Len(Append(es, l)) = Len(es) + 1
  BY TurnDriverAssumption
<1>. QED
  BY <1>1, <1>2 DEF Forward

\* Nothing that is forwarded before the verdict is a terminal.
LEMMA ForwardedBefore ==
  ASSUME NEW es \in Seq(Lines \ {"bad"}), NEW l \in Lines,
         \A i \in 1 .. Len(es) : es[i] \notin Terminals
  PROVE  \A i \in 1 .. Len(Forward(es, l)) : Forward(es, l)[i] \notin Terminals
BY DEF Forward

\* What is written goes behind what is undelivered; what is read changes place only.
LEMMA PipeMoves ==
  ASSUME NEW es \in Seq(Lines), NEW p \in Seq(Lines), NEW l \in Lines
  PROVE  /\ p \o <<l>> = Append(p, l) /\ Append(p, l) \in Seq(Lines)
         /\ es \o Append(p, l) = Append(es \o p, l)
         /\ es \o p \in Seq(Lines)
         /\ p # <<>> => Append(es, Head(p)) \o Tail(p) = es \o p
<1>1. p \o <<l>> = Append(p, l) /\ Append(p, l) \in Seq(Lines)
  OBVIOUS
<1>2. es \o p \in Seq(Lines)
  OBVIOUS
<1>3. es \o Append(p, l) = Append(es \o p, l)
  OBVIOUS
<1>4. ASSUME p # <<>> PROVE Append(es, Head(p)) \o Tail(p) = es \o p
  <2>1. Head(p) \in Lines /\ Tail(p) \in Seq(Lines) /\ p = <<Head(p)>> \o Tail(p)
    BY <1>4
  <2>2. Append(es, Head(p)) = es \o <<Head(p)>>
    BY <2>1
  <2>. QED
    BY <2>1, <2>2, ConcatAssociative
<1>. QED BY <1>1, <1>2, <1>3, <1>4

\* A line that is neither bad nor the start keeps an open stream legal, and ends it if it is a
\* terminal.
LEMMA StreamGrows ==
  ASSUME NEW es \in Seq(Lines), NEW l \in Lines \ {"bad", "started"},
         Legal(es), NoneBad(es), es # <<>>, ~ Ended(es)
  PROVE  /\ Append(es, l) \in Seq(Lines) /\ Append(es, l) # <<>>
         /\ Legal(Append(es, l)) /\ NoneBad(Append(es, l))
         /\ Ended(Append(es, l)) <=> l \in Terminals
         /\ Last(Append(es, l)) = l
<1>1. \A i \in 1 .. Len(es) : es[i] \notin Terminals
  BY DEF Legal, Ended, Last
<1>2. Legal(Append(es, l))
  BY <1>1 DEF Legal
<1>3. NoneBad(Append(es, l))
  BY DEF NoneBad
<1>. QED
  BY <1>2, <1>3, EndedExtends

-----------------------------------------------------------------------------
(* The driver *)

\* Nothing has been called.
LEMMA DriverInitially == ASSUME Init PROVE DriverInv
<1>1. <<>> \in Seq(Lines) /\ <<>> \in Seq(Lines \ {"bad"}) /\ Len(<<>>) = 0
  OBVIOUS
<1>2. TypeOK
  <2>1. MaxEvents \in Nat /\ MaxLines \in Nat
    BY TurnDriverAssumption
  <2>2. pipe \in Seq(Lines) /\ events \in Seq(Lines \ {"bad"}) /\ forwarded \in Seq(Lines \ {"bad"})
    BY <1>1 DEF Init
  <2>3. Len(events) <= MaxEvents /\ written \in 0 .. MaxLines
    BY <1>1, <2>1 DEF Init
  <2>. QED
    BY <2>2, <2>3 DEF Init, TypeOK
<1>3. Legal(events)
  BY <1>1 DEF Init, Legal
<1>4. Forwarding
  BY <1>1 DEF Init, Forwarding, Settled, Ended
<1>. QED
  BY <1>2, <1>3, <1>4 DEF Init, DriverInv, Phases, Settled, Stopped

\* What the process does by itself is told from what has been accepted.
LEMMA ChildSteps ==
  ASSUME DriverInv,
         Call \/ Spawn \/ SpawnFails \/ EngineWrites \/ EngineExits \/ DescendantLeaves
  PROVE  DriverInv'
<1>. USE DEF DriverInv, TypeOK, Forwarding, Phases, Settled, Stopped, Legal, Ended, childVars, stopVars
<1>1. CASE Call
  BY <1>1 DEF Call
<1>2. CASE Spawn
  BY <1>2 DEF Spawn
<1>3. CASE SpawnFails
  BY <1>3 DEF SpawnFails
<1>4. CASE EngineWrites
  BY <1>4, TurnDriverAssumption DEF EngineWrites
<1>5. CASE EngineExits
  BY <1>5 DEF EngineExits
<1>6. CASE DescendantLeaves
  BY <1>6 DEF DescendantLeaves
<1>. QED BY <1>1, <1>2, <1>3, <1>4, <1>5, <1>6

\* An abort, the timer and the escalation freeze the streams and change nothing in them.
LEMMA StopSteps ==
  ASSUME DriverInv, ForceKill \/ Abort \/ TimerFires
  PROVE  DriverInv'
<1>. USE DEF DriverInv, TypeOK, Forwarding, Phases, Settled, Stopped, Legal, Ended, childVars, stopVars
<1>1. CASE ForceKill
  BY <1>1 DEF ForceKill
<1>2. CASE Abort
  BY <1>2 DEF Abort, TerminateChild
<1>3. CASE TimerFires
  BY <1>3 DEF TimerFires, TerminateChild
<1>. QED BY <1>1, <1>2, <1>3

\* Reading a line: an accepted one extends both streams, any other freezes them.
LEMMA ReadLineStep == ASSUME DriverInv, ReadLine PROVE DriverInv'
<1>. USE DEF DriverInv, childVars, stopVars
<1>1. pipe # <<>> /\ pipe' = Tail(pipe) /\ child' = child /\ exitedZero' = exitedZero
      /\ held' = held /\ written' = written /\ tail' = tail /\ result' = result
  BY DEF ReadLine
<1>2. Head(pipe) \in Lines /\ Tail(pipe) \in Seq(Lines) /\ child \in {"running", "exited"} /\ ~ Settled
  BY <1>1 DEF TypeOK, Phases, Settled
<1>3. CASE acceptingOutput /\ Accepts(events, Head(pipe)) /\ events' = Append(events, Head(pipe))
           /\ forwarded' = Forward(forwarded, Head(pipe)) /\ UNCHANGED stopVars
  <2> DEFINE l == Head(pipe)
  <2>1. events \in Seq(Lines) /\ l \in Lines \ {"bad"} /\ Len(events) < MaxEvents
    BY <1>2, <1>3 DEF Accepts, TypeOK
  <2>2. Legal(events') /\ ~ Ended(events)
    BY <1>3, <2>1, LegalExtends
  <2>3. events' \in Seq(Lines \ {"bad"}) /\ Len(events') <= MaxEvents /\ forwarded' \in Seq(Lines \ {"bad"})
    BY <1>2, <1>3, AcceptedLine DEF TypeOK
  <2>4. TypeOK'
    BY <1>1, <1>2, <1>3, <2>3 DEF TypeOK
  <2>5. Forwarding'
    BY <1>1, <1>2, <1>3, <2>1, <2>2, EndedExtends DEF Forwarding, Forward, TypeOK, Settled
  <2>6. Phases'
    BY <1>1, <1>2, <1>3 DEF Phases, TypeOK, Settled, Stopped
  <2>. QED BY <2>2, <2>4, <2>5, <2>6
<1>4. CASE acceptingOutput /\ protocolError' = TRUE /\ acceptingOutput' = FALSE /\ TerminateChild
           /\ UNCHANGED <<aborted, timedOut, events, forwarded>>
  <2>1. TypeOK'
    BY <1>1, <1>2, <1>4 DEF TypeOK, TerminateChild
  <2>. QED
    BY <1>1, <1>2, <1>4, <2>1 DEF Legal, Forwarding, Phases, Settled, Stopped, Ended
<1>5. CASE ~ acceptingOutput /\ UNCHANGED <<stopVars, events, forwarded>>
  <2>1. TypeOK'
    BY <1>1, <1>2, <1>5 DEF TypeOK
  <2>. QED
    BY <1>1, <1>2, <1>5, <2>1 DEF Legal, Forwarding, Phases, Settled, Stopped, Ended
<1>. QED
  BY <1>3, <1>4, <1>5 DEF ReadLine

\* Closing: the unterminated last line is taken like any other, and the verdict follows.
LEMMA CloseStep == ASSUME DriverInv, Close PROVE DriverInv'
<1>. USE DEF DriverInv
<1> DEFINE last  == acceptingOutput /\ tail # "none"
           taken == last /\ Accepts(events, tail)
           es    == IF taken THEN Append(events, tail) ELSE events
           fs    == IF taken THEN Forward(forwarded, tail) ELSE forwarded
<1>1. /\ child = "exited" /\ pipe = <<>> /\ ~ Settled
      /\ child' = "closed" /\ acceptingOutput' = FALSE
      /\ protocolError' = (protocolError \/ (last /\ ~ taken))
      /\ events' = es
      /\ result' = CloseResult(es, protocolError')
      /\ forwarded' = IF result' = "trusted" THEN Append(fs, Last(es)) ELSE fs
      /\ exitedZero' = exitedZero /\ held' = held /\ pipe' = pipe /\ written' = written
      /\ tail' = tail /\ aborted' = aborted /\ timedOut' = timedOut /\ signal' = signal
  BY DEF Close, Phases
<1>2. taken => tail \in Lines \ {"bad"} /\ Len(events) < MaxEvents /\ ~ Ended(events)
  BY DEF TypeOK, Accepts
<1>3. events \in Seq(Lines) /\ events \in Seq(Lines \ {"bad"}) /\ forwarded \in Seq(Lines \ {"bad"})
      /\ Len(events) \in Nat
  BY DEF TypeOK
<1>4. Legal(es)
  BY <1>2, <1>3, LegalExtends
<1>5. es \in Seq(Lines \ {"bad"}) /\ Len(es) <= MaxEvents /\ fs \in Seq(Lines \ {"bad"})
  BY <1>3, AcceptedLine DEF TypeOK
<1>6. /\ \A i \in 1 .. Len(fs) : fs[i] \notin Terminals
      /\ Ended(es) => Append(fs, Last(es)) = es
  <2>1. CASE taken
    <3>1. tail \in Lines /\ forwarded = events /\ es = Append(events, tail)
      BY <2>1, <1>1, <1>2 DEF Forwarding
    <3>2. \A i \in 1 .. Len(forwarded) : forwarded[i] \notin Terminals
      BY <1>1 DEF Forwarding, Settled
    <3>3. Ended(es) => fs = forwarded /\ Last(es) = tail
      BY <2>1, <3>1, <1>3, EndedExtends DEF Forward
    <3>. QED
      BY <2>1, <3>1, <3>2, <3>3, <1>3, ForwardedBefore
  <2>2. CASE ~ taken
    BY <2>2, <1>1 DEF Forwarding, Settled
  <2>. QED BY <2>1, <2>2
<1>7. result' = "trusted" => ~ aborted /\ ~ timedOut /\ ~ protocolError' /\ exitedZero /\ Ended(es)
  BY <1>1 DEF CloseResult
<1>8. /\ result' # "none"
      /\ result' \in {"trusted", "turn_cancelled", "turn_timeout", "turn_protocol_invalid", "turn_process_failed"}
      /\ result' = "turn_cancelled" <=> aborted
  BY <1>1 DEF CloseResult
<1>9. forwarded' \in Seq(Lines \ {"bad"})
  <2>1. CASE result' = "trusted"
    BY <2>1, <1>1, <1>5, <1>6, <1>7
  <2>2. CASE result' # "trusted"
    BY <2>2, <1>1, <1>5
  <2>. QED BY <2>1, <2>2
<1>10. TypeOK'
  BY <1>1, <1>5, <1>8, <1>9 DEF TypeOK
<1>11. Forwarding'
  BY <1>1, <1>6, <1>8 DEF Forwarding, Settled
<1>12. Phases'
  BY <1>1, <1>6, <1>7, <1>8 DEF Phases, Settled, Stopped
<1>. QED BY <1>1, <1>4, <1>10, <1>11, <1>12

\* Every step of the driver and of any engine preserves the invariant of the driver.
LEMMA DriverPreserved == ASSUME DriverInv, [Next]_vars PROVE DriverInv'
<1>1. CASE Next
  BY <1>1, ChildSteps, StopSteps, ReadLineStep, CloseStep DEF Next
<1>2. CASE UNCHANGED vars
  BY <1>2 DEF vars, childVars, stopVars, DriverInv, TypeOK, Legal, Forwarding, Phases, Settled,
              Stopped, Ended
<1>. QED BY <1>1, <1>2

\* The invariant says what TerminalMeansTrusted does.
LEMMA TrustedByInvariant == DriverInv => TerminalMeansTrusted
<1>. SUFFICES ASSUME DriverInv, \E i \in 1 .. Len(forwarded) : forwarded[i] \in Terminals
             PROVE  /\ result = "trusted"
                    /\ exitedZero /\ ~ Stopped
                    /\ forwarded = events
                    /\ \A i \in 1 .. Len(events) :
                         /\ events[i] = "started" <=> i = 1
                         /\ events[i] \in Terminals <=> i = Len(events)
  BY DEF TerminalMeansTrusted
<1>1. result = "trusted"
  BY DEF DriverInv, Forwarding
<1>. QED
  BY <1>1 DEF DriverInv, Phases, Legal, Ended, Last

-----------------------------------------------------------------------------
(* The adapter *)

\* Before the adapter runs, there is nothing to be said.
LEMMA AdapterInitially == ASSUME EngineInit PROVE EngineInv
<1>1. DriverInv
  BY DriverInitially DEF EngineInit
<1>2. <<>> \in Seq(CliLines) /\ Len(<<>>) = 0 /\ <<>> \o <<>> = <<>>
  OBVIOUS
<1>3. CliTypeOK /\ AdapterPhases /\ ResultAhead /\ OnlyTooLong
  BY <1>2 DEF EngineInit, Init, CliTypeOK, AdapterPhases, ResultAhead, OnlyTooLong
<1>4. StreamSaysSo
  BY <1>2 DEF EngineInit, Init, StreamSaysSo, Undelivered, Legal, NoneBad, Ended, Settled
<1>. QED
  BY <1>1, <1>3, <1>4 DEF EngineInv, AdapterInv, AdapterRun

\* The steps of the driver that do not touch a stream.
LEMMA AdapterWaits ==
  ASSUME DriverInv, AdapterRun, UNCHANGED <<adapter, cliVars>>,
         Call \/ Spawn \/ SpawnFails \/ ForceKill \/ Abort \/ TimerFires
  PROVE  AdapterRun'
<1>. USE DEF AdapterRun, cliVars, childVars, stopVars, TerminateChild
<1>1. /\ UNCHANGED <<exitedZero, held, pipe, tail, protocolError, events>>
      /\ child' = child \/ (child' \in {"starting", "running"} /\ child \in {"none", "starting"})
      /\ Stopped => Stopped'
      /\ aborted => aborted'
      /\ timedOut => timedOut'
      /\ ~ Stopped' => result' = result \/ result' = "turn_engine_unavailable"
  BY DEF Call, Spawn, SpawnFails, ForceKill, Abort, TimerFires, Stopped
<1>2. CliTypeOK' /\ ResultAhead'
  BY DEF CliTypeOK, ResultAhead
<1>3. AdapterPhases'
  BY <1>1 DEF AdapterPhases
<1>4. StreamSaysSo'
  BY <1>1 DEF StreamSaysSo, Undelivered, Succeeds, Settled
<1>5. OnlyTooLong'
  BY <1>1 DEF OnlyTooLong
<1>. QED BY <1>2, <1>3, <1>4, <1>5

\* What the invariant says of a run that nobody stopped while its adapter is at work.
LEMMA StillOpen ==
  ASSUME DriverInv, AdapterRun
  PROVE  /\ pipe \in Seq(Lines) /\ events \in Seq(Lines) /\ Undelivered \in Seq(Lines)
         /\ ~ Stopped /\ adapter \in {"resolving", "translating"} =>
              Undelivered # <<>> /\ Legal(Undelivered) /\ NoneBad(Undelivered) /\ ~ Ended(Undelivered)
<1>1. pipe \in Seq(Lines) /\ events \in Seq(Lines)
  BY DEF DriverInv, TypeOK
<1>2. Undelivered \in Seq(Lines)
  BY <1>1, PipeMoves DEF Undelivered, Lines
<1>. QED
  BY <1>1, <1>2 DEF AdapterRun, StreamSaysSo

\* The driver takes a line that the adapter wrote: unless there are too many, it is legal.
LEMMA AdapterIsRead ==
  ASSUME DriverInv, AdapterRun, UNCHANGED <<adapter, cliVars>>, ReadLine
  PROVE  AdapterRun'
<1>. USE DEF AdapterRun, cliVars, stopVars
<1>1. pipe # <<>> /\ pipe' = Tail(pipe) /\ UNCHANGED <<child, exitedZero, held, written, tail, result>>
  BY DEF ReadLine
<1>2. pipe \in Seq(Lines) /\ events \in Seq(Lines) /\ Undelivered \in Seq(Lines) /\ Head(pipe) \in Lines
  BY <1>1, StillOpen
<1>3. CliTypeOK' /\ ResultAhead'
  BY DEF CliTypeOK, ResultAhead
<1>4. CASE acceptingOutput /\ Accepts(events, Head(pipe)) /\ events' = Append(events, Head(pipe))
           /\ UNCHANGED stopVars
  <2>1. Undelivered' = Undelivered
    BY <1>1, <1>2, <1>4, PipeMoves DEF Undelivered
  <2>2. AdapterPhases'
    BY <1>1, <1>4 DEF AdapterPhases, Stopped
  <2>3. StreamSaysSo'
    BY <1>1, <1>4, <2>1 DEF StreamSaysSo, Succeeds, Settled, Stopped
  <2>4. OnlyTooLong'
    BY <1>1, <1>4, <2>2 DEF OnlyTooLong, DriverInv, Phases, Stopped
  <2>. QED BY <1>3, <2>2, <2>3, <2>4
<1>5. CASE acceptingOutput /\ ~ Accepts(events, Head(pipe)) /\ protocolError' = TRUE
           /\ UNCHANGED <<aborted, timedOut, events>>
  <2>1. Legal(Undelivered) /\ NoneBad(Undelivered)
    BY <1>5 DEF StreamSaysSo, DriverInv, Phases
  <2>2. /\ Undelivered[Len(events) + 1] = Head(pipe)
        /\ Len(events) \in Nat /\ Len(events) + 1 \in 1 .. Len(Undelivered)
        /\ \A i \in 1 .. Len(events) : Undelivered[i] = events[i]
    BY <1>1, <1>2 DEF Undelivered
  <2>3. Head(pipe) # "bad" /\ (Head(pipe) = "started" <=> events = <<>>)
    BY <1>2, <2>1, <2>2 DEF Legal, NoneBad
  <2>4. ~ Ended(events)
    BY <1>2, <2>1, <2>2 DEF Legal, Ended, Last
  <2>5. Len(events) = MaxEvents
    BY <1>5, <2>2, <2>3, <2>4, TurnDriverAssumption DEF Accepts, DriverInv, TypeOK
  <2>6. Stopped' /\ OnlyTooLong'
    BY <1>5, <2>5 DEF Stopped, OnlyTooLong
  <2>. QED BY <1>1, <1>3, <1>5, <2>6 DEF AdapterPhases, StreamSaysSo
<1>6. CASE ~ acceptingOutput /\ UNCHANGED <<stopVars, events>>
  <2>1. Stopped \/ Settled
    BY <1>6 DEF DriverInv, Phases
  <2>2. Stopped /\ Stopped'
    BY <1>1, <1>6, <2>1 DEF DriverInv, TypeOK, Phases, Stopped, Settled
  <2>. QED BY <1>1, <1>3, <1>6, <2>2 DEF AdapterPhases, StreamSaysSo, OnlyTooLong
<1>. QED
  BY <1>4, <1>5, <1>6 DEF ReadLine

\* When the driver closes a run nobody stopped, the adapter is over and its terminal delivered.
LEMMA AdapterIsClosed ==
  ASSUME DriverInv, AdapterRun, UNCHANGED <<adapter, cliVars>>, Close
  PROVE  AdapterRun'
<1>. USE DEF AdapterRun, cliVars
<1>1. /\ child = "exited" /\ pipe = <<>> /\ child' = "closed"
      /\ UNCHANGED <<exitedZero, held, pipe, tail, aborted, timedOut>>
      /\ adapter = "over"
  BY DEF Close, AdapterPhases, CliTypeOK
<1>2. acceptingOutput => tail = "none"
  BY DEF AdapterPhases, DriverInv, Phases
<1>3. /\ events' = events /\ protocolError' = protocolError
      /\ result' = CloseResult(events, protocolError)
  <2>1. /\ protocolError' = (protocolError \/ FALSE)
        /\ events' = events
        /\ result' = CloseResult(events', protocolError')
    BY <1>2 DEF Close
  <2>2. protocolError \in BOOLEAN
    BY DEF DriverInv, TypeOK
  <2>. QED BY <2>1, <2>2
<1>4. CliTypeOK' /\ ResultAhead' /\ OnlyTooLong'
  BY <1>1, <1>3 DEF CliTypeOK, ResultAhead, OnlyTooLong
<1>5. AdapterPhases'
  BY <1>1, <1>3 DEF AdapterPhases, Stopped
<1>6. ASSUME ~ Stopped PROVE result' = "trusted"
  <2>1. Undelivered = events
    BY <1>1, StillOpen, ConcatEmptySeq DEF Undelivered
  <2>2. Ended(events) /\ exitedZero
    BY <1>1, <1>6, <2>1 DEF StreamSaysSo
  <2>. QED
    BY <1>3, <1>6, <2>2 DEF CloseResult, Stopped
<1>7. StreamSaysSo'
  BY <1>1, <1>3, <1>6 DEF StreamSaysSo, Undelivered, Succeeds, Stopped
<1>. QED BY <1>4, <1>5, <1>7

\* An engine that writes, exits or is killed leaves the invariant of the driver alone.
LEMMA EngineKeepsDriver ==
  ASSUME DriverInv, child = "running", Driver, pipe' \in Seq(Lines),
         child' \in {"running", "exited"}, exitedZero' \in BOOLEAN, tail' \in Lines \cup {"none"}
  PROVE  DriverInv'
<1>1. TypeOK'
  BY DEF DriverInv, TypeOK, Driver, stopVars
<1>. QED
  BY <1>1 DEF DriverInv, Driver, stopVars, Legal, Forwarding, Phases, Settled, Stopped, Ended

\* What a step of the adapter that is not its last does to the invariant: it writes at most one
\* line, and what its CLI said stays in reach.
LEMMA AdapterGoesOn ==
  ASSUME DriverInv, AdapterRun, child = "running", Driver,
         UNCHANGED <<child, exitedZero, tail>>,
         adapter \in {"resolving", "translating"}, adapter' \in {"resolving", "translating"},
         pipe' = pipe \/ pipe' = pipe \o <<"progress">>,
         CliTypeOK', AdapterPhases', ResultAhead'
  PROVE  DriverInv' /\ AdapterRun'
<1>1. "progress" \in Lines /\ "progress" \in Lines \ {"bad", "started"} /\ "progress" \notin Terminals
  BY DEF Lines, Terminals
<1>2. /\ events \in Seq(Lines) /\ pipe \in Seq(Lines) /\ pipe' \in Seq(Lines)
      /\ pipe' = pipe \/ pipe' = Append(pipe, "progress")
  <2>1. events \in Seq(Lines) /\ pipe \in Seq(Lines)
    BY StillOpen
  <2>2. pipe \o <<"progress">> = Append(pipe, "progress") /\ Append(pipe, "progress") \in Seq(Lines)
    BY <1>1, <2>1, PipeMoves
  <2>. QED BY <2>1, <2>2
<1>3. DriverInv'
  BY <1>2, EngineKeepsDriver DEF DriverInv, TypeOK
<1>4. Undelivered' = Undelivered \/ Undelivered' = Append(Undelivered, "progress")
  <2>1. events' = events
    BY DEF Driver
  <2>2. events \o Append(pipe, "progress") = Append(events \o pipe, "progress")
    BY <1>1, <1>2, PipeMoves
  <2>. QED BY <1>2, <2>1, <2>2 DEF Undelivered
<1>5. Stopped' = Stopped
  BY DEF Driver, stopVars, Stopped
<1>6. ~ Stopped => /\ Undelivered' # <<>> /\ Legal(Undelivered') /\ NoneBad(Undelivered')
                   /\ ~ Ended(Undelivered')
  BY <1>1, <1>4, StillOpen, StreamGrows
<1>7. StreamSaysSo'
  BY <1>5, <1>6 DEF StreamSaysSo, Driver, DriverInv, Phases, Settled
<1>8. OnlyTooLong'
  BY DEF AdapterRun, OnlyTooLong, Driver, stopVars
<1>. QED BY <1>3, <1>7, <1>8 DEF AdapterRun

\* What the last step of the adapter does: at most a usage, then the terminal its CLI deserves.
LEMMA AdapterEnds ==
  ASSUME DriverInv, AdapterRun, child = "running", Driver,
         adapter \in {"resolving", "translating"}, adapter' = "over",
         child' = "exited", exitedZero' = TRUE, tail' = "none",
         NEW l \in Terminals,
         pipe' = pipe \o <<l>> \/ pipe' = pipe \o <<"progress", l>>,
         CliTypeOK',
         (l = "completed") = Succeeds',
         cli' = "running" => said' # "none"
  PROVE  DriverInv' /\ AdapterRun'
<1>1. /\ "progress" \in Lines /\ "progress" \in Lines \ {"bad", "started"} /\ "progress" \notin Terminals
      /\ l \in Lines /\ l \in Lines \ {"bad", "started"}
  BY DEF Lines, Terminals
<1>2. /\ pipe \in Seq(Lines) /\ Append(pipe, "progress") \in Seq(Lines)
      /\ pipe' = Append(pipe, l) \/ pipe' = Append(Append(pipe, "progress"), l)
  BY <1>1, StillOpen
<1>3. pipe' \in Seq(Lines)
  <2>1. Append(pipe, l) \in Seq(Lines) /\ Append(Append(pipe, "progress"), l) \in Seq(Lines)
    BY <1>1, <1>2, PipeMoves
  <2>. QED BY <1>2, <2>1
<1>4. DriverInv'
  BY <1>3, EngineKeepsDriver
<1>5. \/ Undelivered' = Append(Undelivered, l)
      \/ Undelivered' = Append(Append(Undelivered, "progress"), l)
  <2>1. events' = events /\ events \in Seq(Lines)
    BY StillOpen DEF Driver
  <2>2. CASE pipe' = Append(pipe, l)
    BY <1>1, <1>2, <2>1, <2>2, PipeMoves DEF Undelivered
  <2>3. CASE pipe' = Append(Append(pipe, "progress"), l)
    <3>1. events \o Append(Append(pipe, "progress"), l) = Append(events \o Append(pipe, "progress"), l)
      BY <1>1, <1>2, <2>1, PipeMoves
    <3>2. events \o Append(pipe, "progress") = Append(events \o pipe, "progress")
      BY <1>1, <1>2, <2>1, PipeMoves
    <3>. QED BY <2>1, <2>3, <3>1, <3>2 DEF Undelivered
  <2>. QED BY <1>2, <2>2, <2>3
<1>6. Stopped' = Stopped
  BY DEF Driver, stopVars, Stopped
<1>7. ~ Stopped => /\ Undelivered' # <<>> /\ Legal(Undelivered') /\ NoneBad(Undelivered')
                   /\ Ended(Undelivered') /\ Last(Undelivered') = l
  <2>. SUFFICES ASSUME ~ Stopped
                PROVE  /\ Undelivered' # <<>> /\ Legal(Undelivered') /\ NoneBad(Undelivered')
                       /\ Ended(Undelivered') /\ Last(Undelivered') = l
    OBVIOUS
  <2> DEFINE more == Append(Undelivered, "progress")
  <2>1. /\ Undelivered \in Seq(Lines) /\ Undelivered # <<>> /\ Legal(Undelivered)
        /\ NoneBad(Undelivered) /\ ~ Ended(Undelivered)
    BY StillOpen
  <2>2. more \in Seq(Lines) /\ more # <<>> /\ Legal(more) /\ NoneBad(more) /\ ~ Ended(more)
    BY <1>1, <2>1, StreamGrows
  <2>3. CASE Undelivered' = Append(Undelivered, l)
    BY <1>1, <2>1, <2>3, StreamGrows
  <2>4. CASE Undelivered' = Append(more, l)
    <3>. HIDE DEF more
    <3>. QED BY <1>1, <2>2, <2>4, StreamGrows
  <2>. QED BY <1>5, <2>3, <2>4
<1>8. StreamSaysSo'
  BY <1>6, <1>7 DEF StreamSaysSo, Driver, DriverInv, Phases, Settled
<1>9. AdapterPhases' /\ ResultAhead' /\ OnlyTooLong'
  BY DEF AdapterRun, AdapterPhases, ResultAhead, OnlyTooLong, Driver, stopVars
<1>. QED BY <1>4, <1>8, <1>9 DEF AdapterRun

\* The adapter is asked for a run: it says so.
LEMMA AdapterStarts == ASSUME DriverInv, AdapterRun, Starts PROVE DriverInv' /\ AdapterRun'
<1>. USE DEF Starts, Emit
<1>1. pipe = <<>> /\ events = <<>> /\ cli = "none" /\ cliPipe = <<>> /\ said = "none"
  BY DEF AdapterRun, AdapterPhases
<1>2. "started" \in Lines /\ <<>> \o <<"started">> = <<"started">> /\ <<"started">> \in Seq(Lines)
      /\ Len(<<"started">>) = 1 /\ <<"started">>[1] = "started" /\ <<"started">> # <<>>
      /\ "started" \notin Terminals
  BY DEF Lines, Terminals
<1>3. DriverInv'
  BY <1>1, <1>2, EngineKeepsDriver DEF DriverInv, TypeOK
<1>4. Undelivered' = <<"started">>
  BY <1>1, <1>2 DEF Undelivered, Driver
<1>5. Legal(Undelivered') /\ NoneBad(Undelivered') /\ ~ Ended(Undelivered')
  BY <1>2, <1>4 DEF Legal, NoneBad, Ended, Last
<1>6. CliTypeOK' /\ AdapterPhases' /\ ResultAhead' /\ OnlyTooLong'
  BY DEF AdapterRun, CliTypeOK, AdapterPhases, ResultAhead, OnlyTooLong, Driver, stopVars, cliVars, Stopped
<1>7. StreamSaysSo'
  BY <1>2, <1>4, <1>5 DEF StreamSaysSo, Driver, DriverInv, Phases, Settled
<1>. QED BY <1>3, <1>6, <1>7 DEF AdapterRun

\* No CLI to be had: the run has failed.
LEMMA AdapterRefuses == ASSUME DriverInv, AdapterRun, Refuses PROVE DriverInv' /\ AdapterRun'
<1>1. "failed" \in Terminals /\ pipe' = pipe \o <<"failed">>
  BY DEF Refuses, EmitLast, Terminals
<1>2. /\ cli' = "none" /\ said' = "none" /\ adapter = "resolving" /\ adapter' = "over"
      /\ UNCHANGED cliVars
  BY DEF Refuses, EmitLast, AdapterRun, AdapterPhases, cliVars
<1>3. CliTypeOK'
  BY <1>2 DEF AdapterRun, CliTypeOK, cliVars
<1>4. ("failed" = "completed") = Succeeds'
  BY <1>2 DEF Succeeds
<1>. QED
  BY <1>1, <1>2, <1>3, <1>4, AdapterEnds DEF Refuses, EmitLast

\* The CLI is spawned: nothing is in its pipe yet.
LEMMA AdapterSpawns == ASSUME DriverInv, AdapterRun, SpawnsCli PROVE DriverInv' /\ AdapterRun'
<1>1. CliTypeOK' /\ AdapterPhases' /\ ResultAhead'
  BY DEF SpawnsCli, AdapterRun, CliTypeOK, AdapterPhases, ResultAhead, Driver, stopVars, Stopped
<1>. QED
  BY <1>1, AdapterGoesOn DEF SpawnsCli

\* A result that the adapter reads is the first one the CLI wrote; any other line only brings it
\* nearer.
LEMMA ResultComesNearer ==
  ASSUME AdapterRun, adapter = "translating", cliPipe # <<>>,
         cliPipe' = Tail(cliPipe), said' = said
  PROVE  /\ Head(cliPipe) \in CliResults => said = Head(cliPipe)
         /\ Head(cliPipe) \notin CliResults => ResultAhead'
<1>1. /\ cliPipe \in Seq(CliLines) /\ Len(cliPipe) \in Nat /\ Len(cliPipe) > 0
      /\ Head(cliPipe) = cliPipe[1] /\ Len(cliPipe') = Len(cliPipe) - 1
      /\ \A i \in 1 .. Len(cliPipe') : cliPipe'[i] = cliPipe[i + 1]
  BY DEF AdapterRun, CliTypeOK
<1>2. said \in CliResults \cup {"none"}
  BY DEF AdapterRun, CliTypeOK
<1>3. ASSUME Head(cliPipe) \in CliResults PROVE said = Head(cliPipe)
  <2>1. said # "none"
    BY <1>1, <1>3 DEF AdapterRun, ResultAhead
  <2>2. PICK i \in 1 .. Len(cliPipe) :
          cliPipe[i] = said /\ \A j \in 1 .. i - 1 : cliPipe[j] \notin CliResults
    BY <2>1 DEF AdapterRun, ResultAhead
  <2>3. i = 1
    BY <1>1, <1>3, <2>2
  <2>. QED BY <1>1, <2>2, <2>3
<1>4. ASSUME Head(cliPipe) \notin CliResults PROVE ResultAhead'
  <2>1. CASE said = "none"
    <3>1. \A i \in 1 .. Len(cliPipe) : cliPipe[i] \notin CliResults
      BY <2>1 DEF AdapterRun, ResultAhead
    <3>2. \A i \in 1 .. Len(cliPipe') : cliPipe'[i] \notin CliResults
      BY <1>1, <3>1
    <3>. QED BY <2>1, <3>2 DEF ResultAhead
  <2>2. CASE said # "none"
    <3>1. PICK i \in 1 .. Len(cliPipe) :
            cliPipe[i] = said /\ \A j \in 1 .. i - 1 : cliPipe[j] \notin CliResults
      BY <2>2 DEF AdapterRun, ResultAhead
    <3>2. i # 1 /\ i - 1 \in 1 .. Len(cliPipe')
      BY <1>1, <1>2, <1>4, <2>2, <3>1
    <3>3. cliPipe'[i - 1] = said
      BY <1>1, <3>1, <3>2
    <3>4. \A j \in 1 .. (i - 1) - 1 : cliPipe'[j] \notin CliResults
      BY <1>1, <3>1, <3>2
    <3>. QED BY <2>2, <3>2, <3>3, <3>4 DEF ResultAhead
  <2>. QED BY <2>1, <2>2
<1>. QED BY <1>3, <1>4

\* The adapter reads a line of its CLI.
LEMMA AdapterReadsCli == ASSUME DriverInv, AdapterRun, ReadsCli PROVE DriverInv' /\ AdapterRun'
<1>1. /\ child = "running" /\ adapter = "translating" /\ cliPipe # <<>>
      /\ cliPipe' = Tail(cliPipe) /\ UNCHANGED <<cli, cliTail, cliZero, cliWritten, said>> /\ Driver
  BY DEF ReadsCli
<1>2. CliTypeOK'
  BY <1>1 DEF AdapterRun, CliTypeOK, ReadsCli, EmitLast, Emit
<1>3. CASE Head(cliPipe) \notin CliResults
  <2>1. /\ UNCHANGED <<child, exitedZero, tail, adapter>>
        /\ pipe' = pipe \/ pipe' = pipe \o <<"progress">>
    BY <1>3 DEF ReadsCli, Emit, CliResults
  <2>2. ResultAhead'
    BY <1>1, <1>3, <2>1, ResultComesNearer
  <2>3. AdapterPhases'
    BY <1>1, <2>1 DEF AdapterRun, AdapterPhases, Driver, stopVars, Stopped
  <2>. QED
    BY <1>1, <1>2, <2>1, <2>2, <2>3, AdapterGoesOn
<1>4. CASE Head(cliPipe) \in CliResults
  <2> DEFINE read == Head(cliPipe)
  <2>1. /\ child' = "exited" /\ exitedZero' = TRUE /\ tail' = "none" /\ adapter' = "over"
        /\ \/ read = "success" /\ \E lines \in Endings("completed") : pipe' = pipe \o lines
           \/ read = "error" /\ pipe' = pipe \o <<"failed">>
    BY <1>4 DEF ReadsCli, EmitLast, Terminal, CliResults
  <2>2. said = read
    BY <1>1, <1>4, ResultComesNearer
  <2>3. said' # "none" /\ Succeeds' = (read = "success")
    BY <1>1, <1>4, <2>2 DEF Succeeds, CliResults
  <2>4. CASE read = "success"
    <3>1. pipe' = pipe \o <<"completed">> \/ pipe' = pipe \o <<"progress", "completed">>
      BY <2>1, <2>4 DEF Endings
    <3>. QED
      BY <1>1, <1>2, <2>1, <2>3, <2>4, <3>1, AdapterEnds DEF Terminals
  <2>5. CASE read = "error"
    BY <1>1, <1>2, <2>1, <2>3, <2>5, AdapterEnds DEF Terminals
  <2>. QED BY <1>4, <2>4, <2>5 DEF CliResults
<1>. QED BY <1>3, <1>4

\* The CLI has closed: no result was in a complete line.
LEMMA AdapterSeesClose == ASSUME DriverInv, AdapterRun, CliClosed PROVE DriverInv' /\ AdapterRun'
<1>1. /\ child = "running" /\ adapter = "translating" /\ cli = "exited" /\ cliPipe = <<>>
      /\ Driver /\ UNCHANGED cliVars
      /\ child' = "exited" /\ exitedZero' = TRUE /\ tail' = "none" /\ adapter' = "over"
      /\ pipe' = pipe \o <<IF cliZero THEN "completed" ELSE "failed">>
  BY DEF CliClosed, EmitLast
<1>2. CliTypeOK' /\ cliZero \in BOOLEAN
  BY <1>1 DEF AdapterRun, CliTypeOK, cliVars
<1>3. said = "none"
  BY <1>1 DEF AdapterRun, ResultAhead
<1>4. ((IF cliZero THEN "completed" ELSE "failed") = "completed") = Succeeds'
  BY <1>1, <1>2, <1>3 DEF Succeeds, cliVars
<1>. QED
  BY <1>1, <1>2, <1>4, AdapterEnds DEF cliVars, Terminals

\* A signal kills the adapter: somebody stopped the run.
LEMMA AdapterKilled == ASSUME DriverInv, AdapterRun, Killed PROVE DriverInv' /\ AdapterRun'
<1>1. Stopped /\ Stopped'
  BY DEF Killed, Driver, stopVars, DriverInv, Phases, Stopped
<1>2. DriverInv'
  BY EngineKeepsDriver DEF Killed, DriverInv, TypeOK, Lines
<1>. QED
  BY <1>1, <1>2 DEF Killed, AdapterRun, CliTypeOK, AdapterPhases, ResultAhead, StreamSaysSo, OnlyTooLong,
     Driver, stopVars, cliVars

\* The CLI writes: the first result is the one that counts.
LEMMA CliIsHeard == ASSUME DriverInv, AdapterRun, CliWrites PROVE DriverInv' /\ AdapterRun'
<1>1. PICK read \in CliLines :
        /\ cli = "running"
        /\ cliPipe' = Append(cliPipe, read)
        /\ said' = IF said = "none" /\ read \in CliResults THEN read ELSE said
        /\ UNCHANGED <<vars, adapter, cli, cliTail, cliZero>>
  BY DEF CliWrites
<1>2. DriverInv'
  BY <1>1, DriverPreserved
<1>3. CliTypeOK'
  BY <1>1 DEF AdapterRun, CliTypeOK
<1>4. AdapterPhases' /\ OnlyTooLong'
  BY <1>1 DEF AdapterRun, AdapterPhases, OnlyTooLong, vars, childVars, stopVars, Stopped
<1>5. StreamSaysSo'
  BY <1>1 DEF AdapterRun, StreamSaysSo, Succeeds, Undelivered, vars, childVars, stopVars, Stopped, Settled
<1>6. ResultAhead'
  <2>1. cliPipe \in Seq(CliLines) /\ Len(cliPipe) \in Nat /\ said \in CliResults \cup {"none"}
    BY DEF AdapterRun, CliTypeOK
  <2>2. Len(cliPipe') = Len(cliPipe) + 1 /\ cliPipe'[Len(cliPipe')] = read
        /\ \A i \in 1 .. Len(cliPipe) : cliPipe'[i] = cliPipe[i]
    BY <1>1, <2>1
  <2>3. CASE adapter' = "translating" /\ said # "none"
    <3>1. PICK i \in 1 .. Len(cliPipe) :
            cliPipe[i] = said /\ \A j \in 1 .. i - 1 : cliPipe[j] \notin CliResults
      BY <1>1, <2>3 DEF AdapterRun, ResultAhead
    <3>2. i \in 1 .. Len(cliPipe') /\ cliPipe'[i] = said' /\ said' # "none"
          /\ \A j \in 1 .. i - 1 : cliPipe'[j] \notin CliResults
      BY <1>1, <2>1, <2>2, <2>3, <3>1
    <3>. QED BY <3>2 DEF ResultAhead
  <2>4. CASE adapter' = "translating" /\ said = "none" /\ read \in CliResults
    <3>1. \A i \in 1 .. Len(cliPipe) : cliPipe[i] \notin CliResults
      BY <1>1, <2>4 DEF AdapterRun, ResultAhead
    <3>2. Len(cliPipe') \in 1 .. Len(cliPipe') /\ cliPipe'[Len(cliPipe')] = said' /\ said' # "none"
          /\ \A j \in 1 .. Len(cliPipe') - 1 : cliPipe'[j] \notin CliResults
      BY <1>1, <2>1, <2>2, <2>4, <3>1 DEF CliResults
    <3>. QED BY <3>2 DEF ResultAhead
  <2>5. CASE adapter' = "translating" /\ said = "none" /\ read \notin CliResults
    <3>1. \A i \in 1 .. Len(cliPipe) : cliPipe[i] \notin CliResults
      BY <1>1, <2>5 DEF AdapterRun, ResultAhead
    <3>2. said' = "none" /\ \A i \in 1 .. Len(cliPipe') : cliPipe'[i] \notin CliResults
      BY <1>1, <2>1, <2>2, <2>5, <3>1
    <3>. QED BY <3>2 DEF ResultAhead
  <2>. QED BY <2>3, <2>4, <2>5 DEF ResultAhead
<1>. QED BY <1>2, <1>3, <1>4, <1>5, <1>6 DEF AdapterRun

\* The CLI exits: only then does its exit code say anything.
LEMMA CliIsGone == ASSUME DriverInv, AdapterRun, CliExits PROVE DriverInv' /\ AdapterRun'
<1>1. DriverInv'
  BY DriverPreserved DEF CliExits
<1>2. CliTypeOK' /\ AdapterPhases' /\ ResultAhead' /\ OnlyTooLong'
  BY DEF CliExits, AdapterRun, CliTypeOK, AdapterPhases, ResultAhead, OnlyTooLong, vars, childVars,
         stopVars, Stopped
<1>3. StreamSaysSo'
  BY DEF CliExits, AdapterRun, StreamSaysSo, Succeeds, Undelivered, vars, childVars, stopVars, Stopped,
         Settled
<1>. QED BY <1>1, <1>2, <1>3 DEF AdapterRun

-----------------------------------------------------------------------------
(* The engine run as a whole *)

\* The driver's own steps, with the adapter as it was.
LEMMA DriverWithAdapter ==
  ASSUME DriverInv, AdapterRun, DriverStep, UNCHANGED <<adapter, cliVars>>
  PROVE  DriverInv' /\ AdapterRun'
<1>1. DriverInv'
  BY DriverPreserved DEF DriverStep, Next
<1>2. AdapterRun'
  BY AdapterWaits, AdapterIsRead, AdapterIsClosed DEF DriverStep
<1>. QED BY <1>1, <1>2

\* Every step of an engine run preserves the invariant, whichever program the engine is.
LEMMA TurnRunPreserves == ASSUME EngineInv, TurnRun PROVE EngineInv'
<1>1. UNCHANGED host
  BY DEF TurnRun
<1>2. CASE host = "other"
  <2>1. Next
    BY <1>2 DEF TurnRun, DriverStep, Next
  <2>. QED BY <1>1, <1>2, <2>1, DriverPreserved DEF EngineInv, AdapterInv
<1>3. CASE host # "other"
  <2>1. DriverInv /\ AdapterRun
    BY <1>3 DEF EngineInv, AdapterInv
  <2>2. CASE DriverStep /\ UNCHANGED <<adapter, cliVars>>
    BY <1>1, <2>1, <2>2, DriverWithAdapter DEF EngineInv, AdapterInv
  <2>3. CASE AdapterStep
    BY <1>1, <2>1, <2>3, AdapterStarts, AdapterRefuses, AdapterSpawns, AdapterReadsCli, AdapterSeesClose,
       AdapterKilled DEF EngineInv, AdapterInv, AdapterStep
  <2>4. CASE CliWrites \/ CliExits
    BY <1>1, <2>1, <2>4, CliIsHeard, CliIsGone DEF EngineInv, AdapterInv
  <2>. QED BY <1>3, <2>2, <2>3, <2>4 DEF TurnRun
<1>. QED BY <1>2, <1>3

\* So does every other step of the module: it leaves the run alone.
LEMMA EnginePreserves == ASSUME EngineInv, [EngineNext]_engineVars PROVE EngineInv'
<1>1. CASE TurnRun
  BY <1>1, TurnRunPreserves
<1>2. CASE UNCHANGED <<host, turnVars>>
  BY <1>2 DEF turnVars, vars, childVars, stopVars, cliVars, EngineInv, DriverInv, AdapterInv, AdapterRun,
     TypeOK, Legal, Forwarding, Phases, Settled, Stopped, Ended, CliTypeOK, AdapterPhases, ResultAhead,
     StreamSaysSo, OnlyTooLong, Undelivered, NoneBad, Succeeds
<1>. QED BY <1>1, <1>2 DEF EngineNext, ReadsFile, engineVars

\* The invariant says what VerdictOfCli does.
LEMMA VerdictByInvariant == EngineInv => VerdictOfCli
<1>. SUFFICES ASSUME DriverInv, AdapterRun
             PROVE  /\ Settled /\ ~ aborted /\ ~ timedOut =>
                         result \in {"trusted", "turn_engine_unavailable"} \/ Len(events) = MaxEvents
                    /\ result = "trusted" =>
                         (Last(events) = "completed") = IF said = "none" THEN cli = "exited" /\ cliZero
                                                        ELSE said = "success"
  BY DEF EngineInv, AdapterInv, VerdictOfCli
<1>1. ASSUME Settled, ~ aborted, ~ timedOut
      PROVE  result \in {"trusted", "turn_engine_unavailable"} \/ Len(events) = MaxEvents
  BY <1>1 DEF AdapterRun, OnlyTooLong, StreamSaysSo, Stopped
<1>2. ASSUME result = "trusted"
      PROVE  (Last(events) = "completed") = IF said = "none" THEN cli = "exited" /\ cliZero
                                            ELSE said = "success"
  <2>1. child = "closed" /\ pipe = <<>> /\ ~ Stopped /\ Ended(events)
    BY <1>2 DEF DriverInv, Phases, Settled
  <2>2. adapter = "over"
    BY <2>1 DEF AdapterRun, AdapterPhases, CliTypeOK
  <2>3. Undelivered = events
    BY <2>1, StillOpen, ConcatEmptySeq DEF Undelivered
  <2>. QED BY <2>1, <2>2, <2>3 DEF AdapterRun, StreamSaysSo, Succeeds
<1>. QED BY <1>1, <1>2

-----------------------------------------------------------------------------
(* The refinement of DriverContract *)

\* A step of the driver opens, aborts or resolves the run, or leaves it where it was.
LEMMA RunMoves ==
  ASSUME DriverInv, [Next]_vars
  PROVE  \/ Run' = Run
         \/ Run = "idle" /\ Run' = "open"
         \/ Run = "open" /\ Run' = "aborted"
         \/ Run = "open" /\ Run' \in {"completed", "failed", "indeterminate"}
         \/ Run = "aborted" /\ Run' = "cancelled"
<1>. USE DEF Run, Settled
<1>1. CASE UNCHANGED vars
  BY <1>1 DEF vars, childVars, stopVars
<1>2. CASE Call \/ Spawn \/ SpawnFails
  BY <1>2 DEF Call, Spawn, SpawnFails, stopVars, DriverInv, Phases, Stopped
<1>3. CASE EngineWrites \/ EngineExits \/ DescendantLeaves \/ ForceKill \/ TimerFires
  BY <1>3 DEF EngineWrites, EngineExits, DescendantLeaves, ForceKill, TimerFires, stopVars, childVars,
              DriverInv, Phases
<1>4. CASE Abort
  BY <1>4 DEF Abort, childVars, DriverInv, Phases
<1>5. CASE ReadLine
  BY <1>5 DEF ReadLine, stopVars, DriverInv, Phases
<1>6. CASE Close
  <2>1. ~ Settled /\ child # "none" /\ (result' = "trusted" => Last(events') \in {"completed", "failed"})
        /\ result' # "none" /\ (result' = "turn_cancelled" <=> aborted) /\ aborted' = aborted
    <3>1. DriverInv'
      BY <1>6, CloseStep
    <3>2. ~ Settled /\ child = "exited" /\ aborted' = aborted
      BY <1>6 DEF Close, DriverInv, Phases
    <3>3. result' # "none" /\ (result' = "turn_cancelled" <=> aborted)
      BY <1>6 DEF Close, CloseResult
    <3>. QED BY <3>1, <3>2, <3>3 DEF DriverInv, Phases, Ended, Terminals
  <2>. QED BY <2>1
<1>. QED BY <1>1, <1>2, <1>3, <1>4, <1>5, <1>6 DEF Next

\* So it is a step of the contract.
LEMMA ContractMoves ==
  ASSUME DriverInv, [Next]_vars
  PROVE  [Contract!ContractNext]_([r \in {"turn"} |-> Run])
<1> DEFINE run == [r \in {"turn"} |-> Run]
<1>1. \/ run' = run
      \/ run["turn"] = "idle" /\ run' = [run EXCEPT !["turn"] = "open"]
      \/ run["turn"] = "open" /\ run' = [run EXCEPT !["turn"] = "aborted"]
      \/ run["turn"] = "open" /\ \E o \in {"completed", "failed", "indeterminate"} : run' = [run EXCEPT !["turn"] = o]
      \/ run["turn"] = "aborted" /\ run' = [run EXCEPT !["turn"] = "cancelled"]
  <2>. HIDE DEF Run
  <2>. QED BY RunMoves
<1>. QED
  BY <1>1 DEF Contract!ContractNext, Contract!Open, Contract!Abort, Contract!Resolve, Contract!Results,
     Contract!Trusted

\* What an adapter, its CLI or a file does is none of the contract's business.
LEMMA AdapterKeepsRun ==
  ASSUME UNCHANGED <<result, aborted, events>>, (child = "none") = (child' = "none")
  PROVE  [Contract!ContractNext]_([r \in {"turn"} |-> Run])
BY DEF Run, Settled

\* Every step of the engine run is a step of the contract, too.
LEMMA EngineMoves ==
  ASSUME EngineInv, [EngineNext]_engineVars
  PROVE  [Contract!ContractNext]_([r \in {"turn"} |-> Run])
<1>1. CASE [Next]_vars
  BY <1>1, ContractMoves DEF EngineInv
<1>2. CASE AdapterStep
  BY <1>2, AdapterKeepsRun
     DEF AdapterStep, Starts, Refuses, SpawnsCli, ReadsCli, CliClosed, Killed, Emit, EmitLast, Driver, stopVars
<1>. QED
  BY <1>1, <1>2 DEF EngineNext, TurnRun, ReadsFile, DriverStep, Next, CliWrites, CliExits, engineVars, turnVars

\* Before the first call the contract's run is idle.
LEMMA ContractInitially == Init => Contract!ContractInit
BY DEF Init, Contract!ContractInit, Run, Settled

-----------------------------------------------------------------------------
(* Theorems *)

\* turnRun keeps its invariant with any program as the engine, for all bounds.
THEOREM DriverInvariant == Spec => []DriverInv
<1>1. DriverInv /\ [Next]_vars => DriverInv'
  BY DriverPreserved
<1>. QED
  BY DriverInitially, <1>1, PTL DEF Spec

\* Every variable of turnRun keeps its type, and no more events are accepted than the bound.
THEOREM DriverTypes == Spec => []TypeOK
<1>1. DriverInv => TypeOK
  BY DEF DriverInv
<1>. QED
  BY DriverInvariant, <1>1, PTL

\* Whatever the engine writes, when it exits and however the run is stopped: a terminal that onEvent
\* has seen ends a stream that is complete, legal and trusted.
THEOREM TerminalsAreTrusted == Spec => []TerminalMeansTrusted
BY DriverInvariant, TrustedByInvariant, PTL

\* turnRun implements the contract executeTurn relies on.
THEOREM DriverImplements == Spec => ImplementsContract
<1>1. DriverInv /\ [Next]_vars => [Contract!ContractNext]_([r \in {"turn"} |-> Run])
  BY ContractMoves
<1>. QED
  BY ContractInitially, <1>1, DriverInvariant, PTL DEF Spec, ImplementsContract, Contract!ContractSpec

\* With the adapter of the desktop as the engine, or any other, the invariant holds.
THEOREM EngineInvariant == EngineSpec => []EngineInv
<1>1. EngineInv /\ [EngineNext]_engineVars => EngineInv'
  BY EnginePreserves
<1>. QED
  BY AdapterInitially, <1>1, PTL DEF EngineSpec

\* A terminal that onEvent has seen is trusted in a run of the adapter as well.
THEOREM EngineTerminals == EngineSpec => []TerminalMeansTrusted
<1>1. EngineInv => DriverInv
  BY DEF EngineInv
<1>. QED
  BY EngineInvariant, TrustedByInvariant, <1>1, PTL

\* A run of the adapter that nobody stops is trusted unless it has too many events, and reports the
\* first result of its CLI, or else its exit code.
THEOREM EngineVerdict == EngineSpec => []VerdictOfCli
BY EngineInvariant, VerdictByInvariant, PTL

\* turnRun implements the contract whichever engine it runs.
THEOREM EngineImplements == EngineSpec => ImplementsContract
<1>1. EngineInit => Contract!ContractInit
  BY ContractInitially DEF EngineInit
<1>2. EngineInv /\ [EngineNext]_engineVars => [Contract!ContractNext]_([r \in {"turn"} |-> Run])
  BY EngineMoves
<1>. QED
  BY <1>1, <1>2, EngineInvariant, PTL DEF EngineSpec, ImplementsContract, Contract!ContractSpec

-----------------------------------------------------------------------------
(* Bounded reads *)

\* Where the reader has the stat of the file it opened.
HasStat == {"compare", "read", "restat", "recompare"}

\* Everything a step of a reader or of the others relies on.
ReadTypes ==
  /\ named \in 0 .. 3 /\ writes \in Nat
  /\ disk = [i \in 1 .. 3 |-> disk[i]]
  /\ \A i \in 1 .. 3 : /\ disk[i] = [pieces |-> disk[i].pieces, time |-> disk[i].time]
                      /\ disk[i].pieces \in Seq(Pieces) /\ disk[i].time \in 0 .. writes
  /\ reader = [at |-> reader.at, handle |-> reader.handle, first |-> reader.first,
               opened |-> reader.opened, after |-> reader.after, buffer |-> reader.buffer]
  /\ reader.handle \in 0 .. 3 /\ reader.buffer \in Seq(Pieces)
  /\ reader.at \in {"look", "open", "stat", "closing", "returned", "thrown"} \cup HasStat

\* As long as the file that was opened has the times it had then, it holds what it held then, and
\* the buffer is the beginning of that: every write moves the times on.
BufferIsOfOpened ==
  /\ reader.at \in {"look", "open", "stat", "compare"} => reader.buffer = <<>>
  /\ reader.at \in {"stat"} \cup HasStat => reader.handle # 0
  /\ reader.at \in HasStat =>
       LET file == disk[reader.handle] IN
       /\ reader.opened.inode = reader.handle /\ reader.opened.time \in 0 .. writes
       /\ file.time = reader.opened.time =>
            /\ Len(file.pieces) = reader.opened.size
            /\ Len(reader.buffer) <= Len(file.pieces)
            /\ \A n \in 1 .. Len(reader.buffer) : reader.buffer[n] = file.pieces[n]

\* The inductive invariant of StableRead, for either of its callers.
ReadInv == ReadTypes /\ BufferIsOfOpened

\* A file is there at first, whole.
LEMMA ReadInitially == ASSUME EngineInit PROVE ReadInv
<1>1. Request!ReadInit \/ Record!ReadInit
  BY DEF EngineInit
<1>2. [n \in 1 .. MaxPieces |-> CHOOSE x \in Pieces : TRUE] \in Seq(Pieces)
  BY QoderEngineAssumption
<1>3. PICK first \in Seq(Pieces), look \in {"look", "open"}, none \in {[inode |-> 0, size |-> 0, time |-> 0]} :
        /\ named = 1 /\ writes = 0
        /\ disk = [i \in 1 .. 3 |-> [pieces |-> first, time |-> 0]]
        /\ reader = [at |-> look, handle |-> 0, first |-> none, opened |-> none, after |-> none,
                     buffer |-> <<>>]
  BY <1>1, <1>2 DEF Request!ReadInit, Record!ReadInit, Request!Inodes, Record!Inodes, Request!NoStat,
       Record!NoStat
<1>4. /\ \A i \in 1 .. 3 : disk[i].pieces = first /\ disk[i].time = 0
      /\ reader.at = look /\ reader.handle = 0 /\ reader.buffer = <<>>
  BY <1>3
<1>5. ReadTypes
  BY <1>3, <1>4 DEF ReadTypes
<1>6. BufferIsOfOpened
  BY <1>4 DEF BufferIsOfOpened, HasStat
<1> QED  BY <1>5, <1>6 DEF ReadInv

\* A write gives one inode new content and a time nobody has seen.
LEMMA WriteKeeps ==
  ASSUME ReadInv, NEW i \in 1 .. 3, NEW content \in Seq(Pieces), named' \in 0 .. 3,
         writes' = writes + 1, reader' = reader,
         disk' = [disk EXCEPT ![i] = [pieces |-> content, time |-> writes + 1]]
  PROVE  ReadInv'
<1>0. \A h \in 1 .. 3 : disk'[h] = IF h = i THEN [pieces |-> content, time |-> writes + 1] ELSE disk[h]
  BY DEF ReadInv, ReadTypes
<1>1. ReadTypes'
  <2>1. writes \in Nat /\ \A h \in 1 .. 3 : disk'[h].time \in 0 .. writes'
    BY <1>0 DEF ReadInv, ReadTypes
  <2>2. \A h \in 1 .. 3 : /\ disk'[h] = [pieces |-> disk'[h].pieces, time |-> disk'[h].time]
                         /\ disk'[h].pieces \in Seq(Pieces)
    BY <1>0 DEF ReadInv, ReadTypes
  <2>3. disk' = [h \in 1 .. 3 |-> disk'[h]]
    BY DEF ReadInv, ReadTypes
  <2> QED  BY <2>1, <2>2, <2>3 DEF ReadInv, ReadTypes, HasStat
<1>2. \A h \in 1 .. 3 : disk'[h] = disk[h] \/ disk'[h].time = writes + 1
  BY DEF ReadInv, ReadTypes
<1>3. reader.at \in HasStat => reader.handle \in 1 .. 3 /\ reader.opened.time # writes + 1
  BY DEF ReadInv, ReadTypes, BufferIsOfOpened
<1>4. BufferIsOfOpened'
  BY <1>2, <1>3 DEF ReadInv, ReadTypes, BufferIsOfOpened
<1> QED  BY <1>1, <1>4 DEF ReadInv

\* Nobody else's step disturbs a read without being seen.
LEMMA OthersKeepRead ==
  ASSUME ReadInv,
         \/ Request!Replace \/ Record!Replace \/ Request!Rewrite \/ Record!Rewrite
         \/ Request!Unlink \/ Record!Unlink
  PROVE  ReadInv'
<1>1. CASE Request!Replace \/ Record!Replace
  <2>1. PICK i \in 1 .. 3, c \in [1 .. MaxPieces -> Pieces] :
          /\ named' = i /\ writes' = writes + 1 /\ reader' = reader
          /\ disk' = [disk EXCEPT ![i] = [pieces |-> c, time |-> writes + 1]]
    BY <1>1 DEF Request!Replace, Record!Replace, Request!Write, Record!Write, Request!Inodes, Record!Inodes
  <2>2. c \in Seq(Pieces)
    <3>1. c = [n \in 1 .. MaxPieces |-> c[n]] /\ \A n \in 1 .. MaxPieces : c[n] \in Pieces
      OBVIOUS
    <3> QED  BY <3>1, QoderEngineAssumption
  <2>3. named' \in 0 .. 3
    BY <2>1
  <2> QED  BY <2>1, <2>2, <2>3, WriteKeeps, Zenon
<1>2. CASE Request!Rewrite \/ Record!Rewrite
  <2>1. named \in 1 .. 3 /\ disk[named].pieces \in Seq(Pieces) /\ named' = named
    BY <1>2 DEF Request!Rewrite, Record!Rewrite, ReadInv, ReadTypes
  <2>2. PICK c \in Seq(Pieces) :
          /\ writes' = writes + 1 /\ reader' = reader
          /\ disk' = [disk EXCEPT ![named] = [pieces |-> c, time |-> writes + 1]]
    <3>1. \A n \in 1 .. Len(disk[named].pieces), x \in Pieces :
            [disk[named].pieces EXCEPT ![n] = x] \in Seq(Pieces)
      BY <2>1
    <3>2. \A x \in Pieces : Append(disk[named].pieces, x) \in Seq(Pieces)
      BY <2>1
    <3>3. PICK content : content = disk[named].pieces
      OBVIOUS
    <3>4. \E c :
            /\ \/ \E n \in 1 .. Len(content), x \in Pieces : c = [content EXCEPT ![n] = x]
               \/ \E x \in Pieces : c = Append(content, x)
               \/ c = <<>>
            /\ writes' = writes + 1 /\ reader' = reader
            /\ disk' = [disk EXCEPT ![named] = [pieces |-> c, time |-> writes + 1]]
      BY <1>2, <3>3, Zenon DEF Request!Rewrite, Record!Rewrite, Request!Write, Record!Write
    <3>5. <<>> \in Seq(Pieces)
      OBVIOUS
    <3> QED  BY <3>1, <3>2, <3>3, <3>4, <3>5, Zenon
  <2>3. named' \in 0 .. 3
    BY <2>1
  <2> QED  BY <2>1, <2>2, <2>3, WriteKeeps, Zenon
<1>3. CASE Request!Unlink \/ Record!Unlink
  <2>1. named' = 0 /\ disk' = disk /\ writes' = writes /\ reader' = reader
    BY <1>3 DEF Request!Unlink, Record!Unlink
  <2>2. ReadTypes'
    BY <2>1 DEF ReadInv, ReadTypes, HasStat
  <2>3. BufferIsOfOpened'
    BY <2>1 DEF ReadInv, BufferIsOfOpened, HasStat
  <2> QED  BY <2>2, <2>3 DEF ReadInv
<1> QED  BY <1>1, <1>2, <1>3

\* The steps of a read keep what it has in order.
LEMMA ReaderKeepsRead == ASSUME ReadInv, Request!ReadStep \/ Record!ReadStep PROVE ReadInv'
<1>. USE DEF ReadInv, ReadTypes, BufferIsOfOpened, HasStat, Request!Others, Record!Others, Request!Goes, Record!Goes
<1>1. CASE Request!Look \/ Record!Look
  BY <1>1 DEF Request!Look, Record!Look
<1>2. CASE Request!Open \/ Record!Open
  BY <1>2 DEF Request!Open, Record!Open
<1>3. CASE Request!Stat \/ Record!Stat
  <2>1. PICK file : file = disk[reader.handle]
    OBVIOUS
  <2>2. reader.at = "stat" /\ reader.handle \in 1 .. 3 /\ file.pieces \in Seq(Pieces) /\ UNCHANGED <<named, disk, writes>>
    BY <1>3, <2>1 DEF Request!Stat, Record!Stat
  <2>3. reader' = [reader EXCEPT !.at = "compare",
                     !.opened = [inode |-> reader.handle, size |-> Len(file.pieces), time |-> file.time]]
    BY <1>3, <2>1, <2>2 DEF Request!Stat, Record!Stat, Request!StatOf, Record!StatOf
  <2>4. /\ reader'.at = "compare" /\ reader'.handle = reader.handle /\ reader'.buffer = <<>>
        /\ reader'.opened.inode = reader.handle /\ reader'.opened.size = Len(file.pieces)
        /\ reader'.opened.time = file.time
    BY <2>2, <2>3
  <2>5. ReadTypes'
    BY <2>2, <2>3, <2>4
  <2>6. BufferIsOfOpened'
    BY <2>1, <2>2, <2>4
  <2> QED  BY <2>5, <2>6
<1>4. CASE Request!Compare \/ Record!Compare
  BY <1>4 DEF Request!Compare, Record!Compare
<1>5. CASE Request!ReadPiece \/ Record!ReadPiece
  <2>1. PICK file : file = disk[reader.handle]
    OBVIOUS
  <2>2. reader.at = "read" /\ reader.handle \in 1 .. 3 /\ file.pieces \in Seq(Pieces) /\ UNCHANGED <<named, disk, writes>>
    BY <1>5, <2>1 DEF Request!ReadPiece, Record!ReadPiece
  <2>3. \/ \E next \in {"thrown", "restat"} : reader' = [reader EXCEPT !.at = next]
        \/ /\ Len(reader.buffer) + 1 <= Len(file.pieces)
           /\ reader' = [reader EXCEPT !.buffer = Append(@, file.pieces[Len(reader.buffer) + 1])]
    BY <1>5, <2>1, <2>2 DEF Request!ReadPiece, Record!ReadPiece
  <2>4. ASSUME NEW next \in {"thrown", "restat"}, reader' = [reader EXCEPT !.at = next]
        PROVE  ReadInv'
    BY <2>2, <2>4
  <2>5. CASE /\ Len(reader.buffer) + 1 <= Len(file.pieces)
             /\ reader' = [reader EXCEPT !.buffer = Append(@, file.pieces[Len(reader.buffer) + 1])]
    <3>1. file.pieces[Len(reader.buffer) + 1] \in Pieces
      BY <2>2, <2>5
    <3>2. /\ reader'.buffer \in Seq(Pieces) /\ Len(reader'.buffer) = Len(reader.buffer) + 1
          /\ \A n \in 1 .. Len(reader.buffer) : reader'.buffer[n] = reader.buffer[n]
          /\ reader'.buffer[Len(reader.buffer) + 1] = file.pieces[Len(reader.buffer) + 1]
      BY <2>5, <3>1
    <3>3. \A n \in 1 .. Len(reader'.buffer) : n \in 1 .. Len(reader.buffer) \/ n = Len(reader.buffer) + 1
      BY <3>2
    <3>4. /\ reader'.at = "read" /\ reader'.handle = reader.handle /\ reader'.opened = reader.opened
      BY <2>2, <2>5
    <3>5. ReadTypes'
      BY <2>2, <2>5, <3>2, <3>4
    <3>6. file.time = reader.opened.time => \A n \in 1 .. Len(reader'.buffer) : reader'.buffer[n] = file.pieces[n]
      BY <2>1, <2>2, <3>2, <3>3
    <3>7. BufferIsOfOpened'
      BY <2>1, <2>2, <2>5, <3>2, <3>4, <3>6
    <3> QED  BY <3>5, <3>7
  <2> QED  BY <2>3, <2>4, <2>5
<1>6. CASE Request!StatAgain \/ Record!StatAgain
  BY <1>6 DEF Request!StatAgain, Record!StatAgain
<1>7. CASE Request!CompareAgain \/ Record!CompareAgain
  BY <1>7 DEF Request!CompareAgain, Record!CompareAgain
<1>8. CASE Request!Close \/ Record!Close
  BY <1>8 DEF Request!Close, Record!Close
<1> QED  BY <1>1, <1>2, <1>3, <1>4, <1>5, <1>6, <1>7, <1>8 DEF Request!ReadStep, Record!ReadStep

\* Every step of the engine's program is one of a run or one about a file that is read.
LEMMA ReadPreserved == ASSUME ReadInv, [EngineNext]_engineVars PROVE ReadInv'
<1>1. CASE UNCHANGED readVars
  BY <1>1 DEF readVars, ReadInv, ReadTypes, BufferIsOfOpened
<1>2. CASE ReadsFile
  BY <1>2, OthersKeepRead, ReaderKeepsRead DEF ReadsFile, Request!ReadNext, Record!ReadNext
<1> QED  BY <1>1, <1>2 DEF EngineNext, TurnRun, engineVars

\* The last look finds the path naming the file that was opened, with its times: what is in the
\* buffer is then all of it.
LEMMA ComesToCurrent ==
  ASSUME ReadInv, [EngineNext]_engineVars, reader.at # "closing", reader'.at = "closing"
  PROVE  named # 0 /\ reader.buffer = disk[named].pieces
<1>1. ReadsFile
  BY DEF EngineNext, TurnRun, engineVars, readVars
<1>2. Request!CompareAgain \/ Record!CompareAgain
  BY <1>1 DEF ReadsFile, Request!ReadNext, Record!ReadNext, Request!ReadStep, Record!ReadStep,
       Request!Look, Record!Look, Request!Open, Record!Open, Request!Stat, Record!Stat,
       Request!Compare, Record!Compare, Request!ReadPiece, Record!ReadPiece,
       Request!StatAgain, Record!StatAgain, Request!Close, Record!Close, Request!Goes, Record!Goes,
       Request!Replace, Record!Replace, Request!Rewrite, Record!Rewrite, Request!Unlink, Record!Unlink,
       Request!Write, Record!Write, ReadInv, ReadTypes
<1>3. /\ reader.at = "recompare" /\ reader.handle \in 1 .. 3
      /\ Len(reader.buffer) = reader.opened.size
      /\ reader.opened.inode # 0
      /\ reader.opened = IF named = 0 THEN [inode |-> 0, size |-> 0, time |-> 0]
                         ELSE [inode |-> named, size |-> Len(disk[named].pieces), time |-> disk[named].time]
  BY <1>2 DEF Request!CompareAgain, Record!CompareAgain, Request!Same, Record!Same, Request!Goes, Record!Goes,
       Request!StatOf, Record!StatOf, Request!NoStat, Record!NoStat, ReadInv, ReadTypes, BufferIsOfOpened, HasStat
<1>4. named # 0 /\ reader.opened.inode = named /\ reader.opened.time = disk[named].time
  BY <1>3
<1>5. /\ reader.handle = named /\ Len(disk[named].pieces) = Len(reader.buffer)
      /\ \A n \in 1 .. Len(reader.buffer) : reader.buffer[n] = disk[named].pieces[n]
      /\ reader.buffer \in Seq(Pieces) /\ disk[named].pieces \in Seq(Pieces)
  BY <1>3, <1>4 DEF ReadInv, ReadTypes, BufferIsOfOpened, HasStat
<1> QED  BY <1>4, <1>5

\* readStableBoundedFile and readBoundedHireFile return one state of the file, the one the path
\* names at the last look, for any bound and however often it is replaced, rewritten, grown or
\* removed meanwhile.
THEOREM ReadsAreCurrent == EngineSpec => ReadIsCurrent
<1>1. EngineInit => ReadInv
  BY ReadInitially
<1>2. ReadInv /\ [EngineNext]_engineVars => ReadInv'
  BY ReadPreserved
<1>3. ReadInv /\ [EngineNext]_engineVars =>
        [reader.at # "closing" /\ reader'.at = "closing" =>
           named # 0 /\ reader.buffer = disk[named].pieces]_engineVars
  BY ComesToCurrent
<1> QED  BY <1>1, <1>2, <1>3, PTL DEF EngineSpec, ReadIsCurrent

-----------------------------------------------------------------------------
(* The forwarders *)

\* One engine and its forwarder: nothing is held once the cap is reached, until then all that was
\* emitted is published or held, and after a trusted terminal nothing is held any more.
ForwarderOK(t) ==
  LET f == engine[t] IN
  /\ f.out + f.held < ForwardCap
  /\ IF f.capped THEN f.held = 0 ELSE f.out + f.held = f.emitted
  /\ f.trusted => at[t] = "ended" /\ f.held = 0 /\ ~ f.timer

ForwardersOK == LiveTypes /\ \A t \in Turns : ForwarderOK(t)

\* No forwarder has heard of its engine at first.
LEMMA LiveInitially == LiveInit => ForwardersOK
  BY LiveTurnsAssumption, SMTT(30) DEF LiveInit, ForwardersOK, LiveTypes, ForwarderOK, Forwarder, Unheard

\* The step of one turn leaves the others alone.
LEMMA OneForwarder ==
  ASSUME ForwardersOK, NEW t \in Turns,
         NEW f \in Forwarder, NEW s \in {"new", "asked", "begun", "streaming", "ended", "done"},
         at' = [at EXCEPT ![t] = s], engine' = [engine EXCEPT ![t] = f],
         record' \in [Turns -> {"none", "running", "orphan", "terminal"}],
         UNCHANGED <<reads, faults>>,
         f.out + f.held < ForwardCap,
         IF f.capped THEN f.held = 0 ELSE f.out + f.held = f.emitted,
         f.trusted => s = "ended" /\ f.held = 0 /\ ~ f.timer
  PROVE  ForwardersOK'
<1>1. LiveTypes'
  BY DEF ForwardersOK, LiveTypes
<1>2. ASSUME NEW u \in Turns PROVE ForwarderOK(u)'
  <2>1. CASE u = t
    <3>1. engine'[u] = f /\ at'[u] = s
      BY <2>1 DEF ForwardersOK, LiveTypes
    <3> QED  BY <3>1 DEF ForwarderOK
  <2>2. CASE u # t
    <3>1. engine'[u] = engine[u] /\ at'[u] = at[u]
      BY <2>2 DEF ForwardersOK, LiveTypes
    <3>2. ForwarderOK(u)
      BY DEF ForwardersOK
    <3> QED  BY <3>1, <3>2 DEF ForwarderOK
  <2> QED  BY <2>1, <2>2
<1> QED  BY <1>1, <1>2 DEF ForwardersOK

\* What flushing does to a forwarder.
LEMMA FlushedForwarder ==
  ASSUME NEW f \in Forwarder
  PROVE  /\ Flushed(f) \in Forwarder /\ Flushed(f).out = f.out + f.held /\ Flushed(f).held = 0
         /\ ~ Flushed(f).timer /\ (Flushed(f).capped <=> f.capped) /\ Flushed(f).emitted = f.emitted
         /\ (Flushed(f).trusted <=> f.trusted)
<1>1. /\ f.emitted \in Nat /\ f.out \in Nat /\ f.held \in Nat /\ f.out + f.held \in Nat
  BY DEF Forwarder
<1>2. Flushed(f) \in Forwarder
  BY <1>1 DEF Flushed, Forwarder
<1>3. /\ Flushed(f).out = f.out + f.held /\ Flushed(f).held = 0 /\ Flushed(f).emitted = f.emitted
  BY <1>1 DEF Flushed, Forwarder
<1>4. ~ Flushed(f).timer
  BY DEF Flushed, Forwarder
<1>5. Flushed(f).capped <=> f.capped
  BY DEF Flushed, Forwarder
<1>6. Flushed(f).trusted <=> f.trusted
  BY DEF Flushed, Forwarder
<1> QED  BY <1>2, <1>3, <1>4, <1>5, <1>6

\* A step of a turn's own keeps the invariant, whatever its forwarder is left with.
LEMMA ServeKeepsForwarders ==
  ASSUME ForwardersOK, NEW t \in Turns, Serve(t) PROVE ForwardersOK'
<1> DEFINE f == engine[t]
<1> DEFINE Ages == {"new", "asked", "begun", "streaming", "ended", "done"}
<1> DEFINE Records == {"none", "running", "orphan", "terminal"}
<1>0. /\ f \in Forwarder /\ ForwarderOK(t) /\ at[t] \in Ages
      /\ engine = [engine EXCEPT ![t] = f] /\ ForwardCap \in Nat \ {0} /\ record \in [Turns -> Records]
      /\ \A g : [engine EXCEPT ![t] = g][t] = g
  BY LiveTurnsAssumption DEF ForwardersOK, LiveTypes
<1>u. /\ Unheard \in Forwarder /\ Unheard.out + Unheard.held < ForwardCap
      /\ ~ Unheard.capped /\ Unheard.out + Unheard.held = Unheard.emitted /\ ~ Unheard.trusted
  BY <1>0 DEF Unheard, Forwarder
<1>f. /\ Flushed(f) \in Forwarder /\ Flushed(f).out = f.out + f.held /\ Flushed(f).held = 0
      /\ ~ Flushed(f).timer /\ (Flushed(f).capped <=> f.capped) /\ Flushed(f).emitted = f.emitted
      /\ (Flushed(f).trusted <=> f.trusted)
  BY <1>0, FlushedForwarder
<1> HIDE DEF f
<1>1. CASE Begin(t)
  <2>1. ~ f.trusted
    BY <1>0, <1>1 DEF Begin, Due, ForwarderOK, f
  <2>2. /\ at' = [at EXCEPT ![t] = "begun"] /\ engine' = [engine EXCEPT ![t] = f]
        /\ record' \in [Turns -> Records] /\ UNCHANGED <<reads, faults>>
    BY <1>0, <1>1 DEF Begin, panel
  <2> QED  BY <1>0, <2>1, <2>2, OneForwarder DEF ForwarderOK, f
<1>2. CASE BeginFails(t) \/ Settles(t)
  <2> DEFINE g == IF f.timer THEN f ELSE Unheard
  <2>1. /\ at' = [at EXCEPT ![t] = "done"] /\ engine' = [engine EXCEPT ![t] = g]
        /\ record' \in [Turns -> Records] /\ UNCHANGED <<reads, faults>>
    BY <1>0, <1>2 DEF BeginFails, Settles, Throws, Answered, panel, f
  <2>2. /\ g \in Forwarder /\ ~ g.trusted /\ g.out + g.held < ForwardCap
        /\ IF g.capped THEN g.held = 0 ELSE g.out + g.held = g.emitted
    BY <1>0, <1>u DEF ForwarderOK, f
  <2> HIDE DEF g
  <2> QED  BY <2>1, <2>2, OneForwarder
<1>3. CASE EngineStarts(t)
  <2> DEFINE g == [f EXCEPT !.started = TRUE]
  <2>1. /\ at' = [at EXCEPT ![t] = "streaming"] /\ engine' = [engine EXCEPT ![t] = g]
        /\ record' \in [Turns -> Records] /\ UNCHANGED <<reads, faults>>
    BY <1>0, <1>3 DEF EngineStarts, panel, f
  <2>2. /\ g \in Forwarder /\ ~ g.trusted /\ g.out + g.held < ForwardCap
        /\ IF g.capped THEN g.held = 0 ELSE g.out + g.held = g.emitted
    BY <1>0, <1>3 DEF EngineStarts, ForwarderOK, Forwarder, f
  <2> HIDE DEF g
  <2> QED  BY <2>1, <2>2, OneForwarder
<1>4. CASE EngineDelta(t)
  <2>0. /\ UNCHANGED <<at, record, reads, faults>> /\ at[t] = "streaming" /\ ~ f.trusted
        /\ at' = [at EXCEPT ![t] = "streaming"] /\ record' \in [Turns -> Records]
    BY <1>0, <1>4 DEF EngineDelta, panel, ForwarderOK, ForwardersOK, LiveTypes, f
  <2> DEFINE h == [f EXCEPT !.emitted = @ + 1, !.held = @ + 1]
  <2>1. CASE DeltaHeld(t)
    <3>0. /\ ~ f.capped /\ f.out + f.held + 1 < ForwardCap
          /\ \/ engine' = [engine EXCEPT ![t] = [h EXCEPT !.timer = TRUE]]
             \/ engine' = [engine EXCEPT ![t] = Flushed(h)]
      BY <2>1 DEF DeltaHeld, f
    <3>4. /\ f.out \in Nat /\ f.held \in Nat /\ f.emitted \in Nat /\ f.out + f.held = f.emitted
          /\ f.held + 1 \in Nat /\ f.emitted + 1 \in Nat
      BY <1>0, <3>0 DEF Forwarder, ForwarderOK, f
    <3>5. h.out = f.out /\ h.held = f.held + 1 /\ h.emitted = f.emitted + 1
      BY <1>0, <3>4 DEF Forwarder
    <3>8. h \in Forwarder
      BY <1>0, <3>4 DEF Forwarder
    <3>6. ~ h.capped
      BY <1>0, <3>0 DEF Forwarder
    <3>7. ~ h.trusted
      BY <1>0, <2>0 DEF Forwarder
    <3>1. /\ h \in Forwarder /\ ~ h.capped /\ ~ h.trusted /\ h.out = f.out /\ h.held = f.held + 1
          /\ h.emitted = f.emitted + 1 /\ f.out + f.held = f.emitted
          /\ f.out \in Nat /\ f.held \in Nat /\ f.emitted \in Nat
      BY <3>4, <3>5, <3>6, <3>7, <3>8
    <3> HIDE DEF h
    <3>2. CASE engine' = [engine EXCEPT ![t] = [h EXCEPT !.timer = TRUE]]
      <4> DEFINE g == [h EXCEPT !.timer = TRUE]
      <4>3. g \in Forwarder
        BY <3>1 DEF Forwarder
      <4>4. g.out = h.out /\ g.held = h.held /\ g.emitted = h.emitted
        BY <3>1 DEF Forwarder
      <4>5. ~ g.trusted /\ ~ g.capped
        BY <3>1 DEF Forwarder
      <4>1. /\ g \in Forwarder /\ ~ g.trusted /\ g.out + g.held < ForwardCap
            /\ IF g.capped THEN g.held = 0 ELSE g.out + g.held = g.emitted
        BY <3>0, <3>1, <1>0, <4>3, <4>4, <4>5
      <4>2. engine' = [engine EXCEPT ![t] = g]
        BY <3>2
      <4> HIDE DEF g
      <4> QED  BY <2>0, <4>1, <4>2, OneForwarder
    <3>3. CASE engine' = [engine EXCEPT ![t] = Flushed(h)]
      <4> DEFINE g == Flushed(h)
      <4>1. /\ g \in Forwarder /\ ~ g.trusted /\ g.out + g.held < ForwardCap
            /\ IF g.capped THEN g.held = 0 ELSE g.out + g.held = g.emitted
        BY <3>0, <3>1, <1>0, FlushedForwarder
      <4>2. engine' = [engine EXCEPT ![t] = g]
        BY <3>3
      <4> HIDE DEF g
      <4> QED  BY <2>0, <4>1, <4>2, OneForwarder
    <3> QED  BY <3>0, <3>2, <3>3
  <2>2. CASE DeltaCapped(t)
    <3> DEFINE k == IF f.capped THEN f ELSE Flushed(f)
    <3> DEFINE g == Cut(k)
    <3>1. engine' = [engine EXCEPT ![t] = g]
      BY <2>2 DEF DeltaCapped, f
    <3>2. k \in Forwarder /\ k.held = 0 /\ k.out + k.held < ForwardCap /\ ~ k.trusted
      BY <1>0, <1>f, <2>0 DEF ForwarderOK, Forwarder, f
    <3> HIDE DEF k
    <3>8. k.emitted + 1 \in Nat
      BY <3>2 DEF Forwarder
    <3>4. g \in Forwarder
      BY <3>2, <3>8 DEF Forwarder, Cut
    <3>5. g.out = k.out /\ g.held = k.held
      BY <3>2 DEF Forwarder, Cut
    <3>6. g.capped
      BY <3>2 DEF Forwarder, Cut
    <3>7. ~ g.trusted
      BY <3>2 DEF Forwarder, Cut
    <3>3. /\ g \in Forwarder /\ ~ g.trusted /\ g.out + g.held < ForwardCap /\ g.held = 0 /\ g.capped
      BY <3>2, <3>4, <3>5, <3>6, <3>7
    <3> HIDE DEF g
    <3> QED  BY <2>0, <3>1, <3>3, OneForwarder
  <2> QED  BY <1>4, <2>1, <2>2 DEF EngineDelta
<1>5. CASE FlushTimer(t)
  <2> DEFINE g == IF at[t] = "done" THEN Unheard ELSE Flushed(f)
  <2>1. /\ at' = [at EXCEPT ![t] = at[t]] /\ engine' = [engine EXCEPT ![t] = g] /\ f.timer
        /\ record' \in [Turns -> Records] /\ UNCHANGED <<reads, faults>>
    BY <1>0, <1>5 DEF FlushTimer, panel, ForwardersOK, LiveTypes, f
  <2>2. /\ g \in Forwarder /\ ~ g.trusted /\ g.out + g.held < ForwardCap
        /\ IF g.capped THEN g.held = 0 ELSE g.out + g.held = g.emitted
    BY <1>0, <1>u, <1>f, <2>1 DEF ForwarderOK, Forwarder, f
  <2> HIDE DEF g
  <2> QED  BY <1>0, <2>1, <2>2, OneForwarder
<1>6. CASE EngineEnds(t)
  <2> DEFINE g == [Flushed(f) EXCEPT !.trusted = TRUE]
  <2>1. /\ at' = [at EXCEPT ![t] = "ended"] /\ record' \in [Turns -> Records]
        /\ UNCHANGED <<reads, faults>> /\ ~ f.trusted
        /\ engine' = [engine EXCEPT ![t] = g] \/ engine' = [engine EXCEPT ![t] = f]
    BY <1>0, <1>6 DEF EngineEnds, EngineTerminal, panel, ForwarderOK, f
  <2>6. g \in Forwarder
    BY <1>f DEF Forwarder
  <2>7. g.out = f.out + f.held /\ g.held = 0 /\ g.emitted = f.emitted
    BY <1>f DEF Forwarder
  <2>8. ~ g.timer
    BY <1>f DEF Forwarder
  <2>9. g.capped <=> f.capped
    BY <1>f DEF Forwarder
  <2>2. /\ g \in Forwarder /\ g.out + g.held < ForwardCap /\ g.held = 0 /\ ~ g.timer
        /\ IF g.capped THEN g.held = 0 ELSE g.out + g.held = g.emitted
    BY <1>0, <2>6, <2>7, <2>8, <2>9 DEF ForwarderOK, Forwarder, f
  <2>3. /\ f \in Forwarder /\ f.out + f.held < ForwardCap
        /\ IF f.capped THEN f.held = 0 ELSE f.out + f.held = f.emitted
    BY <1>0 DEF ForwarderOK, f
  <2> HIDE DEF g
  <2>4. CASE engine' = [engine EXCEPT ![t] = g]
    BY <2>1, <2>2, <2>4, OneForwarder
  <2>5. CASE engine' = [engine EXCEPT ![t] = f]
    BY <2>1, <2>3, <2>5, OneForwarder
  <2> QED  BY <2>1, <2>4, <2>5
<1> QED  BY <1>1, <1>2, <1>3, <1>4, <1>5, <1>6 DEF Serve

\* A read of the timeline marks orphans, or fails.
LEMMA LoadedTimeline ==
  ASSUME ForwardersOK, NEW by, LoadTimeline(by)
  PROVE  /\ record' \in [Turns -> {"none", "running", "orphan", "terminal"}]
         /\ faults' \in 0 .. MaxFaults
  BY LiveTurnsAssumption DEF LoadTimeline, ForwardersOK, LiveTypes

\* What all steps but a turn's own do to the variables of the invariant.
Aside ==
  /\ engine' = engine
  /\ at' = at \/ (\E t \in PersonalTurns : at[t] = "new" /\ at' = [at EXCEPT ![t] = "asked"])
  /\ record' \in [Turns -> {"none", "running", "orphan", "terminal"}]
  /\ faults' \in 0 .. MaxFaults
  /\ reads' \in 0 .. MaxReads

\* Such a step keeps the invariant.
LEMMA AsideKeepsForwarders ==
  ASSUME ForwardersOK, Aside PROVE ForwardersOK'
<1>1. LiveTypes'
  BY DEF Aside, ForwardersOK, LiveTypes, Turns
<1>2. ASSUME NEW t \in Turns PROVE ForwarderOK(t)'
  <2>1. at'[t] = at[t] \/ at[t] = "new"
    BY DEF Aside, ForwardersOK, LiveTypes, Turns
  <2> QED  BY <2>1 DEF Aside, ForwardersOK, ForwarderOK
<1> QED  BY <1>1, <1>2 DEF ForwardersOK

\* The routes, the channel and the renderer leave the forwarders alone.
LEMMA OthersKeepForwarders ==
  ASSUME ForwardersOK, [LiveNext]_liveVars, ~ \E t \in Turns : Serve(t) PROVE ForwardersOK'
<1>0. /\ MaxReads \in Nat /\ MaxFaults \in Nat
      /\ record \in [Turns -> {"none", "running", "orphan", "terminal"}]
      /\ faults \in 0 .. MaxFaults /\ reads \in 0 .. MaxReads
  BY LiveTurnsAssumption DEF ForwardersOK, LiveTypes
<1>1. CASE UNCHANGED liveVars
  BY <1>0, <1>1, AsideKeepsForwarders DEF liveVars, Aside
<1>2. ASSUME NEW t \in PersonalTurns, CreateTurn(t) PROVE Aside
  BY <1>0, <1>2 DEF CreateTurn, panel, Aside
<1>3. ASSUME NEW m \in Messages, SendMessage(m) PROVE Aside
  BY <1>0, <1>3 DEF SendMessage, Aside
<1>4. ASSUME NEW p \in Joining, AddRead(p) \/ AddWrite(p) PROVE Aside
  BY <1>0, <1>4 DEF AddRead, AddWrite, server, panel, Aside
<1>5. ASSUME Deliver PROVE Aside
  <2>1. reads' \in {reads, 0}
    BY <1>5 DEF Deliver, Renders
  <2>2. UNCHANGED <<server, faults>>
    BY <1>5 DEF Deliver
  <2> QED  BY <1>0, <2>1, <2>2 DEF server, Aside
<1>6. ASSUME Disconnect \/ Reconnect PROVE Aside
  BY <1>0, <1>6 DEF Disconnect, Reconnect, server, panel, Aside
<1>7. ASSUME PostReturns PROVE Aside
  <2>1. reads' \in {reads, 0}
    BY <1>7 DEF PostReturns, Renders
  <2>2. UNCHANGED <<server, faults>>
    BY <1>7 DEF PostReturns
  <2> QED  BY <1>0, <2>1, <2>2 DEF server, Aside
<1>8. ASSUME SelectSession PROVE Aside
  <2>1. reads' \in {reads, 0}
    BY <1>8 DEF SelectSession, Renders
  <2>2. UNCHANGED <<server, faults>>
    BY <1>8 DEF SelectSession
  <2> QED  BY <1>0, <2>1, <2>2 DEF server, Aside
<1>9. ASSUME MessageAnswered PROVE Aside
  <2>1. reads' \in {reads, 0}
    BY <1>9 DEF MessageAnswered, Renders
  <2>2. UNCHANGED <<at, engine>> /\ LoadTimeline("send")
    BY <1>9 DEF MessageAnswered
  <2> QED  BY <1>0, <2>1, <2>2, LoadedTimeline DEF Aside
<1>10. ASSUME HintFires PROVE Aside
  <2>1. UNCHANGED <<at, engine, reads>> /\ LoadTimeline("hint")
    BY <1>10 DEF HintFires
  <2> QED  BY <1>0, <2>1, LoadedTimeline DEF Aside
<1>11. ASSUME Poll PROVE Aside
  <2>1. UNCHANGED <<at, engine>> /\ LoadTimeline("poll") /\ reads < MaxReads /\ reads' = reads + 1
    BY <1>11 DEF Poll
  <2> QED  BY <1>0, <2>1, LoadedTimeline DEF Aside
<1>12. ASSUME TimelineArrives PROVE Aside
  <2>1. reads' \in {reads, 0}
    BY <1>12 DEF TimelineArrives, Renders
  <2>2. UNCHANGED <<server, faults>>
    BY <1>12 DEF TimelineArrives
  <2> QED  BY <1>0, <2>1, <2>2 DEF server, Aside
<1>13. (\E t \in Turns : Serve(t)) \/ Aside \/ UNCHANGED liveVars
  BY <1>2, <1>3, <1>4, <1>5, <1>6, <1>7, <1>8, <1>9, <1>10, <1>11, <1>12 DEF LiveNext
<1> QED  BY <1>1, <1>13, AsideKeepsForwarders

\* The inductive invariant of the forwarders (delta-forwarder.ts), through every step of LiveTurns.
THEOREM ForwardersInvariant == LiveSpec => []ForwardersOK
<1>1. ForwardersOK /\ [LiveNext]_liveVars => ForwardersOK'
  BY OthersKeepForwarders, ServeKeepsForwarders
<1> QED  BY LiveInitially, <1>1, PTL DEF LiveSpec

\* The types of what the server keeps of a turn, and the bounds on polls and faults.
THEOREM ForwardersAreTyped == LiveSpec => []LiveTypes
<1>1. ForwardersOK => LiveTypes
  BY DEF ForwardersOK
<1> QED  BY <1>1, ForwardersInvariant, PTL

\* delta-forwarder.ts:25: a trusted terminal finds all of the engine's text published, but for what
\* the cap cut off, and no timer running.
THEOREM NothingIsHeldBack == LiveSpec => []ForwardedComplete
<1>1. ForwardersOK => ForwardedComplete
  <2> SUFFICES ASSUME ForwardersOK, NEW t \in Turns
               PROVE  /\ engine[t].out < ForwardCap
                      /\ engine[t].trusted =>
                           /\ engine[t].held = 0 /\ ~engine[t].timer
                           /\ engine[t].capped \/ engine[t].out = engine[t].emitted
    BY DEF ForwardedComplete
  <2>1. engine[t] \in Forwarder /\ ForwarderOK(t) /\ ForwardCap \in Nat
    BY LiveTurnsAssumption DEF ForwardersOK, LiveTypes
  <2> QED  BY <2>1 DEF ForwarderOK, Forwarder
<1> QED  BY <1>1, ForwardersInvariant, PTL
-----------------------------------------------------------------------------
(* Lists and recursion *)

\* The order of the naturals, as a set of pairs.
LEMMA LessThanPairs == OpToRel(<, Nat) = {ss \in Nat \X Nat : ss[1] < ss[2]}
BY Zenon DEF OpToRel

\* A set of naturals that has a member has a least one.
LEMMA Least == ASSUME NEW S, S \subseteq Nat, S # {} PROVE \E m \in S : \A k \in S : m <= k
<1> DEFINE R == OpToRel(<, Nat)
<1>1. PICK m \in S : \A y \in S : ~ (<<y, m>> \in R)
  BY NatLessThanWellFounded, WFMin
<1>2. R = {ss \in Nat \X Nat : ss[1] < ss[2]}
  BY LessThanPairs
<1>3. ASSUME NEW k \in S PROVE m <= k
  <2> HIDE DEF R
  <2>1. ~(<<k, m>> \in {ss \in Nat \X Nat : ss[1] < ss[2]})
    BY <1>1, <1>2, Zenon
  <2> QED BY <2>1
<1> QED BY <1>3

\* Induction over the naturals, on a set instead of a predicate.
LEMMA Induction == ASSUME NEW S, 0 \in S, \A n \in Nat : n \in S => n + 1 \in S PROVE Nat \subseteq S
<1> SUFFICES ASSUME Nat \ S # {} PROVE FALSE
  OBVIOUS
<1>1. PICK m \in Nat \ S : \A k \in Nat \ S : m <= k
  BY Least
<1>2. m - 1 \in Nat /\ m - 1 \in S
  BY <1>1
<1> QED BY <1>2, <1>1

\* What a function is that starts with x and takes a step for every number up to N.
Steps(f, N, S, x, step) ==
  /\ f \in [0 .. N -> S] /\ f[0] = x
  /\ \A n \in 1 .. N : f[n] = step[<<n, f[n - 1]>>]

\* Recursion on a bounded number of steps: a function with a first value and one step after the other.
LEMMA Recursion ==
  ASSUME NEW N \in Nat, NEW S, NEW x \in S, NEW step \in [(1 .. N) \X S -> S]
  PROVE  \E f : Steps(f, N, S, x, step)
<1>. DEFINE P(k, f) == f[0] = x /\ \A n \in 1 .. k : f[n] = step[<<n, f[n - 1]>>]
            A == {k \in Nat : k <= N => \E f \in [0 .. k -> S] : P(k, f)}
<1>1. 0 \in A
  <2>. DEFINE f == [n \in 0 .. 0 |-> x]
  <2>1. f \in [0 .. 0 -> S] /\ P(0, f)
    OBVIOUS
  <2>. QED BY <2>1
<1>2. ASSUME NEW k \in Nat, k \in A
      PROVE  k + 1 \in A
  <2>. SUFFICES ASSUME k + 1 <= N
                PROVE  \E f \in [0 .. k + 1 -> S] : P(k + 1, f)
    OBVIOUS
  <2>1. PICK f \in [0 .. k -> S] : P(k, f)
    BY <1>2
  <2>. DEFINE last == step[<<k + 1, f[k]>>]
              g == [n \in 0 .. k + 1 |-> IF n <= k THEN f[n] ELSE last]
  <2>2. last \in S
    <3>1. <<k + 1, f[k]>> \in (1 .. N) \X S
      BY <2>1
    <3>. QED BY <3>1
  <2>3. g \in [0 .. k + 1 -> S]
    <3>. HIDE DEF last
    <3>. QED BY <2>1, <2>2
  <2>4. g[0] = x
    BY <2>1
  <2>5. ASSUME NEW n \in 1 .. k + 1
        PROVE  g[n] = step[<<n, g[n - 1]>>]
    <3>1. CASE n <= k
      BY <2>1, <3>1
    <3>2. CASE n = k + 1
      BY <3>2
    <3>. QED BY <3>1, <3>2
  <2>. HIDE DEF g
  <2>. QED BY <2>3, <2>4, <2>5
<1>. HIDE DEF A
<1>3. Nat \subseteq A
  BY <1>1, <1>2, Induction
<1>. QED BY <1>3 DEF A, Steps

\* The recursive definition of Kept has the value it says.
LEMMA KeptIs ==
  ASSUME NEW T, NEW list \in Seq(T), NEW K
  PROVE  \E f \in [0 .. Len(list) -> Seq(T)] :
           /\ f[0] = << >> /\ Kept(list, K) = f[Len(list)]
           /\ \A n \in 1 .. Len(list) :
                f[n] = IF list[n] \in K THEN Append(f[n - 1], list[n]) ELSE f[n - 1]
<1>. DEFINE N == Len(list)
            R(g) == [n \in 0 .. N |-> IF n = 0 THEN << >>
                                      ELSE IF list[n] \in K THEN Append(g[n - 1], list[n]) ELSE g[n - 1]]
            f == CHOOSE g : g = R(g)
<1>1. Kept(list, K) = f[N]
  BY DEF Kept
<1>2. N \in Nat /\ \A n \in 1 .. N : list[n] \in T
  OBVIOUS
<1>3. \E g : g = R(g)
  <2>. DEFINE step == [p \in (1 .. N) \X Seq(T) |-> IF list[p[1]] \in K THEN Append(p[2], list[p[1]]) ELSE p[2]]
  <2>1. step \in [(1 .. N) \X Seq(T) -> Seq(T)] /\ << >> \in Seq(T)
    BY <1>2
  <2>0. PICK g : Steps(g, N, Seq(T), << >>, step)
    <3>1. N \in Nat
      BY <1>2
    <3>. HIDE DEF step, N, R
    <3>. QED BY <3>1, <2>1, Recursion, Zenon
  <2>2. /\ g \in [0 .. N -> Seq(T)] /\ g[0] = << >>
        /\ \A n \in 1 .. N : g[n] = step[<<n, g[n - 1]>>]
    <3>. HIDE DEF step, N, R
    <3>. QED BY <2>0 DEF Steps
  <2>3. ASSUME NEW n \in 0 .. N
        PROVE  g[n] = R(g)[n]
    <3>1. CASE n = 0
      BY <2>2, <3>1
    <3>2. CASE n \in 1 .. N
      <4>0. n - 1 \in 0 .. N
        BY <1>2, <3>2
      <4>1. g[n - 1] \in Seq(T)
        BY <2>2, <4>0
      <4>2. <<n, g[n - 1]>> \in (1 .. N) \X Seq(T)
        BY <3>2, <4>1, Zenon
      <4>3. step[<<n, g[n - 1]>>] = IF list[n] \in K THEN Append(g[n - 1], list[n]) ELSE g[n - 1]
        BY <4>2
      <4>. QED BY <2>2, <3>2, <4>3
    <3>. QED BY <1>2, <3>1, <3>2
  <2>4. g = [n \in 0 .. N |-> g[n]] /\ R(g) = [n \in 0 .. N |-> R(g)[n]]
    BY <2>2
  <2>. HIDE DEF R
  <2>5. g = R(g)
    BY <2>3, <2>4
  <2>. QED BY <2>5
<1>4. f = R(f)
  BY <1>3
<1>. HIDE DEF f
<1>5. \A n \in 0 .. N : f[n] = IF n = 0 THEN << >>
                               ELSE IF list[n] \in K THEN Append(f[n - 1], list[n]) ELSE f[n - 1]
  BY <1>4, Zenon
<1>. HIDE DEF N
<1>6. \A n \in 0 .. N : f[n] \in Seq(T)
  <2>. DEFINE A == {n \in Nat : n <= N => f[n] \in Seq(T)}
  <2>1. 0 \in A
    <3>1. f[0] = << >> /\ << >> \in Seq(T)
      BY <1>2, <1>5
    <3>. QED BY <3>1
  <2>2. ASSUME NEW n \in Nat, n \in A
        PROVE  n + 1 \in A
    <3>. SUFFICES ASSUME n + 1 <= N
                  PROVE  f[n + 1] \in Seq(T)
      OBVIOUS
    <3>1. n + 1 \in 0 .. N /\ n + 1 # 0 /\ (n + 1) - 1 = n /\ n + 1 \in 1 .. N /\ f[n] \in Seq(T)
      BY <1>2, <2>2
    <3>2. f[n + 1] = IF list[n + 1] \in K THEN Append(f[n], list[n + 1]) ELSE f[n]
      BY <1>5, <3>1
    <3>. QED BY <1>2, <3>1, <3>2
  <2>. HIDE DEF A
  <2>3. Nat \subseteq A
    BY <2>1, <2>2, Induction
  <2>. QED BY <1>2, <2>3 DEF A
<1>7. f \in [0 .. N -> Seq(T)]
  <2>1. f = [n \in 0 .. N |-> f[n]]
    BY <1>4
  <2>. QED BY <1>6, <2>1
<1>8. f[0] = << >> /\ \A n \in 1 .. N : f[n] = IF list[n] \in K THEN Append(f[n - 1], list[n]) ELSE f[n - 1]
  BY <1>2, <1>5
<1>. QED BY <1>1, <1>7, <1>8 DEF N

\* The last n members of a list, and a list that has every member once.
LastOf(list, n) == {list[i] : i \in {i \in 1 .. Len(list) : i > Len(list) - n}}
OnceEach(list) == \A p, q \in 1 .. Len(list) : p # q => list[p] # list[q]

\* What Kept returns: the members in K, once for each place they have, in their order, and as near
\* to the end as they were.
LEMMA KeptFacts ==
  ASSUME NEW T, NEW list \in Seq(T), NEW K
  PROVE  /\ Kept(list, K) \in Seq(T) /\ Len(Kept(list, K)) <= Len(list)
         /\ Range(Kept(list, K)) = Range(list) \cap K
         /\ \E h \in [1 .. Len(Kept(list, K)) -> 1 .. Len(list)] :
              /\ \A p \in 1 .. Len(Kept(list, K)) : Kept(list, K)[p] = list[h[p]]
              /\ \A p, q \in 1 .. Len(Kept(list, K)) : p # q => h[p] # h[q]
         /\ \A n \in Nat : LastOf(list, n) \cap K \subseteq LastOf(Kept(list, K), n)
<1>. DEFINE N == Len(list)
<1>1. PICK f \in [0 .. N -> Seq(T)] :
        /\ f[0] = << >> /\ Kept(list, K) = f[N]
        /\ \A n \in 1 .. N : f[n] = IF list[n] \in K THEN Append(f[n - 1], list[n]) ELSE f[n - 1]
  BY KeptIs
<1>2. N \in Nat /\ \A n \in 1 .. N : list[n] \in T
  OBVIOUS
<1>. DEFINE Places(m, h) ==
              /\ h \in [1 .. Len(f[m]) -> 1 .. m]
              /\ \A p \in 1 .. Len(f[m]) : f[m][p] = list[h[p]] /\ list[h[p]] \in K
              /\ \A p, q \in 1 .. Len(f[m]) : p # q => h[p] # h[q]
            Near(m) ==
              \A n \in Nat, i \in 1 .. m :
                list[i] \in K /\ i > m - n => \E p \in 1 .. Len(f[m]) : p > Len(f[m]) - n /\ f[m][p] = list[i]
            Good(m) == f[m] \in Seq(T) /\ Len(f[m]) <= m /\ Near(m) /\ \E h : Places(m, h)
            A == {m \in Nat : m <= N => Good(m)}
<1>3. Good(0)
  <2>1. f[0] = << >>
    BY <1>1
  <2>2. Near(0) /\ Len(f[0]) <= 0 /\ f[0] \in Seq(T)
    BY <2>1
  <2>3. Places(0, [i \in 1 .. 0 |-> i])
    BY <2>1
  <2>. QED BY <2>2, <2>3
<1>4. ASSUME NEW m \in Nat, Good(m), m + 1 <= N
      PROVE  Good(m + 1)
  <2>1. f[m] \in Seq(T) /\ Len(f[m]) <= m /\ Len(f[m]) \in Nat
    BY <1>2, <1>4
  <2>2. Near(m)
    BY <1>2, <1>4
  <2>3. PICK h : Places(m, h)
    BY <1>2, <1>4
  <2>4. m + 1 \in 1 .. N /\ (m + 1) - 1 = m /\ list[m + 1] \in T
    BY <1>2
  <2>5. f[m + 1] = IF list[m + 1] \in K THEN Append(f[m], list[m + 1]) ELSE f[m]
    BY <1>1, <2>4
  <2>6. CASE list[m + 1] \in K
    <3>1. /\ f[m + 1] \in Seq(T) /\ Len(f[m + 1]) = Len(f[m]) + 1 /\ f[m + 1][Len(f[m]) + 1] = list[m + 1]
          /\ \A p \in 1 .. Len(f[m]) : f[m + 1][p] = f[m][p]
      <4>1. f[m + 1] = Append(f[m], list[m + 1])
        BY <2>5, <2>6
      <4>. QED BY <2>1, <2>4, <4>1
    <3>. DEFINE L == Len(f[m])
                g == [p \in 1 .. L + 1 |-> IF p <= L THEN h[p] ELSE m + 1]
    <3>2. Places(m + 1, g)
      <4>1. /\ L \in Nat /\ Len(f[m + 1]) = L + 1 /\ h \in [1 .. L -> 1 .. m]
            /\ \A p \in 1 .. L : f[m][p] = list[h[p]] /\ list[h[p]] \in K
            /\ \A p, q \in 1 .. L : p # q => h[p] # h[q]
        BY <2>1, <2>3, <3>1
      <4>2. f[m + 1][L + 1] = list[m + 1] /\ \A p \in 1 .. L : f[m + 1][p] = f[m][p]
        BY <3>1
      <4>. HIDE DEF L, Places, Near, Good, A, N
      <4>3. /\ \A p \in 1 .. L : g[p] = h[p] /\ h[p] \in 1 .. m
            /\ g[L + 1] = m + 1
            /\ g \in [1 .. L + 1 -> 1 .. m + 1]
        BY <4>1
      <4>. HIDE DEF g
      <4>4. \A p \in 1 .. L + 1 : p \in 1 .. L \/ p = L + 1
        BY <4>1
      <4>5. ASSUME NEW p \in 1 .. L + 1
            PROVE  f[m + 1][p] = list[g[p]] /\ list[g[p]] \in K
        BY <2>6, <4>1, <4>2, <4>3, <4>4
      <4>6. ASSUME NEW p \in 1 .. L + 1, NEW q \in 1 .. L + 1, p # q
            PROVE  g[p] # g[q]
        BY <4>1, <4>3, <4>4, <4>6
      <4>. QED BY <4>1, <4>3, <4>5, <4>6 DEF Places
    <3>3. ASSUME NEW n \in Nat, NEW i \in 1 .. m + 1, list[i] \in K, i > (m + 1) - n
          PROVE  \E p \in 1 .. Len(f[m + 1]) : p > Len(f[m + 1]) - n /\ f[m + 1][p] = list[i]
      <4>1. CASE i = m + 1
        BY <2>1, <3>1, <3>3, <4>1
      <4>2. CASE i \in 1 .. m
        <5>1. n - 1 \in Nat /\ i > m - (n - 1)
          BY <3>3, <4>2
        <5>2. PICK p \in 1 .. Len(f[m]) : p > Len(f[m]) - (n - 1) /\ f[m][p] = list[i]
          BY <2>2, <3>3, <4>2, <5>1
        <5>. QED BY <2>1, <3>1, <3>3, <5>2
      <4>. QED BY <4>1, <4>2
    <3>4. Near(m + 1)
      BY <3>3
    <3>. HIDE DEF Near, Places, g
    <3>. QED BY <2>1, <3>1, <3>2, <3>4
  <2>7. CASE list[m + 1] \notin K
    <3>1. f[m + 1] = f[m]
      BY <2>5, <2>7
    <3>2. Places(m + 1, h)
      <4>1. h \in [1 .. Len(f[m + 1]) -> 1 .. m + 1]
        BY <2>3, <3>1
      <4>. QED BY <2>3, <3>1, <4>1
    <3>3. ASSUME NEW n \in Nat, NEW i \in 1 .. m + 1, list[i] \in K, i > (m + 1) - n
          PROVE  \E p \in 1 .. Len(f[m + 1]) : p > Len(f[m + 1]) - n /\ f[m + 1][p] = list[i]
      <4>1. i \in 1 .. m
        BY <2>7, <3>3
      <4>2. i > m - n
        BY <3>3, <4>1
      <4>. QED BY <2>2, <3>1, <3>3, <4>1, <4>2
    <3>4. Near(m + 1)
      BY <3>3
    <3>. HIDE DEF Near, Places
    <3>. QED BY <2>1, <3>1, <3>2, <3>4
  <2>. QED BY <2>6, <2>7
<1>5. Good(N)
  <2>. HIDE DEF Good
  <2>1. 0 \in A /\ \A m \in Nat : m \in A => m + 1 \in A
    BY <1>2, <1>3, <1>4
  <2>. HIDE DEF A
  <2>2. N \in A
    BY <1>2, <2>1, Induction
  <2>. QED BY <1>2, <2>2 DEF A
<1>6. PICK h : Places(N, h)
  BY <1>5
<1>7. f[N] \in Seq(T) /\ Len(f[N]) <= N /\ Near(N)
  BY <1>5
<1>8. Range(f[N]) = Range(list) \cap K
  <2>1. ASSUME NEW p \in 1 .. Len(f[N])
        PROVE  f[N][p] \in Range(list) \cap K
    <3>1. h[p] \in 1 .. N /\ f[N][p] = list[h[p]] /\ list[h[p]] \in K
      BY <1>6
    <3>. QED BY <3>1 DEF Range
  <2>2. ASSUME NEW i \in 1 .. N, list[i] \in K
        PROVE  \E p \in 1 .. Len(f[N]) : f[N][p] = list[i]
    <3>1. i > N - N
      BY <1>2
    <3>. QED BY <1>2, <1>7, <2>2, <3>1
  <2>3. DOMAIN list = 1 .. N /\ DOMAIN f[N] = 1 .. Len(f[N])
    BY <1>7
  <2>. HIDE DEF N
  <2>. QED BY <2>1, <2>2, <2>3 DEF Range
<1>9. \E g \in [1 .. Len(f[N]) -> 1 .. N] :
        /\ \A p \in 1 .. Len(f[N]) : f[N][p] = list[g[p]]
        /\ \A p, q \in 1 .. Len(f[N]) : p # q => g[p] # g[q]
  BY <1>6
<1>10. Kept(list, K) = f[N]
  BY <1>1
<1>11. \A n \in Nat : LastOf(list, n) \cap K \subseteq LastOf(f[N], n)
  BY <1>7 DEF LastOf
<1>. DEFINE k == Kept(list, K)
<1>. HIDE DEF Near, Places, Good, A, k
<1>12. f[N] = k
  BY <1>10 DEF k
<1>. QED BY <1>7, <1>8, <1>9, <1>11, <1>12 DEF k

\* Kept drops one member at most when all but one place of the list is in K.
LEMMA KeptLength ==
  ASSUME NEW T, NEW list \in Seq(T), NEW K, NEW j \in Nat, \A i \in 1 .. Len(list) : list[i] \notin K => i = j
  PROVE  Len(Kept(list, K)) >= Len(list) - 1
<1>. DEFINE N == Len(list)
<1>1. PICK f \in [0 .. N -> Seq(T)] :
        /\ f[0] = << >> /\ Kept(list, K) = f[N]
        /\ \A n \in 1 .. N : f[n] = IF list[n] \in K THEN Append(f[n - 1], list[n]) ELSE f[n - 1]
  BY KeptIs
<1>2. N \in Nat /\ \A n \in 1 .. N : list[n] \in T
  OBVIOUS
<1>. DEFINE Good(m) == Len(f[m]) \in Nat /\ IF j \in 1 .. m THEN Len(f[m]) >= m - 1 ELSE Len(f[m]) >= m
            A == {m \in Nat : m <= N => Good(m)}
<1>3. Good(0)
  BY <1>1
<1>4. ASSUME NEW m \in Nat, Good(m), m + 1 <= N
      PROVE  Good(m + 1)
  <2>0. m + 1 \in 1 .. N /\ (m + 1) - 1 = m /\ m \in 0 .. N
    BY <1>2, <1>4
  <2>1. m + 1 \in 1 .. N /\ (m + 1) - 1 = m /\ list[m + 1] \in T /\ m \in 0 .. N /\ f[m] \in Seq(T)
    <3>. HIDE DEF N
    <3>. QED BY <1>1, <1>2, <2>0
  <2>2. f[m + 1] = IF list[m + 1] \in K THEN Append(f[m], list[m + 1]) ELSE f[m]
    BY <1>1, <2>1
  <2>3. CASE list[m + 1] \in K
    <3>1. Len(f[m + 1]) = Len(f[m]) + 1
      BY <2>1, <2>2, <2>3
    <3>. QED BY <1>4, <3>1
  <2>4. CASE list[m + 1] \notin K
    <3>1. j = m + 1 /\ f[m + 1] = f[m]
      BY <2>1, <2>2, <2>4
    <3>. QED BY <1>4, <3>1
  <2>. QED BY <2>3, <2>4
<1>5. Good(N)
  <2>. HIDE DEF Good
  <2>1. 0 \in A /\ \A m \in Nat : m \in A => m + 1 \in A
    BY <1>2, <1>3, <1>4
  <2>. HIDE DEF A
  <2>2. N \in A
    BY <1>2, <2>1, Induction
  <2>. QED BY <1>2, <2>2 DEF A
<1>. QED BY <1>1, <1>2, <1>5

\* What Newest returns: the last of the list, as they were.
LEMMA NewestFacts ==
  ASSUME NEW T, NEW list \in Seq(T), NEW cap \in Nat \ {0}
  PROVE  /\ Newest(list, cap) \in Seq(T)
         /\ Len(Newest(list, cap)) = IF Len(list) > cap THEN cap ELSE Len(list)
         /\ \A i \in 1 .. Len(Newest(list, cap)) :
              /\ i + (Len(list) - Len(Newest(list, cap))) \in 1 .. Len(list)
              /\ Newest(list, cap)[i] = list[i + (Len(list) - Len(Newest(list, cap)))]
<1>0. Len(list) \in Nat /\ cap \in Nat /\ cap >= 1
  OBVIOUS
<1>1. CASE Len(list) > cap
  <2>1. Newest(list, cap) = SubSeq(list, Len(list) - cap + 1, Len(list))
    BY <1>1 DEF Newest
  <2>2. Len(list) - cap + 1 \in 1 .. Len(list)
    BY <1>1
  <2>. QED BY <1>1, <2>1, <2>2
<1>2. CASE Len(list) <= cap
  <2>1. Newest(list, cap) = SubSeq(list, 1, Len(list))
    <3>1. (IF Len(list) > cap THEN Len(list) - cap + 1 ELSE 1) = 1
      BY <1>0, <1>2
    <3>. QED BY <3>1, Zenon DEF Newest
  <2>2. SubSeq(list, 1, Len(list)) = list
    OBVIOUS
  <2>3. Newest(list, cap) = list
    BY <2>1, <2>2
  <2>. QED BY <1>0, <1>2, <2>3
<1>. QED BY <1>0, <1>1, <1>2

\* What Remembered returns: the turn as the last, and all that were there unless they are too many.
LEMMA RememberedFacts ==
  ASSUME NEW T, NEW settled \in Seq(T), Len(settled) <= SettledCap, OnceEach(settled), NEW t \in T
  PROVE  /\ Remembered(settled, t) \in Seq(T) /\ Len(Remembered(settled, t)) <= SettledCap
         /\ OnceEach(Remembered(settled, t))
         /\ t \in Range(Remembered(settled, t)) /\ Range(Remembered(settled, t)) \subseteq Range(settled) \cup {t}
         /\ \A x \in Range(settled) :
              x \in Range(Remembered(settled, t)) \/ Len(Remembered(settled, t)) = SettledCap
         /\ Len(settled) <= Len(Remembered(settled, t))
         /\ \A n \in Nat : n < SettledCap => LastOf(settled, n) \cup {t} \subseteq LastOf(Remembered(settled, t), n + 1)
<1>. DEFINE K == Range(settled) \ {t}
            k == Kept(settled, K)
            a == Append(k, t)
            r == Remembered(settled, t)
<1>1. SettledCap \in Nat \ {0} /\ Len(settled) \in Nat
  BY StreamAssumption
<1>2. /\ k \in Seq(T) /\ Len(k) \in Nat /\ Len(k) <= Len(settled) /\ Range(k) = Range(settled) \cap K
      /\ \E h \in [1 .. Len(k) -> 1 .. Len(settled)] :
           /\ \A p \in 1 .. Len(k) : k[p] = settled[h[p]]
           /\ \A p, q \in 1 .. Len(k) : p # q => h[p] # h[q]
      /\ \A n \in Nat : LastOf(settled, n) \cap K \subseteq LastOf(k, n)
  <2>1. Len(Kept(settled, K)) \in Nat
    <3>. HIDE DEF K
    <3>1. Kept(settled, K) \in Seq(T)
      BY KeptFacts
    <3>. QED BY <3>1
  <2>. HIDE DEF K
  <2>2. /\ Kept(settled, K) \in Seq(T) /\ Len(Kept(settled, K)) <= Len(settled)
        /\ Range(Kept(settled, K)) = Range(settled) \cap K
    BY KeptFacts
  <2>3. \E h \in [1 .. Len(Kept(settled, K)) -> 1 .. Len(settled)] :
           /\ \A p \in 1 .. Len(Kept(settled, K)) : Kept(settled, K)[p] = settled[h[p]]
           /\ \A p, q \in 1 .. Len(Kept(settled, K)) : p # q => h[p] # h[q]
    BY KeptFacts
  <2>4. \A n \in Nat : LastOf(settled, n) \cap K \subseteq LastOf(Kept(settled, K), n)
    BY KeptFacts
  <2>. QED BY <2>1, <2>2, <2>3, <2>4
<1>3. Len(k) >= Len(settled) - 1
  <2>1. \A i \in 1 .. Len(settled) : settled[i] \notin K <=> settled[i] = t
    BY DEF Range
  <2>2. \E j \in Nat : \A i \in 1 .. Len(settled) : settled[i] \notin K => i = j
    <3>1. CASE \E j \in 1 .. Len(settled) : settled[j] = t
      <4>1. PICK j \in 1 .. Len(settled) : settled[j] = t
        BY <3>1
      <4>2. \A i \in 1 .. Len(settled) : settled[i] \notin K => i = j
        BY <2>1, <4>1 DEF OnceEach
      <4>3. j \in Nat
        BY <1>1
      <4>. QED BY <4>2, <4>3
    <3>2. CASE ~ \E j \in 1 .. Len(settled) : settled[j] = t
      BY <2>1, <3>2
    <3>. QED BY <3>1, <3>2
  <2>. HIDE DEF K
  <2>. QED BY <2>2, KeptLength
<1>. HIDE DEF k
<1>4. \A p \in 1 .. Len(k) : k[p] \in K
  <2>1. \A p \in 1 .. Len(k) : k[p] \in Range(k)
    BY <1>2 DEF Range
  <2>. QED BY <1>2, <2>1
<1>5. OnceEach(k)
  <2>1. PICK h \in [1 .. Len(k) -> 1 .. Len(settled)] :
           /\ \A p \in 1 .. Len(k) : k[p] = settled[h[p]]
           /\ \A p, q \in 1 .. Len(k) : p # q => h[p] # h[q]
    BY <1>2
  <2>2. ASSUME NEW p \in 1 .. Len(k), NEW q \in 1 .. Len(k), p # q
        PROVE  k[p] # k[q]
    <3>1. h[p] \in 1 .. Len(settled) /\ h[q] \in 1 .. Len(settled) /\ h[p] # h[q]
      BY <2>1, <2>2
    <3>. QED BY <2>1, <3>1 DEF OnceEach
  <2>. QED BY <2>2 DEF OnceEach
<1>6. /\ a \in Seq(T) /\ Len(a) = Len(k) + 1 /\ a[Len(k) + 1] = t
      /\ \A p \in 1 .. Len(k) : a[p] = k[p]
  BY <1>2
<1>7. r = Newest(a, SettledCap)
  BY DEF Remembered, k
<1>. HIDE DEF a, r
<1>8. /\ r \in Seq(T) /\ Len(r) = IF Len(a) > SettledCap THEN SettledCap ELSE Len(a)
      /\ \A i \in 1 .. Len(r) : i + (Len(a) - Len(r)) \in 1 .. Len(a) /\ r[i] = a[i + (Len(a) - Len(r))]
  BY <1>1, <1>6, <1>7, NewestFacts
<1>9. Len(r) <= SettledCap /\ Len(settled) <= Len(r) /\ Len(r) \in Nat \ {0} /\ Len(r) <= Len(k) + 1
  BY <1>1, <1>2, <1>3, <1>6, <1>8
<1>10. OnceEach(a)
  <2>1. \A p \in 1 .. Len(k) : k[p] # t
    BY <1>4
  <2>2. \A p \in 1 .. Len(a) : p \in 1 .. Len(k) \/ p = Len(k) + 1
    BY <1>2, <1>6
  <2>. HIDE DEF K
  <2>. QED BY <1>5, <1>6, <2>1, <2>2 DEF OnceEach
<1>11. OnceEach(r)
  <2>1. ASSUME NEW p \in 1 .. Len(r), NEW q \in 1 .. Len(r), p # q
        PROVE  r[p] # r[q]
    <3>1. p + (Len(a) - Len(r)) # q + (Len(a) - Len(r))
      BY <1>2, <1>6, <1>9, <2>1
    <3>. QED BY <1>8, <1>10, <3>1 DEF OnceEach
  <2>. QED BY <2>1 DEF OnceEach
<1>12. r[Len(r)] = t
  <2>1. Len(r) \in 1 .. Len(r) /\ Len(r) + (Len(a) - Len(r)) = Len(k) + 1
    BY <1>2, <1>6, <1>9
  <2>. QED BY <1>6, <1>8, <2>1
<1>13. t \in Range(r)
  BY <1>8, <1>9, <1>12 DEF Range
<1>14. Range(r) \subseteq Range(settled) \cup {t}
  <2>1. ASSUME NEW i \in 1 .. Len(r)
        PROVE  r[i] \in Range(settled) \cup {t}
    <3>1. PICK p \in 1 .. Len(k) + 1 : r[i] = a[p]
      BY <1>6, <1>8
    <3>2. p \in 1 .. Len(k) \/ p = Len(k) + 1
      BY <1>2
    <3>3. p \in 1 .. Len(k) => k[p] \in Range(settled)
      BY <1>4
    <3>. QED BY <1>6, <3>1, <3>2, <3>3
  <2>2. DOMAIN r = 1 .. Len(r)
    BY <1>8
  <2>. QED BY <2>1, <2>2 DEF Range
<1>15. ASSUME NEW n \in Nat, n < SettledCap
       PROVE  LastOf(settled, n) \cup {t} \subseteq LastOf(r, n + 1)
  <2>1. t \in LastOf(r, n + 1)
    <3>1. Len(r) \in {i \in 1 .. Len(r) : i > Len(r) - (n + 1)}
      BY <1>9
    <3>. QED BY <1>12, <3>1 DEF LastOf
  <2>2. ASSUME NEW i \in 1 .. Len(settled), i > Len(settled) - n, settled[i] # t
        PROVE  settled[i] \in LastOf(r, n + 1)
    <3>1. settled[i] \in K
      BY <2>2 DEF Range
    <3>2. PICK p \in 1 .. Len(k) : p > Len(k) - n /\ k[p] = settled[i]
      <4>. HIDE DEF K
      <4>1. settled[i] \in LastOf(settled, n)
        BY <2>2 DEF LastOf
      <4>2. settled[i] \in LastOf(k, n)
        BY <1>2, <3>1, <4>1
      <4>. QED BY <4>2 DEF LastOf
    <3>. DEFINE q == p - (Len(a) - Len(r))
    <3>3. q \in 1 .. Len(r) /\ q > Len(r) - (n + 1) /\ q + (Len(a) - Len(r)) = p
      <4>1. /\ SettledCap \in Nat /\ Len(k) \in Nat /\ Len(a) = Len(k) + 1 /\ Len(r) \in Nat
            /\ Len(r) = (IF Len(a) > SettledCap THEN SettledCap ELSE Len(a))
            /\ n < SettledCap /\ p \in 1 .. Len(k) /\ p > Len(k) - n
        BY <1>1, <1>2, <1>6, <1>8, <1>9, <1>15, <3>2
      <4>2. CASE Len(a) > SettledCap
        BY <4>1, <4>2
      <4>3. CASE ~(Len(a) > SettledCap)
        BY <4>1, <4>3
      <4>. QED BY <4>2, <4>3
    <3>4. r[q] = a[p] /\ a[p] = k[p]
      BY <1>6, <1>8, <3>3
    <3>5. q \in {x \in 1 .. Len(r) : x > Len(r) - (n + 1)}
      BY <3>3
    <3>. HIDE DEF q
    <3>. QED BY <3>2, <3>4, <3>5 DEF LastOf
  <2>. QED BY <2>1, <2>2 DEF LastOf
<1>16. ASSUME NEW x \in Range(settled), Len(r) # SettledCap
       PROVE  x \in Range(r)
  <2>1. Len(r) = Len(a)
    BY <1>8, <1>16
  <2>2. CASE x = t
    BY <1>13, <2>2
  <2>3. CASE x # t
    <3>1. x \in Range(k)
      BY <1>2, <2>3
    <3>2. PICK p \in 1 .. Len(k) : k[p] = x
      BY <1>2, <3>1 DEF Range
    <3>3. p \in 1 .. Len(r) /\ p + (Len(a) - Len(r)) = p
      BY <1>2, <1>6, <2>1
    <3>4. r[p] = x /\ p \in DOMAIN r
      BY <1>6, <1>8, <3>2, <3>3
    <3>. QED BY <3>4 DEF Range
  <2>. QED BY <2>2, <2>3
<1>17. \A n \in Nat : n < SettledCap => LastOf(settled, n) \cup {t} \subseteq LastOf(r, n + 1)
  BY <1>15
<1>18. \A x \in Range(settled) : x \in Range(r) \/ Len(r) = SettledCap
  BY <1>16
<1>. QED BY <1>8, <1>9, <1>11, <1>13, <1>14, <1>17, <1>18 DEF r

\* The settled turns a stream remembers.
Settlements == {list \in Seq(GroupTurns) : Len(list) <= SettledCap /\ OnceEach(list)}

\* The recursive definition of AllRemembered has the value it says.
LEMMA AllRememberedIs ==
  ASSUME NEW settled \in Settlements, NEW gone, Len(gone) \in Nat,
         \A i \in 1 .. Len(gone) : gone[i].turn \in GroupTurns
  PROVE  \E f : /\ f[0] = settled /\ AllRemembered(settled, gone) = f[Len(gone)]
                /\ \A n \in 1 .. Len(gone) : f[n] = Remembered(f[n - 1], gone[n].turn)
<1>. DEFINE N == Len(gone)
            R(g) == [n \in 0 .. N |-> IF n = 0 THEN settled ELSE Remembered(g[n - 1], gone[n].turn)]
            f == CHOOSE g : g = R(g)
<1>1. AllRemembered(settled, gone) = f[N]
  BY DEF AllRemembered
<1>2. N \in Nat
  OBVIOUS
<1>3. \E g : g = R(g)
  <2>. DEFINE step == [p \in (1 .. N) \X Settlements |-> Remembered(p[2], gone[p[1]].turn)]
  <2>1. step \in [(1 .. N) \X Settlements -> Settlements]
    <3>1. ASSUME NEW p \in (1 .. N) \X Settlements
          PROVE  Remembered(p[2], gone[p[1]].turn) \in Settlements
      <4>1. /\ p[2] \in Seq(GroupTurns) /\ Len(p[2]) <= SettledCap /\ OnceEach(p[2])
            /\ gone[p[1]].turn \in GroupTurns
        BY DEF Settlements
      <4>. QED BY <4>1, RememberedFacts DEF Settlements
    <3>. QED BY <3>1
  <2>2. PICK g : Steps(g, N, Settlements, settled, step)
    <3>. HIDE DEF step, N, R
    <3>. QED BY <1>2, <2>1, Recursion, Zenon
  <2>3. /\ g \in [0 .. N -> Settlements] /\ g[0] = settled
        /\ \A n \in 1 .. N : g[n] = step[<<n, g[n - 1]>>]
    <3>. HIDE DEF step, N, R
    <3>. QED BY <2>2 DEF Steps
  <2>4. ASSUME NEW n \in 0 .. N
        PROVE  g[n] = IF n = 0 THEN settled ELSE Remembered(g[n - 1], gone[n].turn)
    <3>. HIDE DEF N, R
    <3>1. CASE n = 0
      BY <2>3, <3>1
    <3>2. CASE n \in 1 .. N
      <4>1. n - 1 \in 0 .. N
        BY <1>2, <3>2
      <4>2. g[n - 1] \in Settlements
        BY <2>3, <4>1
      <4>3. <<n, g[n - 1]>> \in (1 .. N) \X Settlements
        BY <3>2, <4>2
      <4>4. step[<<n, g[n - 1]>>] = Remembered(g[n - 1], gone[n].turn)
        BY <4>3
      <4>5. n # 0
        BY <3>2
      <4>. QED BY <2>3, <3>2, <4>4, <4>5
    <3>. QED BY <1>2, <3>1, <3>2
  <2>5. g = [n \in 0 .. N |-> g[n]]
    BY <2>3
  <2>6. g = R(g)
    <3>. HIDE DEF N
    <3>. QED BY <2>4, <2>5
  <2>. QED BY <2>6
<1>4. f = R(f)
  BY <1>3
<1>. HIDE DEF f
<1>5. \A n \in 0 .. N : f[n] = IF n = 0 THEN settled ELSE Remembered(f[n - 1], gone[n].turn)
  BY <1>4, Zenon
<1>6. f[0] = settled /\ \A n \in 1 .. N : f[n] = Remembered(f[n - 1], gone[n].turn)
  BY <1>2, <1>5
<1>. QED BY <1>1, <1>6

\* What AllRemembered returns: every turn that is gone, and all that were there unless they are too many.
LEMMA AllRememberedFacts ==
  ASSUME NEW settled \in Settlements, NEW gone, Len(gone) \in Nat, Len(gone) <= SettledCap,
         \A i \in 1 .. Len(gone) : gone[i].turn \in GroupTurns
  PROVE  /\ AllRemembered(settled, gone) \in Settlements
         /\ \A i \in 1 .. Len(gone) : gone[i].turn \in Range(AllRemembered(settled, gone))
         /\ \A t \in Range(AllRemembered(settled, gone)) :
              t \in Range(settled) \/ \E i \in 1 .. Len(gone) : t = gone[i].turn
         /\ \A t \in Range(settled) : \/ t \in Range(AllRemembered(settled, gone))
                                      \/ Len(AllRemembered(settled, gone)) = SettledCap
<1>. DEFINE N == Len(gone)
<1>1. PICK f : /\ f[0] = settled /\ AllRemembered(settled, gone) = f[N]
               /\ \A n \in 1 .. N : f[n] = Remembered(f[n - 1], gone[n].turn)
  BY AllRememberedIs
<1>2. N \in Nat /\ N <= SettledCap /\ SettledCap \in Nat
  BY StreamAssumption
<1>. DEFINE Good(m) == /\ f[m] \in Settlements
                       /\ \A i \in 1 .. m : gone[i].turn \in LastOf(f[m], m)
                       /\ \A t \in Range(f[m]) : t \in Range(settled) \/ \E i \in 1 .. m : t = gone[i].turn
                       /\ \A t \in Range(settled) : t \in Range(f[m]) \/ Len(f[m]) = SettledCap
            A == {m \in Nat : m <= N => Good(m)}
<1>3. Good(0)
  BY <1>1
<1>4. ASSUME NEW m \in Nat, Good(m), m + 1 <= N
      PROVE  Good(m + 1)
  <2>. DEFINE t == gone[m + 1].turn
  <2>1. m + 1 \in 1 .. N /\ (m + 1) - 1 = m /\ m < SettledCap
    BY <1>2, <1>4
  <2>2. f[m + 1] = Remembered(f[m], t) /\ t \in GroupTurns
    <3>1. f[m + 1] = Remembered(f[(m + 1) - 1], t)
      BY <1>1, <2>1
    <3>. QED BY <2>1, <3>1
  <2>3. f[m] \in Seq(GroupTurns) /\ Len(f[m]) <= SettledCap /\ OnceEach(f[m])
    BY <1>4 DEF Settlements
  <2>. HIDE DEF t
  <2>4. /\ f[m + 1] \in Seq(GroupTurns) /\ Len(f[m + 1]) <= SettledCap /\ OnceEach(f[m + 1])
        /\ Range(f[m + 1]) \subseteq Range(f[m]) \cup {t}
        /\ \A x \in Range(f[m]) : x \in Range(f[m + 1]) \/ Len(f[m + 1]) = SettledCap
        /\ Len(f[m]) <= Len(f[m + 1])
    BY <2>2, <2>3, RememberedFacts
  <2>5. LastOf(f[m], m) \cup {t} \subseteq LastOf(f[m + 1], m + 1)
    BY <2>1, <2>2, <2>3, RememberedFacts
  <2>6. Len(f[m]) = SettledCap => Len(f[m + 1]) = SettledCap
    BY <1>2, <2>3, <2>4
  <2>7. \A i \in 1 .. m + 1 : i \in 1 .. m \/ gone[i].turn = t
    BY DEF t
  <2>8. \A i \in 1 .. m + 1 : gone[i].turn \in LastOf(f[m + 1], m + 1)
    BY <1>4, <2>5, <2>7
  <2>9. ASSUME NEW x \in Range(f[m + 1])
        PROVE  x \in Range(settled) \/ \E i \in 1 .. m + 1 : x = gone[i].turn
    <3>1. CASE x = t
      <4>1. m + 1 \in 1 .. m + 1
        OBVIOUS
      <4>. QED BY <3>1, <4>1 DEF t
    <3>2. CASE x \in Range(f[m])
      <4>1. \A i \in 1 .. m : i \in 1 .. m + 1
        OBVIOUS
      <4>. QED BY <1>4, <3>2, <4>1
    <3>. QED BY <2>4, <3>1, <3>2
  <2>10. \A x \in Range(settled) : x \in Range(f[m + 1]) \/ Len(f[m + 1]) = SettledCap
    BY <1>4, <2>4, <2>6
  <2>11. f[m + 1] \in Settlements
    BY <2>4 DEF Settlements
  <2>. QED BY <2>8, <2>9, <2>10, <2>11
<1>5. Good(N)
  <2>. HIDE DEF Good
  <2>1. 0 \in A /\ \A m \in Nat : m \in A => m + 1 \in A
    BY <1>2, <1>3, <1>4
  <2>. HIDE DEF A
  <2>2. N \in A
    BY <1>2, <2>1, Induction
  <2>. QED BY <1>2, <2>2 DEF A
<1>6. \A x \in LastOf(f[N], N) : x \in Range(f[N])
  <2>1. DOMAIN f[N] = 1 .. Len(f[N])
    BY <1>5 DEF Settlements
  <2>. QED BY <2>1 DEF LastOf, Range
<1>7. \A i \in 1 .. N : gone[i].turn \in Range(f[N])
  BY <1>5, <1>6
<1>. HIDE DEF N, A
<1>. QED BY <1>1, <1>5, <1>7 DEF N

-----------------------------------------------------------------------------
(* The stream *)

\* The types of a run and of the stream.
Positions == {PositionOf[t] : t \in Turns}
RunRecords == [turn : GroupTurns \cup {None}, run : Turns \cup {None}, position : Positions,
               text : Seq(Turns \X Nat)]
Streams == [pending : {None} \cup [position : Positions, run : {None} \cup PersonalTurns],
            runs : Seq(RunRecords), settled : Settlements]

\* No two runs are keyed by one run id.
OneKeyEach(runs) == \A i, j \in 1 .. Len(runs) : i # j /\ runs[i].run = runs[j].run => runs[i].run = None

\* A group run is keyed by its own engine run or still without text, any other by a personal turn.
RunOK(r) ==
  IF r.turn = None THEN r.run \in PersonalTurns ELSE r.run = r.turn \/ (r.run = None /\ r.text = << >>)

RunsOK(runs) ==
  /\ runs \in Seq(RunRecords) /\ Len(runs) <= LiveCap /\ OneKeyEach(runs)
  /\ \A r \in Range(runs) : RunOK(r)

\* The invariant of the stream: no run of it is known to have settled.
StreamOK(s) == s \in Streams /\ RunsOK(s.runs) /\ \A r \in Range(s.runs) : r.turn \notin Range(s.settled)

\* The members of a list.
LEMMA MembersOfList ==
  ASSUME NEW T, NEW list \in Seq(T)
  PROVE  Range(list) = {list[i] : i \in 1 .. Len(list)} /\ Range(list) \subseteq T
<1>1. DOMAIN list = 1 .. Len(list) /\ \A i \in 1 .. Len(list) : list[i] \in T
  OBVIOUS
<1>2. Range(list) = {list[i] : i \in DOMAIN list}
  BY DEF Range
<1>. QED BY <1>1, <1>2

\* Taking runs away.
LEMMA WithoutRuns ==
  ASSUME NEW s, StreamOK(s), NEW gone
  PROVE  /\ RunsOK(Without(s, gone)) /\ Range(Without(s, gone)) = Range(s.runs) \ gone
<1>. DEFINE K == Range(s.runs) \ gone
            k == Without(s, gone)
            runs == s.runs
<1>1. runs \in Seq(RunRecords) /\ Len(runs) <= LiveCap /\ OneKeyEach(runs) /\ Len(runs) \in Nat
  BY DEF StreamOK, RunsOK
<1>2. \A r \in Range(runs) : RunOK(r)
  BY DEF StreamOK, RunsOK
<1>3. k = Kept(runs, K)
  BY DEF Without
<1>. HIDE DEF runs, k
<1>4. /\ Kept(runs, K) \in Seq(RunRecords) /\ Len(Kept(runs, K)) <= Len(runs)
      /\ Range(Kept(runs, K)) = Range(runs) \cap K
      /\ \E h \in [1 .. Len(Kept(runs, K)) -> 1 .. Len(runs)] :
           /\ \A p \in 1 .. Len(Kept(runs, K)) : Kept(runs, K)[p] = runs[h[p]]
           /\ \A p, q \in 1 .. Len(Kept(runs, K)) : p # q => h[p] # h[q]
  <2>. HIDE DEF K
  <2>. QED BY <1>1, KeptFacts
<1>5. /\ k \in Seq(RunRecords) /\ Len(k) <= Len(runs) /\ Range(k) = Range(runs) \cap K /\ Len(k) \in Nat
  <2>. HIDE DEF K
  <2>1. k \in Seq(RunRecords) /\ Len(k) <= Len(runs) /\ Range(k) = Range(runs) \cap K
    BY <1>3, <1>4
  <2>. QED BY <2>1
<1>6. PICK h \in [1 .. Len(k) -> 1 .. Len(runs)] :
        /\ \A p \in 1 .. Len(k) : k[p] = runs[h[p]]
        /\ \A p, q \in 1 .. Len(k) : p # q => h[p] # h[q]
  BY <1>3, <1>4
<1>7. ASSUME NEW p \in 1 .. Len(k), NEW q \in 1 .. Len(k), p # q, k[p].run = k[q].run
      PROVE  k[p].run = None
  <2>1. h[p] \in 1 .. Len(runs) /\ h[q] \in 1 .. Len(runs) /\ h[p] # h[q]
    BY <1>6, <1>7
  <2>2. runs[h[p]].run = runs[h[q]].run
    BY <1>6, <1>7
  <2>3. runs[h[p]].run = None
    BY <1>1, <2>1, <2>2 DEF OneKeyEach
  <2>. QED BY <1>6, <2>3
<1>8. OneKeyEach(k)
  BY <1>7 DEF OneKeyEach
<1>9. Range(k) = Range(runs) \ gone
  BY <1>5 DEF runs
<1>10. LiveCap \in Nat
  BY StreamAssumption
<1>11. RunsOK(k)
  BY <1>1, <1>2, <1>5, <1>8, <1>9, <1>10 DEF RunsOK
<1>. QED BY <1>9, <1>11 DEF k, runs

\* Starting a run.
LEMMA AddedRun ==
  ASSUME NEW s, StreamOK(s), NEW r \in RunRecords, RunOK(r), r.run = None \/ \A q \in Range(s.runs) : q.run # r.run
  PROVE  LET z == Bounded(Append(s.runs, r))
         IN  /\ RunsOK(z) /\ r \in Range(z) /\ Range(z) \subseteq Range(s.runs) \cup {r}
             /\ \A q \in Range(s.runs) : q \in Range(z) \/ Len(z) = LiveCap
             /\ Len(s.runs) <= Len(z)
<1>. DEFINE runs == s.runs
            a == Append(runs, r)
            z == Bounded(a)
<1>1. runs \in Seq(RunRecords) /\ Len(runs) <= LiveCap /\ OneKeyEach(runs) /\ Len(runs) \in Nat
  BY DEF StreamOK, RunsOK
<1>2. \A q \in Range(runs) : RunOK(q)
  BY DEF StreamOK, RunsOK
<1>3. r.run = None \/ \A q \in Range(runs) : q.run # r.run
  OBVIOUS
<1>0. LiveCap \in Nat \ {0}
  BY StreamAssumption
<1>. HIDE DEF runs
<1>4. /\ a \in Seq(RunRecords) /\ Len(a) = Len(runs) + 1 /\ a[Len(runs) + 1] = r
      /\ \A p \in 1 .. Len(runs) : a[p] = runs[p]
  BY <1>1
<1>. HIDE DEF a
<1>5. z = Newest(a, LiveCap)
  BY DEF Bounded
<1>. HIDE DEF z
<1>6. /\ z \in Seq(RunRecords) /\ Len(z) = IF Len(a) > LiveCap THEN LiveCap ELSE Len(a)
      /\ \A i \in 1 .. Len(z) : i + (Len(a) - Len(z)) \in 1 .. Len(a) /\ z[i] = a[i + (Len(a) - Len(z))]
  BY <1>0, <1>4, <1>5, NewestFacts
<1>7. Len(z) \in Nat \ {0} /\ Len(z) <= LiveCap /\ Len(runs) <= Len(z) /\ Len(z) <= Len(a)
  BY <1>0, <1>1, <1>4, <1>6
<1>8. Range(runs) = {runs[i] : i \in 1 .. Len(runs)} /\ Range(z) = {z[i] : i \in 1 .. Len(z)}
  <2>1. runs \in Seq(RunRecords) /\ z \in Seq(RunRecords)
    BY <1>1, <1>6
  <2>. QED BY <2>1, MembersOfList, Zenon
<1>9. \A p \in 1 .. Len(a) : p \in 1 .. Len(runs) \/ p = Len(runs) + 1
  BY <1>1, <1>4
<1>10. \A p \in 1 .. Len(a) : a[p] \in Range(runs) \cup {r}
  BY <1>4, <1>8, <1>9
<1>11. OneKeyEach(a)
  <2>1. ASSUME NEW p \in 1 .. Len(a), NEW q \in 1 .. Len(a), p # q, a[p].run = a[q].run
        PROVE  a[p].run = None
    <3>1. CASE p \in 1 .. Len(runs) /\ q \in 1 .. Len(runs)
      BY <1>1, <1>4, <2>1, <3>1 DEF OneKeyEach
    <3>2. CASE p = Len(runs) + 1 /\ q \in 1 .. Len(runs)
      BY <1>3, <1>4, <1>8, <2>1, <3>2
    <3>3. CASE q = Len(runs) + 1 /\ p \in 1 .. Len(runs)
      BY <1>3, <1>4, <1>8, <2>1, <3>3
    <3>. QED BY <1>9, <2>1, <3>1, <3>2, <3>3
  <2>. QED BY <2>1 DEF OneKeyEach
<1>12. OneKeyEach(z)
  <2>1. ASSUME NEW p \in 1 .. Len(z), NEW q \in 1 .. Len(z), p # q, z[p].run = z[q].run
        PROVE  z[p].run = None
    <3>1. p + (Len(a) - Len(z)) # q + (Len(a) - Len(z))
      BY <1>1, <1>4, <1>7, <2>1
    <3>. QED BY <1>6, <1>11, <2>1, <3>1 DEF OneKeyEach
  <2>. QED BY <2>1 DEF OneKeyEach
<1>13. r \in Range(z)
  <2>1. Len(z) \in 1 .. Len(z) /\ Len(z) + (Len(a) - Len(z)) = Len(runs) + 1
    BY <1>1, <1>4, <1>7
  <2>2. z[Len(z)] = r
    BY <1>4, <1>6, <2>1
  <2>. QED BY <1>8, <2>1, <2>2
<1>14. Range(z) \subseteq Range(runs) \cup {r}
  BY <1>6, <1>8, <1>10
<1>15. ASSUME NEW q \in Range(runs), Len(z) # LiveCap
       PROVE  q \in Range(z)
  <2>1. PICK p \in 1 .. Len(runs) : runs[p] = q
    BY <1>8
  <2>2. Len(z) = Len(a)
    BY <1>6, <1>15
  <2>3. p \in 1 .. Len(z) /\ p + (Len(a) - Len(z)) = p
    BY <1>1, <1>4, <2>2
  <2>4. z[p] = q
    BY <1>4, <1>6, <2>1, <2>3
  <2>. QED BY <1>8, <2>3, <2>4
<1>16. RunsOK(z)
  BY <1>2, <1>6, <1>7, <1>12, <1>14 DEF RunsOK
<1>17. \A q \in Range(runs) : q \in Range(z) \/ Len(z) = LiveCap
  BY <1>15
<1>. QED BY <1>7, <1>13, <1>14, <1>16, <1>17 DEF z, a, runs

\* A run goes on.
LEMMA ContinuedRun ==
  ASSUME NEW s, StreamOK(s), NEW i \in DOMAIN s.runs, NEW r \in RunRecords, RunOK(r),
         r.turn = s.runs[i].turn, s.runs[i].run = r.run \/ \A q \in Range(s.runs) : q.run # r.run
  PROVE  LET z == [s.runs EXCEPT ![i] = r]
         IN  /\ RunsOK(z) /\ Len(z) = Len(s.runs)
             /\ \A q \in Range(z) : q = r \/ \E j \in DOMAIN s.runs : j # i /\ q = s.runs[j]
             /\ {q.turn : q \in Range(z)} = {q.turn : q \in Range(s.runs)}
<1>. DEFINE runs == s.runs
            z == [runs EXCEPT ![i] = r]
<1>1. runs \in Seq(RunRecords) /\ Len(runs) <= LiveCap /\ OneKeyEach(runs) /\ Len(runs) \in Nat
  BY DEF StreamOK, RunsOK
<1>2. \A q \in Range(runs) : RunOK(q)
  BY DEF StreamOK, RunsOK
<1>3. /\ i \in 1 .. Len(runs) /\ r.turn = runs[i].turn
      /\ runs[i].run = r.run \/ \A q \in Range(runs) : q.run # r.run
  BY <1>1
<1>. HIDE DEF runs
<1>4. z \in Seq(RunRecords) /\ Len(z) = Len(runs) /\ z[i] = r /\ \A j \in 1 .. Len(runs) : j # i => z[j] = runs[j]
  BY <1>1, <1>3
<1>. HIDE DEF z
<1>5. Range(runs) = {runs[j] : j \in 1 .. Len(runs)} /\ Range(z) = {z[j] : j \in 1 .. Len(z)}
  BY <1>1, <1>4, MembersOfList
<1>6. OneKeyEach(z)
  <2>1. ASSUME NEW p \in 1 .. Len(z), NEW q \in 1 .. Len(z), p # q, z[p].run = z[q].run
        PROVE  z[p].run = None
    <3>1. CASE p # i /\ q # i
      BY <1>1, <1>4, <2>1, <3>1 DEF OneKeyEach
    <3>2. CASE p = i
      BY <1>1, <1>3, <1>4, <1>5, <2>1, <3>2 DEF OneKeyEach
    <3>3. CASE q = i
      BY <1>1, <1>3, <1>4, <1>5, <2>1, <3>3 DEF OneKeyEach
    <3>. QED BY <3>1, <3>2, <3>3
  <2>. QED BY <2>1 DEF OneKeyEach
<1>7. \A q \in Range(z) : q = r \/ \E j \in 1 .. Len(runs) : j # i /\ q = runs[j]
  BY <1>4, <1>5
<1>8. \A q \in Range(z) : RunOK(q)
  BY <1>2, <1>5, <1>7
<1>9. {q.turn : q \in Range(z)} = {q.turn : q \in Range(runs)}
  <2>1. ASSUME NEW j \in 1 .. Len(runs)
        PROVE  z[j].turn = runs[j].turn
    BY <1>3, <1>4
  <2>. QED BY <1>4, <1>5, <2>1
<1>10. DOMAIN runs = 1 .. Len(runs)
  BY <1>1
<1>11. RunsOK(z)
  BY <1>1, <1>4, <1>6, <1>8 DEF RunsOK
<1>. QED BY <1>4, <1>7, <1>9, <1>10, <1>11 DEF z, runs

\* A group turn has a live run.
LiveIn(s, t) == \E r \in Range(s.runs) : r.turn = t

\* What GroupRunsSettle says of a step of the stream.
SettleStep(s, z) ==
  \A t \in GroupTurns :
    /\ LiveIn(s, t) /\ ~LiveIn(z, t) => t \in Range(z.settled) \/ Len(z.runs) = LiveCap
    /\ t \in Range(s.settled) => ~LiveIn(z, t) /\ (t \in Range(z.settled) \/ Len(z.settled) = SettledCap)

\* No run says more than it did.
NoNewText(s, z) == \A r \in Range(z.runs) : r \in Range(s.runs) \/ r.text = << >>

\* What a stream of the invariant consists of.
LEMMA StreamParts ==
  ASSUME NEW s, StreamOK(s)
  PROVE  /\ s.pending \in {None} \cup [position : Positions, run : {None} \cup PersonalTurns]
         /\ s.runs \in Seq(RunRecords) /\ Len(s.runs) \in Nat /\ Len(s.runs) <= LiveCap
         /\ \A r \in Range(s.runs) : r \in RunRecords /\ RunOK(r)
         /\ s.settled \in Settlements /\ Range(s.settled) \subseteq GroupTurns
         /\ None \notin Range(s.settled)
<1>1. s \in Streams /\ RunsOK(s.runs)
  BY DEF StreamOK
<1>2. /\ s.pending \in {None} \cup [position : Positions, run : {None} \cup PersonalTurns]
      /\ s.runs \in Seq(RunRecords) /\ s.settled \in Settlements
  BY <1>1 DEF Streams
<1>3. s.settled \in Seq(GroupTurns)
  BY <1>2 DEF Settlements
<1>4. Range(s.settled) \subseteq GroupTurns /\ Range(s.runs) \subseteq RunRecords
  BY <1>2, <1>3, MembersOfList, Zenon
<1>5. None \notin Range(s.settled)
  BY <1>4, LiveTurnsAssumption DEF Turns
<1>. QED BY <1>1, <1>2, <1>4, <1>5 DEF RunsOK

\* Runs are taken away, and whatever group turn of them is remembered.
LEMMA RunsGo ==
  ASSUME NEW s, StreamOK(s), NEW gone, NEW z \in Streams, z.runs = Without(s, gone),
         \A r \in Range(s.runs) : r \in gone /\ r.turn # None => r.turn \in Range(z.settled),
         \A t \in Range(s.settled) : t \in Range(z.settled) \/ Len(z.settled) = SettledCap,
         \A t \in Range(z.settled) : t \in Range(s.settled) \/ \A r \in Range(s.runs) \ gone : r.turn # t
  PROVE  StreamOK(z) /\ SettleStep(s, z) /\ Range(z.runs) \subseteq Range(s.runs)
<1>1. RunsOK(z.runs) /\ Range(z.runs) = Range(s.runs) \ gone
  BY WithoutRuns
<1>2. \A r \in Range(s.runs) : r.turn \notin Range(s.settled)
  BY DEF StreamOK
<1>3. \A r \in Range(z.runs) : r.turn \notin Range(z.settled)
  BY <1>1, <1>2
<1>4. StreamOK(z)
  BY <1>1, <1>3 DEF StreamOK
<1>5. ASSUME NEW t \in GroupTurns, LiveIn(s, t), ~LiveIn(z, t)
      PROVE  t \in Range(z.settled)
  <2>1. PICK r \in Range(s.runs) : r.turn = t
    BY <1>5 DEF LiveIn
  <2>2. t # None
    BY LiveTurnsAssumption DEF Turns
  <2>3. r \in gone
    BY <1>1, <1>5, <2>1 DEF LiveIn
  <2>. QED BY <2>1, <2>2, <2>3
<1>6. ASSUME NEW t \in GroupTurns, t \in Range(s.settled)
      PROVE  ~LiveIn(z, t) /\ (t \in Range(z.settled) \/ Len(z.settled) = SettledCap)
  BY <1>1, <1>2, <1>6 DEF LiveIn
<1>. QED BY <1>1, <1>4, <1>5, <1>6 DEF SettleStep

\* Runs are taken away that no group has.
LEMMA PersonalRunsGo ==
  ASSUME NEW s, StreamOK(s), NEW gone, gone \subseteq PersonalRuns(s),
         NEW z \in Streams, z.runs = Without(s, gone), z.settled = s.settled
  PROVE  StreamOK(z) /\ SettleStep(s, z) /\ Range(z.runs) \subseteq Range(s.runs)
<1>1. \A r \in gone : r.turn = None
  BY DEF PersonalRuns, IsGroupRun
<1>. QED BY <1>1, RunsGo

\* The runs stay.
LEMMA RunsStay ==
  ASSUME NEW s, StreamOK(s), NEW z \in Streams, z.runs = s.runs, z.settled = s.settled
  PROVE  StreamOK(z) /\ SettleStep(s, z) /\ Range(z.runs) \subseteq Range(s.runs)
BY DEF StreamOK, SettleStep, LiveIn

\* The personal POST begins.
LEMMA PendingBegins ==
  ASSUME NEW s, StreamOK(s), NEW p \in Positions
  PROVE  LET z == BeginPending(s, p) IN StreamOK(z) /\ SettleStep(s, z) /\ Range(z.runs) \subseteq Range(s.runs)
<1>. DEFINE z == BeginPending(s, p)
<1>1. s \in Streams
  BY DEF StreamOK
<1>2. z \in Streams /\ z.runs = s.runs /\ z.settled = s.settled
  BY <1>1 DEF BeginPending, Streams
<1>. HIDE DEF z
<1>. QED BY <1>2, RunsStay DEF z

\* The personal POST is answered with an error.
LEMMA PendingCancelled ==
  ASSUME NEW s, StreamOK(s)
  PROVE  LET z == CancelPending(s) IN StreamOK(z) /\ SettleStep(s, z) /\ Range(z.runs) \subseteq Range(s.runs)
<1>. DEFINE z == CancelPending(s)
<1>1. s \in Streams
  BY DEF StreamOK
<1>2. z \in Streams /\ z.runs = s.runs /\ z.settled = s.settled
  BY <1>1 DEF CancelPending, Streams
<1>. HIDE DEF z
<1>. QED BY <1>2, RunsStay DEF z

\* The session changes.
LEMMA PersonalCleared ==
  ASSUME NEW s, StreamOK(s)
  PROVE  LET z == ClearPersonal(s) IN StreamOK(z) /\ SettleStep(s, z) /\ Range(z.runs) \subseteq Range(s.runs)
<1>. DEFINE z == ClearPersonal(s)
<1>1. s \in Streams /\ Without(s, PersonalRuns(s)) \in Seq(RunRecords)
  BY WithoutRuns DEF StreamOK, RunsOK
<1>2. z \in Streams /\ z.runs = Without(s, PersonalRuns(s)) /\ z.settled = s.settled
  BY <1>1 DEF ClearPersonal, Streams
<1>. HIDE DEF z
<1>. QED BY <1>2, PersonalRunsGo DEF z

\* The personal POST is answered with its outcome.
LEMMA PendingSettled ==
  ASSUME NEW s, StreamOK(s), NEW run, NEW p
  PROVE  LET z == SettlePending(s, run, p) IN StreamOK(z) /\ SettleStep(s, z) /\ Range(z.runs) \subseteq Range(s.runs)
<1>. DEFINE over == {r \in PersonalRuns(s) : IF run # None THEN r.run = run ELSE r.position = p}
            z == SettlePending(s, run, p)
<1>1. s \in Streams /\ Without(s, over) \in Seq(RunRecords)
  BY WithoutRuns DEF StreamOK, RunsOK
<1>2. z = [s EXCEPT !.pending = None, !.runs = Without(s, over)] /\ over \subseteq PersonalRuns(s)
  BY DEF SettlePending
<1>. HIDE DEF over
<1>3. z \in Streams /\ z.runs = Without(s, over) /\ z.settled = s.settled
  BY <1>1, <1>2 DEF Streams
<1>. HIDE DEF z
<1>. QED BY <1>2, <1>3, PersonalRunsGo DEF z

\* The timeline settles what it has as ended.
LEMMA Reconciled ==
  ASSUME NEW s, StreamOK(s), NEW ended
  PROVE  LET z == Reconcile(s, ended) IN StreamOK(z) /\ SettleStep(s, z) /\ Range(z.runs) \subseteq Range(s.runs)
<1>. DEFINE gone == GroupRuns(s, ended)
            k == Kept(s.runs, gone)
            z == Reconcile(s, ended)
<1>1. /\ s \in Streams /\ s.runs \in Seq(RunRecords) /\ Len(s.runs) <= LiveCap
      /\ s.settled \in Settlements /\ Range(s.settled) \subseteq GroupTurns
      /\ \A r \in Range(s.runs) : r \in RunRecords
  BY StreamParts DEF StreamOK
<1>2. /\ gone \subseteq Range(s.runs) /\ \A r \in gone : r.turn # None /\ r.turn \in ended
      /\ \A r \in Range(s.runs) \ gone : r.turn # None => r.turn \notin ended
  BY DEF GroupRuns, IsGroupRun
<1>3. \A r \in gone : r.turn \in GroupTurns
  BY <1>1, <1>2 DEF RunRecords
<1>4. z = [s EXCEPT !.runs = Without(s, gone), !.settled = AllRemembered(s.settled, k)]
  BY DEF Reconcile
<1>. HIDE DEF gone
<1>5. k \in Seq(RunRecords) /\ Len(k) <= Len(s.runs) /\ Range(k) = Range(s.runs) \cap gone
  BY <1>1, KeptFacts
<1>. HIDE DEF k
<1>6. Len(k) \in Nat /\ Range(k) = {k[i] : i \in 1 .. Len(k)} /\ Range(k) = gone
  BY <1>2, <1>5, MembersOfList
<1>7. \A i \in 1 .. Len(k) : k[i] \in gone /\ k[i].turn \in GroupTurns
  BY <1>3, <1>6
<1>8. Len(k) <= SettledCap
  BY <1>1, <1>5, <1>6, StreamAssumption
<1>. DEFINE new == AllRemembered(s.settled, k)
<1>9. /\ new \in Settlements /\ \A i \in 1 .. Len(k) : k[i].turn \in Range(new)
      /\ \A t \in Range(new) : t \in Range(s.settled) \/ \E i \in 1 .. Len(k) : t = k[i].turn
      /\ \A t \in Range(s.settled) : t \in Range(new) \/ Len(new) = SettledCap
  BY <1>1, <1>6, <1>7, <1>8, AllRememberedFacts
<1>. HIDE DEF new
<1>10. z = [s EXCEPT !.runs = Without(s, gone), !.settled = new]
  BY <1>4 DEF new
<1>. HIDE DEF z
<1>11. Without(s, gone) \in Seq(RunRecords)
  BY WithoutRuns DEF RunsOK
<1>12. z \in Streams /\ z.runs = Without(s, gone) /\ z.settled = new
  BY <1>1, <1>9, <1>10, <1>11 DEF Streams
<1>13. \A r \in Range(s.runs) : r \in gone => r.turn \in Range(new)
  BY <1>6, <1>9
<1>14. ASSUME NEW t \in Range(new), t \notin Range(s.settled), NEW r \in Range(s.runs) \ gone
       PROVE  r.turn # t
  <2>1. PICK i \in 1 .. Len(k) : t = k[i].turn
    BY <1>9, <1>14
  <2>. QED BY <1>2, <1>7, <2>1
<1>. QED BY <1>9, <1>12, <1>13, <1>14, RunsGo DEF z

\* The events of the channel.
Events == [type : {"progress", "terminal", "indeterminate"}, turn : GroupTurns \cup {None},
           run : Turns \cup {None}, position : Positions, text : Seq(Turns \X Nat)]
EventOK(e) ==
  /\ e \in Events
  /\ e.type # "indeterminate" => IF e.turn = None THEN e.run \in PersonalTurns ELSE e.run = e.turn

\* A terminal event, or that there will be none: the run goes, a group turn is remembered.
LEMMA RunEnds ==
  ASSUME NEW s, StreamOK(s), NEW t \in GroupTurns, NEW gone, gone \subseteq GroupRuns(s, {t}),
         \A r \in Range(s.runs) : r.turn = t => r \in gone,
         NEW z, z = [s EXCEPT !.runs = Without(s, gone), !.settled = Remembered(s.settled, t)]
  PROVE  StreamOK(z) /\ SettleStep(s, z) /\ Range(z.runs) \subseteq Range(s.runs)
<1>. DEFINE new == Remembered(s.settled, t)
<1>1. /\ s \in Streams /\ s.settled \in Seq(GroupTurns) /\ Len(s.settled) <= SettledCap /\ OnceEach(s.settled)
  BY StreamParts DEF StreamOK, Settlements
<1>2. /\ new \in Seq(GroupTurns) /\ Len(new) <= SettledCap /\ OnceEach(new)
      /\ t \in Range(new) /\ Range(new) \subseteq Range(s.settled) \cup {t}
      /\ \A x \in Range(s.settled) : x \in Range(new) \/ Len(new) = SettledCap
  BY <1>1, RememberedFacts
<1>3. new \in Settlements
  BY <1>2 DEF Settlements
<1>4. Without(s, gone) \in Seq(RunRecords)
  BY WithoutRuns DEF RunsOK
<1>0. z = [s EXCEPT !.runs = Without(s, gone), !.settled = new]
  OBVIOUS
<1>. HIDE DEF new
<1>5. z \in Streams /\ z.runs = Without(s, gone) /\ z.settled = new
  BY <1>0, <1>1, <1>3, <1>4 DEF Streams
<1>6. \A r \in gone : r.turn = t
  BY DEF GroupRuns
<1>7. /\ \A r \in Range(s.runs) : r \in gone /\ r.turn # None => r.turn \in Range(z.settled)
      /\ \A x \in Range(s.settled) : x \in Range(z.settled) \/ Len(z.settled) = SettledCap
      /\ \A x \in Range(z.settled) : x \in Range(s.settled) \/ \A r \in Range(s.runs) \ gone : r.turn # x
  BY <1>2, <1>5, <1>6
<1>. QED BY <1>5, <1>7, RunsGo

\* turn.completed and turn.failed
LEMMA TerminalApplied ==
  ASSUME NEW s, StreamOK(s), NEW e, EventOK(e), e.type = "terminal"
  PROVE  LET z == ApplyTerminal(s, e) IN StreamOK(z) /\ SettleStep(s, z) /\ Range(z.runs) \subseteq Range(s.runs)
<1>0. /\ e \in Events /\ (IF e.turn = None THEN e.run \in PersonalTurns ELSE e.run = e.turn)
      /\ \A r \in Range(s.runs) : r \in RunRecords /\ RunOK(r)
  BY StreamParts DEF EventOK
<1>1. CASE e.turn # None
  <2>. DEFINE gone == {r \in GroupRuns(s, {e.turn}) : r.run \in {None, e.run}}
  <2>1. e.turn \in GroupTurns /\ gone \subseteq GroupRuns(s, {e.turn})
    BY <1>0, <1>1 DEF Events
  <2>2. \A r \in Range(s.runs) : r.turn = e.turn => r \in gone
    BY <1>0, <1>1 DEF GroupRuns, IsGroupRun, RunOK
  <2>. DEFINE z == ApplyTerminal(s, e)
  <2>3. z = [s EXCEPT !.runs = Without(s, gone), !.settled = Remembered(s.settled, e.turn)]
    BY <1>1 DEF ApplyTerminal
  <2>. HIDE DEF gone, z
  <2>. QED BY <2>1, <2>2, <2>3, RunEnds DEF z
<1>2. CASE e.turn = None
  <2>. DEFINE gone == {r \in PersonalRuns(s) : r.run = e.run}
              z == ApplyTerminal(s, e)
  <2>1. gone \subseteq PersonalRuns(s) /\ s \in Streams /\ Without(s, gone) \in Seq(RunRecords)
    BY WithoutRuns DEF StreamOK, RunsOK
  <2>2. z = [s EXCEPT !.runs = Without(s, gone)]
    BY <1>2 DEF ApplyTerminal
  <2>. HIDE DEF gone
  <2>3. z \in Streams /\ z.runs = Without(s, gone) /\ z.settled = s.settled
    BY <2>1, <2>2 DEF Streams
  <2>. HIDE DEF z
  <2>. QED BY <2>1, <2>3, PersonalRunsGo DEF z
<1>. QED BY <1>1, <1>2

\* turn.indeterminate
LEMMA IndeterminateApplied ==
  ASSUME NEW s, StreamOK(s), NEW e, EventOK(e)
  PROVE  LET z == ApplyIndeterminate(s, e) IN StreamOK(z) /\ SettleStep(s, z) /\ Range(z.runs) \subseteq Range(s.runs)
<1>1. CASE e.turn # None
  <2>. DEFINE gone == GroupRuns(s, {e.turn})
  <2>1. e.turn \in GroupTurns
    BY <1>1 DEF Events, EventOK
  <2>2. \A r \in Range(s.runs) : r.turn = e.turn => r \in gone
    BY <1>1 DEF GroupRuns, IsGroupRun
  <2>. DEFINE z == ApplyIndeterminate(s, e)
  <2>3. z = [s EXCEPT !.runs = Without(s, gone), !.settled = Remembered(s.settled, e.turn)]
    BY <1>1 DEF ApplyIndeterminate
  <2>4. gone \subseteq GroupRuns(s, {e.turn})
    OBVIOUS
  <2>. HIDE DEF gone, z
  <2>. QED BY <2>1, <2>2, <2>3, <2>4, RunEnds DEF z
<1>2. CASE e.turn = None
  <2>. DEFINE gone == {r \in PersonalRuns(s) : r.position = e.position}
              z == ApplyIndeterminate(s, e)
  <2>1. gone \subseteq PersonalRuns(s) /\ s \in Streams /\ Without(s, gone) \in Seq(RunRecords)
    BY WithoutRuns DEF StreamOK, RunsOK
  <2>2. z = [s EXCEPT !.runs = Without(s, gone)]
    BY <1>2 DEF ApplyIndeterminate
  <2>. HIDE DEF gone
  <2>3. z \in Streams /\ z.runs = Without(s, gone) /\ z.settled = s.settled
    BY <2>1, <2>2 DEF Streams
  <2>. HIDE DEF z
  <2>. QED BY <2>1, <2>3, PersonalRunsGo DEF z
<1>. QED BY <1>1, <1>2

\* A run is started for a turn that is not known to have settled.
LEMMA RunStarts ==
  ASSUME NEW s, StreamOK(s), NEW z \in Streams, NEW r \in RunRecords, RunOK(r),
         r.run = None \/ \A q \in Range(s.runs) : q.run # r.run, r.turn \notin Range(s.settled),
         z.runs = Bounded(Append(s.runs, r)), z.settled = s.settled
  PROVE  /\ StreamOK(z) /\ SettleStep(s, z) /\ r \in Range(z.runs)
         /\ \A q \in Range(z.runs) : q \in Range(s.runs) \/ q = r
<1>1. /\ RunsOK(z.runs) /\ r \in Range(z.runs) /\ Range(z.runs) \subseteq Range(s.runs) \cup {r}
      /\ \A q \in Range(s.runs) : q \in Range(z.runs) \/ Len(z.runs) = LiveCap
  BY AddedRun
<1>2. \A q \in Range(s.runs) : q.turn \notin Range(s.settled)
  BY DEF StreamOK
<1>3. \A q \in Range(z.runs) : q.turn \notin Range(z.settled)
  BY <1>1, <1>2
<1>4. StreamOK(z)
  BY <1>1, <1>3 DEF StreamOK
<1>5. ASSUME NEW t \in GroupTurns, LiveIn(s, t), ~LiveIn(z, t)
      PROVE  Len(z.runs) = LiveCap
  BY <1>1, <1>5 DEF LiveIn
<1>6. ASSUME NEW t \in GroupTurns, t \in Range(s.settled)
      PROVE  ~LiveIn(z, t) /\ t \in Range(z.settled)
  BY <1>3, <1>6 DEF LiveIn
<1>. QED BY <1>1, <1>4, <1>5, <1>6 DEF SettleStep

\* A run goes on, under the engine run it has or gets.
LEMMA RunGoesOn ==
  ASSUME NEW s, StreamOK(s), NEW z \in Streams, NEW i \in DOMAIN s.runs, NEW r \in RunRecords, RunOK(r),
         r.turn = s.runs[i].turn, s.runs[i].run = r.run \/ \A q \in Range(s.runs) : q.run # r.run,
         z.runs = [s.runs EXCEPT ![i] = r], z.settled = s.settled
  PROVE  /\ StreamOK(z) /\ SettleStep(s, z)
         /\ \A q \in Range(z.runs) : q = r \/ \E j \in DOMAIN s.runs : j # i /\ q = s.runs[j]
<1>1. /\ RunsOK(z.runs)
      /\ \A q \in Range(z.runs) : q = r \/ \E j \in DOMAIN s.runs : j # i /\ q = s.runs[j]
      /\ {q.turn : q \in Range(z.runs)} = {q.turn : q \in Range(s.runs)}
  BY ContinuedRun
<1>2. \A q \in Range(s.runs) : q.turn \notin Range(s.settled)
  BY DEF StreamOK
<1>3. \A t : LiveIn(z, t) <=> LiveIn(s, t)
  <2>1. \A t : LiveIn(z, t) <=> t \in {q.turn : q \in Range(z.runs)}
    BY DEF LiveIn
  <2>2. \A t : LiveIn(s, t) <=> t \in {q.turn : q \in Range(s.runs)}
    BY DEF LiveIn
  <2>. QED BY <1>1, <2>1, <2>2
<1>4. \A q \in Range(z.runs) : q.turn \notin Range(z.settled)
  BY <1>2, <1>3 DEF LiveIn
<1>5. StreamOK(z)
  BY <1>1, <1>4 DEF StreamOK
<1>6. SettleStep(s, z)
  BY <1>2, <1>3 DEF SettleStep, LiveIn
<1>. QED BY <1>1, <1>5, <1>6

\* The text goes to the run of the event, to no other.
ProgressStep(s, z, e) ==
  \A r \in Range(z.runs) :
    IF r.run = e.run
    THEN r.text = e.text \/ \E q \in Range(s.runs) : q.run = e.run /\ r.text = q.text \o e.text
    ELSE r \in Range(s.runs)

\* turn.started and turn.model.delta
LEMMA ProgressApplied ==
  ASSUME NEW s, StreamOK(s), NEW e, EventOK(e), e.type = "progress"
  PROVE  LET z == ApplyProgress(s, e) IN StreamOK(z) /\ SettleStep(s, z) /\ ProgressStep(s, z, e)
<1>. DEFINE z == ApplyProgress(s, e)
            existing == KeyedByRun(s, e.run)
            seeded == Seeds(s, e.turn)
<1>0. /\ e \in Events /\ (IF e.turn = None THEN e.run \in PersonalTurns ELSE e.run = e.turn)
      /\ e.run \in Turns /\ e.run # None /\ e.text \in Seq(Turns \X Nat)
  BY LiveTurnsAssumption DEF EventOK, Events, Turns
<1>1. /\ s \in Streams /\ s.runs \in Seq(RunRecords) /\ s.settled \in Settlements
      /\ \A r \in Range(s.runs) : r \in RunRecords /\ RunOK(r)
  BY StreamParts DEF StreamOK
<1>2. Range(s.runs) = {s.runs[i] : i \in DOMAIN s.runs} /\ DOMAIN s.runs = 1 .. Len(s.runs)
  BY <1>1 DEF Range
<1>3. \A i \in existing : s.runs[i].turn = e.turn
  <2>. SUFFICES ASSUME NEW i \in existing
                PROVE  s.runs[i].turn = e.turn
    OBVIOUS
  <2>1. s.runs[i] \in Range(s.runs) /\ s.runs[i].run = e.run
    BY <1>2 DEF KeyedByRun
  <2>2. RunOK(s.runs[i]) /\ s.runs[i].turn \in GroupTurns \cup {None}
    BY <1>1, <2>1 DEF RunRecords
  <2>3. \A t \in GroupTurns : t # None /\ t \notin PersonalTurns
    BY LiveTurnsAssumption DEF Turns
  <2>4. e.turn \in GroupTurns \cup {None}
    BY <1>0 DEF Events
  <2>. QED BY <1>0, <2>1, <2>2, <2>3, <2>4 DEF RunOK
<1>4. \A i \in DOMAIN s.runs : i \notin existing => s.runs[i].run # e.run
  BY DEF KeyedByRun
<1>5. ASSUME z = s, existing = {}
      PROVE  StreamOK(z) /\ SettleStep(s, z) /\ ProgressStep(s, z, e)
  <2>1. \A r \in Range(z.runs) : r.run # e.run /\ r \in Range(s.runs)
    BY <1>2, <1>4, <1>5
  <2>. QED BY <1>1, <1>5, <2>1, RunsStay DEF ProgressStep
<1>6. CASE existing # {}
  <2>. DEFINE i == CHOOSE i \in existing : TRUE
              r == [s.runs[i] EXCEPT !.text = @ \o e.text]
  <2>1. i \in existing /\ i \in DOMAIN s.runs
    BY <1>6 DEF KeyedByRun
  <2>2. z = [s EXCEPT !.runs[i].text = @ \o e.text]
    BY <1>3, <1>6 DEF ApplyProgress
  <2>. HIDE DEF i
  <2>3. s.runs[i] \in Range(s.runs) /\ s.runs[i] \in RunRecords /\ RunOK(s.runs[i]) /\ s.runs[i].run = e.run
    BY <1>1, <1>2, <2>1 DEF KeyedByRun
  <2>4. s.runs[i].text \o e.text \in Seq(Turns \X Nat)
    BY <1>0, <2>3 DEF RunRecords
  <2>5. /\ r \in RunRecords /\ r.turn = s.runs[i].turn /\ r.run = s.runs[i].run
        /\ r.text = s.runs[i].text \o e.text
    BY <2>3, <2>4 DEF RunRecords
  <2>6. RunOK(r)
    BY <1>0, <2>3, <2>5 DEF RunOK
  <2>7. z = [s EXCEPT !.runs = [s.runs EXCEPT ![i] = r]]
    BY <1>1, <2>1, <2>2
  <2>. HIDE DEF r, z
  <2>8. [s.runs EXCEPT ![i] = r] \in Seq(RunRecords)
    BY <1>1, <1>2, <2>1, <2>5
  <2>9. z \in Streams /\ z.runs = [s.runs EXCEPT ![i] = r] /\ z.settled = s.settled
    BY <1>1, <2>7, <2>8 DEF Streams
  <2>10. /\ StreamOK(z) /\ SettleStep(s, z)
         /\ \A q \in Range(z.runs) : q = r \/ \E j \in DOMAIN s.runs : j # i /\ q = s.runs[j]
    <3>1. s.runs[i].run = r.run \/ \A q \in Range(s.runs) : q.run # r.run
      BY <2>5
    <3>2. i \in DOMAIN s.runs /\ r \in RunRecords /\ r.turn = s.runs[i].turn
      BY <2>1, <2>5
    <3>. QED BY <2>6, <2>9, <3>1, <3>2, RunGoesOn, SMTT(60)
  <2>11. \A j \in DOMAIN s.runs : j # i => s.runs[j].run # e.run
    <3>1. OneKeyEach(s.runs)
      BY DEF StreamOK, RunsOK
    <3>. QED BY <1>0, <1>2, <2>1, <2>3, <3>1 DEF OneKeyEach
  <2>12. ProgressStep(s, z, e)
    BY <1>2, <2>3, <2>5, <2>10, <2>11 DEF ProgressStep
  <2>. QED BY <2>10, <2>12 DEF z
<1>7. CASE existing = {} /\ e.turn # None /\ seeded = {}
  <2>1. z = s
    BY <1>7 DEF ApplyProgress
  <2>. QED BY <1>5, <1>7, <2>1
<1>8. CASE existing = {} /\ e.turn # None /\ seeded # {}
  <2>. DEFINE i == CHOOSE i \in seeded : TRUE
              r == [s.runs[i] EXCEPT !.run = e.run, !.text = @ \o e.text]
  <2>1. i \in DOMAIN s.runs /\ s.runs[i].turn = e.turn /\ s.runs[i].run = None
    BY <1>8 DEF Seeds
  <2>2. z = [s EXCEPT !.runs[i].run = e.run, !.runs[i].text = @ \o e.text]
    BY <1>8 DEF ApplyProgress, Adopted
  <2>. HIDE DEF i
  <2>3. s.runs[i] \in Range(s.runs) /\ s.runs[i] \in RunRecords /\ RunOK(s.runs[i])
    BY <1>1, <1>2, <2>1
  <2>4. s.runs[i].text = << >> /\ s.runs[i].text \o e.text = e.text
    <3>1. s.runs[i].text = << >>
      BY <1>0, <1>8, <2>1, <2>3 DEF RunOK
    <3>. QED BY <1>0, <3>1
  <2>5. r \in RunRecords /\ r.turn = e.turn /\ r.run = e.run /\ r.text = e.text
    BY <1>0, <2>1, <2>3, <2>4 DEF RunRecords
  <2>6. RunOK(r)
    BY <1>0, <1>8, <2>5 DEF RunOK
  <2>7. z = [s EXCEPT !.runs = [s.runs EXCEPT ![i] = r]]
    BY <1>1, <2>1, <2>2
  <2>. HIDE DEF r, z
  <2>8. [s.runs EXCEPT ![i] = r] \in Seq(RunRecords)
    BY <1>1, <1>2, <2>1, <2>5
  <2>9. z \in Streams /\ z.runs = [s.runs EXCEPT ![i] = r] /\ z.settled = s.settled
    BY <1>1, <2>7, <2>8 DEF Streams
  <2>10. \A q \in Range(s.runs) : q.run # r.run
    BY <1>2, <1>4, <1>8, <2>5
  <2>11. /\ StreamOK(z) /\ SettleStep(s, z)
         /\ \A q \in Range(z.runs) : q = r \/ \E j \in DOMAIN s.runs : j # i /\ q = s.runs[j]
    BY <2>1, <2>5, <2>6, <2>9, <2>10, RunGoesOn
  <2>12. ProgressStep(s, z, e)
    BY <1>2, <2>5, <2>10, <2>11 DEF ProgressStep
  <2>. QED BY <2>11, <2>12 DEF z
<1>9. CASE existing = {} /\ e.turn = None /\ s.pending # None /\ s.pending.run \in {None, e.run}
  <2>. DEFINE r == [turn |-> None, run |-> e.run, position |-> s.pending.position, text |-> e.text]
              runs == Bounded(Append(s.runs, r))
  <2>1. s.pending \in [position : Positions, run : {None} \cup PersonalTurns] /\ e.run \in PersonalTurns
    BY <1>0, <1>1, <1>9 DEF Streams
  <2>2. r \in RunRecords /\ r.turn = None /\ r.run = e.run /\ r.text = e.text
    BY <1>0, <2>1 DEF RunRecords
  <2>3. RunOK(r)
    BY <2>1, <2>2 DEF RunOK
  <2>4. z = [s EXCEPT !.pending.run = e.run, !.runs = runs]
    BY <1>9 DEF ApplyProgress, Bound
  <2>. HIDE DEF r
  <2>5. \A q \in Range(s.runs) : q.run # r.run
    BY <1>2, <1>4, <1>9, <2>2
  <2>6. runs \in Seq(RunRecords)
    BY <2>2, <2>3, <2>5, AddedRun DEF RunsOK
  <2>. HIDE DEF runs, z
  <2>7. z.runs = runs /\ z.settled = s.settled /\ z.pending = [s.pending EXCEPT !.run = e.run]
    BY <1>1, <2>4 DEF Streams
  <2>8. [s.pending EXCEPT !.run = e.run] \in [position : Positions, run : {None} \cup PersonalTurns]
    BY <2>1
  <2>9. z \in Streams
    <3>1. z = [pending |-> [s.pending EXCEPT !.run = e.run], runs |-> runs, settled |-> s.settled]
      BY <1>1, <2>4 DEF Streams
    <3>. HIDE DEF z
    <3>. QED BY <1>1, <2>6, <2>8, <3>1 DEF Streams
  <2>10. r.turn \notin Range(s.settled)
    BY <2>2, StreamParts
  <2>11. /\ StreamOK(z) /\ SettleStep(s, z)
         /\ \A q \in Range(z.runs) : q \in Range(s.runs) \/ q = r
    BY <2>2, <2>3, <2>5, <2>7, <2>9, <2>10, RunStarts DEF runs
  <2>12. ProgressStep(s, z, e)
    BY <2>2, <2>5, <2>11 DEF ProgressStep
  <2>. QED BY <2>11, <2>12 DEF z
<1>10. CASE existing = {} /\ e.turn = None /\ ~(s.pending # None /\ s.pending.run \in {None, e.run})
  <2>1. z = s
    BY <1>10 DEF ApplyProgress
  <2>. QED BY <1>5, <1>10, <2>1
<1>. HIDE DEF z
<1>. QED BY <1>6, <1>7, <1>8, <1>9, <1>10 DEF z

\* The 202 names one turn.
LEMMA GroupRunBegins ==
  ASSUME NEW s, StreamOK(s), NEW t \in GroupTurns
  PROVE  LET z == BeginGroupRun(s, t, PositionOf[t])
         IN  StreamOK(z) /\ SettleStep(s, z) /\ NoNewText(s, z) /\ z.settled = s.settled /\ Len(s.runs) <= Len(z.runs)
<1>. DEFINE z == BeginGroupRun(s, t, PositionOf[t])
            r == [turn |-> t, run |-> None, position |-> PositionOf[t], text |-> << >>]
            runs == Bounded(Append(s.runs, r))
<1>1. CASE Seeds(s, t) # {} \/ t \in Range(s.settled)
  <2>1. z = s /\ s \in Streams /\ Len(s.runs) \in Nat
    BY <1>1, StreamParts DEF BeginGroupRun, StreamOK
  <2>. HIDE DEF z
  <2>2. NoNewText(s, z) /\ z.settled = s.settled /\ Len(s.runs) <= Len(z.runs)
    BY <2>1 DEF NoNewText
  <2>3. StreamOK(z) /\ SettleStep(s, z)
    BY <2>1, RunsStay
  <2>. QED BY <2>2, <2>3 DEF z
<1>2. CASE Seeds(s, t) = {} /\ t \notin Range(s.settled)
  <2>1. z = [s EXCEPT !.runs = runs] /\ s \in Streams
    BY <1>2 DEF BeginGroupRun, StreamOK
  <2>2. r \in RunRecords /\ r.turn = t /\ r.run = None /\ r.text = << >>
    BY DEF RunRecords, Positions, Turns
  <2>3. RunOK(r)
    BY <2>2, LiveTurnsAssumption DEF RunOK, Turns
  <2>. HIDE DEF r
  <2>4. runs \in Seq(RunRecords) /\ Len(s.runs) <= Len(runs)
    BY <2>2, <2>3, AddedRun DEF RunsOK
  <2>. HIDE DEF runs
  <2>5. z \in Streams /\ z.runs = runs /\ z.settled = s.settled
    BY <2>1, <2>4 DEF Streams
  <2>. HIDE DEF z
  <2>6. /\ StreamOK(z) /\ SettleStep(s, z)
        /\ \A q \in Range(z.runs) : q \in Range(s.runs) \/ q = r
    BY <1>2, <2>2, <2>3, <2>5, RunStarts DEF runs
  <2>7. NoNewText(s, z)
    BY <2>2, <2>6 DEF NoNewText
  <2>. QED BY <2>4, <2>5, <2>6, <2>7 DEF z
<1>. QED BY <1>1, <1>2

\* The streams of the invariant.
GoodStreams == {s \in Streams : StreamOK(s)}

\* The recursive definition of Seeded has the value it says.
LEMMA SeededIs ==
  ASSUME NEW s \in GoodStreams, NEW turns \in Seq(GroupTurns)
  PROVE  \E f : /\ f[0] = s /\ Seeded(s, turns) = f[Len(turns)]
                /\ \A n \in 1 .. Len(turns) : f[n] = BeginGroupRun(f[n - 1], turns[n], PositionOf[turns[n]])
<1>. DEFINE N == Len(turns)
            Following(n, z) == BeginGroupRun(z, turns[n], PositionOf[turns[n]])
            R(g) == [n \in 0 .. N |-> IF n = 0 THEN s ELSE Following(n, g[n - 1])]
            f == CHOOSE g : g = R(g)
<1>1. Seeded(s, turns) = f[N]
  BY DEF Seeded
<1>2. N \in Nat /\ \A n \in 1 .. N : turns[n] \in GroupTurns
  OBVIOUS
<1>3. \E g : g = R(g)
  <2>. DEFINE step == [p \in (1 .. N) \X GoodStreams |-> Following(p[1], p[2])]
  <2>1. step \in [(1 .. N) \X GoodStreams -> GoodStreams]
    <3>1. ASSUME NEW p \in (1 .. N) \X GoodStreams
          PROVE  Following(p[1], p[2]) \in GoodStreams
      <4>1. turns[p[1]] \in GroupTurns /\ StreamOK(p[2])
        BY <1>2 DEF GoodStreams
      <4>2. StreamOK(Following(p[1], p[2]))
        BY <4>1, GroupRunBegins
      <4>. HIDE DEF Following
      <4>. QED BY <4>2 DEF StreamOK, GoodStreams
    <3>. QED BY <3>1
  <2>2. PICK g : Steps(g, N, GoodStreams, s, step)
    <3>. HIDE DEF step, N, R
    <3>. QED BY <1>2, <2>1, Recursion, Zenon
  <2>3. /\ g \in [0 .. N -> GoodStreams] /\ g[0] = s
        /\ \A n \in 1 .. N : g[n] = step[<<n, g[n - 1]>>]
    <3>. HIDE DEF step, N, R
    <3>. QED BY <2>2 DEF Steps
  <2>4. ASSUME NEW n \in 0 .. N
        PROVE  g[n] = IF n = 0 THEN s ELSE Following(n, g[n - 1])
    <3>. HIDE DEF N, R
    <3>1. CASE n = 0
      BY <2>3, <3>1
    <3>2. CASE n \in 1 .. N
      <4>1. n - 1 \in 0 .. N
        BY <1>2, <3>2
      <4>2. g[n - 1] \in GoodStreams
        BY <2>3, <4>1
      <4>3. <<n, g[n - 1]>> \in (1 .. N) \X GoodStreams
        BY <3>2, <4>2
      <4>. HIDE DEF Following
      <4>4. step[<<n, g[n - 1]>>] = Following(n, g[n - 1])
        BY <4>3
      <4>5. n # 0
        BY <3>2
      <4>. QED BY <2>3, <3>2, <4>4, <4>5
    <3>. QED BY <1>2, <3>1, <3>2
  <2>5. g = [n \in 0 .. N |-> g[n]]
    BY <2>3
  <2>6. g = R(g)
    <3>. HIDE DEF N, Following
    <3>. QED BY <2>4, <2>5
  <2>. QED BY <2>6
<1>4. f = R(f)
  BY <1>3
<1>. HIDE DEF f, Following
<1>5. \A n \in 0 .. N : f[n] = IF n = 0 THEN s ELSE Following(n, f[n - 1])
  BY <1>4, Zenon
<1>6. f[0] = s /\ \A n \in 1 .. N : f[n] = Following(n, f[n - 1])
  BY <1>2, <1>5
<1>. QED BY <1>1, <1>6 DEF Following

\* The 202 starts runs: none that has settled, and none says anything.
LEMMA RunsAreSeeded ==
  ASSUME NEW s, StreamOK(s), NEW turns \in Seq(GroupTurns)
  PROVE  LET z == Seeded(s, turns) IN StreamOK(z) /\ SettleStep(s, z) /\ NoNewText(s, z)
<1>. DEFINE N == Len(turns)
<1>0. s \in GoodStreams /\ N \in Nat /\ \A n \in 1 .. N : turns[n] \in GroupTurns
  BY DEF GoodStreams, StreamOK
<1>1. PICK f : /\ f[0] = s /\ Seeded(s, turns) = f[N]
               /\ \A n \in 1 .. N : f[n] = BeginGroupRun(f[n - 1], turns[n], PositionOf[turns[n]])
  BY <1>0, SeededIs
<1>. DEFINE Good(m) == /\ StreamOK(f[m]) /\ SettleStep(s, f[m]) /\ NoNewText(s, f[m])
                       /\ f[m].settled = s.settled
            A == {m \in Nat : m <= N => Good(m)}
<1>3. Good(0)
  BY <1>0, <1>1, RunsStay DEF NoNewText, StreamOK
<1>4. ASSUME NEW m \in Nat, Good(m), m + 1 <= N
      PROVE  Good(m + 1)
  <2>. DEFINE y == f[m]
              z == f[m + 1]
  <2>1. m + 1 \in 1 .. N /\ (m + 1) - 1 = m /\ turns[m + 1] \in GroupTurns
    BY <1>0, <1>4
  <2>2. z = BeginGroupRun(y, turns[m + 1], PositionOf[turns[m + 1]])
    <3>1. z = BeginGroupRun(f[(m + 1) - 1], turns[m + 1], PositionOf[turns[m + 1]])
      BY <1>1, <2>1
    <3>. QED BY <2>1, <3>1
  <2>3. StreamOK(y) /\ SettleStep(s, y) /\ NoNewText(s, y) /\ y.settled = s.settled
    BY <1>4
  <2>. HIDE DEF y, z, N
  <2>4. StreamOK(z) /\ SettleStep(y, z) /\ NoNewText(y, z) /\ z.settled = y.settled /\ Len(y.runs) <= Len(z.runs)
    BY <2>1, <2>2, <2>3, GroupRunBegins
  <2>5. Len(y.runs) = LiveCap => Len(z.runs) = LiveCap
    <3>1. Len(z.runs) \in Nat /\ Len(z.runs) <= LiveCap /\ LiveCap \in Nat
      BY <2>4, StreamParts, StreamAssumption
    <3>. QED BY <2>4, <3>1
  <2>6. NoNewText(s, z)
    BY <2>3, <2>4 DEF NoNewText
  <2>7. SettleStep(s, z)
    BY <2>3, <2>4, <2>5 DEF SettleStep
  <2>. QED BY <2>3, <2>4, <2>6, <2>7 DEF y, z
<1>5. Good(N)
  <2>. HIDE DEF Good
  <2>1. 0 \in A /\ \A m \in Nat : m \in A => m + 1 \in A
    BY <1>0, <1>3, <1>4
  <2>. HIDE DEF A
  <2>2. N \in A
    BY <1>0, <2>1, Induction
  <2>. QED BY <1>0, <2>2 DEF A
<1>. QED BY <1>1, <1>5

-----------------------------------------------------------------------------
(* The channel *)

\* The numbers of the deltas a text has, and those of a turn that are published and not delivered.
Numbers(text) == {text[i][2] : i \in DOMAIN text}
Waiting(es, t) == UNION {Numbers(es[i].text) : i \in {i \in DOMAIN es : es[i].run = t}}

\* What the live runs of an engine run show, and nothing, which is what a run shows that is yet to come.
Shown(t) == {{}} \cup {Numbers(r.text) : r \in {r \in Range(stream.runs) : r.run = t}}

\* The engine of a turn says nothing any more.
Over(t) == at[t] = "done" /\ ~engine[t].timer

\* A text is of one run, its deltas are in order, none is missing.
Own(t, text) == \A i \in DOMAIN text : text[i][1] = t
Rising(text) == \A i, j \in DOMAIN text : i < j => text[i][2] < text[j][2]
Gapless(text) == \A i \in DOMAIN text : i > 1 => text[i][2] = text[i - 1][2] + 1
PieceOf(t, text) == Own(t, text) /\ Rising(text) /\ Gapless(text)

\* A set of numbers without a gap.
Whole(S) == \A n, m \in S : n .. m \subseteq S

\* What a live run shows comes before what is under way to it, and both before what its engine is
\* still to say; nothing is missing in between as long as the channel has not been disturbed.
InOrder(t, R) ==
  /\ \A n \in R, m \in Waiting(line, t) : n < m
  /\ ~Over(t) => \A n \in R \cup Waiting(line, t) : n <= engine[t].out
  /\ faults = 0 =>
       /\ Whole(R \cup Waiting(line, t))
       /\ ~Over(t) /\ R \cup Waiting(line, t) # {} => engine[t].out \in R \cup Waiting(line, t)

\* The invariant of the stream and of the events that are under way to it.
ChannelOK ==
  /\ StreamOK(stream) /\ seeding \in Messages \cup {None}
  /\ line \in Seq(Events) /\ \A i \in 1 .. Len(line) : EventOK(line[i])

\* The events under way, each a piece of its run's output, one after the other.
LineInOrder(es) ==
  /\ \A i \in 1 .. Len(es) :
       PieceOf(es[i].run, es[i].text) /\ (es[i].type # "progress" => es[i].text = << >>)
  /\ \A i, j \in 1 .. Len(es) :
       i < j /\ es[i].run = es[j].run =>
         \A n \in Numbers(es[i].text), m \in Numbers(es[j].text) : n < m

\* What a live run shows.
TextShown(r, exact) == Own(r.run, r.text) /\ Rising(r.text) /\ (exact => Gapless(r.text))

\* The inductive invariant of the texts.
TextInv ==
  /\ faults = 0 => connected
  /\ LineInOrder(line)
  /\ \A r \in Range(stream.runs) : TextShown(r, faults = 0)
  /\ \A t \in Turns : \A R \in Shown(t) : InOrder(t, R)

\* What a turn's own step says: nothing, or in an event all up to the k-th delta.
Says(t, type, k) ==
  /\ ~Over(t) /\ k >= engine[t].out /\ (type # "progress" => k = engine[t].out)
  /\ \/ line' = line /\ (k = engine[t].out \/ ~connected)
     \/ connected /\ line' = Append(line, Event(type, t, Text(t, engine[t].out + 1, k)))
  /\ Over(t)' \/ engine'[t].out = k
  /\ \A u \in Turns \ {t} : engine'[u] = engine[u] /\ at'[u] = at[u]
  /\ UNCHANGED <<stream, faults, connected, seeding>>
EventTypes == {"progress", "terminal", "indeterminate"}

\* Deltas from first to last, as one text.
LEMMA TextFacts ==
  ASSUME NEW t \in Turns, NEW o \in Nat, NEW k \in Nat, k >= o
  PROVE  /\ Text(t, o + 1, k) \in Seq(Turns \X Nat) /\ PieceOf(t, Text(t, o + 1, k))
         /\ Numbers(Text(t, o + 1, k)) = o + 1 .. k
         /\ k = o => Text(t, o + 1, k) = << >>
<1>. DEFINE x == Text(t, o + 1, k)
<1>1. x = [i \in 1 .. k - o |-> <<t, o + i>>]
  <2>1. (k - (o + 1)) + 1 = k - o /\ \A i \in 1 .. k - o : ((o + 1) + i) - 1 = o + i
    OBVIOUS
  <2>2. x = [i \in 1 .. (k - (o + 1)) + 1 |-> <<t, ((o + 1) + i) - 1>>]
    BY DEF Text
  <2>. QED BY <2>1, <2>2
<1>2. k - o \in Nat
  OBVIOUS
<1>. HIDE DEF x
<1>3. DOMAIN x = 1 .. k - o /\ \A i \in 1 .. k - o : x[i] = <<t, o + i>>
  BY <1>1
<1>4. \A i \in 1 .. k - o : x[i] \in Turns \X Nat /\ x[i][1] = t /\ x[i][2] = o + i
  <2>. SUFFICES ASSUME NEW i \in 1 .. k - o
                PROVE  x[i] \in Turns \X Nat /\ x[i][1] = t /\ x[i][2] = o + i
    OBVIOUS
  <2>. DEFINE m == o + i
  <2>1. x[i] = <<t, m>> /\ m \in Nat
    BY <1>3
  <2>. HIDE DEF m
  <2>2. x[i] \in Turns \X Nat /\ x[i][1] = t /\ x[i][2] = m
    BY <2>1
  <2>. QED BY <2>2 DEF m
<1>5. x \in Seq(Turns \X Nat) /\ Len(x) = k - o
  BY <1>1, <1>2, <1>4
<1>6. PieceOf(t, x)
  <2>1. \A i \in 1 .. k - o : i > 1 => i - 1 \in 1 .. k - o
    OBVIOUS
  <2>2. Own(t, x)
    BY <1>3, <1>4 DEF Own
  <2>3. Rising(x)
    BY <1>3, <1>4 DEF Rising
  <2>4. Gapless(x)
    BY <1>3, <1>4, <2>1 DEF Gapless
  <2>. QED BY <2>2, <2>3, <2>4 DEF PieceOf
<1>7. Numbers(x) = o + 1 .. k
  <2>1. ASSUME NEW n \in o + 1 .. k
        PROVE  \E i \in 1 .. k - o : x[i][2] = n
    <3>1. n - o \in 1 .. k - o /\ o + (n - o) = n
      OBVIOUS
    <3>. QED BY <1>4, <3>1
  <2>2. \A i \in 1 .. k - o : x[i][2] \in o + 1 .. k
    BY <1>4
  <2>. QED BY <1>3, <2>1, <2>2 DEF Numbers
<1>8. k = o => x = << >>
  BY <1>5
<1>. QED BY <1>5, <1>6, <1>7, <1>8 DEF x

\* A turn's own step says something or nothing.
LEMMA ServeSays ==
  ASSUME ForwardersOK, NEW t \in Turns, Serve(t)
  PROVE  \E type \in EventTypes, k \in Nat : Says(t, type, k)
<1>. DEFINE f == engine[t]
            o == engine[t].out
<1>0. /\ f \in Forwarder /\ o \in Nat /\ f.held \in Nat /\ o + f.held \in Nat /\ t \in Turns
      /\ \A g : [engine EXCEPT ![t] = g][t] = g /\ \A u \in Turns \ {t} : [engine EXCEPT ![t] = g][u] = engine[u]
      /\ \A g : [at EXCEPT ![t] = g][t] = g /\ \A u \in Turns \ {t} : [at EXCEPT ![t] = g][u] = at[u]
  BY DEF ForwardersOK, LiveTypes, Forwarder
<1>1. EventTypes = {"progress", "terminal", "indeterminate"}
  BY DEF EventTypes
<1>2. Text(t, o + 1, o) = << >>
  BY <1>0, TextFacts
<1>3. Flushed(f).out = o + f.held
  BY <1>0, FlushedForwarder
<1>. HIDE DEF f, o
<1>4. CASE Begin(t)
  <2>1. Says(t, "progress", o)
    BY <1>0, <1>4 DEF Begin, Due, Says, Over, panel, channel, o
  <2>. QED BY <1>0, <1>1, <2>1
<1>5. CASE BeginFails(t) \/ Settles(t)
  <2>1. /\ ~Over(t) /\ UNCHANGED <<stream, faults, connected, seeding>>
        /\ at' = [at EXCEPT ![t] = "done"] /\ engine' = [engine EXCEPT ![t] = IF f.timer THEN f ELSE Unheard]
    BY <1>5 DEF BeginFails, Settles, Throws, Answered, Due, Over, panel, Publish, channel, f
  <2>2. Over(t)' \/ engine'[t].out = o
    BY <1>0, <2>1 DEF Over, Unheard, f, o
  <2>3. PICK type \in EventTypes :
          line' = line \/ (connected /\ line' = Append(line, Event(type, t, << >>)))
    <3>1. UNCHANGED channel \/ Publish(Event("indeterminate", t, << >>)) \/ Publish(Event("terminal", t, << >>))
      BY <1>5 DEF BeginFails, Settles, Throws
    <3>2. ASSUME NEW type \in EventTypes, Publish(Event(type, t, << >>))
          PROVE  line' = line \/ (connected /\ line' = Append(line, Event(type, t, << >>)))
      BY <3>2 DEF Publish
    <3>3. CASE UNCHANGED channel
      BY <1>1, <3>3 DEF channel
    <3>4. "indeterminate" \in EventTypes /\ "terminal" \in EventTypes
      BY <1>1
    <3>. HIDE DEF EventTypes
    <3>. QED BY <3>1, <3>2, <3>3, <3>4
  <2>4. Says(t, type, o)
    BY <1>0, <1>2, <2>1, <2>2, <2>3 DEF Says, o
  <2>. QED BY <1>0, <2>4
<1>6. CASE EngineStarts(t)
  <2>1. /\ engine' = [engine EXCEPT ![t].started = TRUE] /\ at[t] = "begun" /\ at' = [at EXCEPT ![t] = "streaming"]
        /\ UNCHANGED <<stream, faults, connected, seeding>>
        /\ line' = line \/ (connected /\ line' = Append(line, Event("progress", t, << >>)))
    BY <1>6 DEF EngineStarts, panel, Publish
  <2>2. engine'[t].out = o /\ \A u \in Turns \ {t} : engine'[u] = engine[u]
    BY <1>0, <2>1 DEF ForwardersOK, LiveTypes, Forwarder, f, o
  <2>3. Says(t, "progress", o)
    BY <1>0, <1>2, <2>1, <2>2 DEF Says, Over, o
  <2>. QED BY <1>0, <1>1, <2>3
<1>7. ASSUME PublishHeld(t), ~Over(t), UNCHANGED <<stream, faults, seeding>>,
             NEW g, engine' = [engine EXCEPT ![t] = g], g.out = o + f.held \/ Over(t)',
             \A u \in Turns \ {t} : at'[u] = at[u]
      PROVE  Says(t, "progress", o + f.held)
  <2>1. /\ connected' = connected
        /\ \/ line' = line /\ (o + f.held = o \/ ~connected)
           \/ connected /\ line' = Append(line, Event("progress", t, Text(t, o + 1, o + f.held)))
    BY <1>0, <1>7 DEF PublishHeld, Publish, channel, Held, f, o
  <2>2. /\ engine'[t] = g /\ \A u \in Turns \ {t} : engine'[u] = engine[u] /\ at'[u] = at[u]
    BY <1>0, <1>7
  <2>3. o + f.held >= o
    BY <1>0
  <2>. DEFINE k == o + f.held
  <2>4. k >= o /\ (engine'[t].out = k \/ Over(t)')
    BY <1>7, <2>2, <2>3
  <2>. HIDE DEF k
  <2>5. /\ connected' = connected
        /\ \/ line' = line /\ (k = o \/ ~connected)
           \/ connected /\ line' = Append(line, Event("progress", t, Text(t, o + 1, k)))
    BY <2>1 DEF k
  <2>6. Says(t, "progress", k)
    BY <1>7, <2>2, <2>4, <2>5 DEF Says, o
  <2>. QED BY <2>6 DEF k
<1>8. CASE EngineDelta(t)
  <2>0. at[t] = "streaming" /\ at' = at /\ UNCHANGED <<stream, faults, seeding>> /\ ~Over(t)
    BY <1>8 DEF EngineDelta, panel, Over
  <2>. DEFINE h == [f EXCEPT !.emitted = @ + 1, !.held = @ + 1]
  <2>1. /\ h.out = o /\ h.held = f.held + 1 /\ h \in Forwarder
    <3>1. f.emitted + 1 \in Nat /\ f.held + 1 \in Nat
      BY <1>0 DEF Forwarder
    <3>. QED BY <1>0, <3>1 DEF Forwarder, f, o
  <2>2. CASE DeltaHeld(t)
    <3>. HIDE DEF h
    <3>0. \/ engine' = [engine EXCEPT ![t] = [h EXCEPT !.timer = TRUE]] /\ UNCHANGED channel
          \/ /\ engine' = [engine EXCEPT ![t] = Flushed(h)]
             /\ Publish(Event("progress", t, Text(t, h.out + 1, h.out + h.held)))
      BY <2>2 DEF DeltaHeld, f, h
    <3>1. CASE engine' = [engine EXCEPT ![t] = [h EXCEPT !.timer = TRUE]] /\ UNCHANGED channel
      <4>1. engine'[t].out = o
        <5>1. engine'[t] = [h EXCEPT !.timer = TRUE]
          BY <1>0, <3>1
        <5>. QED BY <2>1, <5>1 DEF Forwarder
      <4>2. Says(t, "progress", o)
        BY <1>0, <2>0, <3>1, <4>1 DEF Says, channel, o
      <4>. QED BY <1>0, <1>1, <4>2
    <3>2. CASE /\ engine' = [engine EXCEPT ![t] = Flushed(h)]
               /\ Publish(Event("progress", t, Text(t, h.out + 1, h.out + h.held)))
      <4>. DEFINE k == o + (f.held + 1)
      <4>1. engine'[t].out = k /\ k \in Nat /\ k >= o
        <5>1. engine'[t] = Flushed(h)
          BY <1>0, <3>2
        <5>2. Flushed(h).out = h.out + h.held
          BY <2>1, FlushedForwarder
        <5>. QED BY <1>0, <2>1, <5>1, <5>2
      <4>2. Publish(Event("progress", t, Text(t, o + 1, k)))
        BY <2>1, <3>2
      <4>. HIDE DEF k
      <4>3. Says(t, "progress", k)
        BY <1>0, <2>0, <3>2, <4>1, <4>2 DEF Says, Publish, o
      <4>. QED BY <1>1, <4>1, <4>3
    <3>. QED BY <3>0, <3>1, <3>2
  <2>3. CASE DeltaCapped(t)
    <3>1. CASE f.capped
      <4>1. engine' = [engine EXCEPT ![t] = Cut(f)] /\ UNCHANGED channel
        BY <2>3, <3>1 DEF DeltaCapped, f
      <4>2. engine'[t].out = o
        BY <1>0, <4>1 DEF Cut, Forwarder, f, o
      <4>3. Says(t, "progress", o)
        BY <1>0, <2>0, <4>1, <4>2 DEF Says, channel, o
      <4>. QED BY <1>0, <1>1, <4>3
    <3>2. CASE ~f.capped
      <4>1. engine' = [engine EXCEPT ![t] = Cut(Flushed(f))] /\ PublishHeld(t)
        BY <2>3, <3>2 DEF DeltaCapped, f
      <4>2. Cut(Flushed(f)).out = o + f.held
        BY <1>0, <1>3, FlushedForwarder DEF Cut, Forwarder
      <4>3. Says(t, "progress", o + f.held)
        BY <1>7, <2>0, <4>1, <4>2
      <4>. QED BY <1>0, <1>1, <4>3
    <3>. QED BY <3>1, <3>2
  <2>. QED BY <1>8, <2>2, <2>3 DEF EngineDelta
<1>9. CASE FlushTimer(t)
  <2>. DEFINE g == IF at[t] = "done" THEN Unheard ELSE Flushed(f)
  <2>1. /\ ~Over(t) /\ PublishHeld(t) /\ UNCHANGED <<stream, faults, seeding, at>>
        /\ engine' = [engine EXCEPT ![t] = g]
    BY <1>0, <1>9 DEF FlushTimer, Over, panel, f
  <2>2. g.out = o + f.held \/ Over(t)'
    BY <1>0, <1>3, <2>1 DEF Over, Unheard
  <2>. HIDE DEF g
  <2>3. Says(t, "progress", o + f.held)
    BY <1>7, <2>1, <2>2
  <2>. QED BY <1>0, <1>1, <2>3
<1>10. CASE EngineEnds(t)
  <2>1. /\ ~Over(t) /\ UNCHANGED <<stream, faults, seeding>> /\ at' = [at EXCEPT ![t] = "ended"]
        /\ (EngineTerminal(t) \/ UNCHANGED <<engine, channel>>)
    BY <1>10 DEF EngineEnds, Over, panel
  <2>2. CASE EngineTerminal(t)
    <3>. DEFINE g == [Flushed(f) EXCEPT !.trusted = TRUE]
    <3>1. engine' = [engine EXCEPT ![t] = g] /\ PublishHeld(t)
      BY <1>0, <2>2 DEF EngineTerminal, f
    <3>2. g.out = o + f.held
      BY <1>0, <1>3, FlushedForwarder DEF Forwarder
    <3>. HIDE DEF g
    <3>3. Says(t, "progress", o + f.held)
      BY <1>0, <1>7, <2>1, <3>1, <3>2
    <3>. QED BY <1>0, <1>1, <3>3
  <2>3. CASE UNCHANGED <<engine, channel>>
    <3>1. Says(t, "progress", o)
      BY <1>0, <2>1, <2>3 DEF Says, channel, o
    <3>. QED BY <1>0, <1>1, <3>1
  <2>. QED BY <2>1, <2>2, <2>3
<1>. QED BY <1>4, <1>5, <1>6, <1>8, <1>9, <1>10 DEF Serve

\* What a step that is no turn's own leaves alone.
Quiet ==
  /\ engine' = engine /\ \A t \in Turns : Over(t)' <=> Over(t)
  /\ faults' = faults \/ faults' = faults + 1
  /\ seeding' \in Messages \cup {None}

\* What a step of the renderer's own does to the stream.
StreamStep(s, z) == StreamOK(z) /\ SettleStep(s, z) /\ NoNewText(s, z)

\* Runs that were there say what they said.
LEMMA RunsOfStep ==
  ASSUME NEW s, NEW z, StreamOK(z), SettleStep(s, z), Range(z.runs) \subseteq Range(s.runs)
  PROVE  StreamStep(s, z)
BY DEF StreamStep, NoNewText

\* A step that leaves the stream.
LEMMA SameStream == ASSUME NEW s, StreamOK(s) PROVE StreamStep(s, s)
<1>1. s \in Streams
  BY DEF StreamOK
<1>. QED BY <1>1, RunsStay, RunsOfStep

\* The steps that are no turn's own: the renderer's, or the channel's.
LEMMA OtherSteps ==
  ASSUME LiveTypes, ChannelOK, [LiveNext]_liveVars, ~ \E t \in Turns : Serve(t)
  PROVE  /\ Quiet
         /\ \/ line' = line /\ connected' = connected /\ StreamStep(stream, stream')
            \/ Deliver \/ Disconnect \/ Reconnect
<1>. DEFINE Renderer == line' = line /\ connected' = connected /\ StreamStep(stream, stream')
<1>0. /\ StreamOK(stream) /\ seeding \in Messages \cup {None} /\ StreamStep(stream, stream)
      /\ at \in [Turns -> {"new", "asked", "begun", "streaming", "ended", "done"}]
      /\ \A t \in Turns : PositionOf[t] \in Positions
      /\ \A m \in Messages : Mentions[m] \in Seq(GroupTurns)
  BY SameStream, LiveTurnsAssumption DEF ChannelOK, LiveTypes, Positions
<1>1. ASSUME UNCHANGED <<at, engine, faults, seeding>> PROVE Quiet
  BY <1>0, <1>1 DEF Quiet, Over
<1>2. ASSUME NEW by, LoadTimeline(by) PROVE faults' = faults \/ faults' = faults + 1
  BY <1>2 DEF LoadTimeline
<1>3. CASE UNCHANGED liveVars
  <2>1. Renderer /\ UNCHANGED <<at, engine, faults, seeding>>
    BY <1>0, <1>3 DEF liveVars
  <2>. QED BY <1>1, <2>1
<1>4. CASE \E t \in PersonalTurns : CreateTurn(t)
  <2>1. PICK t \in PersonalTurns : CreateTurn(t)
    BY <1>4
  <2>2. /\ stream' = BeginPending(stream, PositionOf[t]) /\ at[t] = "new" /\ at' = [at EXCEPT ![t] = "asked"]
        /\ UNCHANGED <<engine, faults, seeding, line, connected>>
    BY <2>1 DEF CreateTurn, panel, channel
  <2>3. t \in Turns /\ PositionOf[t] \in Positions
    BY <1>0 DEF Turns
  <2>4. \A u \in Turns : at'[u] = at[u] \/ (u = t /\ at[u] = "new" /\ at'[u] = "asked")
    BY <1>0, <2>2, <2>3
  <2>5. Quiet
    BY <1>0, <2>2, <2>4 DEF Quiet, Over
  <2>6. Renderer
    BY <1>0, <2>2, <2>3, PendingBegins, RunsOfStep
  <2>. QED BY <2>5, <2>6
<1>5. CASE \E m \in Messages : SendMessage(m)
  <2>1. PICK m \in Messages : SendMessage(m)
    BY <1>5
  <2>2. UNCHANGED <<at, engine, faults, stream, line, connected>> /\ seeding' = m
    BY <2>1 DEF SendMessage, channel
  <2>3. Quiet
    BY <2>2 DEF Quiet, Over
  <2>. QED BY <1>0, <2>2, <2>3
<1>6. CASE \E p \in Joining : AddRead(p) \/ AddWrite(p)
  <2>1. UNCHANGED <<at, engine, faults, stream, line, connected, seeding>>
    BY <1>6 DEF AddRead, AddWrite, server, panel, channel
  <2>. QED BY <1>0, <1>1, <2>1
<1>7. CASE Deliver
  <2>1. UNCHANGED <<at, engine, faults, seeding>>
    BY <1>7 DEF Deliver, server
  <2>. QED BY <1>1, <1>7, <2>1
<1>8. CASE Disconnect \/ Reconnect
  <2>1. UNCHANGED <<at, engine, seeding>> /\ (faults' = faults \/ faults' = faults + 1)
    BY <1>8 DEF Disconnect, Reconnect, server, panel
  <2>2. Quiet
    BY <1>0, <2>1 DEF Quiet, Over
  <2>. QED BY <1>8, <2>2
<1>9. CASE PostReturns
  <2>1. /\ UNCHANGED <<at, engine, faults, seeding, line, connected>>
        /\ \/ stream' = SettlePending(stream, post.answer.run, PositionOf[post.turn])
           \/ stream' = CancelPending(stream)
    BY <1>9 DEF PostReturns, Renders, server, channel
  <2>2. Renderer
    BY <1>0, <2>1, PendingSettled, PendingCancelled, RunsOfStep
  <2>. QED BY <1>1, <2>1, <2>2
<1>10. CASE SelectSession
  <2>1. UNCHANGED <<at, engine, faults, seeding, line, connected>> /\ stream' = ClearPersonal(stream)
    BY <1>10 DEF SelectSession, Renders, server, channel
  <2>2. Renderer
    BY <1>0, <2>1, PersonalCleared, RunsOfStep
  <2>. QED BY <1>1, <2>1, <2>2
<1>11. CASE MessageAnswered
  <2>1. /\ UNCHANGED <<at, engine, line, connected>> /\ stream' = Seeded(stream, Mentions[seeding])
        /\ seeding # None /\ seeding' = None /\ LoadTimeline("send")
    BY <1>11 DEF MessageAnswered, Renders, channel
  <2>2. Mentions[seeding] \in Seq(GroupTurns)
    BY <1>0, <2>1
  <2>3. Renderer
    BY <1>0, <2>1, <2>2, RunsAreSeeded DEF StreamStep
  <2>4. Quiet
    BY <1>2, <2>1 DEF Quiet, Over
  <2>. QED BY <2>3, <2>4
<1>12. CASE HintFires \/ Poll
  <2>1. /\ UNCHANGED <<at, engine, line, connected, stream, seeding>>
        /\ LoadTimeline("hint") \/ LoadTimeline("poll")
    BY <1>12 DEF HintFires, Poll, channel
  <2>2. Quiet
    BY <1>0, <1>2, <2>1 DEF Quiet, Over
  <2>. QED BY <1>0, <2>1, <2>2
<1>13. CASE TimelineArrives
  <2>1. /\ UNCHANGED <<at, engine, faults, seeding, line, connected>>
        /\ stream' = stream \/ stream' = Reconcile(stream, load.answer.ended)
    BY <1>13 DEF TimelineArrives, Renders, server, channel
  <2>2. Renderer
    BY <1>0, <2>1, Reconciled, RunsOfStep
  <2>. QED BY <1>1, <2>1, <2>2
<1>. QED BY <1>3, <1>4, <1>5, <1>6, <1>7, <1>8, <1>9, <1>10, <1>11, <1>12, <1>13 DEF LiveNext

\* An event is applied to the stream.
LEMMA EventApplied ==
  ASSUME NEW s, StreamOK(s), NEW e, EventOK(e)
  PROVE  LET z == ApplyTurnEvent(s, e)
         IN  /\ StreamOK(z) /\ SettleStep(s, z)
             /\ IF e.type = "progress" THEN ProgressStep(s, z, e) ELSE NoNewText(s, z)
<1>. DEFINE z == ApplyTurnEvent(s, e)
<1>0. e.type \in {"progress", "terminal", "indeterminate"}
  BY DEF EventOK, Events
<1>1. CASE e.type = "progress"
  <2>1. z = ApplyProgress(s, e)
    BY <1>1 DEF ApplyTurnEvent
  <2>. QED BY <1>1, <2>1, ProgressApplied
<1>2. CASE e.type = "terminal"
  <2>1. z = ApplyTerminal(s, e)
    BY <1>2 DEF ApplyTurnEvent
  <2>. QED BY <1>2, <2>1, TerminalApplied DEF NoNewText
<1>3. CASE e.type = "indeterminate"
  <2>1. z = ApplyIndeterminate(s, e)
    BY <1>3 DEF ApplyTurnEvent
  <2>. QED BY <1>3, <2>1, IndeterminateApplied DEF NoNewText
<1>. QED BY <1>0, <1>1, <1>2, <1>3

\* What is delivered is the oldest of the line.
LEMMA Delivered ==
  ASSUME ChannelOK, Deliver
  PROVE  LET e == Head(line)
         IN  /\ Len(line) \in Nat \ {0} /\ e = line[1] /\ EventOK(e)
             /\ line' \in Seq(Events) /\ Len(line') = Len(line) - 1
             /\ \A i \in 1 .. Len(line') : line'[i] = line[i + 1]
             /\ StreamOK(stream') /\ SettleStep(stream, stream')
             /\ IF e.type = "progress" THEN ProgressStep(stream, stream', e) ELSE NoNewText(stream, stream')
<1>. DEFINE e == Head(line)
<1>1. line \in Seq(Events) /\ line # << >> /\ line' = Tail(line) /\ stream' = ApplyTurnEvent(stream, e)
  BY DEF ChannelOK, Deliver, Renders
<1>2. /\ Len(line) \in Nat \ {0} /\ e = line[1] /\ line' \in Seq(Events) /\ Len(line') = Len(line) - 1
      /\ \A i \in 1 .. Len(line') : line'[i] = line[i + 1]
  BY <1>1
<1>3. EventOK(e) /\ StreamOK(stream)
  <2>1. 1 \in 1 .. Len(line)
    BY <1>2
  <2>. QED BY <1>2, <2>1 DEF ChannelOK
<1>. HIDE DEF e
<1>4. /\ StreamOK(stream') /\ SettleStep(stream, stream')
      /\ IF e.type = "progress" THEN ProgressStep(stream, stream', e) ELSE NoNewText(stream, stream')
  BY <1>1, <1>3, EventApplied
<1>. QED BY <1>2, <1>3, <1>4 DEF e

\* The event of a turn is one of the channel.
LEMMA SaidEvent ==
  ASSUME NEW t \in Turns, NEW type \in EventTypes, NEW o \in Nat, NEW k \in Nat, k >= o,
         type # "progress" => k = o
  PROVE  LET e == Event(type, t, Text(t, o + 1, k))
         IN  /\ EventOK(e) /\ PieceOf(e.run, e.text) /\ (e.type # "progress" => e.text = << >>)
             /\ e.text # << >> => e.run = t
             /\ Numbers(e.text) = o + 1 .. k
<1>. DEFINE x == Text(t, o + 1, k)
            e == Event(type, t, x)
<1>1. x \in Seq(Turns \X Nat) /\ PieceOf(t, x) /\ Numbers(x) = o + 1 .. k /\ (k = o => x = << >>)
  BY TextFacts
<1>. HIDE DEF x
<1>2. /\ e.type = type /\ e.turn = (IF t \in GroupTurns THEN t ELSE None)
      /\ e.run = (IF type = "indeterminate" THEN None ELSE t) /\ e.position = PositionOf[t] /\ e.text = x
  BY DEF Event
<1>3. e \in Events
  BY <1>1 DEF Event, Events, EventTypes, Positions, Turns
<1>. HIDE DEF e
<1>4. e.type # "progress" => e.text = << >>
  BY <1>1, <1>2
<1>5. EventOK(e)
  <2>1. t \in GroupTurns => t # None
    BY LiveTurnsAssumption DEF Turns
  <2>. QED BY <1>2, <1>3, <2>1 DEF EventOK, Turns
<1>6. PieceOf(e.run, e.text)
  <2>1. CASE type = "indeterminate"
    <3>1. e.text = << >>
      BY <1>2, <1>4, <2>1
    <3>2. DOMAIN e.text = {}
      BY <3>1
    <3>. QED BY <3>2 DEF PieceOf, Own, Rising, Gapless
  <2>2. CASE type # "indeterminate"
    BY <1>1, <1>2, <2>2
  <2>. QED BY <2>1, <2>2
<1>. QED BY <1>1, <1>2, <1>4, <1>5, <1>6 DEF e, x

\* A step keeps the invariant of the channel, and settles group runs as it must.
LEMMA ChannelKept ==
  ASSUME ForwardersOK, ChannelOK, [LiveNext]_liveVars
  PROVE  ChannelOK' /\ SettleStep(stream, stream')
<1>1. CASE \E t \in Turns : Serve(t)
  <2>1. PICK t \in Turns, type \in EventTypes, k \in Nat : Says(t, type, k)
    BY <1>1, ServeSays
  <2>2. /\ stream' = stream /\ seeding' = seeding
        /\ line' = line \/ line' = Append(line, Event(type, t, Text(t, engine[t].out + 1, k)))
    BY <2>1 DEF Says
  <2>3. engine[t].out \in Nat /\ k >= engine[t].out /\ (type # "progress" => k = engine[t].out)
    BY <2>1 DEF Says, ForwardersOK, LiveTypes, Forwarder
  <2>. DEFINE e == Event(type, t, Text(t, engine[t].out + 1, k))
  <2>4. EventOK(e) /\ e \in Events
    BY <2>3, SaidEvent DEF EventOK
  <2>. HIDE DEF e
  <2>5. line' \in Seq(Events) /\ \A i \in 1 .. Len(line') : EventOK(line'[i])
    <3>1. CASE line' = line
      BY <3>1 DEF ChannelOK
    <3>2. CASE line' = Append(line, e)
      <4>1. line \in Seq(Events) /\ \A i \in 1 .. Len(line) : EventOK(line[i])
        BY DEF ChannelOK
      <4>2. \A i \in 1 .. Len(line') : line'[i] = e \/ (i \in 1 .. Len(line) /\ line'[i] = line[i])
        BY <2>4, <3>2, <4>1
      <4>. QED BY <2>4, <3>2, <4>1, <4>2
    <3>. QED BY <2>2, <3>1, <3>2 DEF e
  <2>6. StreamStep(stream, stream)
    BY SameStream DEF ChannelOK
  <2>. QED BY <2>2, <2>5, <2>6 DEF ChannelOK, StreamStep
<1>2. CASE ~ \E t \in Turns : Serve(t)
  <2>1. /\ Quiet
        /\ \/ line' = line /\ connected' = connected /\ StreamStep(stream, stream')
           \/ Deliver \/ Disconnect \/ Reconnect
    BY <1>2, OtherSteps DEF ForwardersOK
  <2>2. seeding' \in Messages \cup {None}
    BY <2>1 DEF Quiet
  <2>3. CASE line' = line /\ StreamStep(stream, stream')
    BY <2>2, <2>3 DEF ChannelOK, StreamStep
  <2>4. CASE Deliver
    <3>1. /\ StreamOK(stream') /\ SettleStep(stream, stream') /\ line' \in Seq(Events)
          /\ Len(line) \in Nat /\ Len(line') = Len(line) - 1
          /\ \A i \in 1 .. Len(line') : line'[i] = line[i + 1]
      BY <2>4, Delivered
    <3>2. \A i \in 1 .. Len(line') : i + 1 \in 1 .. Len(line)
      BY <3>1
    <3>. QED BY <2>2, <3>1, <3>2 DEF ChannelOK
  <2>5. CASE Disconnect \/ Reconnect
    <3>1. stream' = stream /\ (line' = line \/ \E n \in 0 .. Len(line) : line' = SubSeq(line, 1, n))
      BY <2>5 DEF Disconnect, Reconnect
    <3>2. line' \in Seq(Events) /\ \A i \in 1 .. Len(line') : i \in 1 .. Len(line) /\ line'[i] = line[i]
      <4>1. line \in Seq(Events)
        BY DEF ChannelOK
      <4>2. CASE line' = line
        BY <4>1, <4>2
      <4>3. CASE \E n \in 0 .. Len(line) : line' = SubSeq(line, 1, n)
        BY <4>1, <4>3
      <4>. QED BY <3>1, <4>2, <4>3
    <3>3. StreamStep(stream, stream)
      BY SameStream DEF ChannelOK
    <3>. QED BY <2>2, <3>1, <3>2, <3>3 DEF ChannelOK, StreamStep
  <2>. QED BY <2>1, <2>3, <2>4, <2>5
<1>. QED BY <1>1, <1>2

\* Nothing is shown and nothing under way at first.
LEMMA ChannelInitially == ASSUME LiveInit PROVE ChannelOK
<1>1. line = << >> /\ stream = EmptyStream /\ seeding = None
  BY DEF LiveInit
<1>2. << >> \in Settlements /\ << >> \in Seq(RunRecords) /\ Range(<< >>) = {} /\ Len(<< >>) = 0
  <2>1. << >> \in Seq(GroupTurns) /\ << >> \in Seq(RunRecords) /\ DOMAIN << >> = {} /\ Len(<< >>) = 0
    OBVIOUS
  <2>. QED BY <2>1, StreamAssumption DEF Settlements, OnceEach, Range
<1>3. EmptyStream \in Streams /\ EmptyStream.runs = << >>
  BY <1>2 DEF EmptyStream, Streams
<1>4. RunsOK(<< >>)
  BY <1>2, StreamAssumption DEF RunsOK, OneKeyEach
<1>. QED BY <1>1, <1>2, <1>3, <1>4 DEF ChannelOK, StreamOK

\* The invariant of the stream and the channel: no live run is known to have settled, no two are keyed
\* by one engine run, and every event under way names its turn as the renderer expects.
THEOREM ChannelInvariant == LiveSpec => []ChannelOK
<1>1. ForwardersOK /\ ChannelOK /\ [LiveNext]_liveVars => ChannelOK'
  BY ChannelKept
<1>. QED BY <1>1, ChannelInitially, ForwardersInvariant, PTL DEF LiveSpec

\* App.tsx clearPersonalTurnState, turnStream.ts: a group run disappears only by being settled or as the
\* oldest of too many, and what has settled does not come back while it is remembered.
THEOREM SettledStaySettled == LiveSpec => GroupRunsSettle
<1>. DEFINE S == \A t \in GroupTurns :
       /\ Live(t) /\ ~Live(t)' => t \in Range(stream'.settled) \/ Len(stream'.runs) = LiveCap
       /\ t \in Range(stream.settled) =>
            ~Live(t)' /\ (t \in Range(stream'.settled) \/ Len(stream'.settled) = SettledCap)
<1>1. ForwardersOK /\ ChannelOK /\ [LiveNext]_liveVars => [S]_liveVars
  <2>. SUFFICES ASSUME ForwardersOK, ChannelOK, [LiveNext]_liveVars, NEW t \in GroupTurns
                PROVE  /\ Live(t) /\ ~Live(t)' => t \in Range(stream'.settled) \/ Len(stream'.runs) = LiveCap
                       /\ t \in Range(stream.settled) =>
                            ~Live(t)' /\ (t \in Range(stream'.settled) \/ Len(stream'.settled) = SettledCap)
    OBVIOUS
  <2>1. t # None
    BY LiveTurnsAssumption DEF Turns
  <2>2. (Live(t) <=> LiveIn(stream, t)) /\ (Live(t)' <=> LiveIn(stream', t))
    BY <2>1 DEF Live, LiveGroupTurns, LiveIn
  <2>3. SettleStep(stream, stream')
    BY ChannelKept
  <2>. QED BY <2>2, <2>3 DEF SettleStep
<1>. QED BY <1>1, ChannelInvariant, ForwardersInvariant, PTL DEF LiveSpec, GroupRunsSettle

-----------------------------------------------------------------------------
(* The texts *)

\* The numbers of a text are naturals; those of one text after another are the numbers of both.
LEMMA NumbersFacts ==
  ASSUME NEW x \in Seq(Turns \X Nat), NEW y \in Seq(Turns \X Nat)
  PROVE  Numbers(x) \subseteq Nat /\ Numbers(<< >>) = {} /\ Numbers(x \o y) = Numbers(x) \cup Numbers(y)
<1>1. DOMAIN x = 1 .. Len(x) /\ \A i \in 1 .. Len(x) : x[i] \in Turns \X Nat
  OBVIOUS
<1>2. \A i \in 1 .. Len(x) : x[i][2] \in Nat
  BY <1>1
<1>3. Numbers(x) \subseteq Nat /\ Numbers(<< >>) = {}
  BY <1>1, <1>2 DEF Numbers
<1>. DEFINE z == x \o y
<1>4. /\ DOMAIN z = 1 .. Len(x) + Len(y) /\ DOMAIN y = 1 .. Len(y) /\ Len(x) \in Nat /\ Len(y) \in Nat
      /\ \A i \in 1 .. Len(x) : z[i] = x[i]
      /\ \A i \in 1 .. Len(y) : z[Len(x) + i] = y[i]
  OBVIOUS
<1>. HIDE DEF z
<1>5. \A i \in DOMAIN z : i \in 1 .. Len(x) \/ (i - Len(x) \in 1 .. Len(y) /\ Len(x) + (i - Len(x)) = i)
  BY <1>4
<1>6. ASSUME NEW i \in DOMAIN z PROVE z[i][2] \in Numbers(x) \cup Numbers(y)
  <2>1. CASE i \in 1 .. Len(x)
    BY <1>1, <1>4, <2>1 DEF Numbers
  <2>2. CASE i - Len(x) \in 1 .. Len(y) /\ Len(x) + (i - Len(x)) = i
    <3>1. z[i] = y[i - Len(x)] /\ i - Len(x) \in DOMAIN y
      BY <1>4, <2>2
    <3>. QED BY <3>1 DEF Numbers
  <2>. QED BY <1>5, <2>1, <2>2
<1>7. ASSUME NEW i \in 1 .. Len(x) PROVE x[i][2] \in Numbers(z)
  <2>1. i \in DOMAIN z /\ z[i] = x[i]
    BY <1>4
  <2>. QED BY <2>1 DEF Numbers
<1>8. ASSUME NEW i \in 1 .. Len(y) PROVE y[i][2] \in Numbers(z)
  <2>1. Len(x) + i \in DOMAIN z
    BY <1>4
  <2>. QED BY <1>4, <2>1 DEF Numbers
<1>9. Numbers(z) \subseteq Numbers(x) \cup Numbers(y)
  BY <1>6 DEF Numbers
<1>10. Numbers(x) \cup Numbers(y) \subseteq Numbers(z)
  <2>1. \A n \in Numbers(x) : \E i \in 1 .. Len(x) : n = x[i][2]
    BY <1>1 DEF Numbers
  <2>2. \A n \in Numbers(y) : \E i \in 1 .. Len(y) : n = y[i][2]
    BY <1>4 DEF Numbers
  <2>. QED BY <1>7, <1>8, <2>1, <2>2
<1>. QED BY <1>3, <1>9, <1>10 DEF z

\* The numbers under way are those of the events; they are naturals.
LEMMA WaitingIs ==
  ASSUME NEW es \in Seq(Events), NEW t
  PROVE  /\ Waiting(es, t) \subseteq Nat
         /\ \A n : n \in Waiting(es, t) <=> \E i \in 1 .. Len(es) : es[i].run = t /\ n \in Numbers(es[i].text)
<1>1. DOMAIN es = 1 .. Len(es) /\ \A i \in 1 .. Len(es) : es[i] \in Events
  OBVIOUS
<1>2. \A i \in 1 .. Len(es) : es[i].text \in Seq(Turns \X Nat)
  BY <1>1 DEF Events
<1>3. \A i \in 1 .. Len(es) : Numbers(es[i].text) \subseteq Nat
  BY <1>2, NumbersFacts
<1>. QED BY <1>1, <1>3 DEF Waiting

\* An event is published.
LEMMA WaitingPublished ==
  ASSUME NEW es \in Seq(Events), NEW e \in Events, NEW t
  PROVE  Waiting(Append(es, e), t) = Waiting(es, t) \cup (IF e.run = t THEN Numbers(e.text) ELSE {})
<1>. DEFINE z == Append(es, e)
<1>1. /\ z \in Seq(Events) /\ Len(es) \in Nat /\ Len(z) = Len(es) + 1 /\ z[Len(es) + 1] = e
      /\ \A i \in 1 .. Len(es) : z[i] = es[i]
  OBVIOUS
<1>. HIDE DEF z
<1>2. \A i \in 1 .. Len(z) : i \in 1 .. Len(es) \/ i = Len(es) + 1
  BY <1>1
<1>3. \A i \in 1 .. Len(es) : i \in 1 .. Len(z)
  BY <1>1
<1>4. Len(es) + 1 \in 1 .. Len(z)
  BY <1>1
<1>5. ASSUME NEW n
      PROVE  n \in Waiting(z, t) <=> n \in Waiting(es, t) \/ (e.run = t /\ n \in Numbers(e.text))
  <2>1. n \in Waiting(z, t) <=> \E i \in 1 .. Len(z) : z[i].run = t /\ n \in Numbers(z[i].text)
    BY <1>1, WaitingIs
  <2>2. n \in Waiting(es, t) <=> \E i \in 1 .. Len(es) : es[i].run = t /\ n \in Numbers(es[i].text)
    BY WaitingIs
  <2>. QED BY <1>1, <1>2, <1>3, <1>4, <2>1, <2>2
<1>. QED BY <1>5 DEF z

\* The oldest event is taken off the line.
LEMMA WaitingDelivered ==
  ASSUME NEW es \in Seq(Events), NEW z \in Seq(Events), Len(es) \in Nat \ {0}, Len(z) = Len(es) - 1,
         \A i \in 1 .. Len(z) : z[i] = es[i + 1], NEW t
  PROVE  /\ Waiting(es, t) = Waiting(z, t) \cup (IF es[1].run = t THEN Numbers(es[1].text) ELSE {})
         /\ LineInOrder(es) => LineInOrder(z)
         /\ LineInOrder(es) /\ es[1].run = t => \A n \in Numbers(es[1].text), m \in Waiting(z, t) : n < m
<1>1. \A i \in 1 .. Len(es) : i = 1 \/ (i - 1 \in 1 .. Len(z) /\ (i - 1) + 1 = i)
  OBVIOUS
<1>2. \A i \in 1 .. Len(z) : i + 1 \in 1 .. Len(es)
  OBVIOUS
<1>3. 1 \in 1 .. Len(es)
  OBVIOUS
<1>4. ASSUME NEW n
      PROVE  n \in Waiting(es, t) <=> n \in Waiting(z, t) \/ (es[1].run = t /\ n \in Numbers(es[1].text))
  <2>1. n \in Waiting(z, t) <=> \E i \in 1 .. Len(z) : z[i].run = t /\ n \in Numbers(z[i].text)
    BY WaitingIs
  <2>2. n \in Waiting(es, t) <=> \E i \in 1 .. Len(es) : es[i].run = t /\ n \in Numbers(es[i].text)
    BY WaitingIs
  <2>3. ASSUME NEW i \in 1 .. Len(es), es[i].run = t, n \in Numbers(es[i].text)
        PROVE  n \in Waiting(z, t) \/ (es[1].run = t /\ n \in Numbers(es[1].text))
    <3>1. CASE i = 1
      BY <2>3, <3>1
    <3>2. CASE i # 1
      <4>1. i - 1 \in 1 .. Len(z) /\ (i - 1) + 1 = i
        BY <1>1, <3>2
      <4>2. z[i - 1] = es[i]
        BY <4>1
      <4>. QED BY <2>1, <2>3, <4>1, <4>2
    <3>. QED BY <3>1, <3>2
  <2>4. ASSUME NEW i \in 1 .. Len(z), z[i].run = t, n \in Numbers(z[i].text)
        PROVE  n \in Waiting(es, t)
    BY <1>2, <2>2, <2>4
  <2>. QED BY <1>3, <2>1, <2>2, <2>3, <2>4
<1>5. LineInOrder(es) => LineInOrder(z)
  <2>. SUFFICES ASSUME LineInOrder(es) PROVE LineInOrder(z)
    OBVIOUS
  <2>1. ASSUME NEW i \in 1 .. Len(z)
        PROVE  PieceOf(z[i].run, z[i].text) /\ (z[i].type # "progress" => z[i].text = << >>)
    BY <1>2 DEF LineInOrder
  <2>2. ASSUME NEW i \in 1 .. Len(z), NEW j \in 1 .. Len(z), i < j, z[i].run = z[j].run
        PROVE  \A n \in Numbers(z[i].text), m \in Numbers(z[j].text) : n < m
    <3>1. i + 1 \in 1 .. Len(es) /\ j + 1 \in 1 .. Len(es) /\ i + 1 < j + 1 /\ z[i] = es[i + 1] /\ z[j] = es[j + 1]
      BY <1>2, <2>2
    <3>2. es[i + 1].run = es[j + 1].run
      BY <2>2, <3>1
    <3>3. \A n \in Numbers(es[i + 1].text), m \in Numbers(es[j + 1].text) : n < m
      BY <3>1, <3>2 DEF LineInOrder
    <3>. QED BY <3>1, <3>3
  <2>. QED BY <2>1, <2>2 DEF LineInOrder
<1>6. ASSUME LineInOrder(es), es[1].run = t, NEW n \in Numbers(es[1].text), NEW m \in Waiting(z, t)
      PROVE  n < m
  <2>1. PICK i \in 1 .. Len(z) : z[i].run = t /\ m \in Numbers(z[i].text)
    BY WaitingIs
  <2>2. i + 1 \in 1 .. Len(es) /\ 1 < i + 1 /\ es[i + 1] = z[i]
    BY <1>2
  <2>. QED BY <1>3, <1>6, <2>1, <2>2 DEF LineInOrder
<1>. QED BY <1>4, <1>5, <1>6

\* The connection is lost.
LEMMA WaitingLost ==
  ASSUME NEW es \in Seq(Events), NEW z \in Seq(Events), Len(z) <= Len(es),
         \A i \in 1 .. Len(z) : z[i] = es[i]
  PROVE  /\ \A t : Waiting(z, t) \subseteq Waiting(es, t)
         /\ LineInOrder(es) => LineInOrder(z)
<1>1. \A i \in 1 .. Len(z) : i \in 1 .. Len(es)
  OBVIOUS
<1>2. ASSUME NEW t, NEW n \in Waiting(z, t) PROVE n \in Waiting(es, t)
  <2>1. PICK i \in 1 .. Len(z) : z[i].run = t /\ n \in Numbers(z[i].text)
    BY WaitingIs
  <2>. QED BY <1>1, <2>1, WaitingIs
<1>3. LineInOrder(es) => LineInOrder(z)
  BY <1>1 DEF LineInOrder
<1>. QED BY <1>2, <1>3

\* Numbers without a gap that end in o go on without one.
LEMMA WholeGrows ==
  ASSUME NEW X, X \subseteq Nat, Whole(X), NEW o \in Nat, NEW k \in Nat, k >= o,
         \A n \in X : n <= o, X = {} \/ o \in X
  PROVE  LET Y == X \cup (o + 1 .. k) IN Y # {} => Whole(Y) /\ k \in Y
<1>. DEFINE Y == X \cup (o + 1 .. k)
<1>1. Y # {} => k \in Y
  <2>1. CASE k = o
    <3>1. o + 1 .. k = {}
      BY <2>1
    <3>. QED BY <2>1, <3>1
  <2>2. CASE k # o
    <3>1. k \in o + 1 .. k
      BY <2>2
    <3>. QED BY <3>1
  <2>. QED BY <2>1, <2>2
<1>2. ASSUME NEW n \in Y, NEW m \in Y, NEW c \in n .. m
      PROVE  c \in Y
  <2>0. n \in Nat /\ m \in Nat /\ c \in Nat /\ n <= c /\ c <= m
    OBVIOUS
  <2>1. CASE c >= o + 1
    <3>1. m <= k
      BY <2>0
    <3>. QED BY <2>0, <2>1, <3>1
  <2>2. CASE c <= o
    <3>1. n \in X
      BY <2>0, <2>2
    <3>2. c \in n .. o
      BY <2>0, <2>2
    <3>. QED BY <3>1, <3>2 DEF Whole
  <2>. QED BY <2>0, <2>1, <2>2
<1>3. Whole(Y)
  BY <1>2 DEF Whole
<1>. QED BY <1>1, <1>3

\* What is shown are naturals, and nothing is among it.
LEMMA ShownFacts ==
  ASSUME ChannelOK, NEW t
  PROVE  /\ {} \in Shown(t) /\ \A R \in Shown(t) : R \subseteq Nat
         /\ \A r \in Range(stream.runs) : r.text \in Seq(Turns \X Nat) /\ (r.run = t => Numbers(r.text) \in Shown(t))
<1>1. \A r \in Range(stream.runs) : r.text \in Seq(Turns \X Nat)
  BY StreamParts DEF ChannelOK, RunRecords
<1>2. \A r \in Range(stream.runs) : Numbers(r.text) \subseteq Nat
  BY <1>1, NumbersFacts
<1>. QED BY <1>1, <1>2 DEF Shown

\* A turn's own step keeps the texts in order.
LEMMA SayingKeepsTexts ==
  ASSUME ForwardersOK, ChannelOK, TextInv, NEW t \in Turns, NEW type \in EventTypes, NEW k \in Nat,
         Says(t, type, k)
  PROVE  TextInv'
<1>. DEFINE o == engine[t].out
            e == Event(type, t, Text(t, o + 1, k))
<1>0. /\ o \in Nat /\ k >= o /\ (type # "progress" => k = o) /\ ~Over(t)
      /\ Over(t)' \/ engine'[t].out = k
      /\ \A u \in Turns \ {t} : engine'[u] = engine[u] /\ at'[u] = at[u]
      /\ stream' = stream /\ faults' = faults /\ connected' = connected
      /\ \/ line' = line /\ (k = o \/ ~connected)
         \/ connected /\ line' = Append(line, e)
      /\ line \in Seq(Events) /\ Len(line) \in Nat
  <2>1. o \in Nat
    BY DEF ForwardersOK, LiveTypes, Forwarder
  <2>2. line \in Seq(Events) /\ Len(line) \in Nat
    BY DEF ChannelOK
  <2>. HIDE DEF e
  <2>. QED BY <2>1, <2>2 DEF Says, e
<1>1. /\ EventOK(e) /\ PieceOf(e.run, e.text) /\ (e.type # "progress" => e.text = << >>)
      /\ e.text # << >> => e.run = t
      /\ Numbers(e.text) = o + 1 .. k /\ e \in Events
  <2>. HIDE DEF o
  <2>1. /\ EventOK(e) /\ PieceOf(e.run, e.text) /\ (e.type # "progress" => e.text = << >>)
        /\ e.text # << >> => e.run = t
        /\ Numbers(e.text) = o + 1 .. k
    BY <1>0, SaidEvent
  <2>. HIDE DEF e
  <2>. QED BY <2>1 DEF EventOK
<1>2. /\ faults = 0 => connected
      /\ LineInOrder(line)
      /\ \A r \in Range(stream.runs) : TextShown(r, faults = 0)
      /\ \A u \in Turns : \A R \in Shown(u) : InOrder(u, R)
  BY DEF TextInv
<1>. HIDE DEF o, e
<1>3. \A u : Shown(u)' = Shown(u)
  BY <1>0 DEF Shown
<1>4. \A u : \A R \in Shown(u) : R \subseteq Nat /\ {} \in Shown(u)
  BY ShownFacts
<1>5. Waiting(line, t) \subseteq Nat /\ \A n \in Waiting(line, t) : n <= o
  <2>1. InOrder(t, {})
    BY <1>2, <1>4, ShownFacts
  <2>. QED BY <1>0, <2>1, WaitingIs DEF InOrder, o
<1>6. CASE line' = line /\ (k = o \/ ~connected)
  <2>1. ASSUME NEW u \in Turns, NEW R \in Shown(u)
        PROVE  InOrder(u, R)'
    <3>1. InOrder(u, R)
      BY <1>2
    <3>2. CASE u # t
      BY <1>0, <1>6, <3>1, <3>2 DEF InOrder, Over
    <3>3. CASE u = t
      <4>1. /\ \A n \in R, m \in Waiting(line, t) : n < m
            /\ \A n \in R \cup Waiting(line, t) : n <= o
            /\ faults = 0 => /\ Whole(R \cup Waiting(line, t))
                             /\ R \cup Waiting(line, t) # {} => o \in R \cup Waiting(line, t)
        BY <1>0, <3>1, <3>3 DEF InOrder, o
      <4>2. R \subseteq Nat
        BY <1>4
      <4>3. ~Over(t)' => \A n \in R \cup Waiting(line, t) : n <= engine'[t].out
        BY <1>0, <1>5, <4>1, <4>2
      <4>4. faults = 0 => k = o
        BY <1>2, <1>6
      <4>. QED BY <1>0, <1>6, <3>3, <4>1, <4>3, <4>4 DEF InOrder
    <3>. QED BY <3>2, <3>3
  <2>. QED BY <1>0, <1>2, <1>3, <1>6, <2>1 DEF TextInv
<1>7. CASE line' = Append(line, e)
  <2>1. \A u : Waiting(line', u) = Waiting(line, u) \cup (IF e.run = u THEN Numbers(e.text) ELSE {})
    BY <1>0, <1>1, <1>7, WaitingPublished
  <2>2. Waiting(line', t) = Waiting(line, t) \cup (o + 1 .. k)
    <3>1. CASE e.text = << >>
      <4>1. Numbers(e.text) = {}
        BY <3>1 DEF Numbers
      <4>. QED BY <1>1, <2>1, <4>1
    <3>2. CASE e.text # << >>
      BY <1>1, <2>1, <3>2
    <3>. QED BY <3>1, <3>2
  <2>3. \A u : u # t => Waiting(line', u) = Waiting(line, u)
    <3>1. CASE e.text = << >>
      <4>1. Numbers(e.text) = {}
        BY <3>1 DEF Numbers
      <4>. QED BY <2>1, <4>1
    <3>2. CASE e.text # << >>
      BY <1>1, <2>1, <3>2
    <3>. QED BY <3>1, <3>2
  <2>4. LineInOrder(line')
    <3>1. /\ Len(line') = Len(line) + 1 /\ line'[Len(line) + 1] = e
          /\ \A i \in 1 .. Len(line) : line'[i] = line[i]
      BY <1>0, <1>1, <1>7
    <3>2. \A i \in 1 .. Len(line') : i \in 1 .. Len(line) \/ i = Len(line) + 1
      BY <1>0, <3>1
    <3>3. ASSUME NEW i \in 1 .. Len(line), line[i].run = e.run, NEW n \in Numbers(line[i].text),
                 NEW m \in Numbers(e.text)
          PROVE  n < m
      <4>1. e.text # << >>
        BY <3>3 DEF Numbers
      <4>2. n \in Waiting(line, t)
        BY <1>0, <1>1, <3>3, <4>1, WaitingIs
      <4>. QED BY <1>0, <1>1, <1>5, <3>3, <4>2
    <3>4. ASSUME NEW i \in 1 .. Len(line')
          PROVE  PieceOf(line'[i].run, line'[i].text) /\ (line'[i].type # "progress" => line'[i].text = << >>)
      BY <1>1, <1>2, <3>1, <3>2 DEF LineInOrder
    <3>5. ASSUME NEW i \in 1 .. Len(line'), NEW j \in 1 .. Len(line'), i < j, line'[i].run = line'[j].run,
                 NEW n \in Numbers(line'[i].text), NEW m \in Numbers(line'[j].text)
          PROVE  n < m
      <4>1. i \in 1 .. Len(line)
        BY <1>0, <3>1, <3>5
      <4>2. CASE j \in 1 .. Len(line)
        BY <1>2, <3>1, <3>5, <4>1, <4>2 DEF LineInOrder
      <4>3. CASE j = Len(line) + 1
        BY <3>1, <3>3, <3>5, <4>1, <4>3
      <4>. QED BY <3>2, <4>2, <4>3
    <3>. QED BY <3>4, <3>5 DEF LineInOrder
  <2>5. ASSUME NEW u \in Turns, NEW R \in Shown(u)
        PROVE  InOrder(u, R)'
    <3>1. InOrder(u, R)
      BY <1>2
    <3>2. CASE u # t
      BY <1>0, <2>3, <3>1, <3>2 DEF InOrder, Over
    <3>3. CASE u = t
      <4>. DEFINE X == R \cup Waiting(line, t)
                  Y == X \cup (o + 1 .. k)
      <4>1. /\ \A n \in R, m \in Waiting(line, t) : n < m
            /\ \A n \in X : n <= o
            /\ faults = 0 => Whole(X) /\ (X # {} => o \in X)
        BY <1>0, <3>1, <3>3 DEF InOrder, o
      <4>2. X \subseteq Nat /\ R \subseteq X /\ R \cup Waiting(line', t) = Y
        BY <1>4, <1>5, <2>2
      <4>. HIDE DEF X
      <4>3. \A n \in R, m \in Waiting(line', t) : n < m
        <5>. SUFFICES ASSUME NEW n \in R, NEW m \in Waiting(line', t) PROVE n < m
          OBVIOUS
        <5>1. n \in Nat /\ n <= o
          BY <4>1, <4>2
        <5>2. CASE m \in Waiting(line, t)
          BY <4>1, <5>2
        <5>3. CASE m \in o + 1 .. k
          BY <1>0, <5>1, <5>3
        <5>. QED BY <2>2, <5>2, <5>3
      <4>4. \A n \in Y : n <= k
        BY <1>0, <4>1, <4>2
      <4>5. faults = 0 => (Y # {} => Whole(Y) /\ k \in Y)
        <5>1. SUFFICES ASSUME faults = 0 PROVE Y # {} => Whole(Y) /\ k \in Y
          OBVIOUS
        <5>2. Whole(X) /\ (X = {} \/ o \in X)
          BY <4>1, <5>1
        <5>. QED BY <1>0, <4>1, <4>2, <5>2, WholeGrows
      <4>6. Y = {} => Whole(Y)
        BY DEF Whole
      <4>. HIDE DEF Y
      <4>. QED BY <1>0, <3>3, <4>2, <4>3, <4>4, <4>5, <4>6 DEF InOrder
    <3>. QED BY <3>2, <3>3
  <2>. QED BY <1>0, <1>2, <1>3, <2>4, <2>5 DEF TextInv
<1>. QED BY <1>0, <1>6, <1>7

\* A step of the renderer's own keeps them, and one of the connection.
LEMMA QuietKeepsTexts ==
  ASSUME ForwardersOK, ChannelOK, TextInv, Quiet, NoNewText(stream, stream'),
         line' \in Seq(Events), Len(line') <= Len(line), \A i \in 1 .. Len(line') : line'[i] = line[i],
         faults' = 0 => connected' /\ line' = line
  PROVE  TextInv'
<1>1. /\ LineInOrder(line)
      /\ \A r \in Range(stream.runs) : TextShown(r, faults = 0)
      /\ \A u \in Turns : \A R \in Shown(u) : InOrder(u, R)
  BY DEF TextInv
<1>2. /\ engine' = engine /\ \A t \in Turns : Over(t)' <=> Over(t)
      /\ faults \in Nat /\ (faults' = faults \/ faults' = faults + 1)
  BY LiveTurnsAssumption DEF Quiet, ForwardersOK, LiveTypes
<1>3. faults' = 0 => faults = 0
  BY <1>2
<1>4. (\A t : Waiting(line', t) \subseteq Waiting(line, t)) /\ LineInOrder(line')
  BY <1>1, WaitingLost DEF ChannelOK
<1>5. ASSUME NEW r \in Range(stream'.runs)
      PROVE  TextShown(r, faults' = 0)
  <2>1. CASE r \in Range(stream.runs)
    BY <1>1, <1>3, <2>1 DEF TextShown
  <2>2. CASE r.text = << >>
    <3>1. DOMAIN r.text = {}
      BY <2>2
    <3>. QED BY <3>1 DEF TextShown, Own, Rising, Gapless
  <2>. QED BY <2>1, <2>2 DEF NoNewText
<1>6. ASSUME NEW u, NEW R \in Shown(u)' PROVE R \in Shown(u)
  <2>1. Numbers(<< >>) = {}
    BY DEF Numbers
  <2>. QED BY <1>6, <2>1 DEF Shown, NoNewText
<1>7. ASSUME NEW u \in Turns, NEW R \in Shown(u)'
      PROVE  InOrder(u, R)'
  <2>1. InOrder(u, R)
    BY <1>1, <1>6, <1>7
  <2>2. \A n \in R, m \in Waiting(line', u) : n < m
    BY <1>4, <2>1 DEF InOrder
  <2>3. ~Over(u)' => \A n \in R \cup Waiting(line', u) : n <= engine'[u].out
    BY <1>2, <1>4, <2>1 DEF InOrder
  <2>4. faults' = 0 =>
          /\ Whole(R \cup Waiting(line', u))
          /\ ~Over(u)' /\ R \cup Waiting(line', u) # {} => engine'[u].out \in R \cup Waiting(line', u)
    BY <1>2, <1>3, <2>1 DEF InOrder
  <2>. QED BY <2>2, <2>3, <2>4 DEF InOrder
<1>. QED BY <1>4, <1>5, <1>7 DEF TextInv

\* What is left on the line when the oldest event is taken.
LEMMA RestInOrder ==
  ASSUME NEW Z, Z \subseteq Nat, NEW E, E \subseteq Nat, \A n \in E, m \in Z : n < m
  PROVE  /\ Whole(Z \cup E) => Whole(Z)
         /\ \A o \in Nat : (\A n \in Z \cup E : n <= o) /\ o \in Z \cup E /\ Z # {} => o \in Z
<1>1. ASSUME Whole(Z \cup E), NEW n \in Z, NEW m \in Z, NEW c \in n .. m
      PROVE  c \in Z
  <2>1. c \in Z \cup E
    BY <1>1 DEF Whole
  <2>2. c \notin E
    BY <1>1
  <2>. QED BY <2>1, <2>2
<1>2. ASSUME NEW o \in Nat, \A n \in Z \cup E : n <= o, o \in Z \cup E, Z # {}, o \in E
      PROVE  FALSE
  <2>1. PICK m \in Z : TRUE
    BY <1>2
  <2>2. o < m /\ m <= o
    BY <1>2, <2>1
  <2>. QED BY <2>1, <2>2
<1>. QED BY <1>1, <1>2 DEF Whole

\* One text after the other.
LEMMA TextGoesOn ==
  ASSUME NEW t, NEW x \in Seq(Turns \X Nat), NEW y \in Seq(Turns \X Nat), NEW exact \in BOOLEAN,
         Own(t, x), Rising(x), exact => Gapless(x), PieceOf(t, y),
         NEW W, Numbers(y) \subseteq W, \A n \in Numbers(x), m \in W : n < m,
         \A n \in Numbers(y), m \in W \ Numbers(y) : n < m,
         exact => Whole(Numbers(x) \cup W)
  PROVE  LET z == x \o y IN Own(t, z) /\ Rising(z) /\ (exact => Gapless(z))
<1>. DEFINE z == x \o y
            a == Len(x)
            b == Len(y)
<1>1. /\ a \in Nat /\ b \in Nat /\ DOMAIN x = 1 .. a /\ DOMAIN y = 1 .. b /\ DOMAIN z = 1 .. a + b
      /\ \A i \in 1 .. a : z[i] = x[i]
      /\ \A i \in 1 .. b : z[a + i] = y[i]
  OBVIOUS
<1>2. /\ \A i \in 1 .. a : x[i] \in Turns \X Nat /\ x[i][2] \in Nat
      /\ \A i \in 1 .. b : y[i] \in Turns \X Nat /\ y[i][2] \in Nat
  <2>1. /\ \A i \in 1 .. a : x[i] \in Turns \X Nat
        /\ \A i \in 1 .. b : y[i] \in Turns \X Nat
    OBVIOUS
  <2>2. \A p \in Turns \X Nat : p[2] \in Nat
    OBVIOUS
  <2>. QED BY <2>1, <2>2
<1>. HIDE DEF z, a, b
<1>3. \A i \in 1 .. a + b : i \in 1 .. a \/ (i - a \in 1 .. b /\ a + (i - a) = i)
  BY <1>1
<1>4. \A i \in 1 .. a + b : i - a \in 1 .. b => z[i] = y[i - a]
  BY <1>1, <1>3
<1>5. Own(t, z)
  <2>1. ASSUME NEW i \in 1 .. a + b PROVE z[i][1] = t
    <3>1. CASE i \in 1 .. a
      BY <1>1, <3>1 DEF Own
    <3>2. CASE i - a \in 1 .. b
      <4>1. y[i - a][1] = t
        BY <1>1, <3>2 DEF Own, PieceOf
      <4>. QED BY <1>4, <3>2, <4>1
    <3>. QED BY <1>3, <3>1, <3>2
  <2>. QED BY <1>1, <2>1 DEF Own
<1>6. \A i \in 1 .. a, j \in 1 .. b : x[i][2] < y[j][2]
  <2>1. \A i \in 1 .. a : x[i][2] \in Numbers(x)
    BY <1>1 DEF Numbers
  <2>2. \A j \in 1 .. b : y[j][2] \in W
    BY <1>1 DEF Numbers
  <2>. QED BY <2>1, <2>2
<1>7. Rising(z)
  <2>1. ASSUME NEW i \in 1 .. a + b, NEW j \in 1 .. a + b, i < j PROVE z[i][2] < z[j][2]
    <3>1. CASE j \in 1 .. a
      <4>1. i \in 1 .. a
        BY <1>1, <2>1, <3>1
      <4>. QED BY <1>1, <2>1, <3>1, <4>1 DEF Rising
    <3>2. CASE i \in 1 .. a /\ j - a \in 1 .. b
      BY <1>1, <1>4, <1>6, <3>2
    <3>3. CASE i - a \in 1 .. b /\ j - a \in 1 .. b
      <4>1. i - a < j - a
        BY <1>1, <2>1
      <4>2. y[i - a][2] < y[j - a][2]
        BY <1>1, <3>3, <4>1 DEF Rising, PieceOf
      <4>. QED BY <1>4, <3>3, <4>2
    <3>. QED BY <1>3, <3>1, <3>2, <3>3
  <2>. QED BY <1>1, <2>1 DEF Rising
<1>8. ASSUME exact, NEW i \in 1 .. a + b, i > 1
      PROVE  z[i][2] = z[i - 1][2] + 1
  <2>1. CASE i \in 1 .. a
    <3>1. i - 1 \in 1 .. a
      BY <1>1, <1>8, <2>1
    <3>. QED BY <1>1, <1>8, <2>1, <3>1 DEF Gapless
  <2>2. CASE i - a \in 1 .. b /\ i - a > 1
    <3>1. i - 1 \in 1 .. a + b /\ (i - 1) - a = (i - a) - 1 /\ (i - 1) - a \in 1 .. b
      BY <1>1, <2>2
    <3>2. y[i - a][2] = y[(i - a) - 1][2] + 1
      BY <1>1, <2>2 DEF Gapless, PieceOf
    <3>3. z[i] = y[i - a] /\ z[i - 1] = y[(i - a) - 1]
      <4>1. z[i - 1] = y[(i - 1) - a]
        BY <1>4, <3>1
      <4>. QED BY <1>4, <2>2, <3>1, <4>1
    <3>. QED BY <3>2, <3>3
  <2>3. CASE i - a = 1
    <3>1. a \in 1 .. a /\ 1 \in 1 .. b /\ i - 1 = a /\ i = a + 1
      BY <1>1, <1>8, <2>3
    <3>. DEFINE n == x[a][2]
                m == y[1][2]
    <3>2. z[i] = y[1] /\ z[i - 1] = x[a]
      BY <1>1, <3>1
    <3>3. n \in Nat /\ m \in Nat /\ n \in Numbers(x) /\ m \in Numbers(y) /\ n < m
      BY <1>1, <1>2, <1>6, <3>1 DEF Numbers
    <3>4. ASSUME NEW p \in 1 .. a PROVE x[p][2] <= n
      <4>1. CASE p = a
        BY <1>2, <3>1, <4>1
      <4>2. CASE p < a
        <5>1. x[p][2] < n
          BY <1>1, <3>1, <4>2 DEF Rising
        <5>. HIDE DEF n
        <5>. QED BY <1>2, <3>3, <5>1
      <4>. QED BY <1>1, <4>1, <4>2
    <3>5. ASSUME NEW p \in 1 .. b PROVE y[p][2] >= m
      <4>1. CASE p = 1
        BY <1>2, <3>1, <4>1
      <4>2. CASE p > 1
        <5>1. m < y[p][2]
          BY <1>1, <3>1, <4>2 DEF Rising, PieceOf
        <5>. HIDE DEF m
        <5>. QED BY <1>2, <3>3, <5>1
      <4>. QED BY <1>1, <4>1, <4>2
    <3>6. \A c \in Numbers(x) : c <= n
      BY <1>1, <3>4 DEF Numbers
    <3>7. \A c \in Numbers(y) : c >= m
      BY <1>1, <3>5 DEF Numbers
    <3>. HIDE DEF n, m
    <3>8. ASSUME n + 1 < m PROVE FALSE
      <4>1. n + 1 \in n .. m
        BY <3>3, <3>8
      <4>2. n + 1 \in Numbers(x) \cup W
        BY <1>8, <3>3, <4>1 DEF Whole
      <4>3. n + 1 \notin Numbers(x)
        BY <3>3, <3>6
      <4>4. n + 1 \notin Numbers(y)
        BY <3>3, <3>7, <3>8
      <4>5. m < n + 1
        BY <3>3, <4>2, <4>3, <4>4
      <4>. QED BY <3>3, <3>8, <4>5
    <3>9. m = n + 1
      BY <3>3, <3>8
    <3>. QED BY <3>2, <3>9 DEF n, m
  <2>. QED BY <1>1, <1>3, <1>8, <2>1, <2>2, <2>3
<1>9. exact => Gapless(z)
  BY <1>1, <1>8 DEF Gapless
<1>. QED BY <1>5, <1>7, <1>9 DEF z

\* A delivery keeps the texts: the run it is for goes on with the text of the event.
LEMMA DeliveryKeepsTexts ==
  ASSUME ForwardersOK, ChannelOK, TextInv, Quiet, Deliver
  PROVE  TextInv'
<1>0. PICK e : e = Head(line)
  OBVIOUS
<1>. DEFINE k == e.run
            E == Numbers(e.text)
<1>1. /\ LineInOrder(line) /\ (faults = 0 => connected)
      /\ \A r \in Range(stream.runs) : TextShown(r, faults = 0)
      /\ \A u \in Turns : \A R \in Shown(u) : InOrder(u, R)
  BY DEF TextInv
<1>2. /\ engine' = engine /\ \A t \in Turns : Over(t)' <=> Over(t)
      /\ faults' = faults /\ connected' = connected
      /\ \A t \in Turns : engine[t].out \in Nat
  BY DEF Quiet, Deliver, ForwardersOK, LiveTypes, Forwarder
<1>3. /\ Len(line) \in Nat \ {0} /\ e = line[1] /\ EventOK(e)
      /\ line' \in Seq(Events) /\ Len(line') = Len(line) - 1
      /\ \A i \in 1 .. Len(line') : line'[i] = line[i + 1]
      /\ StreamOK(stream')
      /\ IF e.type = "progress" THEN ProgressStep(stream, stream', e) ELSE NoNewText(stream, stream')
  BY <1>0, Delivered
<1>4. /\ e \in Events /\ e.text \in Seq(Turns \X Nat) /\ line \in Seq(Events)
      /\ e.type = "progress" => k \in Turns /\ k # None
  BY <1>3, LiveTurnsAssumption DEF EventOK, Events, ChannelOK, Turns
<1>5. PieceOf(k, e.text) /\ (e.type # "progress" => e.text = << >>) /\ E \subseteq Nat
  <2>1. 1 \in 1 .. Len(line)
    BY <1>3
  <2>. QED BY <1>1, <1>3, <1>4, <2>1, NumbersFacts DEF LineInOrder
<1>6. /\ \A t : Waiting(line, t) = Waiting(line', t) \cup (IF k = t THEN E ELSE {})
      /\ LineInOrder(line')
      /\ \A n \in E, m \in Waiting(line', k) : n < m
      /\ \A t : Waiting(line', t) \subseteq Nat
  <2>1. \A t : /\ Waiting(line, t) = Waiting(line', t) \cup (IF line[1].run = t THEN Numbers(line[1].text) ELSE {})
               /\ LineInOrder(line) => LineInOrder(line')
               /\ LineInOrder(line) /\ line[1].run = t =>
                    \A n \in Numbers(line[1].text), m \in Waiting(line', t) : n < m
    BY <1>3, <1>4, WaitingDelivered
  <2>2. \A t : Waiting(line', t) \subseteq Nat
    BY <1>3, WaitingIs
  <2>. QED BY <1>1, <1>3, <2>1, <2>2
<1>7. CASE e.type # "progress"
  <2>1. E = {} /\ NoNewText(stream, stream')
    BY <1>3, <1>5, <1>7 DEF Numbers
  <2>2. ASSUME NEW r \in Range(stream'.runs)
        PROVE  TextShown(r, faults' = 0)
    <3>1. CASE r \in Range(stream.runs)
      BY <1>1, <1>2, <3>1
    <3>2. CASE r.text = << >>
      <4>1. DOMAIN r.text = {}
        BY <3>2
      <4>. QED BY <4>1 DEF TextShown, Own, Rising, Gapless
    <3>. QED BY <2>1, <3>1, <3>2 DEF NoNewText
  <2>3. ASSUME NEW u, NEW R \in Shown(u)' PROVE R \in Shown(u)
    <3>1. Numbers(<< >>) = {}
      BY DEF Numbers
    <3>. QED BY <2>1, <2>3, <3>1 DEF Shown, NoNewText
  <2>4. ASSUME NEW u \in Turns, NEW R \in Shown(u)'
        PROVE  InOrder(u, R)'
    <3>1. InOrder(u, R)
      BY <1>1, <2>3, <2>4
    <3>2. Waiting(line', u) = Waiting(line, u)
      BY <1>6, <2>1
    <3>. QED BY <1>2, <3>1, <3>2 DEF InOrder
  <2>. QED BY <1>1, <1>2, <1>6, <2>2, <2>4 DEF TextInv
<1>8. CASE e.type = "progress"
  <2>1. ProgressStep(stream, stream', e) /\ k \in Turns
    BY <1>3, <1>4, <1>8
  <2>. DEFINE W == Waiting(line, k)
              Z == Waiting(line', k)
  <2>2. W = Z \cup E /\ Z \subseteq Nat /\ E \subseteq Nat /\ W \subseteq Nat
    BY <1>5, <1>6
  <2>3. \A u : u # k => Waiting(line', u) = Waiting(line, u)
    BY <1>6
  <2>4. \A R \in Shown(k) : InOrder(k, R)
    BY <1>1, <2>1
  <2>5. ASSUME NEW r \in Range(stream'.runs), r.run = k
        PROVE  /\ TextShown(r, faults = 0)
               /\ \E Q \in Shown(k) : Numbers(r.text) = Q \cup E
    <3>1. CASE r.text = e.text
      <4>1. TextShown(r, faults = 0)
        BY <1>5, <2>5, <3>1 DEF TextShown, PieceOf
      <4>2. {} \in Shown(k) /\ Numbers(r.text) = {} \cup E
        BY <3>1, ShownFacts
      <4>. QED BY <4>1, <4>2
    <3>2. CASE \E q \in Range(stream.runs) : q.run = k /\ r.text = q.text \o e.text
      <4>1. PICK q \in Range(stream.runs) : q.run = k /\ r.text = q.text \o e.text
        BY <3>2
      <4>. DEFINE Q == Numbers(q.text)
      <4>2. q.text \in Seq(Turns \X Nat) /\ Q \in Shown(k) /\ TextShown(q, faults = 0)
        BY <1>1, <4>1, ShownFacts
      <4>3. Numbers(r.text) = Q \cup E
        BY <1>4, <4>1, <4>2, NumbersFacts
      <4>4. InOrder(k, Q)
        BY <2>4, <4>2
      <4>5. (\A n \in Q, m \in W : n < m) /\ (faults = 0 => Whole(Q \cup W))
        BY <4>4 DEF InOrder
      <4>6. \A n \in E, m \in W \ E : n < m
        BY <1>6, <2>2
      <4>7. Own(k, q.text) /\ Rising(q.text) /\ (faults = 0 => Gapless(q.text))
        BY <4>1, <4>2 DEF TextShown
      <4>8. E \subseteq W
        BY <2>2
      <4>. HIDE DEF W
      <4>9. /\ Own(k, q.text \o e.text) /\ Rising(q.text \o e.text)
            /\ faults = 0 => Gapless(q.text \o e.text)
        <5>. DEFINE exact == faults = 0
        <5>1. /\ exact \in BOOLEAN /\ (exact => Gapless(q.text)) /\ (exact => Whole(Q \cup W))
          BY <4>5, <4>7
        <5>. HIDE DEF exact, k
        <5>2. /\ Own(k, q.text \o e.text) /\ Rising(q.text \o e.text)
              /\ exact => Gapless(q.text \o e.text)
          BY <1>4, <1>5, <4>2, <4>5, <4>6, <4>7, <4>8, <5>1, TextGoesOn
        <5>. QED BY <5>2 DEF exact
      <4>10. TextShown(r, faults = 0)
        BY <2>5, <4>1, <4>9 DEF TextShown
      <4>. QED BY <4>2, <4>3, <4>10
    <3>. QED BY <2>1, <2>5, <3>1, <3>2 DEF ProgressStep
  <2>6. ASSUME NEW r \in Range(stream'.runs), r.run # k
        PROVE  r \in Range(stream.runs)
    BY <2>1, <2>6 DEF ProgressStep
  <2>7. ASSUME NEW r \in Range(stream'.runs)
        PROVE  TextShown(r, faults' = 0)
    BY <1>1, <1>2, <2>5, <2>6
  <2>8. ASSUME NEW u \in Turns, u # k, NEW R \in Shown(u)'
        PROVE  InOrder(u, R)'
    <3>1. R \in Shown(u)
      BY <2>6, <2>8 DEF Shown
    <3>2. InOrder(u, R)
      BY <1>1, <2>8, <3>1
    <3>. QED BY <1>2, <2>3, <2>8, <3>2 DEF InOrder
  <2>9. ASSUME NEW R \in Shown(k)'
        PROVE  InOrder(k, R)'
    <3>. DEFINE o == engine[k].out
    <3>1. o \in Nat /\ (Over(k)' <=> Over(k)) /\ engine'[k].out = o
      BY <1>2, <2>1
    <3>2. CASE R = {}
      <4>1. InOrder(k, {})
        BY <2>4, ShownFacts
      <4>2. /\ ~Over(k) => \A n \in Z \cup E : n <= o
            /\ faults = 0 => Whole(Z \cup E) /\ (~Over(k) /\ Z \cup E # {} => o \in Z \cup E)
        BY <2>2, <4>1 DEF InOrder
      <4>3. \A n \in E, m \in Z : n < m
        BY <1>6
      <4>4. faults = 0 => Whole(Z)
        BY <2>2, <4>2, <4>3, RestInOrder
      <4>5. faults = 0 /\ ~Over(k) /\ Z # {} => o \in Z
        <5>1. \A x \in Nat : (\A n \in Z \cup E : n <= x) /\ x \in Z \cup E /\ Z # {} => x \in Z
          <6>. HIDE DEF Z, E
          <6>. QED BY <2>2, <4>3, RestInOrder
        <5>. QED BY <3>1, <4>2, <5>1
      <4>6. {} \cup Z = Z
        OBVIOUS
      <4>. HIDE DEF Z, E
      <4>. QED BY <1>2, <3>1, <3>2, <4>2, <4>4, <4>5, <4>6 DEF InOrder, Z
    <3>3. CASE \E Q \in Shown(k) : R = Q \cup E
      <4>1. PICK Q \in Shown(k) : R = Q \cup E
        BY <3>3
      <4>2. InOrder(k, Q)
        BY <2>4, <4>1
      <4>3. R \cup Z = Q \cup W
        BY <2>2, <4>1
      <4>4. \A n \in R, m \in Z : n < m
        <5>1. \A n \in Q, m \in W : n < m
          BY <4>2 DEF InOrder
        <5>. QED BY <1>6, <2>2, <4>1, <5>1
      <4>5. /\ ~Over(k) => \A n \in Q \cup W : n <= o
            /\ faults = 0 => Whole(Q \cup W) /\ (~Over(k) /\ Q \cup W # {} => o \in Q \cup W)
        BY <4>2 DEF InOrder
      <4>. HIDE DEF W, E
      <4>. QED BY <1>2, <3>1, <4>3, <4>4, <4>5 DEF InOrder
    <3>. QED BY <2>5, <2>9, <3>2, <3>3 DEF Shown
  <2>. QED BY <1>1, <1>2, <1>6, <2>7, <2>8, <2>9 DEF TextInv
<1>. QED BY <1>7, <1>8

\* Every step keeps the texts.
LEMMA TextsKept ==
  ASSUME ForwardersOK, ChannelOK, TextInv, [LiveNext]_liveVars
  PROVE  TextInv'
<1>0. line \in Seq(Events) /\ Len(line) \in Nat /\ line = line /\ faults \in Nat
  BY LiveTurnsAssumption DEF ChannelOK, ForwardersOK, LiveTypes
<1>1. CASE \E t \in Turns : Serve(t)
  <2>1. PICK t \in Turns, type \in EventTypes, k \in Nat : Says(t, type, k)
    BY <1>1, ServeSays
  <2>. QED BY <2>1, SayingKeepsTexts
<1>2. CASE ~ \E t \in Turns : Serve(t)
  <2>1. /\ Quiet
        /\ \/ line' = line /\ connected' = connected /\ StreamStep(stream, stream')
           \/ Deliver \/ Disconnect \/ Reconnect
    BY <1>2, OtherSteps DEF ForwardersOK
  <2>2. NoNewText(stream, stream)
    BY DEF NoNewText
  <2>3. faults = 0 => connected
    BY DEF TextInv
  <2>4. faults' = 0 => faults = 0
    BY <1>0, <2>1 DEF Quiet
  <2>5. CASE line' = line /\ connected' = connected /\ StreamStep(stream, stream')
    <3>1. NoNewText(stream, stream')
      BY <2>5 DEF StreamStep
    <3>. QED BY <1>0, <2>1, <2>3, <2>4, <2>5, <3>1, QuietKeepsTexts
  <2>6. CASE Deliver
    BY <2>1, <2>6, DeliveryKeepsTexts
  <2>7. CASE Disconnect
    <3>1. PICK n \in 0 .. Len(line) : line' = SubSeq(line, 1, n)
      BY <2>7 DEF Disconnect
    <3>2. faults' = faults + 1 /\ stream' = stream
      BY <2>7 DEF Disconnect
    <3>3. line' \in Seq(Events) /\ Len(line') <= Len(line) /\ \A i \in 1 .. Len(line') : line'[i] = line[i]
      BY <1>0, <3>1
    <3>4. faults' # 0
      BY <1>0, <3>2
    <3>. QED BY <2>1, <2>2, <3>2, <3>3, <3>4, QuietKeepsTexts
  <2>8. CASE Reconnect
    <3>1. stream' = stream /\ line' = line /\ connected' = TRUE
      BY <2>8 DEF Reconnect
    <3>. QED BY <1>0, <2>1, <2>2, <3>1, QuietKeepsTexts
  <2>. QED BY <2>1, <2>5, <2>6, <2>7, <2>8
<1>. QED BY <1>1, <1>2

\* Nothing has been said at first.
LEMMA TextsInitially == ASSUME LiveInit PROVE TextInv
<1>1. line = << >> /\ stream = EmptyStream /\ connected = TRUE /\ \A t \in Turns : engine[t] = Unheard
  BY DEF LiveInit
<1>2. stream.runs = << >> /\ Range(<< >>) = {} /\ Len(<< >>) = 0 /\ DOMAIN << >> = {}
  BY <1>1 DEF EmptyStream, Range
<1>3. \A t : Waiting(line, t) = {} /\ Shown(t) = {{}}
  BY <1>1, <1>2 DEF Waiting, Shown
<1>4. LineInOrder(line)
  BY <1>1, <1>2 DEF LineInOrder
<1>5. \A t \in Turns : InOrder(t, {})
  BY <1>3 DEF InOrder, Whole
<1>. QED BY <1>1, <1>2, <1>3, <1>4, <1>5 DEF TextInv

\* The invariant of the texts: what is shown, what is under way and what an engine has published
\* follow one another, and without a gap while the channel has not been disturbed.
THEOREM TextsInOrder == LiveSpec => []TextInv
<1>1. ForwardersOK /\ ChannelOK /\ TextInv /\ [LiveNext]_liveVars => TextInv'
  BY TextsKept
<1>. QED BY <1>1, TextsInitially, ChannelInvariant, ForwardersInvariant, PTL DEF LiveSpec

\* delta-forwarder.ts, turnStream.ts: the text of a live run is its own engine's, each delta once and in
\* order, and without a gap while the channel has not been disturbed.
THEOREM TextIsItsRuns == LiveSpec => []TextOfItsRun
<1>1. ChannelOK /\ TextInv => TextOfItsRun
  <2>. SUFFICES ASSUME ChannelOK, TextInv, NEW r \in Range(stream.runs)
                PROVE  /\ \A i \in DOMAIN r.text : r.text[i][1] = r.run
                       /\ \A i \in DOMAIN r.text : i > 1 =>
                            IF faults = 0 THEN r.text[i][2] = r.text[i - 1][2] + 1
                            ELSE r.text[i][2] > r.text[i - 1][2]
    BY DEF TextOfItsRun
  <2>1. r.text \in Seq(Turns \X Nat) /\ TextShown(r, faults = 0)
    BY ShownFacts DEF TextInv
  <2>2. \A i \in DOMAIN r.text : r.text[i][1] = r.run
    BY <2>1 DEF TextShown, Own
  <2>3. ASSUME NEW i \in DOMAIN r.text, i > 1
        PROVE  IF faults = 0 THEN r.text[i][2] = r.text[i - 1][2] + 1 ELSE r.text[i][2] > r.text[i - 1][2]
    <3>1. CASE faults = 0
      BY <2>1, <2>3, <3>1 DEF TextShown, Gapless
    <3>2. CASE faults # 0
      <4>1. DOMAIN r.text = 1 .. Len(r.text) /\ Len(r.text) \in Nat
        BY <2>1
      <4>2. i - 1 \in DOMAIN r.text /\ i - 1 < i
        BY <2>3, <4>1
      <4>3. r.text[i - 1][2] < r.text[i][2]
        BY <2>1, <4>2 DEF TextShown, Rising
      <4>4. \A j \in 1 .. Len(r.text) : r.text[j] \in Turns \X Nat
        BY <2>1
      <4>5. r.text[i - 1][2] \in Nat /\ r.text[i][2] \in Nat
        BY <4>1, <4>2, <4>4
      <4>. QED BY <3>2, <4>3, <4>5
    <3>. QED BY <3>1, <3>2
  <2>. QED BY <2>2, <2>3
<1>. QED BY <1>1, TextsInOrder, ChannelInvariant, PTL
=============================================================================

------------------------------ MODULE LiveTurns ------------------------------
(***************************************************************************)
(* Running turns as the operator sees them: from the engine's events       *)
(* through the delta forwarder (turns/delta-forwarder.ts), the bus and the *)
(* event channel (bus.ts, routes/events.ts, the desktop's startEventStream)*)
(* to the renderer's stream (TurnStream), the personal turn it has posted  *)
(* (App.tsx) and the group panel that reads the timeline besides           *)
(* (GroupsPanel.tsx, groups/store.ts, routes/groups.ts).                   *)
(*                                                                         *)
(* One workspace stays open, one group is shown.  The desktop never asks   *)
(* for what it missed (no Last-Event-ID): an event published while the     *)
(* channel is down is lost to it.                                          *)
(***************************************************************************)
EXTENDS TurnStream, FiniteSets

CONSTANTS
  PersonalTurns,  \* turns the operator posts in a session, one at a time
  GroupTurns,     \* turns that group messages spawn
  PositionOf,     \* the position of each turn
  Messages,       \* group messages the operator sends
  Mentions,       \* the turns each message spawns, in order
  FirstMembers,   \* the roster of the group at first
  Joining,        \* positions POST /groups/:ref/members is called for, once each
  MaxDeltas,      \* bound: model deltas of one engine
  ForwardCap,     \* DEFAULT_BUFFER_CAP_BYTES, every delta counting one
  MaxReads,       \* GROUP_RECONCILE_MAX_READS
  MaxFaults       \* bound: lost connections and failed timeline reads

Turns == PersonalTurns \cup GroupTurns

ASSUME LiveTurnsAssumption ==
  /\ PersonalTurns \cap GroupTurns = {} /\ None \notin Turns
  /\ DOMAIN PositionOf = Turns
  /\ Mentions \in [Messages -> Seq(GroupTurns)]
  /\ MaxDeltas \in Nat /\ ForwardCap \in Nat \ {0} /\ MaxReads \in Nat \ {0} /\ MaxFaults \in Nat

VARIABLES
  at,        \* where the server is with each turn
  record,    \* the stored record of each turn
  engine,    \* what each engine has emitted and its forwarder holds
  queue,     \* the turns each message has still to run
  roster,    \* group.json: the members
  adding,    \* addMember calls: the roster each has read
  line,      \* events published and not yet delivered
  connected, \* the event channel is up
  faults,    \* lost connections and failed reads so far
  stream,    \* the renderer's turn stream
  post,      \* the personal POST that is unanswered, or answered and not yet seen
  sent,      \* messages sent
  seeding,   \* the message whose 202 is under way
  load,      \* the latest timeline request: who asked, and its answer once read
  timeline,  \* the turns the timeline shown has as running
  hint,      \* a terminal event has scheduled a reload
  reads      \* polls under the present signature

server == <<at, record, engine, queue>>
group == <<roster, adding>>
channel == <<line, connected>>
panel == <<sent, seeding, load, timeline, hint, reads>>
liveVars == <<at, record, engine, queue, roster, adding, line, connected, faults,
          stream, post, sent, seeding, load, timeline, hint, reads>>

\* An engine and its forwarder before the first event.
Unheard == [emitted |-> 0, out |-> 0, held |-> 0, timer |-> FALSE,
            capped |-> FALSE, trusted |-> FALSE, started |-> FALSE]

LiveInit ==
  /\ at = [t \in Turns |-> "new"]
  /\ record = [t \in Turns |-> "none"]
  /\ engine = [t \in Turns |-> Unheard]
  /\ queue = [m \in Messages |-> << >>]
  /\ roster = FirstMembers /\ adding = [p \in Joining |-> None]
  /\ line = << >> /\ connected = TRUE /\ faults = 0
  /\ stream = EmptyStream /\ post = None
  /\ sent = {} /\ seeding = None /\ load = None /\ timeline = {}
  /\ hint = FALSE /\ reads = 0

-----------------------------------------------------------------------------
(* The delta forwarder and the bus *)

\* groupTag: a group turn's events carry its attribution; turn.indeterminate carries no run id.
Event(type, t, text) ==
  [type |-> type, turn |-> IF t \in GroupTurns THEN t ELSE None,
   run |-> IF type = "indeterminate" THEN None ELSE t,
   position |-> PositionOf[t], text |-> text]

Publish(e) ==
  /\ line' = IF connected THEN Append(line, e) ELSE line
  /\ UNCHANGED connected

\* Deltas from first to last of a turn, as one text.
Text(t, first, last) == [i \in 1..(last - first + 1) |-> <<t, first + i - 1>>]

Held(t) == Text(t, engine[t].out + 1, engine[t].out + engine[t].held)

\* Variant: what is published is not cleared (refuted by TextOfItsRun).
FlushedKept(f) == [f EXCEPT !.timer = FALSE]

Flushed(f) == [f EXCEPT !.out = @ + f.held, !.held = 0, !.timer = FALSE]

PublishHeld(t) ==
  IF engine[t].held = 0 THEN UNCHANGED channel ELSE Publish(Event("progress", t, Held(t)))

EngineStarts(t) ==
  /\ at[t] = "begun"
  /\ at' = [at EXCEPT ![t] = "streaming"]
  /\ engine' = [engine EXCEPT ![t].started = TRUE]
  /\ Publish(Event("progress", t, << >>))
  /\ UNCHANGED <<record, queue, group, faults, stream, post, panel>>

\* A delta is held and flushed at once or by the timer, as the time since the last flush says.
DeltaHeld(t) ==
  LET f == [engine[t] EXCEPT !.emitted = @ + 1, !.held = @ + 1] IN
  /\ ~engine[t].capped
  /\ engine[t].out + engine[t].held + 1 < ForwardCap
  /\ \/ engine' = [engine EXCEPT ![t] = [f EXCEPT !.timer = TRUE]] /\ UNCHANGED channel
     \/ /\ engine' = [engine EXCEPT ![t] = Flushed(f)]
        /\ Publish(Event("progress", t, Text(t, f.out + 1, f.out + f.held)))

Cut(f) == [f EXCEPT !.emitted = @ + 1, !.capped = TRUE]

\* The delta that would reach the cap is dropped, what is held goes out; later deltas are dropped.
DeltaCapped(t) ==
  LET f == engine[t] IN
  /\ f.capped \/ f.out + f.held + 1 >= ForwardCap
  /\ engine' = [engine EXCEPT ![t] = Cut(IF f.capped THEN f ELSE Flushed(f))]
  /\ IF f.capped THEN UNCHANGED channel ELSE PublishHeld(t)

EngineDelta(t) ==
  /\ at[t] = "streaming" /\ engine[t].emitted < MaxDeltas
  /\ DeltaHeld(t) \/ DeltaCapped(t)
  /\ UNCHANGED <<at, record, queue, group, faults, stream, post, panel>>

\* Whenever it was set: also after the turn has ended without a terminal.
FlushTimer(t) ==
  /\ engine[t].timer
  /\ engine' = [engine EXCEPT ![t] = IF at[t] = "done" THEN Unheard ELSE Flushed(@)]
  /\ PublishHeld(t)
  /\ UNCHANGED <<at, record, queue, group, faults, stream, post, panel>>

\* Variant: the forwarder hears of the terminal without flushing (refuted by ForwardedComplete).
EngineTerminalUnflushed(t) ==
  /\ engine' = [engine EXCEPT ![t].trusted = TRUE, ![t].timer = FALSE]
  /\ UNCHANGED channel

\* A trusted terminal flushes and stops the timer; it is published by the route, later.
EngineTerminal(t) ==
  /\ engine' = [engine EXCEPT ![t] = [Flushed(@) EXCEPT !.trusted = TRUE]]
  /\ PublishHeld(t)

(***************************************************************************)
(* The driver settles, with a trusted terminal or indeterminate, which the *)
(* forwarder never hears.  finish stores the outcome, or throws and leaves *)
(* the record running under a key that nobody releases.  Until finish ends *)
(* nobody can tell this from an engine that is still silent.               *)
(***************************************************************************)
EngineEnds(t) ==
  /\ \/ at[t] = "streaming" /\ EngineTerminal(t)
     \/ at[t] \in {"begun", "streaming"} /\ UNCHANGED <<engine, channel>>
  /\ at' = [at EXCEPT ![t] = "ended"]
  /\ \E stored \in {"terminal", "running"} : record' = [record EXCEPT ![t] = stored]
  /\ UNCHANGED <<queue, group, faults, stream, post, panel>>

-----------------------------------------------------------------------------
(* The routes around a turn *)

Popped(t) ==
  [m \in Messages |-> IF queue[m] # << >> /\ Head(queue[m]) = t THEN Tail(queue[m]) ELSE queue[m]]

\* A personal turn is answered; the loop of a message goes on to its next turn.  A forwarder
\* that holds nothing is no more.
Answered(t, status) ==
  /\ at' = [at EXCEPT ![t] = "done"]
  /\ queue' = Popped(t)
  /\ engine' = [engine EXCEPT ![t] = IF @.timer THEN @ ELSE Unheard]
  /\ post' = IF t \in GroupTurns THEN post
             ELSE [post EXCEPT !.answer = [status |-> status,
                                           run |-> IF engine[t].started THEN t ELSE None]]

Due(t) ==
  \/ at[t] = "asked"
  \/ at[t] = "new" /\ \E m \in Messages : queue[m] # << >> /\ Head(queue[m]) = t

Begin(t) ==
  /\ Due(t)
  /\ at' = [at EXCEPT ![t] = "begun"]
  /\ record' = [record EXCEPT ![t] = "running"]
  /\ UNCHANGED <<engine, queue, group, channel, faults, stream, post, panel>>

\* executeTurn throws: a personal POST is answered with an error and nothing is published,
\* a group's loop publishes turn.indeterminate (group_spawn_failed).
Throws(t) ==
  /\ Answered(t, "error")
  /\ IF t \in GroupTurns THEN Publish(Event("indeterminate", t, << >>)) ELSE UNCHANGED channel

\* begin may leave a record that no active key guards; the next history marks it interrupted.
BeginFails(t) ==
  /\ Due(t)
  /\ \E left \in {"none", "orphan"} : record' = [record EXCEPT ![t] = left]
  /\ Throws(t)
  /\ UNCHANGED <<group, faults, stream, panel>>

\* The event follows the stored record; after a finish that threw there is none.
Settles(t) ==
  /\ at[t] = "ended"
  /\ \/ record[t] # "terminal" /\ Throws(t)
     \/ /\ record[t] = "terminal"
        /\ Publish(Event(IF engine[t].trusted THEN "terminal" ELSE "indeterminate", t, << >>))
        /\ Answered(t, "ok")
  /\ UNCHANGED <<record, group, faults, stream, panel>>

\* handleGroupTurnPost: the message is stored if all it mentions are members; the 202 leaves
\* and the loop over its turns starts.
SendMessage(m) ==
  /\ m \notin sent /\ seeding = None
  /\ \A t \in Range(Mentions[m]) : PositionOf[t] \in roster
  /\ sent' = sent \cup {m} /\ seeding' = m
  /\ queue' = [queue EXCEPT ![m] = Mentions[m]]
  /\ UNCHANGED <<at, record, engine, group, channel, faults, stream, post, load, timeline, hint, reads>>

\* addMember reads the roster, awaits, and writes what it has read and the new member.
AddRead(p) ==
  /\ adding[p] = None /\ p \notin roster
  /\ adding' = [adding EXCEPT ![p] = roster]
  /\ UNCHANGED <<server, roster, channel, faults, stream, post, panel>>

AddWrite(p) ==
  /\ adding[p] \notin {None, {}}
  /\ roster' = adding[p] \cup {p}
  /\ adding' = [adding EXCEPT ![p] = {}]
  /\ UNCHANGED <<server, channel, faults, stream, post, panel>>

-----------------------------------------------------------------------------
(* The event channel *)

LiveGroupTurns(s) == {r.turn : r \in Range(s.runs)} \ {None}

\* What the panel polls for: live runs of the group and running records of its timeline.
Signature(s, tl) == ({"live"} \X LiveGroupTurns(s)) \cup ({"persisted"} \X tl)

\* A changed signature starts a new chain of polls.
Renders(s, tl, n) ==
  /\ stream' = s /\ timeline' = tl
  /\ reads' = IF Signature(s, tl) = Signature(stream, timeline) THEN n ELSE 0

Deliver ==
  /\ line # << >>
  /\ line' = Tail(line)
  /\ Renders(ApplyTurnEvent(stream, Head(line)), timeline, reads)
  /\ hint' = (hint \/ (Head(line).type # "progress" /\ Head(line).turn # None))
  /\ UNCHANGED <<server, group, connected, faults, post, sent, seeding, load>>

\* The connection ends: part of what was under way arrives no more.
Disconnect ==
  /\ connected /\ faults < MaxFaults
  /\ connected' = FALSE /\ faults' = faults + 1
  /\ \E n \in 0..Len(line) : line' = SubSeq(line, 1, n)
  /\ UNCHANGED <<server, group, stream, post, panel>>

Reconnect ==
  /\ ~connected
  /\ connected' = TRUE
  /\ UNCHANGED <<server, group, line, faults, stream, post, panel>>

-----------------------------------------------------------------------------
(* The renderer *)

\* createTurn: one personal POST at a time (turnBusy).
CreateTurn(t) ==
  /\ post = None /\ at[t] = "new"
  /\ at' = [at EXCEPT ![t] = "asked"]
  /\ post' = [turn |-> t, answer |-> None]
  /\ stream' = BeginPending(stream, PositionOf[t])
  /\ UNCHANGED <<record, engine, queue, group, channel, faults, panel>>

PostReturns ==
  /\ post # None /\ post.answer # None
  /\ Renders(IF post.answer.status = "ok"
             THEN SettlePending(stream, post.answer.run, PositionOf[post.turn])
             ELSE CancelPending(stream), timeline, reads)
  /\ post' = None
  /\ UNCHANGED <<server, group, channel, faults, sent, seeding, load, hint>>

\* Selecting or rotating a session clears the personal lane, whatever is under way in it.
SelectSession ==
  /\ stream.pending # None \/ \E r \in Range(stream.runs) : ~IsGroupRun(r)
  /\ Renders(ClearPersonal(stream), timeline, reads)
  /\ UNCHANGED <<server, group, channel, faults, post, sent, seeding, load, hint>>

\* handleGroupTimeline reads the members, their histories (which mark orphans) and the messages.
Members == {t \in GroupTurns : PositionOf[t] \in roster}

\* A request makes every earlier one stale.  Its answer arrives later, or it fails.
LoadTimeline(by) ==
  LET healed == [t \in Turns |-> IF t \in Members /\ record[t] = "orphan" THEN "terminal" ELSE record[t]]
  IN
  \/ /\ record' = healed
     /\ load' = [by |-> by, answer |-> [ended |-> {t \in Members : healed[t] = "terminal"},
                                       running |-> {t \in Members : healed[t] = "running"}]]
     /\ UNCHANGED faults
  \/ /\ faults < MaxFaults /\ faults' = faults + 1
     /\ load' = [by |-> by, answer |-> None]
     /\ UNCHANGED record

\* beginGroupRun for one turn of a message after the other.
Seeded(s, turns) ==
  LET after[n \in 0..Len(turns)] ==
        IF n = 0 THEN s ELSE BeginGroupRun(after[n - 1], turns[n], PositionOf[turns[n]])
  IN  after[Len(turns)]

\* The 202: its turns are seeded, the timeline is read.
MessageAnswered ==
  /\ seeding # None
  /\ Renders(Seeded(stream, Mentions[seeding]), timeline, reads)
  /\ seeding' = None
  /\ LoadTimeline("send")
  /\ UNCHANGED <<at, engine, queue, group, channel, post, sent, hint>>

HintFires ==
  /\ hint
  /\ hint' = FALSE
  /\ LoadTimeline("hint")
  /\ UNCHANGED <<at, engine, queue, group, channel, stream, post, sent, seeding, timeline, reads>>

Polling == load # None /\ load.by = "poll"

\* Variant: one read per signature (refuted by GroupRunsConverge).
PollOnce ==
  /\ Signature(stream, timeline) # {} /\ reads = 0
  /\ reads' = reads + 1
  /\ LoadTimeline("poll")
  /\ UNCHANGED <<at, engine, queue, group, channel, stream, post, sent, seeding, timeline, hint>>

\* Every second, one read after the other of a chain, MaxReads of them.
Poll ==
  /\ Signature(stream, timeline) # {} /\ reads < MaxReads
  /\ reads > 0 => ~Polling
  /\ reads' = reads + 1
  /\ LoadTimeline("poll")
  /\ UNCHANGED <<at, engine, queue, group, channel, stream, post, sent, seeding, timeline, hint>>

\* An answer replaces the timeline; a status other than 200 clears it, no answer leaves it.
TimelineArrives ==
  /\ load # None
  /\ IF load.answer = None THEN \E shown \in {timeline, {}} : Renders(stream, shown, reads)
     ELSE Renders(Reconcile(stream, load.answer.ended), load.answer.running, reads)
  /\ load' = None
  /\ UNCHANGED <<server, group, channel, faults, post, sent, seeding, hint>>

-----------------------------------------------------------------------------

Serve(t) == \/ Begin(t) \/ BeginFails(t) \/ EngineStarts(t) \/ EngineDelta(t) \/ FlushTimer(t)
            \/ EngineEnds(t) \/ Settles(t)

LiveNext ==
  \/ \E t \in Turns : Serve(t)
  \/ \E t \in PersonalTurns : CreateTurn(t)
  \/ \E m \in Messages : SendMessage(m)
  \/ \E p \in Joining : AddRead(p) \/ AddWrite(p)
  \/ Deliver \/ Disconnect \/ Reconnect
  \/ PostReturns \/ SelectSession \/ MessageAnswered \/ HintFires \/ Poll
  \/ TimelineArrives

LiveSpec == LiveInit /\ [][LiveNext]_liveVars

\* A poll is due every second, and a request that was sent is answered or fails.
Fairness == WF_liveVars(Poll) /\ WF_liveVars(TimelineArrives)

FairLiveSpec == LiveSpec /\ Fairness

-----------------------------------------------------------------------------
(* Properties *)

Live(t) == t \in LiveGroupTurns(stream)

Forwarder == [emitted : Nat, out : Nat, held : Nat, timer : BOOLEAN, capped : BOOLEAN,
              trusted : BOOLEAN, started : BOOLEAN]

LiveTypes ==
  /\ at \in [Turns -> {"new", "asked", "begun", "streaming", "ended", "done"}]
  /\ record \in [Turns -> {"none", "running", "orphan", "terminal"}]
  /\ engine \in [Turns -> Forwarder]
  /\ reads \in 0..MaxReads /\ faults \in 0..MaxFaults

(***************************************************************************)
(* delta-forwarder.ts:25: when a trusted terminal is published, all the    *)
(* engine wrote has been published before it and in order, except for what *)
(* the cap cut off, and nothing is left that a timer could send later.     *)
(***************************************************************************)
ForwardedComplete ==
  \A t \in Turns :
    /\ engine[t].out < ForwardCap
    /\ engine[t].trusted =>
         /\ engine[t].held = 0 /\ ~engine[t].timer
         /\ engine[t].capped \/ engine[t].out = engine[t].emitted

(***************************************************************************)
(* The text of a live run is a piece of its own engine's output, each delta*)
(* once and in order, whatever runs overlap; with an unbroken channel it   *)
(* has no gap.                                                             *)
(***************************************************************************)
TextOfItsRun ==
  \A r \in Range(stream.runs) :
    /\ \A i \in DOMAIN r.text : r.text[i][1] = r.run
    /\ \A i \in DOMAIN r.text : i > 1 =>
         IF faults = 0 THEN r.text[i][2] = r.text[i - 1][2] + 1 ELSE r.text[i][2] > r.text[i - 1][2]

(***************************************************************************)
(* App.tsx clearPersonalTurnState: "group convergence is global".  A group *)
(* run disappears only by being settled, by its own terminal event or by   *)
(* the timeline, or as the oldest of too many; and one known to have       *)
(* settled is never shown as running again, in whichever order its 202,    *)
(* its events and the timeline arrive, until as many settled after it as   *)
(* the stream remembers.                                                   *)
(***************************************************************************)
GroupRunsSettle ==
  [][\A t \in GroupTurns :
       /\ Live(t) /\ ~Live(t)' => t \in Range(stream'.settled) \/ Len(stream'.runs) = LiveCap
       /\ t \in Range(stream.settled) =>
            ~Live(t)' /\ (t \in Range(stream'.settled) \/ Len(stream'.settled) = SettledCap)]_liveVars

(***************************************************************************)
(* GroupsPanel.tsx:242: a member's turn that has ended is not shown as     *)
(* running forever, although its terminal event may be lost, if a poll is  *)
(* left and no more reads fail (a read that a later one overtakes counts   *)
(* as a poll) and its position is still on the roster.                     *)
(***************************************************************************)
GroupRunsConverge ==
  \A t \in GroupTurns :
    /\ Live(t) /\ record[t] = "terminal" /\ PositionOf[t] \in roster
    /\ reads < MaxReads /\ faults = MaxFaults
    ~> ~Live(t) \/ PositionOf[t] \notin roster
=============================================================================

---------------------------- MODULE SessionMount ----------------------------
(***************************************************************************)
(* Which conversation is on the screen: the selected position of           *)
(* apps/desktop/renderer/src/App.tsx, the session mounted for it, the list *)
(* of its sessions and the turns shown, and the calls to the control plane *)
(* (routes/sessions.ts) whose answers change them.  Answers arrive in any  *)
(* order; the handlers compare the selection they were asked for with the  *)
(* one there is -- loadSessions and loadTurnHistory do, createSession,     *)
(* ensureActiveSession and rotateSession do not.                           *)
(***************************************************************************)
EXTENDS Naturals, Sequences, FiniteSets, SequencesExt

CONSTANTS
  Seats,       \* positions
  Rooms,       \* ids of sessions
  FirstChains, \* the sessions there are at first
  MaxAsks,     \* bound of the model: calls under way
  Nobody       \* null

\* A session is of one position (sessions/store.ts keeps it below the directory of its position).
ASSUME MountAssumption ==
  /\ FirstChains \in [Seats -> Seq(Rooms)]
  /\ \A p, q \in Seats : p # q => ToSet(FirstChains[p]) \cap ToSet(FirstChains[q]) = {}
  /\ Nobody \notin Seats

VARIABLES
  chosen,      \* selectedId and its ref
  mounted,     \* selectedSessionId and its ref
  listed,      \* sessions: the sessions of a position as they were answered, the active one last
  turnsOf,     \* turns: the session whose turns are on the screen, or Nobody
  sessionBusy,
  asks,        \* the calls under way: what, where they are, for whom, and the answer
  chain,       \* control plane: the sessions of each position, each rotated to the next
  strayed      \* observation: a session was mounted for a position no longer selected

mountVars == <<chosen, mounted, listed, turnsOf, sessionBusy, asks, chain, strayed>>

Slots == 1 .. MaxAsks
Free == [what |-> "none", at |-> "free", seat |-> Nobody, room |-> Nobody, answer |-> <<>>]

MountInit ==
  /\ chosen = Nobody /\ mounted = Nobody /\ turnsOf = Nobody
  /\ listed = <<>> /\ sessionBusy = FALSE
  /\ asks = [i \in Slots |-> Free]
  /\ chain = FirstChains
  /\ strayed = FALSE

Ask(what, seat, room) ==
  [what |-> what, at |-> "sent", seat |-> seat, room |-> room, answer |-> <<>>]

\* Calls that set sessionBusy go on with another call.
Holding(i) == asks[i].what \in {"ensure", "mount", "create", "rotate", "reload"}
FreeSlots == {i \in Slots : asks[i] = Free}
Room(n) == Cardinality(FreeSlots) >= n + Cardinality({i \in Slots : Holding(i)})

\* table with the calls of new in free slots.
FreeInOrder(table) == SetToSortSeq({i \in Slots : table[i] = Free}, <)

WithAsks(table, new) ==
  LET free == FreeInOrder(table)
  IN [i \in Slots |->
        IF \E n \in 1..Len(new) : free[n] = i THEN new[CHOOSE n \in 1..Len(new) : free[n] = i]
        ELSE table[i]]

\* The effect on [selectedId, selectedSessionId]: the turns of a mounted session are loaded.
History(seat, room) == IF room = Nobody THEN <<>> ELSE <<Ask("history", seat, room)>>

Active(sessions) == IF sessions = <<>> THEN Nobody ELSE Last(sessions)

-----------------------------------------------------------------------------
(* The operator *)

Clears(p) ==
  /\ chosen' = p /\ mounted' = Nobody /\ listed' = <<>> /\ turnsOf' = Nobody
  /\ strayed' = FALSE

\* selectPosition: the effects on selectedId load the sessions of another position.
SelectPosition ==
  /\ Room(1)
  /\ \E p \in Seats :
       /\ Clears(p)
       /\ asks' = WithAsks(asks, IF p = chosen THEN <<>> ELSE <<Ask("list", p, Nobody)>>)
  /\ UNCHANGED <<sessionBusy, chain>>

\* openConversation: selectPosition, then ensureActiveSession.
OpenConversation ==
  /\ Room(3)
  /\ \E p \in Seats :
       /\ Clears(p)
       /\ asks' = WithAsks(asks, (IF p = chosen THEN <<>> ELSE <<Ask("list", p, Nobody)>>)
                                 \o <<Ask("ensure", p, Nobody)>>)
  /\ sessionBusy' = TRUE
  /\ UNCHANGED chain

SelectSession ==
  /\ ~ sessionBusy /\ Room(1)
  /\ \E room \in ToSet(listed) \ {mounted} :
       /\ mounted' = room
       /\ asks' = WithAsks(asks, History(chosen, room))
  /\ turnsOf' = Nobody
  /\ UNCHANGED <<chosen, listed, sessionBusy, chain, strayed>>

\* createSession and rotateSession: one button, by whether an active session is listed.
NewSession ==
  /\ chosen # Nobody /\ ~ sessionBusy /\ Room(2)
  /\ LET what == IF listed = <<>> THEN "create" ELSE "rotate"
     IN asks' = WithAsks(asks, <<Ask(what, chosen, Active(listed))>>)
  /\ sessionBusy' = TRUE
  /\ UNCHANGED <<chosen, mounted, listed, turnsOf, chain, strayed>>

-----------------------------------------------------------------------------
(* The control plane *)

Successor(room) ==
  UNION {{chain[p][n + 1] : n \in {k \in 1 .. Len(chain[p]) - 1 : chain[p][k] = room}} :
         p \in Seats}

Unused == Rooms \ UNION {ToSet(chain[p]) : p \in Seats}

Responds(i, answer) == asks' = [asks EXCEPT ![i].at = "answered", ![i].answer = answer]

\* GET /sessions; POST /sessions, refused with 409 where one is active; POST
\* /sessions/:id/rotate, answered with the successor there is or with a new one.
Handle(i) ==
  /\ asks[i].at = "sent"
  /\ LET p == asks[i].seat
         what == asks[i].what
     IN \/ what \in {"list", "ensure", "reload"} /\ Responds(i, chain[p]) /\ UNCHANGED chain
        \/ /\ what \in {"create", "mount"} /\ chain[p] = <<>>
           /\ \E r \in Unused : chain' = [chain EXCEPT ![p] = <<r>>] /\ Responds(i, <<r>>)
        \/ /\ what = "rotate" /\ Active(chain[p]) = asks[i].room
           /\ \E r \in Unused : chain' = [chain EXCEPT ![p] = Append(@, r)] /\ Responds(i, <<r>>)
        \/ /\ what = "rotate"
           /\ \E r \in Successor(asks[i].room) : Responds(i, <<r>>)
           /\ UNCHANGED chain
  /\ UNCHANGED <<chosen, mounted, listed, turnsOf, sessionBusy, strayed>>

-----------------------------------------------------------------------------
(* The answers *)

\* Variant: whatever is answered is for the position on the screen (refuted by
\* ConversationIsOfSelected).
WhoeverIsSelected(i) == TRUE

\* selectedIdRef.current === id.
StillSelected(i) == chosen = asks[i].seat

\* loadSessions: the mounted session stays if it is listed, else the active one is mounted.
ListArrives(i) ==
  /\ asks[i].what \in {"list", "ensure", "reload"} /\ asks[i].at = "answered"
  /\ LET next == IF ~ StillSelected(i) THEN mounted
                 ELSE IF mounted \in ToSet(asks[i].answer) THEN mounted
                 ELSE Active(asks[i].answer)
         creates == asks[i].what = "ensure" /\ StillSelected(i) /\ next = Nobody
     IN /\ listed' = IF StillSelected(i) THEN asks[i].answer ELSE listed
        /\ mounted' = next
        /\ turnsOf' = IF next = Nobody THEN Nobody ELSE turnsOf
        /\ asks' = WithAsks([asks EXCEPT ![i] = IF creates THEN Ask("mount", asks[i].seat, Nobody)
                                                ELSE Free],
                            IF next = mounted THEN <<>> ELSE History(chosen, next))
        /\ sessionBusy' = IF Holding(i) /\ ~ creates THEN FALSE ELSE sessionBusy
  /\ UNCHANGED <<chosen, chain, strayed>>

\* loadTurnHistory: both the position and the session have to be the selected ones still.  When
\* the control plane read the turns does not matter here.
HistoryArrives(i) ==
  /\ asks[i].what = "history"
  /\ turnsOf' = IF StillSelected(i) /\ mounted = asks[i].room THEN mounted ELSE turnsOf
  /\ asks' = [asks EXCEPT ![i] = Free]
  /\ UNCHANGED <<chosen, mounted, listed, sessionBusy, chain, strayed>>

\* createSession, ensureActiveSession, rotateSession: what was created is mounted, whoever is
\* selected by now, and the list of its position is loaded again.
SessionArrives(i) ==
  /\ asks[i].what \in {"create", "mount", "rotate"} /\ asks[i].at = "answered"
  /\ mounted' = asks[i].answer[1]
  /\ turnsOf' = IF asks[i].what = "rotate" THEN Nobody ELSE turnsOf
  /\ asks' = WithAsks([asks EXCEPT ![i] = Ask("reload", asks[i].seat, Nobody)],
                      IF mounted' = mounted THEN <<>> ELSE History(chosen, mounted'))
  /\ strayed' = (strayed \/ chosen # asks[i].seat)
  /\ UNCHANGED <<chosen, listed, sessionBusy, chain>>

\* A status that is not the expected one: a refused list unmounts the session of its position.
Refused(i) ==
  /\ asks[i].at = "sent"
  /\ LET unmounts == asks[i].what \in {"list", "ensure", "reload"} /\ StillSelected(i)
     IN /\ listed' = IF unmounts THEN <<>> ELSE listed
        /\ mounted' = IF unmounts THEN Nobody ELSE mounted
        /\ turnsOf' = IF unmounts THEN Nobody ELSE turnsOf
  /\ asks' = [asks EXCEPT ![i] = Free]
  /\ sessionBusy' = IF Holding(i) THEN FALSE ELSE sessionBusy
  /\ UNCHANGED <<chosen, chain, strayed>>

\* The call throws, before or after the control plane handled it: only a message is shown.
Offline(i) ==
  /\ asks[i] # Free
  /\ asks' = [asks EXCEPT ![i] = Free]
  /\ sessionBusy' = IF Holding(i) THEN FALSE ELSE sessionBusy
  /\ UNCHANGED <<chosen, mounted, listed, turnsOf, chain, strayed>>

Arrives(i) == ListArrives(i) \/ HistoryArrives(i) \/ SessionArrives(i)

MountNext ==
  \/ SelectPosition \/ OpenConversation \/ SelectSession \/ NewSession
  \/ \E i \in Slots : Handle(i) \/ Arrives(i) \/ Refused(i) \/ Offline(i)

MountSpec == MountInit /\ [][MountNext]_mountVars

-----------------------------------------------------------------------------
(* Properties *)

\* TurnPanel.tsx:199: a message can be sent when the mounted session is listed as active and
\* nothing is being updated.
CanSend == mounted # Nobody /\ mounted = Active(listed) /\ ~ sessionBusy

\* Whatever answers arrive late, a message typed for the selected position goes to a session of
\* that position (TurnPanel.tsx:192, App.tsx:314), and the turns above it are that position's
\* too, unless a session created for another position was mounted meanwhile (App.tsx:435, :456,
\* :486 mount without looking at the selection).
ConversationIsOfSelected ==
  CanSend =>
    /\ mounted \in ToSet(chain[chosen])
    /\ turnsOf = Nobody \/ turnsOf \in ToSet(chain[chosen]) \/ strayed
=============================================================================

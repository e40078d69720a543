---------------------------- MODULE SessionStore ----------------------------
(***************************************************************************)
(* apps/server/src/sessions/store.ts, class SessionStore: the explicit     *)
(* sessions of a position, their rotation chain, and the turns reserved in *)
(* a session.                                                              *)
(*                                                                         *)
(* All sessions of a position live in one file that is replaced as a whole.*)
(* create and reuseOrCreateActive change it under the position's lock,     *)
(* rotate under the lock of the session it rotates, reserveTurn reads it   *)
(* under that same session lock: two different locks guard one file.       *)
(*                                                                         *)
(* A request is one call of the store; Creators, Rotators and Posters say  *)
(* which.  The workspace identity that every call loads or creates first   *)
(* never changes afterwards and is left out, as are principals and times.  *)
(***************************************************************************)
EXTENDS Integers, FiniteSets

CONSTANTS
  Positions,
  Sessions,      \* session ids a server can generate
  Creators,      \* POST /sessions and the anchor of POST /groups
  Rotators,      \* POST /sessions/:id/rotate
  Posters,       \* POST /sessions/:id/turns: reserveTurn ... releaseTurn
  MaxSessions,   \* MAX_SESSIONS_PER_POSITION
  None           \* null

Requests == Creators \cup Rotators \cup Posters

ASSUME SessionStoreAssumption ==
  /\ None \notin Positions \cup Sessions \cup Requests
  /\ Positions \cap Sessions = {}
  /\ Creators \cap Rotators = {} /\ Creators \cap Posters = {} /\ Rotators \cap Posters = {}
  /\ IsFiniteSet(Posters)
  /\ IsFiniteSet(Sessions)
  /\ MaxSessions \in Nat

VARIABLES
  file,      \* disk: the session state of each position
  reserved,  \* memory: activeTurns, the number of reserved turns of each session
  lock,      \* memory: the request inside exclusive() for each key, or None
  at,        \* where each request is
  pos,       \* the position a request works on
  ses,       \* the session a request was asked about
  snap,      \* the position state a request has read and will replace
  answers    \* observation: every <<source, successor>> a rotate answered with

vars == <<file, reserved, lock, at, pos, ses, snap, answers>>

(***************************************************************************)
(* PositionSessionState.  A session is active exactly when its rotatedTo is*)
(* null (isWorkbenchSession), so the status field is not kept separately.  *)
(* A missing file and one without sessions mean the same.                  *)
(***************************************************************************)
NoState == [activeSessionId |-> None, rotatedFrom |-> <<>>, rotatedTo |-> <<>>]

Known(st) == DOMAIN st.rotatedTo

PositionState(st) ==
  /\ Known(st) \subseteq Sessions
  /\ st \in [activeSessionId : Sessions \cup {None},
            rotatedFrom : [Known(st) -> Sessions \cup {None}],
            rotatedTo : [Known(st) -> Sessions \cup {None}]]

\* isPositionState: one active session, mutual links, one root, one chain over all of them.
OneActive(st) ==
  /\ (st.activeSessionId = None) <=> (Known(st) = {})
  /\ \A s \in Known(st) : st.rotatedTo[s] = None <=> s = st.activeSessionId
  /\ st.activeSessionId \in Known(st) \cup {None}

MutualLinks(st) ==
  \A s \in Known(st) :
    /\ st.rotatedTo[s] # None =>
         st.rotatedTo[s] \in Known(st) /\ st.rotatedFrom[st.rotatedTo[s]] = s
    /\ st.rotatedFrom[s] # None =>
         st.rotatedFrom[s] \in Known(st) /\ st.rotatedTo[st.rotatedFrom[s]] = s

\* Walking rotatedTo from the root visits everything: no smaller set is closed under it.
OneChain(st) ==
  Known(st) # {} =>
    \E root \in Known(st) :
      /\ \A s \in Known(st) : st.rotatedFrom[s] = None <=> s = root
      /\ \A S \in SUBSET Known(st) :
           root \in S /\ (\A s \in S : st.rotatedTo[s] # None => st.rotatedTo[s] \in S)
             => S = Known(st)

IsPositionState(st) == OneActive(st) /\ MutualLinks(st) /\ OneChain(st)

\* crypto.randomUUID never repeats an id.
Fresh == {n \in Sessions : \A p \in Positions : n \notin Known(file[p])}

\* createSessionRecord: the new root session appended and made active.
WithFirst(st, n) ==
  [activeSessionId |-> n,
   rotatedFrom |-> [s \in Known(st) \cup {n} |-> IF s = n THEN None ELSE st.rotatedFrom[s]],
   rotatedTo |-> [s \in Known(st) \cup {n} |-> IF s = n THEN None ELSE st.rotatedTo[s]]]

\* Variant: the source stays active (refuted by PositionStatesValid).
SuccessorBesideSource(st, source, n) ==
  [activeSessionId |-> n,
   rotatedFrom |-> [s \in Known(st) \cup {n} |-> IF s = n THEN source ELSE st.rotatedFrom[s]],
   rotatedTo |-> [s \in Known(st) \cup {n} |-> IF s = n THEN None ELSE st.rotatedTo[s]]]

\* rotate: source sealed, successor created, activeSessionId switched in one state.
WithSuccessor(st, source, n) ==
  [activeSessionId |-> n,
   rotatedFrom |-> [s \in Known(st) \cup {n} |-> IF s = n THEN source ELSE st.rotatedFrom[s]],
   rotatedTo |-> [s \in Known(st) \cup {n} |->
                    IF s = n THEN None ELSE IF s = source THEN n ELSE st.rotatedTo[s]]]

Init ==
  /\ file = [p \in Positions |-> NoState]
  /\ reserved = [s \in Sessions |-> 0]
  /\ lock = [k \in Positions \cup Sessions |-> None]
  /\ at = [r \in Requests |-> "new"]
  /\ pos = [r \in Requests |-> None]
  /\ ses = [r \in Requests |-> None]
  /\ snap = [r \in Requests |-> NoState]
  /\ answers = {}

-----------------------------------------------------------------------------
(* exclusive(): a request waits until the key is free, then runs until it releases it.*)
(* The promise chain is first come first served; here any waiter may be next.       *)

Go(r, here) == at' = [at EXCEPT ![r] = here]
Take(r, k) == lock[k] = None /\ lock' = [lock EXCEPT ![k] = r]
Leave(k) == lock' = [lock EXCEPT ![k] = None]

\* The call returns or throws: exclusive() releases the key, its locals are gone.
Forget(r) ==
  /\ pos' = [pos EXCEPT ![r] = None]
  /\ ses' = [ses EXCEPT ![r] = None]
  /\ snap' = [snap EXCEPT ![r] = NoState]

Done(r, k) == Go(r, "done") /\ Leave(k) /\ Forget(r)

\* A request is asked for a position (create) or for a session (rotate, turns).
Arrive(r) ==
  /\ at[r] = "new"
  /\ Go(r, "queued")
  /\ \/ r \in Creators /\ \E p \in Positions : pos' = [pos EXCEPT ![r] = p] /\ UNCHANGED ses
     \/ r \notin Creators /\ \E s \in Sessions : ses' = [ses EXCEPT ![r] = s] /\ UNCHANGED pos
  /\ UNCHANGED <<file, reserved, lock, snap, answers>>

-----------------------------------------------------------------------------
(* create and reuseOrCreateActive *)

CreateEnter(r) ==
  /\ at[r] = "queued"
  /\ Take(r, pos[r])
  /\ Go(r, "reading")
  /\ UNCHANGED <<file, reserved, pos, ses, snap, answers>>

\* An active session refuses create (409) and is the answer of reuseOrCreateActive;
\* a full position refuses both.
CreateRead(r) ==
  /\ at[r] = "reading"
  /\ LET st == file[pos[r]] IN
     \/ /\ st.activeSessionId # None \/ Cardinality(Known(st)) >= MaxSessions
        /\ Done(r, pos[r])
     \/ /\ st.activeSessionId = None
        /\ Cardinality(Known(st)) < MaxSessions
        /\ Go(r, "writing")
        /\ snap' = [snap EXCEPT ![r] = st]
        /\ UNCHANGED <<lock, pos, ses>>
  /\ UNCHANGED <<file, reserved, answers>>

CreateWrite(r) ==
  /\ at[r] = "writing"
  /\ \E n \in Fresh : file' = [file EXCEPT ![pos[r]] = WithFirst(snap[r], n)]
  /\ Go(r, "written")
  /\ UNCHANGED <<reserved, lock, pos, ses, snap, answers>>

\* The call returns, or throws: storage error before the rename or after it.
CreateEnds(r) ==
  /\ at[r] \in {"reading", "writing", "written"}
  /\ Done(r, pos[r])
  /\ UNCHANGED <<file, reserved, answers>>

-----------------------------------------------------------------------------
(* rotate *)

\* Variant: rotate runs outside exclusive() (refuted by OneSuccessor and
\* SessionsNeverLost).
RotateUnlocked(r) ==
  /\ at[r] = "queued"
  /\ \/ reserved[ses[r]] > 0 /\ Go(r, "done") /\ Forget(r)
     \/ reserved[ses[r]] = 0 /\ Go(r, "finding") /\ UNCHANGED <<pos, ses, snap>>
  /\ UNCHANGED <<file, reserved, lock, answers>>

\* The reservation count is read as soon as the lock is had; a reserved session refuses (409).
RotateEnter(r) ==
  /\ at[r] = "queued"
  /\ lock[ses[r]] = None
  /\ \/ reserved[ses[r]] > 0 /\ Go(r, "done") /\ Forget(r) /\ UNCHANGED lock
     \/ reserved[ses[r]] = 0 /\ Go(r, "finding") /\ Take(r, ses[r]) /\ UNCHANGED <<pos, ses, snap>>
  /\ UNCHANGED <<file, reserved, answers>>

\* find reads the position files until one holds the session.  A rotated source answers with
\* its successor; an unknown one, one that is not the active session and a full position fail.
RotateFind(r) ==
  /\ at[r] = "finding"
  /\ LET s == ses[r] IN
     \/ /\ \A p \in Positions : s \notin Known(file[p])
        /\ Done(r, s)
        /\ UNCHANGED answers
     \/ \E p \in Positions :
          LET st == file[p] IN
          /\ s \in Known(st)
          /\ \/ /\ st.rotatedTo[s] # None
                /\ answers' = answers \cup {<<s, st.rotatedTo[s]>>}
                /\ Done(r, s)
             \/ /\ st.rotatedTo[s] = None
                /\ st.activeSessionId # s \/ Cardinality(Known(st)) >= MaxSessions
                /\ Done(r, s)
                /\ UNCHANGED answers
             \/ /\ st.rotatedTo[s] = None
                /\ st.activeSessionId = s
                /\ Cardinality(Known(st)) < MaxSessions
                /\ pos' = [pos EXCEPT ![r] = p]
                /\ snap' = [snap EXCEPT ![r] = st]
                /\ Go(r, "replacing")
                /\ UNCHANGED <<lock, ses, answers>>
  /\ UNCHANGED <<file, reserved>>

\* The new state is computed with its fresh id and renamed into place.
RotateWrite(r) ==
  /\ at[r] = "replacing"
  /\ \E n \in Fresh :
       /\ file' = [file EXCEPT ![pos[r]] = WithSuccessor(snap[r], ses[r], n)]
       /\ snap' = [snap EXCEPT ![r] = WithSuccessor(snap[r], ses[r], n)]
  /\ Go(r, "replaced")
  /\ UNCHANGED <<reserved, lock, pos, ses, answers>>

RotateReturns(r) ==
  /\ at[r] = "replaced"
  /\ answers' = answers \cup {<<ses[r], snap[r].activeSessionId>>}
  /\ Done(r, ses[r])
  /\ UNCHANGED <<file, reserved>>

RotateFails(r) ==
  /\ at[r] \in {"finding", "replacing", "replaced"}
  /\ Done(r, ses[r])
  /\ UNCHANGED <<file, reserved, answers>>

-----------------------------------------------------------------------------
(* reserveTurn and releaseTurn around one session turn *)

ReserveEnter(r) ==
  /\ at[r] = "queued"
  /\ Take(r, ses[r])
  /\ Go(r, "getting")
  /\ UNCHANGED <<file, reserved, pos, ses, snap, answers>>

\* Only the active session takes turns; reading the state may fail as well.
ReserveGet(r) ==
  /\ at[r] = "getting"
  /\ \E p \in Positions :
       ses[r] \in Known(file[p]) /\ file[p].rotatedTo[ses[r]] = None
  /\ reserved' = [reserved EXCEPT ![ses[r]] = @ + 1]
  /\ Go(r, "running")
  /\ Leave(ses[r])
  /\ UNCHANGED <<file, pos, ses, snap, answers>>

\* Variant: a refusal keeps the lock (refuted by CallsEnd).
RefusedKeepingLock(r) ==
  /\ at[r] = "getting"
  /\ Go(r, "done") /\ Forget(r)
  /\ UNCHANGED <<file, reserved, lock, answers>>

ReserveRefused(r) ==
  /\ at[r] = "getting"
  /\ Done(r, ses[r])
  /\ UNCHANGED <<file, reserved, answers>>

\* Variant: the first turn to end clears the count (refuted by RunningTurnHasActiveSession).
ReleaseAll(r) ==
  /\ at[r] = "running"
  /\ reserved' = [reserved EXCEPT ![ses[r]] = 0]
  /\ Go(r, "done")
  /\ Forget(r)
  /\ UNCHANGED <<file, lock, answers>>

\* The finally of the turn handler, however the turn ended.  The map entry is deleted at
\* one, decremented above.
ReleaseTurn(r) ==
  /\ at[r] = "running"
  /\ reserved' = [reserved EXCEPT ![ses[r]] = IF @ <= 1 THEN 0 ELSE @ - 1]
  /\ Go(r, "done")
  /\ Forget(r)
  /\ UNCHANGED <<file, lock, answers>>

-----------------------------------------------------------------------------

\* The process restarts: locks and reservations are memory, unanswered requests are lost.
Restart ==
  /\ reserved' = [s \in Sessions |-> 0]
  /\ lock' = [k \in Positions \cup Sessions |-> None]
  /\ at' = [r \in Requests |-> IF at[r] = "new" THEN "new" ELSE "done"]
  /\ pos' = [r \in Requests |-> None]
  /\ ses' = [r \in Requests |-> None]
  /\ snap' = [r \in Requests |-> NoState]
  /\ UNCHANGED <<file, answers>>

Create(r) == CreateEnter(r) \/ CreateRead(r) \/ CreateWrite(r) \/ CreateEnds(r)

Rotate(r) == \/ RotateEnter(r) \/ RotateFind(r) \/ RotateWrite(r)
             \/ RotateReturns(r) \/ RotateFails(r)

Post(r) == ReserveEnter(r) \/ ReserveGet(r) \/ ReserveRefused(r) \/ ReleaseTurn(r)

Next ==
  \/ \E r \in Requests : Arrive(r)
  \/ \E r \in Creators : Create(r)
  \/ \E r \in Rotators : Rotate(r)
  \/ \E r \in Posters : Post(r)
  \/ Restart

Spec == Init /\ [][Next]_vars

(***************************************************************************)
(* Once inside, a call runs to its end: file operations return or throw.   *)
(* exclusive() is first come first served, so a waiter is not overtaken    *)
(* forever (strong fairness of entering).  A turn is assumed to end.       *)
(***************************************************************************)
Fairness ==
  /\ \A r \in Creators : SF_vars(CreateEnter(r)) /\ WF_vars(CreateEnds(r))
  /\ \A r \in Rotators : SF_vars(RotateEnter(r)) /\ WF_vars(RotateReturns(r) \/ RotateFails(r))
  /\ \A r \in Posters : /\ SF_vars(ReserveEnter(r))
                        /\ WF_vars(ReserveGet(r) \/ ReserveRefused(r))
                        /\ WF_vars(ReleaseTurn(r))

FairSpec == Spec /\ Fairness

-----------------------------------------------------------------------------
(* Properties *)

\* Every variable has its type; no position holds more sessions than the bound.
TypeOK ==
  /\ file = [p \in Positions |-> file[p]]
  /\ \A p \in Positions :
       PositionState(file[p]) /\ Cardinality(Known(file[p])) <= MaxSessions
  /\ reserved \in [Sessions -> Nat]
  /\ lock \in [Positions \cup Sessions -> Requests \cup {None}]
  /\ at \in [Requests -> {"new", "queued", "reading", "writing", "written", "finding",
                          "replacing", "replaced", "getting", "running", "done"}]
  /\ pos \in [Requests -> Positions \cup {None}]
  /\ ses \in [Requests -> Sessions \cup {None}]
  /\ snap = [r \in Requests |-> snap[r]]
  /\ \A r \in Requests : PositionState(snap[r])
  /\ answers \subseteq Sessions \X Sessions

\* Whatever calls interleave, crash or fail half way, every state written passes the
\* validation with which the next call reads it: one active session at the end of one chain.
PositionStatesValid == \A p \in Positions : IsPositionState(file[p])

\* No write loses a session another call has stored, reopens a rotated one or changes its
\* successor, although create and rotate replace the same file under different locks.
SessionsNeverLost ==
  [][\A p \in Positions : \A s \in Known(file[p]) :
       /\ s \in Known(file'[p])
       /\ file[p].rotatedTo[s] # None => file'[p].rotatedTo[s] = file[p].rotatedTo[s]]_vars

\* A turn never runs in a session that has been rotated, and none is rotated while several
\* turns run in it and end one by one.
RunningTurnHasActiveSession ==
  \A r \in Posters :
    at[r] = "running" =>
      \E p \in Positions : file[p].activeSessionId = ses[r]

\* docs/api-contract-v0.md:360: however often rotate is repeated, concurrently, after an
\* error or after a restart, one source is only ever answered with one successor.
OneSuccessor == \A a, b \in answers : a[1] = b[1] => a[2] = b[2]

\* No call waits forever for a lock: each one, once made, is answered.
CallsEnd == \A r \in Requests : at[r] = "queued" ~> at[r] = "done"
=============================================================================

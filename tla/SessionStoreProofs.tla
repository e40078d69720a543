------------------------- MODULE SessionStoreProofs -------------------------
(***************************************************************************)
(* Proofs about SessionStore for every set of positions, sessions and      *)
(* requests.                                                               *)
(*                                                                         *)
(* Two locks guard one position file, so mutual exclusion alone does not   *)
(* make a snapshot current.  The argument is that the two kinds of writer  *)
(* cannot both be entitled to write: create holds a snapshot without any   *)
(* session, rotate one whose active session is the rotated source, and all *)
(* rotations of one active session share that session's lock (SnapsCurrent)*)
(* Reservations are counted exactly (Counted), so a rotation that saw a    *)
(* zero while it holds the session's lock excludes running turns until it  *)
(* lets go (RotationExcludesTurns).                                        *)
(***************************************************************************)
EXTENDS SessionStore, FiniteSetTheorems, TLAPS

PosHolding == {"reading", "writing", "written"}
SesHolding == {"finding", "replacing", "replaced", "getting"}

\* Every request inside exclusive() holds the key its kind of call takes.
LocksHeld ==
  /\ \A r \in Creators :
       /\ at[r] \in {"new", "queued", "done"} \cup PosHolding
       /\ at[r] = "queued" => pos[r] \in Positions
       /\ at[r] \in PosHolding => pos[r] \in Positions /\ lock[pos[r]] = r
  /\ \A r \in Rotators :
       /\ at[r] \in {"new", "queued", "finding", "replacing", "replaced", "done"}
       /\ at[r] = "queued" => ses[r] \in Sessions
       /\ at[r] \in SesHolding => ses[r] \in Sessions /\ lock[ses[r]] = r
  /\ \A r \in Posters :
       /\ at[r] \in {"new", "queued", "getting", "running", "done"}
       /\ at[r] \in {"queued", "running"} => ses[r] \in Sessions
       /\ at[r] \in SesHolding => ses[r] \in Sessions /\ lock[ses[r]] = r

\* Session ids are unique across positions.
IdsDisjoint ==
  \A p, q \in Positions : p # q => Known(file[p]) \cap Known(file[q]) = {}

\* A writer's snapshot is what the file still holds.
SnapsCurrent ==
  /\ \A r \in Creators :
       at[r] = "writing" =>
         /\ snap[r] = file[pos[r]]
         /\ Known(snap[r]) = {}
         /\ MaxSessions > 0
  /\ \A r \in Rotators :
       at[r] = "replacing" =>
         /\ pos[r] \in Positions
         /\ snap[r] = file[pos[r]]
         /\ ses[r] = snap[r].activeSessionId
         /\ Cardinality(Known(snap[r])) < MaxSessions

Rotated(f, s, n) ==
  \E p \in Positions : s \in Known(f[p]) /\ f[p].rotatedTo[s] = n

\* What rotate answered, or is about to, is what the disk says.
AnswersTrue ==
  /\ \A a \in answers : Rotated(file, a[1], a[2])
  /\ \A r \in Rotators :
       at[r] = "replaced" =>
         snap[r].activeSessionId \in Sessions /\ Rotated(file, ses[r], snap[r].activeSessionId)

RunningIn(s) == {r \in Posters : at[r] = "running" /\ ses[r] = s}

Counted == \A s \in Sessions : reserved[s] = Cardinality(RunningIn(s))

RotationExcludesTurns ==
  \A q \in Rotators : at[q] \in {"finding", "replacing"} => RunningIn(ses[q]) = {}

IInv ==
  /\ TypeOK /\ LocksHeld /\ PositionStatesValid /\ IdsDisjoint /\ SnapsCurrent
  /\ AnswersTrue /\ Counted /\ RotationExcludesTurns /\ RunningTurnHasActiveSession

-----------------------------------------------------------------------------
(* The two states a call can write *)

\* The first session of a position forms a valid state.
LEMMA FirstIsValid ==
  ASSUME NEW st, PositionState(st), Known(st) = {}, NEW n \in Sessions
  PROVE  /\ PositionState(WithFirst(st, n))
         /\ IsPositionState(WithFirst(st, n))
         /\ Known(WithFirst(st, n)) = {n}
         /\ WithFirst(st, n).activeSessionId = n
         /\ WithFirst(st, n).rotatedTo[n] = None
<1> DEFINE x == WithFirst(st, n)
<1>1. /\ x.activeSessionId = n
      /\ Known(x) = {n}
      /\ x.rotatedTo = [s \in {n} |-> None]
      /\ x.rotatedFrom = [s \in {n} |-> None]
  BY DEF WithFirst, Known
<1>2. PositionState(x)
  BY <1>1 DEF PositionState, WithFirst, Known
<1>3. OneActive(x) /\ MutualLinks(x) /\ OneChain(x)
  BY <1>1, SessionStoreAssumption DEF OneActive, MutualLinks, OneChain
<1> QED BY <1>1, <1>2, <1>3 DEF IsPositionState

\* Sealing the active session and appending its successor keeps a state valid, and leaves
\* every other session as it was.
LEMMA SuccessorIsValid ==
  ASSUME NEW st, PositionState(st), IsPositionState(st),
         NEW source \in Known(st), st.activeSessionId = source,
         NEW n \in Sessions, n \notin Known(st)
  PROVE  /\ PositionState(WithSuccessor(st, source, n))
         /\ IsPositionState(WithSuccessor(st, source, n))
         /\ Known(WithSuccessor(st, source, n)) = Known(st) \cup {n}
         /\ WithSuccessor(st, source, n).activeSessionId = n
         /\ WithSuccessor(st, source, n).rotatedTo[source] = n
         /\ \A s \in Known(st) \ {source} :
              WithSuccessor(st, source, n).rotatedTo[s] = st.rotatedTo[s]
<1> DEFINE x == WithSuccessor(st, source, n)
<1> USE SessionStoreAssumption
<1>1. /\ x.activeSessionId = n
      /\ Known(x) = Known(st) \cup {n}
      /\ x.rotatedTo[n] = None /\ x.rotatedFrom[n] = source
      /\ x.rotatedTo[source] = n
      /\ \A s \in Known(st) : x.rotatedFrom[s] = st.rotatedFrom[s]
      /\ \A s \in Known(st) \ {source} : x.rotatedTo[s] = st.rotatedTo[s]
  BY DEF WithSuccessor, Known
<1>2. PositionState(x)
  BY DEF PositionState, WithSuccessor, Known
<1>3. st.rotatedTo[source] = None
  BY DEF IsPositionState, OneActive
<1>4. OneActive(x)
  BY <1>1, <1>3 DEF OneActive, IsPositionState, PositionState
<1>5. MutualLinks(x)
  BY <1>1, <1>3 DEF MutualLinks, IsPositionState, PositionState
<1>6. OneChain(x)
  <2>1. PICK root \in Known(st) :
          /\ \A s \in Known(st) : st.rotatedFrom[s] = None <=> s = root
          /\ \A S \in SUBSET Known(st) :
               root \in S /\ (\A s \in S : st.rotatedTo[s] # None => st.rotatedTo[s] \in S)
                 => S = Known(st)
    BY DEF IsPositionState, OneChain
  <2>2. \A s \in Known(x) : x.rotatedFrom[s] = None <=> s = root
    BY <1>1, <2>1 DEF PositionState
  <2>3. ASSUME NEW S \in SUBSET Known(x), root \in S,
               \A s \in S : x.rotatedTo[s] # None => x.rotatedTo[s] \in S
        PROVE  S = Known(x)
    <3> DEFINE R == S \cap Known(st)
    <3>1. \A s \in R : st.rotatedTo[s] # None => st.rotatedTo[s] \in R
      <4> SUFFICES ASSUME NEW s \in R, st.rotatedTo[s] # None PROVE st.rotatedTo[s] \in R
        OBVIOUS
      <4>1. s # source
        BY <1>3
      <4>2. st.rotatedTo[s] \in Known(st)
        BY DEF IsPositionState, MutualLinks
      <4> QED BY <1>1, <2>3, <4>1, <4>2
    <3>2. R = Known(st)
      BY <2>1, <2>3, <3>1
    <3>3. n \in S
      BY <1>1, <2>3, <3>2 DEF PositionState
    <3> QED BY <1>1, <3>2, <3>3
  <2> QED BY <1>1, <2>2, <2>3 DEF OneChain
<1> QED BY <1>1, <1>2, <1>4, <1>5, <1>6 DEF IsPositionState

-----------------------------------------------------------------------------
(* Steps *)

\* Only two steps write, and each adds one session to one position: the first of it, or the
\* successor of its active one, sealed in the same write.
Extends(p, n) ==
  /\ file' = [q \in Positions |-> file'[q]]
  /\ \A q \in Positions \ {p} : file'[q] = file[q]
  /\ PositionState(file'[p]) /\ IsPositionState(file'[p])
  /\ Cardinality(Known(file'[p])) <= MaxSessions
  /\ Known(file'[p]) = Known(file[p]) \cup {n}
  /\ file'[p].activeSessionId = n
  /\ \A s \in Known(file[p]) : file[p].rotatedTo[s] # None => file'[p].rotatedTo[s] = file[p].rotatedTo[s]

FirstWritten(r, n) ==
  /\ at[r] = "writing" /\ at' = [at EXCEPT ![r] = "written"]
  /\ pos[r] \in Positions /\ Known(file[pos[r]]) = {}
  /\ Extends(pos[r], n)

SuccessorWritten(r, n) ==
  /\ at[r] = "replacing" /\ at' = [at EXCEPT ![r] = "replaced"]
  /\ pos[r] \in Positions
  /\ ses[r] \in Known(file[pos[r]]) /\ ses[r] = file[pos[r]].activeSessionId
  /\ Extends(pos[r], n)
  /\ file'[pos[r]].rotatedTo[ses[r]] = n
  /\ snap' = [snap EXCEPT ![r] = file'[pos[r]]]

\* The write of ensureActive and of createSession adds the first session of its position.
LEMMA CreateWriteEffect ==
  ASSUME IInv, NEW r \in Creators, CreateWrite(r)
  PROVE  \E n \in Fresh : FirstWritten(r, n)
<1> DEFINE p == pos[r]
<1>1. /\ p \in Positions /\ r \in Requests
      /\ snap[r] = file[p] /\ Known(file[p]) = {} /\ MaxSessions > 0
      /\ PositionState(file[p])
      /\ file = [q \in Positions |-> file[q]]
  BY DEF IInv, TypeOK, LocksHeld, SnapsCurrent, CreateWrite, PosHolding, Requests
<1>2. PICK n \in Fresh : file' = [file EXCEPT ![p] = WithFirst(file[p], n)]
  BY <1>1 DEF CreateWrite
<1>3. n \in Sessions
  BY DEF Fresh
<1>4. /\ file'[p] = WithFirst(file[p], n)
      /\ \A q \in Positions \ {p} : file'[q] = file[q]
      /\ file' = [q \in Positions |-> file'[q]]
  BY <1>1, <1>2
<1>5. /\ PositionState(file'[p]) /\ IsPositionState(file'[p])
      /\ Known(file'[p]) = {n} /\ file'[p].activeSessionId = n
  BY <1>1, <1>3, <1>4, FirstIsValid
<1>6. Cardinality({n}) <= MaxSessions
  BY <1>1, FS_Singleton, SessionStoreAssumption
<1>7. Extends(p, n)
  BY <1>1, <1>4, <1>5, <1>6 DEF Extends
<1> QED BY <1>1, <1>7 DEF FirstWritten, CreateWrite, Go

\* The write of rotate adds the successor of the session it names, which was the active one.
LEMMA RotateWriteEffect ==
  ASSUME IInv, NEW r \in Rotators, RotateWrite(r)
  PROVE  \E n \in Fresh : SuccessorWritten(r, n)
<1> DEFINE p == pos[r]
           s == ses[r]
<1>1. /\ p \in Positions /\ r \in Requests /\ s \in Sessions
      /\ snap[r] = file[p] /\ s = file[p].activeSessionId
      /\ Cardinality(Known(file[p])) < MaxSessions
      /\ PositionState(file[p]) /\ IsPositionState(file[p])
      /\ file = [q \in Positions |-> file[q]]
      /\ snap = [q \in Requests |-> snap[q]]
  BY DEF IInv, TypeOK, LocksHeld, SnapsCurrent, PositionStatesValid, RotateWrite, SesHolding,
         Requests
<1>2. PICK n \in Fresh : /\ file' = [file EXCEPT ![p] = WithSuccessor(file[p], s, n)]
                         /\ snap' = [snap EXCEPT ![r] = WithSuccessor(file[p], s, n)]
  BY <1>1 DEF RotateWrite
<1>3. n \in Sessions /\ n \notin Known(file[p])
  BY <1>1 DEF Fresh
<1>4. s \in Known(file[p])
  BY <1>1, SessionStoreAssumption DEF IsPositionState, OneActive
<1>5. /\ file'[p] = WithSuccessor(file[p], s, n)
      /\ \A q \in Positions \ {p} : file'[q] = file[q]
      /\ file' = [q \in Positions |-> file'[q]]
      /\ snap' = [snap EXCEPT ![r] = file'[p]]
  BY <1>1, <1>2
<1>6. /\ PositionState(file'[p]) /\ IsPositionState(file'[p])
      /\ Known(file'[p]) = Known(file[p]) \cup {n} /\ file'[p].activeSessionId = n
      /\ file'[p].rotatedTo[s] = n
      /\ \A o \in Known(file[p]) \ {s} : file'[p].rotatedTo[o] = file[p].rotatedTo[o]
  BY <1>1, <1>3, <1>4, <1>5, SuccessorIsValid
<1>7. Cardinality(Known(file[p]) \cup {n}) <= MaxSessions
  <2>1. IsFiniteSet(Known(file[p]))
    BY <1>1, FS_Subset, SessionStoreAssumption DEF PositionState
  <2>2. Cardinality(Known(file[p]) \cup {n}) = Cardinality(Known(file[p])) + 1
    BY <1>3, <2>1, FS_AddElement
  <2> QED BY <1>1, <2>1, <2>2, FS_CardinalityType, SessionStoreAssumption
<1>8. file[p].rotatedTo[s] = None
  BY <1>1, <1>4 DEF IsPositionState, OneActive
<1>9. Extends(p, n)
  BY <1>5, <1>6, <1>7, <1>8 DEF Extends
<1> QED BY <1>1, <1>4, <1>5, <1>6, <1>9 DEF SuccessorWritten, RotateWrite, Go

\* What any step does to the files.
FileStep ==
  \/ file' = file
  \/ \E n \in Fresh : \/ \E r \in Creators : FirstWritten(r, n)
                      \/ \E r \in Rotators : SuccessorWritten(r, n)

\* No other step writes a session file.
LEMMA FileEffect ==
  ASSUME IInv, [Next]_vars
  PROVE  FileStep
<1>1. CASE \E r \in Creators : CreateWrite(r)
  BY <1>1, CreateWriteEffect DEF FileStep
<1>2. CASE \E r \in Rotators : RotateWrite(r)
  BY <1>2, RotateWriteEffect DEF FileStep
<1>3. CASE /\ ~ \E r \in Creators : CreateWrite(r)
           /\ ~ \E r \in Rotators : RotateWrite(r)
  <2>1. file' = file
    BY <1>3 DEF Next, vars, Arrive, Create, CreateEnter, CreateRead, CreateEnds,
                Rotate, RotateEnter, RotateFind, RotateReturns, RotateFails,
                Post, ReserveEnter, ReserveGet, ReserveRefused, ReleaseTurn, Restart
  <2> QED BY <2>1 DEF FileStep
<1> QED BY <1>1, <1>2, <1>3

-----------------------------------------------------------------------------
(* The inductive invariant *)

\* The initial state satisfies it.
LEMMA InitIInv == Init => IInv
<1> SUFFICES ASSUME Init PROVE IInv
  OBVIOUS
<1> USE SessionStoreAssumption DEF Init, NoState, Known
<1>1. \A p \in Positions : Known(file[p]) = {} /\ PositionState(file[p])
  BY DEF PositionState
<1>2. Cardinality({}) = 0
  BY FS_EmptySet
<1>3. TypeOK
  BY <1>1, <1>2 DEF TypeOK, Requests, PositionState
<1>4. PositionStatesValid
  BY <1>1 DEF PositionStatesValid, IsPositionState, OneActive, MutualLinks, OneChain
<1>5. /\ LocksHeld /\ IdsDisjoint /\ SnapsCurrent /\ AnswersTrue
      /\ RotationExcludesTurns /\ RunningTurnHasActiveSession
  BY <1>1 DEF LocksHeld, IdsDisjoint, SnapsCurrent, AnswersTrue, RotationExcludesTurns,
              RunningTurnHasActiveSession, Requests, PosHolding, SesHolding
<1>6. Counted
  <2>1. \A s \in Sessions : RunningIn(s) = {}
    BY DEF RunningIn, Requests
  <2> QED BY <2>1, <1>2 DEF Counted
<1> QED BY <1>3, <1>4, <1>5, <1>6 DEF IInv

\* Any step keeps the types.
LEMMA TypePreserved ==
  ASSUME IInv, [Next]_vars
  PROVE  TypeOK'
<1> DEFINE FileTyped ==
      /\ file = [p \in Positions |-> file[p]]
      /\ \A p \in Positions :
           PositionState(file[p]) /\ Cardinality(Known(file[p])) <= MaxSessions
    ControlTyped ==
      /\ reserved \in [Sessions -> Nat]
      /\ lock \in [Positions \cup Sessions -> Requests \cup {None}]
      /\ at \in [Requests -> {"new", "queued", "reading", "writing", "written", "finding",
                              "replacing", "replaced", "getting", "running", "done"}]
      /\ pos \in [Requests -> Positions \cup {None}]
      /\ ses \in [Requests -> Sessions \cup {None}]
    SnapTyped ==
      /\ snap = [r \in Requests |-> snap[r]]
      /\ \A r \in Requests : PositionState(snap[r])
<1>1. FileTyped'
  <2>1. CASE file' = file
    BY <2>1 DEF IInv, TypeOK
  <2>2. ASSUME NEW n, NEW p, Extends(p, n) PROVE FileTyped'
    BY <2>2 DEF Extends, IInv, TypeOK
  <2> QED BY FileEffect, <2>1, <2>2 DEF FileStep, FirstWritten, SuccessorWritten
<1>2. ControlTyped'
  <2> USE DEF IInv, TypeOK, LocksHeld, Requests, PosHolding, SesHolding,
              Go, Take, Leave, Done, Forget
  <2>1. ASSUME NEW r \in Requests, Arrive(r) PROVE ControlTyped'
    BY <2>1 DEF Arrive
  <2>2. ASSUME NEW r \in Creators, Create(r) PROVE ControlTyped'
    BY <2>2 DEF Create, CreateEnter, CreateRead, CreateWrite, CreateEnds
  <2>3. ASSUME NEW r \in Rotators, Rotate(r) PROVE ControlTyped'
    BY <2>3 DEF Rotate, RotateEnter, RotateFind, RotateWrite, RotateReturns, RotateFails
  <2>4. ASSUME NEW r \in Posters, Post(r) PROVE ControlTyped'
    BY <2>4 DEF Post, ReserveEnter, ReserveGet, ReserveRefused, ReleaseTurn
  <2>5. CASE Restart
    BY <2>5 DEF Restart
  <2>6. CASE UNCHANGED vars
    BY <2>6 DEF vars
  <2> QED BY <2>1, <2>2, <2>3, <2>4, <2>5, <2>6 DEF Next
<1>3. SnapTyped'
  <2> USE DEF Requests, Go, Take, Leave, Done, Forget
  <2>0. PositionState(NoState) /\ SnapTyped
    <3>1. PositionState(NoState)
      BY DEF PositionState, NoState, Known
    <3>2. SnapTyped
      BY DEF IInv, TypeOK
    <3> QED BY <3>1, <3>2
  <2>1. ASSUME NEW r \in Requests, Arrive(r) PROVE SnapTyped'
    <3>1. snap' = snap
      BY <2>1 DEF Arrive
    <3> QED BY <2>0, <3>1
  <2>2. ASSUME NEW r \in Creators, Create(r) PROVE SnapTyped'
    <3>1. at[r] = "reading" => PositionState(file[pos[r]])
      BY DEF IInv, TypeOK, LocksHeld, PosHolding
    <3>2. CASE CreateRead(r)
      BY <2>0, <3>1, <3>2 DEF CreateRead
    <3>3. CASE ~ CreateRead(r)
      BY <2>0, <2>2, <3>3 DEF Create, CreateEnter, CreateWrite, CreateEnds
    <3> QED BY <3>2, <3>3
  <2>3. ASSUME NEW r \in Rotators, RotateWrite(r) PROVE SnapTyped'
    <3>1. PICK n \in Fresh : SuccessorWritten(r, n)
      BY <2>3, RotateWriteEffect
    <3> QED BY <2>0, <3>1 DEF SuccessorWritten, Extends
  <2>4. ASSUME NEW r \in Rotators, Rotate(r), ~ RotateWrite(r) PROVE SnapTyped'
    <3>1. \A p \in Positions : PositionState(file[p])
      BY DEF IInv, TypeOK
    <3> QED BY <2>0, <2>4, <3>1 DEF Rotate, RotateEnter, RotateFind, RotateReturns, RotateFails
  <2>5. ASSUME NEW r \in Posters, Post(r) PROVE SnapTyped'
    BY <2>0, <2>5 DEF Post, ReserveEnter, ReserveGet, ReserveRefused, ReleaseTurn
  <2>6. CASE Restart
    BY <2>0, <2>6 DEF Restart
  <2>7. CASE UNCHANGED vars
    BY <2>0, <2>7 DEF vars
  <2> QED BY <2>1, <2>2, <2>3, <2>4, <2>5, <2>6, <2>7 DEF Next
<1>4. answers' \subseteq Sessions \X Sessions
  <2>1. ASSUME NEW r \in Rotators, RotateFind(r) PROVE answers' \subseteq Sessions \X Sessions
    <3>1. \A p \in Positions : \A s \in Known(file[p]) :
            s \in Sessions /\ file[p].rotatedTo[s] \in Sessions \cup {None}
      BY DEF IInv, TypeOK, PositionState
    <3>2. \/ answers' = answers
          \/ \E p \in Positions :
               /\ ses[r] \in Known(file[p]) /\ file[p].rotatedTo[ses[r]] # None
               /\ answers' = answers \cup {<<ses[r], file[p].rotatedTo[ses[r]]>>}
      BY <2>1 DEF RotateFind
    <3> QED BY <3>1, <3>2 DEF IInv, TypeOK
  <2>2. ASSUME NEW r \in Rotators, RotateReturns(r) PROVE answers' \subseteq Sessions \X Sessions
    <3>1. /\ at[r] = "replaced"
          /\ answers' = answers \cup {<<ses[r], snap[r].activeSessionId>>}
      BY <2>2 DEF RotateReturns
    <3>2. ses[r] \in Sessions /\ snap[r].activeSessionId \in Sessions
      BY <3>1 DEF IInv, AnswersTrue, LocksHeld, SesHolding
    <3> QED BY <3>1, <3>2 DEF IInv, TypeOK
  <2>3. CASE \A r \in Rotators : ~ RotateFind(r) /\ ~ RotateReturns(r)
    <3>1. answers' = answers
      BY <2>3 DEF Next, vars, Arrive, Create, CreateEnter, CreateRead, CreateWrite, CreateEnds,
                  Rotate, RotateEnter, RotateWrite, RotateFails,
                  Post, ReserveEnter, ReserveGet, ReserveRefused, ReleaseTurn, Restart
    <3> QED BY <3>1 DEF IInv, TypeOK
  <2> QED BY <2>1, <2>2, <2>3
<1> QED BY <1>1, <1>2, <1>3, <1>4 DEF TypeOK

\* A key is taken only when it is free and let go only by the request that holds it.
LEMMA LocksPreserved ==
  ASSUME IInv, [Next]_vars
  PROVE  LocksHeld'
<1> USE SessionStoreAssumption
    DEF IInv, TypeOK, LocksHeld, Requests, PosHolding, SesHolding, Go, Take, Leave, Done, Forget
<1>1. ASSUME NEW r \in Requests, Arrive(r) PROVE LocksHeld'
  BY <1>1 DEF Arrive
<1>2. ASSUME NEW r \in Creators, Create(r) PROVE LocksHeld'
  BY <1>2 DEF Create, CreateEnter, CreateRead, CreateWrite, CreateEnds
<1>3. ASSUME NEW r \in Rotators, Rotate(r) PROVE LocksHeld'
  BY <1>3 DEF Rotate, RotateEnter, RotateFind, RotateWrite, RotateReturns, RotateFails
<1>4. ASSUME NEW r \in Posters, Post(r) PROVE LocksHeld'
  BY <1>4 DEF Post, ReserveEnter, ReserveGet, ReserveRefused, ReleaseTurn
<1>5. CASE Restart
  BY <1>5 DEF Restart
<1>6. CASE UNCHANGED vars
  BY <1>6 DEF vars
<1> QED BY <1>1, <1>2, <1>3, <1>4, <1>5, <1>6 DEF Next

\* Whatever is written is valid, and a fresh id belongs to one position only.
LEMMA FilesPreserved ==
  ASSUME IInv, [Next]_vars
  PROVE  PositionStatesValid' /\ IdsDisjoint'
<1>1. CASE file' = file
  BY <1>1 DEF IInv, PositionStatesValid, IdsDisjoint
<1>2. ASSUME NEW p \in Positions, NEW n \in Fresh, Extends(p, n)
      PROVE  PositionStatesValid' /\ IdsDisjoint'
  <2>1. PositionStatesValid'
    BY <1>2 DEF Extends, IInv, PositionStatesValid
  <2>2. \A q \in Positions : n \notin Known(file[q])
    BY DEF Fresh
  <2>3. /\ Known(file'[p]) = Known(file[p]) \cup {n}
        /\ \A q \in Positions \ {p} : Known(file'[q]) = Known(file[q])
    BY <1>2 DEF Extends
  <2>4. \A q, o \in Positions : q # o => Known(file[q]) \cap Known(file[o]) = {}
    BY DEF IInv, IdsDisjoint
  <2>5. \A q, o \in Positions : q # o => Known(file'[q]) \cap Known(file'[o]) = {}
    BY <2>2, <2>3, <2>4
  <2>6. IdsDisjoint'
    BY <2>5 DEF IdsDisjoint, Known
  <2> QED BY <2>1, <2>6
<1> QED BY FileEffect, <1>1, <1>2 DEF FileStep, FirstWritten, SuccessorWritten

\* A snapshot stays current until it is written: the other writers of the same position
\* either wait for the same lock or find the position in a state they cannot write to.
LEMMA SnapsPreserved ==
  ASSUME IInv, [Next]_vars
  PROVE  SnapsCurrent'
<1> DEFINE
    Holds(q) ==     \* a writer that still has the snapshot it had
      at[q] = at'[q] /\ snap'[q] = snap[q] /\ pos'[q] = pos[q] /\ ses'[q] = ses[q]
    CreatorsHold == \A q \in Creators : at'[q] = "writing" => Holds(q)
    RotatorsHold == \A q \in Rotators : at'[q] = "replacing" => Holds(q)
<1> USE SessionStoreAssumption
<1>1. ASSUME NEW r \in Creators, NEW n \in Fresh, FirstWritten(r, n), CreateWrite(r)
      PROVE  SnapsCurrent'
  <2>1. CreatorsHold /\ RotatorsHold
    BY <1>1 DEF FirstWritten, CreateWrite, IInv, TypeOK, Requests
  <2>2. \A q \in Creators : at'[q] = "writing" => pos[q] \in Positions /\ pos[q] # pos[r]
    BY <1>1, <2>1 DEF FirstWritten, IInv, TypeOK, LocksHeld, PosHolding, Requests
  <2>3. \A q \in Rotators : at'[q] = "replacing" => pos[q] \in Positions /\ pos[q] # pos[r]
    BY <1>1, <2>1 DEF FirstWritten, IInv, SnapsCurrent, LocksHeld, SesHolding, PositionStatesValid,
                      IsPositionState, OneActive
  <2>4. \A p \in Positions : p # pos[r] => file'[p] = file[p]
    BY <1>1 DEF FirstWritten, Extends
  <2> QED BY <2>1, <2>2, <2>3, <2>4 DEF IInv, SnapsCurrent, Known
<1>2. ASSUME NEW r \in Rotators, NEW n \in Fresh, SuccessorWritten(r, n), RotateWrite(r)
      PROVE  SnapsCurrent'
  <2>1. CreatorsHold /\ RotatorsHold
    BY <1>2 DEF SuccessorWritten, RotateWrite, IInv, TypeOK, Requests
  <2>2. \A q \in Creators : at'[q] = "writing" => pos[q] \in Positions /\ pos[q] # pos[r]
    BY <1>2, <2>1 DEF SuccessorWritten, IInv, SnapsCurrent, LocksHeld, PosHolding
  <2>3. \A q \in Rotators : at'[q] = "replacing" => pos[q] \in Positions /\ pos[q] # pos[r]
    <3> SUFFICES ASSUME NEW q \in Rotators, at'[q] = "replacing"
                 PROVE  pos[q] \in Positions /\ pos[q] # pos[r]
      OBVIOUS
    <3>1. at[q] = "replacing" /\ q # r
      BY <1>2, <2>1 DEF SuccessorWritten, IInv, TypeOK, Requests
    <3>2. pos[q] \in Positions /\ ses[q] = file[pos[q]].activeSessionId /\ lock[ses[q]] = q
      BY <3>1 DEF IInv, SnapsCurrent, LocksHeld, SesHolding
    <3>3. ses[r] = file[pos[r]].activeSessionId /\ lock[ses[r]] = r
      BY <1>2 DEF SuccessorWritten, IInv, LocksHeld, SesHolding
    <3> QED BY <3>1, <3>2, <3>3
  <2>4. \A p \in Positions : p # pos[r] => file'[p] = file[p]
    BY <1>2 DEF SuccessorWritten, Extends
  <2> QED BY <2>1, <2>2, <2>3, <2>4 DEF IInv, SnapsCurrent, Known
<1>3. ASSUME NEW r \in Creators, CreateRead(r)
      PROVE  SnapsCurrent'
  <2>1. file' = file /\ RotatorsHold /\ (\A q \in Creators \ {r} : at'[q] = "writing" => Holds(q))
    BY <1>3 DEF CreateRead, Go, Done, Leave, Forget, IInv, TypeOK, Requests
  <2>2. at'[r] = "writing" =>
          /\ pos'[r] = pos[r] /\ snap'[r] = file[pos[r]]
          /\ file[pos[r]].activeSessionId = None
          /\ Cardinality(Known(file[pos[r]])) < MaxSessions
    BY <1>3 DEF CreateRead, Go, Done, Leave, Forget, IInv, TypeOK, Requests
  <2>3. at'[r] = "writing" => Known(file[pos[r]]) = {} /\ MaxSessions > 0
    <3>1. pos[r] \in Positions
      BY <1>3 DEF CreateRead, IInv, LocksHeld, PosHolding
    <3> QED BY <2>2, <3>1, FS_EmptySet DEF IInv, PositionStatesValid, IsPositionState, OneActive
  <2> QED BY <2>1, <2>2, <2>3 DEF IInv, SnapsCurrent, Known
<1>4. ASSUME NEW r \in Rotators, RotateFind(r)
      PROVE  SnapsCurrent'
  <2>1. file' = file /\ CreatorsHold /\ (\A q \in Rotators \ {r} : at'[q] = "replacing" => Holds(q))
    BY <1>4 DEF RotateFind, Go, Done, Leave, Forget, IInv, TypeOK, Requests
  <2>2. at'[r] = "replacing" =>
          \E p \in Positions :
            /\ pos'[r] = p /\ snap'[r] = file[p] /\ ses'[r] = file[p].activeSessionId
            /\ Cardinality(Known(file[p])) < MaxSessions
    BY <1>4 DEF RotateFind, Go, Done, Leave, Forget, IInv, TypeOK, Requests
  <2> QED BY <2>1, <2>2 DEF IInv, SnapsCurrent, Known
<1>5. CASE /\ \A r \in Creators : ~ CreateWrite(r) /\ ~ CreateRead(r)
           /\ \A r \in Rotators : ~ RotateWrite(r) /\ ~ RotateFind(r)
  <2> DEFINE Frame == file' = file /\ CreatorsHold /\ RotatorsHold
  <2>1. Frame
    <3> USE DEF IInv, TypeOK, Requests, Go, Take, Leave, Done, Forget
    <3>1. ASSUME NEW r \in Requests, Arrive(r) PROVE Frame
      BY <3>1 DEF Arrive
    <3>2. ASSUME NEW r \in Creators, Create(r) PROVE Frame
      BY <1>5, <3>2 DEF Create, CreateEnter, CreateEnds
    <3>3. ASSUME NEW r \in Rotators, Rotate(r) PROVE Frame
      BY <1>5, <3>3 DEF Rotate, RotateEnter, RotateReturns, RotateFails
    <3>4. ASSUME NEW r \in Posters, Post(r) PROVE Frame
      BY <3>4 DEF Post, ReserveEnter, ReserveGet, ReserveRefused, ReleaseTurn
    <3>5. CASE Restart
      BY <3>5 DEF Restart
    <3>6. CASE UNCHANGED vars
      BY <3>6 DEF vars
    <3> QED BY <3>1, <3>2, <3>3, <3>4, <3>5, <3>6 DEF Next
  <2> QED BY <2>1 DEF IInv, SnapsCurrent, Known
<1> QED BY <1>1, <1>2, <1>3, <1>4, <1>5, CreateWriteEffect, RotateWriteEffect

\* No write takes a successor back, so an answer stays true.
LEMMA AnswersPreserved ==
  ASSUME IInv, [Next]_vars
  PROVE  AnswersTrue'
<1>1. ASSUME NEW s, NEW n, n # None, Rotated(file, s, n) PROVE Rotated(file', s, n)
  <2>1. PICK p \in Positions : s \in Known(file[p]) /\ file[p].rotatedTo[s] = n
    BY <1>1 DEF Rotated
  <2>2. ASSUME NEW q \in Positions, NEW m, Extends(q, m)
        PROVE  s \in Known(file'[p]) /\ file'[p].rotatedTo[s] = n
    BY <1>1, <2>1, <2>2 DEF Extends
  <2>3. s \in Known(file'[p]) /\ file'[p].rotatedTo[s] = n
    BY <2>1, <2>2, FileEffect DEF FileStep, FirstWritten, SuccessorWritten
  <2> QED BY <2>3 DEF Rotated
<1>2. \A a \in answers : Rotated(file', a[1], a[2])
  <2>1. \A a \in answers : a[2] # None
    BY SessionStoreAssumption DEF IInv, TypeOK
  <2> QED BY <1>1, <2>1 DEF IInv, AnswersTrue
<1>3. ASSUME NEW r \in Rotators, at[r] = "replaced"
      PROVE  /\ snap[r].activeSessionId \in Sessions
             /\ Rotated(file', ses[r], snap[r].activeSessionId)
  BY <1>1, <1>3, SessionStoreAssumption DEF IInv, AnswersTrue
<1>4. \A a \in answers' : Rotated(file', a[1], a[2])
  <2>1. ASSUME NEW r \in Rotators, RotateFind(r)
        PROVE  \A a \in answers' : Rotated(file', a[1], a[2])
    <3>1. file' = file
      BY <2>1 DEF RotateFind
    <3>2. \/ answers' = answers
          \/ \E p \in Positions :
               /\ ses[r] \in Known(file[p])
               /\ answers' = answers \cup {<<ses[r], file[p].rotatedTo[ses[r]]>>}
      BY <2>1 DEF RotateFind
    <3>3. \A p \in Positions : ses[r] \in Known(file[p]) =>
            Rotated(file', ses[r], file[p].rotatedTo[ses[r]])
      BY <3>1 DEF Rotated
    <3> QED BY <1>2, <3>2, <3>3
  <2>2. ASSUME NEW r \in Rotators, RotateReturns(r)
        PROVE  \A a \in answers' : Rotated(file', a[1], a[2])
    BY <1>2, <1>3, <2>2 DEF RotateReturns
  <2>3. CASE \A r \in Rotators : ~ RotateFind(r) /\ ~ RotateReturns(r)
    <3>1. answers' = answers
      BY <2>3 DEF Next, vars, Arrive, Create, CreateEnter, CreateRead, CreateWrite, CreateEnds,
                  Rotate, RotateEnter, RotateWrite, RotateFails,
                  Post, ReserveEnter, ReserveGet, ReserveRefused, ReleaseTurn, Restart
    <3> QED BY <1>2, <3>1
  <2> QED BY <2>1, <2>2, <2>3
<1>5. ASSUME NEW q \in Rotators, at'[q] = "replaced"
      PROVE  /\ snap'[q].activeSessionId \in Sessions
             /\ Rotated(file', ses'[q], snap'[q].activeSessionId)
  <2>1. CASE RotateWrite(q)
    <3>1. PICK n \in Fresh : SuccessorWritten(q, n)
      BY <2>1, RotateWriteEffect
    <3>2. ses'[q] = ses[q] /\ snap'[q] = file'[pos[q]]
      BY <2>1, <3>1 DEF RotateWrite, SuccessorWritten, IInv, TypeOK, Requests
    <3> QED BY <3>1, <3>2 DEF SuccessorWritten, Extends, Rotated, Fresh
  <2>2. CASE ~ RotateWrite(q)
    <3> DEFINE Kept == at[q] = "replaced" /\ snap'[q] = snap[q] /\ ses'[q] = ses[q]
    <3>0. /\ q \in Requests /\ q \notin Creators /\ q \notin Posters
          /\ DOMAIN at = Requests /\ DOMAIN ses = Requests /\ DOMAIN snap = Requests
      BY SessionStoreAssumption DEF IInv, TypeOK, Requests
    <3> USE <1>5, <3>0 DEF Go, Take, Leave, Done, Forget
    <3>1. ASSUME NEW r \in Requests, Arrive(r) PROVE Kept
      BY <3>1 DEF Arrive
    <3>2. ASSUME NEW r \in Creators, Create(r) PROVE Kept
      BY <3>2 DEF Create, CreateEnter, CreateRead, CreateWrite, CreateEnds
    <3>3. ASSUME NEW r \in Rotators, Rotate(r) PROVE Kept
      <4>1. CASE RotateFind(r)
        BY <4>1 DEF RotateFind
      <4>2. CASE RotateWrite(r)
        BY <2>2, <4>2 DEF RotateWrite
      <4>3. CASE ~ RotateFind(r) /\ ~ RotateWrite(r)
        BY <3>3, <4>3 DEF Rotate, RotateEnter, RotateReturns, RotateFails
      <4> QED BY <4>1, <4>2, <4>3
    <3>4. ASSUME NEW r \in Posters, Post(r) PROVE Kept
      BY <3>4 DEF Post, ReserveEnter, ReserveGet, ReserveRefused, ReleaseTurn
    <3>5. ASSUME Restart PROVE Kept
      BY <3>5 DEF Restart
    <3>6. ASSUME UNCHANGED vars PROVE Kept
      BY <3>6 DEF vars
    <3>7. Kept
      BY <3>1, <3>2, <3>3, <3>4, <3>5, <3>6 DEF Next
    <3> QED BY <1>3, <3>7
  <2> QED BY <2>1, <2>2
<1> QED BY <1>4, <1>5 DEF AnswersTrue

\* The turns that run change only when one is reserved, one is released or the process dies.
LEMMA RunningEffect ==
  ASSUME IInv, [Next]_vars,
         \A r \in Posters : ~ ReserveGet(r) /\ ~ ReleaseTurn(r),
         ~ Restart
  PROVE  /\ reserved' = reserved
         /\ \A r \in Posters : at'[r] = "running" <=> at[r] = "running"
         /\ \A r \in Posters : at[r] = "running" => ses'[r] = ses[r]
<1> DEFINE Same ==
      /\ reserved' = reserved
      /\ \A r \in Posters : at'[r] = "running" <=> at[r] = "running"
      /\ \A r \in Posters : at[r] = "running" => ses'[r] = ses[r]
<1>0. /\ Posters \subseteq Requests /\ Posters \cap (Creators \cup Rotators) = {}
      /\ DOMAIN at = Requests /\ DOMAIN ses = Requests
  BY SessionStoreAssumption DEF IInv, TypeOK, Requests
<1> USE <1>0 DEF Go, Take, Leave, Done, Forget
<1>1. ASSUME NEW r \in Requests, Arrive(r) PROVE Same
  BY <1>1 DEF Arrive
<1>2. ASSUME NEW r \in Creators, Create(r) PROVE Same
  BY <1>2 DEF Create, CreateEnter, CreateRead, CreateWrite, CreateEnds
<1>3. ASSUME NEW r \in Rotators, Rotate(r) PROVE Same
  BY <1>3 DEF Rotate, RotateEnter, RotateFind, RotateWrite, RotateReturns, RotateFails
<1>4. ASSUME NEW r \in Posters, Post(r) PROVE Same
  BY <1>4 DEF Post, ReserveEnter, ReserveRefused
<1>5. CASE UNCHANGED vars
  BY <1>5 DEF vars
<1> QED BY <1>1, <1>2, <1>3, <1>4, <1>5 DEF Next

\* The counter of a session is the number of its running turns, so it neither stays up after
\* they end nor reaches zero before.
LEMMA CountedPreserved ==
  ASSUME IInv, [Next]_vars
  PROVE  Counted'
<1>0. /\ \A s \in Sessions : reserved[s] = Cardinality(RunningIn(s)) /\ IsFiniteSet(RunningIn(s))
      /\ reserved \in [Sessions -> Nat]
      /\ Posters \subseteq Requests /\ DOMAIN at = Requests /\ DOMAIN ses = Requests
  <2>1. \A s \in Sessions : RunningIn(s) \subseteq Posters
    BY DEF RunningIn
  <2> QED BY <2>1, FS_Subset, SessionStoreAssumption DEF IInv, Counted, TypeOK, Requests
<1>1. ASSUME NEW r \in Posters, ReserveGet(r) PROVE Counted'
  <2>1. PICK s \in Sessions : s = ses[r] /\ ses' = ses /\ r \notin RunningIn(s)
    BY <1>1 DEF ReserveGet, IInv, LocksHeld, SesHolding, RunningIn
  <2>2. reserved' = [reserved EXCEPT ![s] = @ + 1]
    BY <1>1, <2>1 DEF ReserveGet
  <2>3. /\ RunningIn(s)' = RunningIn(s) \cup {r}
        /\ \A o \in Sessions \ {s} : RunningIn(o)' = RunningIn(o)
    BY <1>0, <1>1, <2>1 DEF ReserveGet, Go, RunningIn
  <2>4. Cardinality(RunningIn(s) \cup {r}) = Cardinality(RunningIn(s)) + 1
    BY <1>0, <2>1, FS_AddElement
  <2> QED BY <1>0, <2>2, <2>3, <2>4 DEF Counted
<1>2. ASSUME NEW r \in Posters, ReleaseTurn(r) PROVE Counted'
  <2>1. PICK s \in Sessions : s = ses[r] /\ r \in RunningIn(s)
    BY <1>2 DEF ReleaseTurn, IInv, LocksHeld, RunningIn
  <2>2. reserved' = [reserved EXCEPT ![s] = IF @ <= 1 THEN 0 ELSE @ - 1]
    BY <1>2, <2>1 DEF ReleaseTurn
  <2>3. /\ RunningIn(s)' = RunningIn(s) \ {r}
        /\ \A o \in Sessions \ {s} : RunningIn(o)' = RunningIn(o)
    BY <1>0, <1>2, <2>1 DEF ReleaseTurn, Go, Forget, RunningIn
  <2>4. Cardinality(RunningIn(s) \ {r}) = Cardinality(RunningIn(s)) - 1
    BY <1>0, <2>1, FS_RemoveElement
  <2>5. reserved[s] >= 1
    BY <1>0, <2>1, FS_EmptySet
  <2> QED BY <1>0, <2>2, <2>3, <2>4, <2>5 DEF Counted
<1>3. CASE Restart
  <2>1. \A s \in Sessions : reserved'[s] = 0 /\ RunningIn(s)' = {}
    BY <1>0, <1>3 DEF Restart, RunningIn
  <2> QED BY <2>1, FS_EmptySet DEF Counted
<1>4. CASE (\A r \in Posters : ~ ReserveGet(r) /\ ~ ReleaseTurn(r)) /\ ~ Restart
  <2>1. reserved' = reserved /\ \A s \in Sessions : RunningIn(s)' = RunningIn(s)
    BY <1>4, RunningEffect DEF RunningIn
  <2> QED BY <1>0, <2>1 DEF Counted
<1> QED BY <1>1, <1>2, <1>3, <1>4

\* A turn comes to run only by reserving.
LEMMA RunsSince ==
  ASSUME IInv, [Next]_vars, NEW r \in Posters, at'[r] = "running", ~ ReserveGet(r)
  PROVE  at[r] = "running" /\ ses'[r] = ses[r]
<1>0. r \in Requests /\ DOMAIN at = Requests /\ DOMAIN ses = Requests
  BY DEF IInv, TypeOK, Requests
<1>1. ~ Restart
  BY <1>0 DEF Restart
<1>2. ASSUME NEW o \in Posters, ReserveGet(o) PROVE at[r] = "running" /\ ses'[r] = ses[r]
  BY <1>0, <1>2 DEF ReserveGet, Go
<1>3. ASSUME NEW o \in Posters, ReleaseTurn(o) PROVE at[r] = "running" /\ ses'[r] = ses[r]
  BY <1>0, <1>3 DEF ReleaseTurn, Go, Forget
<1> QED BY <1>1, <1>2, <1>3, RunningEffect

\* A rotation comes to be under way only by entering.
LEMMA RotatesSince ==
  ASSUME IInv, [Next]_vars,
         NEW q \in Rotators, at'[q] \in {"finding", "replacing"}, ~ RotateEnter(q)
  PROVE  at[q] \in {"finding", "replacing"} /\ ses'[q] = ses[q]
<1> DEFINE Kept == at[q] \in {"finding", "replacing"} /\ ses'[q] = ses[q]
<1>0. /\ q \in Requests /\ q \notin Creators /\ q \notin Posters
      /\ DOMAIN at = Requests /\ DOMAIN ses = Requests
  BY SessionStoreAssumption DEF IInv, TypeOK, Requests
<1> USE <1>0 DEF Go, Take, Leave, Done, Forget
<1>1. ASSUME NEW r \in Requests, Arrive(r) PROVE Kept
  BY <1>1 DEF Arrive
<1>2. ASSUME NEW r \in Creators, Create(r) PROVE Kept
  BY <1>2 DEF Create, CreateEnter, CreateRead, CreateWrite, CreateEnds
<1>3. ASSUME NEW r \in Rotators, Rotate(r) PROVE Kept
  <2>1. CASE RotateFind(r)
    BY <2>1 DEF RotateFind
  <2>2. CASE ~ RotateFind(r)
    BY <1>3, <2>2 DEF Rotate, RotateEnter, RotateWrite, RotateReturns, RotateFails
  <2> QED BY <2>1, <2>2
<1>4. ASSUME NEW r \in Posters, Post(r) PROVE Kept
  BY <1>4 DEF Post, ReserveEnter, ReserveGet, ReserveRefused, ReleaseTurn
<1>5. CASE Restart
  BY <1>5 DEF Restart
<1>6. CASE UNCHANGED vars
  BY <1>6 DEF vars
<1> QED BY <1>1, <1>2, <1>3, <1>4, <1>5, <1>6 DEF Next

\* A rotation that saw no reservation keeps them out as long as it holds the session's lock.
LEMMA ExclusionPreserved ==
  ASSUME IInv, [Next]_vars
  PROVE  RotationExcludesTurns'
<1> SUFFICES ASSUME NEW q \in Rotators, at'[q] \in {"finding", "replacing"},
                    NEW r \in Posters, at'[r] = "running", ses'[r] = ses'[q]
             PROVE  FALSE
  BY DEF RotationExcludesTurns, RunningIn
<1>0. /\ q \in Requests /\ q \notin Creators /\ q \notin Posters /\ r \in Requests
      /\ DOMAIN at = Requests /\ DOMAIN ses = Requests
  BY SessionStoreAssumption DEF IInv, TypeOK, Requests
<1>1. CASE RotateEnter(q)
  <2>1. ses[q] \in Sessions /\ at' = [at EXCEPT ![q] = "finding"] /\ ses' = ses /\ reserved[ses[q]] = 0
    BY <1>0, <1>1 DEF RotateEnter, Go, IInv, LocksHeld
  <2>2. IsFiniteSet(RunningIn(ses[q]))
    <3>1. RunningIn(ses[q]) \subseteq Posters
      BY DEF RunningIn
    <3> QED BY <3>1, FS_Subset, SessionStoreAssumption
  <2>3. RunningIn(ses[q]) = {}
    BY <2>1, <2>2, FS_EmptySet DEF IInv, Counted
  <2> QED BY <1>0, <2>1, <2>3 DEF RunningIn
<1>2. CASE ~ RotateEnter(q)
  <2>1. at[q] \in {"finding", "replacing"} /\ ses'[q] = ses[q]
    BY <1>2, RotatesSince
  <2>2. ses[q] \in Sessions /\ lock[ses[q]] = q /\ RunningIn(ses[q]) = {}
    BY <2>1 DEF IInv, LocksHeld, SesHolding, RotationExcludesTurns
  <2>3. CASE ReserveGet(r)
    <3>1. lock[ses[r]] = r /\ ses'[r] = ses[r]
      BY <2>3 DEF ReserveGet, IInv, LocksHeld, SesHolding
    <3> QED BY <1>0, <2>1, <2>2, <3>1
  <2>4. CASE ~ ReserveGet(r)
    <3>1. at[r] = "running" /\ ses'[r] = ses[r]
      BY <2>4, RunsSince
    <3> QED BY <2>1, <2>2, <3>1 DEF RunningIn
  <2> QED BY <2>3, <2>4
<1> QED BY <1>1, <1>2

\* The session a turn runs in is sealed by nobody: a successor is written by a rotation that
\* excludes the turns of its source.
LEMMA ActivityPreserved ==
  ASSUME IInv, [Next]_vars
  PROVE  RunningTurnHasActiveSession'
<1> DEFINE Active(f, s) == \E p \in Positions : f[p].activeSessionId = s
<1> SUFFICES ASSUME NEW r \in Posters, at'[r] = "running"
             PROVE  Active(file', ses'[r])
  BY DEF RunningTurnHasActiveSession
<1>1. CASE ReserveGet(r)
  <2>1. file' = file /\ ses' = ses
    BY <1>1 DEF ReserveGet
  <2>2. PICK p \in Positions : ses[r] \in Known(file[p]) /\ file[p].rotatedTo[ses[r]] = None
    BY <1>1 DEF ReserveGet
  <2>3. file[p].activeSessionId = ses[r]
    BY <2>2 DEF IInv, PositionStatesValid, IsPositionState, OneActive
  <2> QED BY <2>1, <2>3
<1>2. CASE ~ ReserveGet(r)
  <2>1. at[r] = "running" /\ ses'[r] = ses[r]
    BY <1>2, RunsSince
  <2>2. PICK p \in Positions : file[p].activeSessionId = ses[r]
    BY <2>1 DEF IInv, RunningTurnHasActiveSession
  <2>3. ses[r] \in Sessions /\ r \in RunningIn(ses[r])
    BY <2>1 DEF IInv, LocksHeld, RunningIn
  <2>4. ASSUME NEW c \in Creators, NEW n \in Fresh, FirstWritten(c, n) PROVE file'[p] = file[p]
    BY <2>2, <2>3, <2>4, SessionStoreAssumption
    DEF FirstWritten, Extends, IInv, PositionStatesValid, IsPositionState, OneActive
  <2>5. ASSUME NEW q \in Rotators, NEW n \in Fresh, SuccessorWritten(q, n) PROVE file'[p] = file[p]
    <3>1. ses[q] # ses[r]
      BY <2>3, <2>5 DEF SuccessorWritten, IInv, RotationExcludesTurns
    <3> QED BY <2>2, <2>5, <3>1 DEF SuccessorWritten, Extends
  <2>6. file'[p] = file[p]
    BY <2>4, <2>5, FileEffect DEF FileStep
  <2> QED BY <2>1, <2>2, <2>6
<1> QED BY <1>1, <1>2

-----------------------------------------------------------------------------
(* Theorems *)

\* Every reachable state satisfies the inductive invariant.
THEOREM Invariance == Spec => []IInv
<1>1. Init => IInv
  BY InitIInv
<1>2. IInv /\ [Next]_vars => IInv'
  BY TypePreserved, LocksPreserved, FilesPreserved, SnapsPreserved, AnswersPreserved,
     CountedPreserved, ExclusionPreserved, ActivityPreserved DEF IInv
<1> QED BY <1>1, <1>2, PTL DEF Spec

\* sessions/store.ts: whatever calls interleave, the variables keep their types and no
\* position file holds more sessions than MAX_SESSIONS_PER_POSITION.
THEOREM TypeCorrect == Spec => []TypeOK
<1>1. IInv => TypeOK
  BY DEF IInv
<1> QED BY <1>1, Invariance, PTL

\* sessions/store.ts isPositionState: create and rotate, writing one file under different
\* locks, only ever leave a state on disk that the next read accepts.
THEOREM PositionStatesValidHolds == Spec => []PositionStatesValid
<1>1. IInv => PositionStatesValid
  BY DEF IInv
<1> QED BY <1>1, Invariance, PTL

\* reserveTurn, releaseTurn and rotate: a session is never rotated under a running turn.
THEOREM RunningTurnHasActiveSessionHolds == Spec => []RunningTurnHasActiveSession
<1>1. IInv => RunningTurnHasActiveSession
  BY DEF IInv
<1> QED BY <1>1, Invariance, PTL

\* rotate: two answers about one source name one successor.
THEOREM OneSuccessorHolds == Spec => []OneSuccessor
<1>1. IInv => OneSuccessor
  <2> SUFFICES ASSUME IInv, NEW a \in answers, NEW b \in answers, a[1] = b[1]
               PROVE  a[2] = b[2]
    BY DEF OneSuccessor
  <2>1. PICK p \in Positions : a[1] \in Known(file[p]) /\ file[p].rotatedTo[a[1]] = a[2]
    BY DEF IInv, AnswersTrue, Rotated
  <2>2. PICK q \in Positions : b[1] \in Known(file[q]) /\ file[q].rotatedTo[b[1]] = b[2]
    BY DEF IInv, AnswersTrue, Rotated
  <2>3. p = q
    BY <2>1, <2>2 DEF IInv, IdsDisjoint
  <2> QED BY <2>1, <2>2, <2>3
<1> QED BY <1>1, Invariance, PTL

\* create and rotate never overwrite each other's session: every write of a position file
\* keeps all the sessions and successors that were stored.
THEOREM SessionsNeverLostHolds == Spec => SessionsNeverLost
<1> DEFINE Keeps == \A p \in Positions : \A s \in Known(file[p]) :
      /\ s \in Known(file'[p])
      /\ file[p].rotatedTo[s] # None => file'[p].rotatedTo[s] = file[p].rotatedTo[s]
<1>1. IInv /\ [Next]_vars => Keeps
  <2> SUFFICES ASSUME IInv, [Next]_vars PROVE Keeps
    OBVIOUS
  <2>1. CASE file' = file
    BY <2>1
  <2>2. ASSUME NEW p \in Positions, NEW n, Extends(p, n) PROVE Keeps
    BY <2>2 DEF Extends
  <2> QED BY FileEffect, <2>1, <2>2 DEF FileStep, FirstWritten, SuccessorWritten
<1> QED BY <1>1, Invariance, PTL DEF Spec, SessionsNeverLost
=============================================================================

------------------------- MODULE SharedFilesProofs -------------------------
(***************************************************************************)
(* Proofs about the three components whose requests share files without a  *)
(* common lock: GroupStore, AssetStore, and TurnReports, where reports are *)
(* read while turns and sessions are written.  They hold for every number  *)
(* of requests, groups, assets, documents, workspaces, turns,              *)
(* conversations, restarts, and every capacity.                            *)
(*                                                                         *)
(* What stands in for a lock is that a uuid belongs to the one request     *)
(* that drew it (Drawn, OwnAsset), that open "wx" gives a document to one  *)
(* request (Claimed), that one turn at a time makes up the id of a         *)
(* conversation (MetadataIsOwned), and that files are only added (Grows),  *)
(* so that what a report has listed is still there when it is read.        *)
(* The last part is about what those files hold: the turn records the      *)
(* driver lets through are those the store reads (TurnRecords).            *)
(***************************************************************************)
EXTENDS GroupStore, AssetStore, TurnReports, TurnRecords, FiniteSetTheorems, WellFoundedInduction, TLAPS

-----------------------------------------------------------------------------
(* GroupStore *)

\* The requests that name one group.
GroupOps == {"create", "add", "post"}

\* Whoever can be on a roster.
Everybody == (UNION Rosters) \cup People

\* The types of a request.
CallSteps == {"idle", "checking", "preparing", "getting", "writing", "refused"}
CallRecords ==
  [op : {"none", "list"} \cup GroupOps, step : CallSteps, ref : SUBSET Refs, who : SUBSET Everybody,
   read : SUBSET (Refs \cup Everybody)]

\* The types of the variables of GroupStore.
GroupTypeOK ==
  /\ groupDirs \subseteq Refs
  /\ roster \in [Refs -> SUBSET Everybody]
  /\ messages \in [Refs -> Seq(People)]
  /\ promised \in [Refs -> SUBSET Everybody]
  /\ overlapped \subseteq Refs
  /\ calls \in [Calls -> CallRecords]

\* What a call keeps in its fields.
Shaped(r) ==
  /\ r.op \in GroupOps => \E ref \in Refs : r.ref = {ref}
  /\ r.op = "create" => r.who \in Rosters
  /\ r.op \in {"add", "post"} => \E p \in People : r.who = {p}
  /\ r.op = "list" => r.read \subseteq Refs
  /\ r.op = "add" => r.read \subseteq Everybody

\* The fields of every request fit its operation.
CallShape == \A c \in Calls : Shaped(calls[c])

\* A generated ref is its creator's alone until the group is written.
Drawn ==
  \A c, k \in Calls :
    c # k /\ calls[c].op = "create" /\ calls[k].op \in GroupOps => calls[c].ref # calls[k].ref

\* A group that is still being created is not on disk.
Unwritten ==
  \A c \in Calls, ref \in Refs :
    calls[c].op = "create" /\ calls[c].ref = {ref} => roster[ref] = {}

\* Two additions to one group at a time are observed.
OverlapsNoted ==
  \A c, k \in Calls, ref \in Refs :
    c # k /\ calls[c].op = "add" /\ calls[k].op = "add" /\ calls[c].ref = {ref} /\ calls[k].ref = {ref}
      => ref \in overlapped

\* A record lies in a directory, and a request that reads or writes one has prepared it.
HasDirectory ==
  /\ \A ref \in Refs : roster[ref] # {} => ref \in groupDirs
  /\ \A c \in Calls : calls[c].op \in {"create", "add"} /\ calls[c].step \in {"getting", "writing"} =>
       calls[c].ref \subseteq groupDirs

\* A check or a read of the roster still holds when it is used.
StillTrue ==
  \A c \in Calls, ref \in Refs : calls[c].ref = {ref} =>
    /\ At(c, "add", "writing") /\ ref \notin overlapped => calls[c].read = roster[ref]
    /\ calls[c].op = "post" /\ calls[c].step \in {"preparing", "checking", "writing"} =>
         roster[ref] # {} /\ (ref \notin overlapped => calls[c].who \subseteq roster[ref])

\* MembersStay, message by message.
OnTheRoster ==
  \A ref \in Refs \ overlapped :
    promised[ref] \subseteq roster[ref] /\ \A i \in 1 .. Len(messages[ref]) : messages[ref][i] \in roster[ref]

\* Nothing was answered about a group that is not there.
NobodyInNoGroup == \A ref \in Refs : roster[ref] = {} => promised[ref] = {} /\ messages[ref] = <<>>

\* The inductive invariant of GroupStore.
GroupInv ==
  /\ GroupTypeOK /\ CallShape /\ Drawn /\ Unwritten /\ OverlapsNoted /\ HasDirectory /\ StillTrue
  /\ NobodyInNoGroup /\ OnTheRoster

\* A roster that a group is created with is not empty.
LEMMA RosterOfSome == ASSUME NEW members \in Rosters PROVE members # {} /\ members \subseteq Everybody
<1>1. members # {}
  BY GroupAssumption, FS_EmptySet
<1>. QED BY <1>1 DEF Everybody

\* A person may be added to one.
LEMMA PersonOfAll == ASSUME NEW p \in People PROVE {p} # {} /\ {p} \subseteq Everybody
BY DEF Everybody

\* Nothing has been asked, nothing is stored.
LEMMA GroupsInitially == ASSUME GroupInit PROVE GroupInv
<1>1. <<>> \in Seq(People) /\ Len(<<>>) = 0
  OBVIOUS
<1>2. NoCall \in CallRecords
  BY DEF NoCall, CallRecords, CallSteps
<1>3. GroupTypeOK
  BY <1>1, <1>2 DEF GroupInit, GroupTypeOK
<1>4. CallShape /\ Drawn /\ Unwritten /\ OverlapsNoted
  BY DEF GroupInit, NoCall, GroupOps, CallShape, Shaped, Drawn, Unwritten, OverlapsNoted
<1>5. HasDirectory /\ StillTrue
  BY DEF GroupInit, NoCall, GroupOps, HasDirectory, StillTrue, At
<1>6. NobodyInNoGroup /\ OnTheRoster
  BY <1>1 DEF GroupInit, NobodyInNoGroup, OnTheRoster
<1>. QED BY <1>3, <1>4, <1>5, <1>6 DEF GroupInv

\* A request that goes on to its next step keeps everything else.
LEMMA CallMoves ==
  ASSUME GroupTypeOK, NEW c \in Calls, NEW step \in CallSteps, CallGoes(c, step)
  PROVE  /\ calls' \in [Calls -> CallRecords]
         /\ calls'[c].step = step
         /\ \A k \in Calls :
              /\ k # c => calls'[k] = calls[k]
              /\ calls'[k].op = calls[k].op /\ calls'[k].ref = calls[k].ref
              /\ calls'[k].who = calls[k].who /\ calls'[k].read = calls[k].read
BY DEF GroupTypeOK, CallGoes, CallRecords

\* One that starts or ends leaves the others alone.
LEMMA CallBecomes ==
  ASSUME GroupTypeOK, NEW c \in Calls, NEW r, calls' = [calls EXCEPT ![c] = r]
  PROVE  /\ r \in CallRecords => calls' \in [Calls -> CallRecords]
         /\ calls'[c] = r
         /\ \A k \in Calls : k # c => calls'[k] = calls[k]
BY DEF GroupTypeOK

\* A request that ends without a write takes its claims with it.
LEMMA CallLeaves ==
  ASSUME GroupInv, NEW c \in Calls, CallEnds(c),
         UNCHANGED <<groupDirs, roster, messages, promised, overlapped>>
  PROVE  GroupInv'
<1>. USE DEF GroupInv
<1>1. NoCall \in CallRecords /\ NoCall.op = "none" /\ NoCall.ref = {}
  BY DEF NoCall, CallRecords, CallSteps
<1>2. /\ calls' \in [Calls -> CallRecords] /\ calls'[c] = NoCall
      /\ \A k \in Calls : k # c => calls'[k] = calls[k]
  BY <1>1, CallBecomes DEF CallEnds
<1>3. GroupTypeOK'
  BY <1>2 DEF GroupTypeOK
<1>4. CallShape' /\ Drawn' /\ Unwritten' /\ OverlapsNoted'
  BY <1>1, <1>2 DEF CallShape, Shaped, Drawn, Unwritten, OverlapsNoted, GroupOps
<1>5. HasDirectory' /\ StillTrue'
  BY <1>1, <1>2 DEF HasDirectory, StillTrue, At
<1>6. NobodyInNoGroup' /\ OnTheRoster'
  BY DEF NobodyInNoGroup, OnTheRoster
<1>. QED BY <1>3, <1>4, <1>5, <1>6

\* POST /groups: the ref is new, so nobody else can touch the group before it is written.
LEMMA CreateSteps ==
  ASSUME GroupInv, NEW c \in Calls, Creates(c)
  PROVE  GroupInv'
<1>. USE DEF GroupInv
<1>1. CASE CreateAsked(c)
  <2>1. PICK ref \in FreshRefs, members \in Rosters :
          calls' = [calls EXCEPT ![c] = [NoCall EXCEPT !.op = "create", !.step = "checking", !.ref = {ref}, !.who = members]]
    BY <1>1 DEF CreateAsked, Requested
  <2> DEFINE r == [NoCall EXCEPT !.op = "create", !.step = "checking", !.ref = {ref}, !.who = members]
  <2>2. ref \in Refs /\ ref \notin groupDirs /\ \A k \in Calls : calls[k].ref # {ref}
    BY DEF FreshRefs, On
  <2>3. /\ calls' = [calls EXCEPT ![c] = r] /\ r \in CallRecords
        /\ r.op = "create" /\ r.step = "checking" /\ r.ref = {ref} /\ r.who = members
    <3>1. members \subseteq Everybody
      BY RosterOfSome
    <3>2. r \in CallRecords
      BY <2>2, <3>1 DEF CallRecords, CallSteps, GroupOps, NoCall
    <3>. QED BY <2>1, <3>2 DEF NoCall
  <2>. HIDE DEF r
  <2>4. /\ calls' \in [Calls -> CallRecords] /\ calls'[c] = r
        /\ \A k \in Calls : k # c => calls'[k] = calls[k]
        /\ UNCHANGED <<groupDirs, roster, messages, promised, overlapped>>
    BY <1>1, <2>3, CallBecomes DEF CreateAsked
  <2>5. roster[ref] = {}
    BY <2>2 DEF HasDirectory
  <2>6. GroupTypeOK'
    BY <2>3, <2>4 DEF GroupTypeOK
  <2>7. CallShape'
    <3>1. Shaped(r)
      BY <2>1, <2>2, <2>3 DEF Shaped, GroupOps
    <3>. QED BY <2>3, <2>4, <3>1 DEF CallShape
  <2>10. Drawn'
    BY <2>2, <2>3, <2>4 DEF Drawn, GroupOps
  <2>8. Unwritten' /\ OverlapsNoted'
    BY <2>2, <2>3, <2>4, <2>5 DEF Unwritten, OverlapsNoted
  <2>9. HasDirectory' /\ StillTrue' /\ NobodyInNoGroup' /\ OnTheRoster'
    BY <2>3, <2>4 DEF HasDirectory, StillTrue, At, NobodyInNoGroup, OnTheRoster
  <2>. QED BY <2>6, <2>7, <2>8, <2>9, <2>10
<1>2. CASE CreateChecks(c) /\ CallGoes(c, "preparing")
  <2>1. calls[c].op = "create" /\ UNCHANGED <<groupDirs, roster, messages, promised, overlapped>>
    BY <1>2 DEF CreateChecks, At
  <2>2. GroupTypeOK'
    BY <1>2, <2>1, CallMoves DEF GroupTypeOK, CallSteps
  <2>3. CallShape' /\ Drawn' /\ Unwritten' /\ OverlapsNoted'
    BY <1>2, <2>1, CallMoves DEF CallShape, Shaped, Drawn, Unwritten, OverlapsNoted, CallSteps, GroupOps
  <2>4. HasDirectory' /\ StillTrue' /\ NobodyInNoGroup' /\ OnTheRoster'
    BY <1>2, <2>1, CallMoves DEF HasDirectory, StillTrue, At, NobodyInNoGroup, OnTheRoster, CallSteps
  <2>. QED BY <2>2, <2>3, <2>4
<1>3. CASE CreatePrepares(c)
  <2>1. /\ CallGoes(c, "writing") /\ calls[c].op = "create"
        /\ groupDirs' = groupDirs \cup calls[c].ref
        /\ UNCHANGED <<roster, messages, promised, overlapped>>
    BY <1>3 DEF CreatePrepares, Prepares, At
  <2>2. calls[c].ref \subseteq Refs
    BY DEF GroupTypeOK, CallRecords
  <2>3. GroupTypeOK'
    BY <2>1, <2>2, CallMoves DEF GroupTypeOK, CallSteps
  <2>4. CallShape' /\ Drawn' /\ Unwritten' /\ OverlapsNoted'
    BY <2>1, CallMoves DEF CallShape, Shaped, Drawn, Unwritten, OverlapsNoted, CallSteps, GroupOps
  <2>5. HasDirectory' /\ StillTrue' /\ NobodyInNoGroup' /\ OnTheRoster'
    BY <2>1, CallMoves DEF HasDirectory, StillTrue, At, NobodyInNoGroup, OnTheRoster, CallSteps
  <2>. QED BY <2>3, <2>4, <2>5
<1>4. CASE CreateWrites(c)
  <2>1. PICK ref \in calls[c].ref :
          /\ roster' = [roster EXCEPT ![ref] = calls[c].who]
          /\ \/ promised' = [promised EXCEPT ![ref] = @ \cup calls[c].who]
             \/ UNCHANGED promised
    BY <1>4 DEF CreateWrites
  <2>2. /\ calls[c].op = "create" /\ calls[c].step = "writing"
        /\ UNCHANGED <<groupDirs, messages, overlapped>>
    BY <1>4 DEF CreateWrites, At
  <2>3. NoCall \in CallRecords /\ NoCall.op = "none" /\ NoCall.ref = {}
    BY DEF NoCall, CallRecords, CallSteps
  <2>4. /\ calls' \in [Calls -> CallRecords] /\ calls'[c] = NoCall
        /\ \A k \in Calls : k # c => calls'[k] = calls[k]
    BY <1>4, <2>3, CallBecomes DEF CreateWrites, CallEnds
  <2>5. ref \in Refs /\ calls[c].ref = {ref} /\ ref \in groupDirs
    BY <2>1, <2>2 DEF GroupOps, CallShape, Shaped, HasDirectory
  <2>6. calls[c].who # {} /\ calls[c].who \subseteq Everybody
    BY <2>2, RosterOfSome DEF CallShape, Shaped
  <2>7. roster[ref] = {} /\ promised[ref] = {} /\ messages[ref] = <<>>
    BY <2>2, <2>5 DEF Unwritten, NobodyInNoGroup
  <2>8. \A k \in Calls : k # c /\ calls[k].op \in GroupOps => calls[k].ref # {ref}
    BY <2>2, <2>5 DEF Drawn
  <2>9. /\ \A g \in Refs : g # ref => roster'[g] = roster[g] /\ promised'[g] = promised[g]
        /\ roster'[ref] = calls[c].who /\ promised'[ref] \subseteq calls[c].who
    BY <2>1, <2>5, <2>7 DEF GroupTypeOK
  <2>10. GroupTypeOK'
    BY <2>1, <2>2, <2>4, <2>5, <2>6 DEF GroupTypeOK
  <2>11. CallShape' /\ Drawn' /\ OverlapsNoted'
    BY <2>2, <2>3, <2>4 DEF CallShape, Shaped, Drawn, OverlapsNoted, GroupOps
  <2>12. Unwritten' /\ HasDirectory'
    BY <2>2, <2>3, <2>4, <2>5, <2>8, <2>9 DEF Unwritten, HasDirectory, GroupOps
  <2>13. StillTrue'
    BY <2>2, <2>3, <2>4, <2>5, <2>8, <2>9 DEF StillTrue, At, GroupOps
  <2>14. NobodyInNoGroup' /\ OnTheRoster'
    BY <2>2, <2>5, <2>6, <2>7, <2>9 DEF NobodyInNoGroup, OnTheRoster
  <2>. QED BY <2>10, <2>11, <2>12, <2>13, <2>14
<1>5. CASE CreateChecks(c) /\ CallEnds(c)
  BY <1>5, CallLeaves DEF CreateChecks
<1>. QED
  BY <1>1, <1>2, <1>3, <1>4, <1>5 DEF Creates, CreateChecks

\* POST /groups/:ref/members: as long as two of them do not overlap, the roster read is the
\* roster replaced.
LEMMA AddSteps ==
  ASSUME GroupInv, NEW c \in Calls, Adds(c)
  PROVE  GroupInv'
<1>. USE DEF GroupInv
<1>1. CASE AddAsked(c)
  <2>1. PICK ref \in Refs \ Generated, p \in People :
          /\ calls' = [calls EXCEPT ![c] = [NoCall EXCEPT !.op = "add", !.step = "preparing", !.ref = {ref}, !.who = {p}]]
          /\ overlapped' = IF Adding(ref) # {} THEN overlapped \cup {ref} ELSE overlapped
    BY <1>1 DEF AddAsked, Requested
  <2> DEFINE r == [NoCall EXCEPT !.op = "add", !.step = "preparing", !.ref = {ref}, !.who = {p}]
  <2>2. /\ ref \in Refs /\ \A k \in Calls : calls[k].op = "create" => calls[k].ref # {ref}
        /\ \A k \in Calls : calls[k].op = "add" /\ calls[k].ref = {ref} => ref \in overlapped'
        /\ overlapped \subseteq overlapped' /\ overlapped' \subseteq overlapped \cup {ref}
    BY <2>1 DEF Generated, Adding, On
  <2>3. /\ calls' = [calls EXCEPT ![c] = r] /\ r \in CallRecords /\ Shaped(r)
        /\ r.op = "add" /\ r.step = "preparing" /\ r.ref = {ref} /\ r.who = {p}
    <3>1. {p} \subseteq Everybody
      BY <2>1, PersonOfAll
    <3>2. r \in CallRecords
      BY <2>2, <3>1 DEF CallRecords, CallSteps, GroupOps, NoCall
    <3>3. Shaped(r)
      BY <2>1, <2>2 DEF Shaped, GroupOps, NoCall
    <3>. QED BY <2>1, <3>2, <3>3 DEF NoCall
  <2>. HIDE DEF r
  <2>4. /\ calls' \in [Calls -> CallRecords] /\ calls'[c] = r
        /\ \A k \in Calls : k # c => calls'[k] = calls[k]
        /\ UNCHANGED <<groupDirs, roster, messages, promised>>
    BY <1>1, <2>3, CallBecomes DEF AddAsked
  <2>5. GroupTypeOK'
    BY <2>2, <2>3, <2>4 DEF GroupTypeOK
  <2>6. CallShape'
    BY <2>3, <2>4 DEF CallShape
  <2>7. Drawn'
    BY <2>2, <2>3, <2>4 DEF Drawn, GroupOps
  <2>8. Unwritten'
    BY <2>3, <2>4 DEF Unwritten
  <2>9. OverlapsNoted'
    BY <2>2, <2>3, <2>4 DEF OverlapsNoted
  <2>10. HasDirectory' /\ NobodyInNoGroup'
    BY <2>3, <2>4 DEF HasDirectory, NobodyInNoGroup
  <2>11. StillTrue'
    BY <2>2, <2>3, <2>4 DEF StillTrue, At
  <2>12. OnTheRoster'
    BY <2>2, <2>3, <2>4 DEF OnTheRoster
  <2>. QED BY <2>5, <2>6, <2>7, <2>8, <2>9, <2>10, <2>11, <2>12
<1>2. CASE AddPrepares(c)
  <2>1. /\ CallGoes(c, "getting") /\ calls[c].op = "add"
        /\ groupDirs' = groupDirs \cup calls[c].ref
        /\ UNCHANGED <<roster, messages, promised, overlapped>>
    BY <1>2 DEF AddPrepares, Prepares, At
  <2>2. calls[c].ref \subseteq Refs
    BY DEF GroupTypeOK, CallRecords
  <2>3. GroupTypeOK'
    BY <2>1, <2>2, CallMoves DEF GroupTypeOK, CallSteps
  <2>4. CallShape' /\ Drawn' /\ Unwritten' /\ OverlapsNoted'
    BY <2>1, CallMoves DEF CallShape, Shaped, Drawn, Unwritten, OverlapsNoted, CallSteps, GroupOps
  <2>5. HasDirectory' /\ StillTrue' /\ NobodyInNoGroup' /\ OnTheRoster'
    BY <2>1, CallMoves DEF HasDirectory, StillTrue, At, NobodyInNoGroup, OnTheRoster, CallSteps
  <2>. QED BY <2>3, <2>4, <2>5
<1>3. CASE AddGets(c) /\ CallEnds(c)
  BY <1>3, CallLeaves DEF AddGets
<1>4. CASE AddGets(c) /\ ~ CallEnds(c)
  <2>1. /\ calls[c].op = "add" /\ calls[c].step = "getting"
        /\ UNCHANGED <<groupDirs, roster, messages, promised, overlapped>>
    BY <1>4 DEF AddGets, At
  <2>2. PICK ref \in calls[c].ref :
          Exists(ref) /\ calls' = [calls EXCEPT ![c].step = "writing", ![c].read = roster[ref]]
    BY <1>4 DEF AddGets
  <2>3. ref \in Refs /\ calls[c].ref = {ref}
    BY <2>1, <2>2 DEF CallShape, Shaped, GroupOps
  <2> DEFINE r == [calls[c] EXCEPT !.step = "writing", !.read = roster[ref]]
  <2>4. calls[c] \in CallRecords /\ roster[ref] \subseteq Everybody
    BY <2>3 DEF GroupTypeOK
  <2>5. /\ r \in CallRecords /\ r.op = calls[c].op /\ r.ref = calls[c].ref /\ r.who = calls[c].who
        /\ r.step = "writing" /\ r.read = roster[ref]
    BY <2>4 DEF CallRecords, CallSteps
  <2>6. calls' = [calls EXCEPT ![c] = r]
    BY <2>2
  <2>. HIDE DEF r
  <2>7. /\ calls' \in [Calls -> CallRecords] /\ calls'[c] = r
        /\ \A k \in Calls : k # c => calls'[k] = calls[k]
    BY <2>5, <2>6, CallBecomes
  <2>8. GroupTypeOK'
    BY <2>1, <2>7 DEF GroupTypeOK
  <2>9. CallShape'
    BY <2>1, <2>4, <2>5, <2>7 DEF CallShape, Shaped, GroupOps
  <2>10. Drawn' /\ Unwritten' /\ OverlapsNoted'
    BY <2>1, <2>5, <2>7 DEF Drawn, Unwritten, OverlapsNoted
  <2>11. HasDirectory'
    BY <2>1, <2>5, <2>7 DEF HasDirectory
  <2>12. StillTrue'
    BY <2>1, <2>3, <2>5, <2>7 DEF StillTrue, At
  <2>13. NobodyInNoGroup' /\ OnTheRoster'
    BY <2>1 DEF NobodyInNoGroup, OnTheRoster
  <2>. QED BY <2>8, <2>9, <2>10, <2>11, <2>12, <2>13
<1>5. CASE AddWrites(c)
  <2>1. PICK ref \in calls[c].ref :
          /\ roster' = [roster EXCEPT ![ref] = calls[c].read \cup calls[c].who]
          /\ \/ promised' = [promised EXCEPT ![ref] = @ \cup calls[c].who]
             \/ UNCHANGED promised
    BY <1>5 DEF AddWrites
  <2>2. /\ calls[c].op = "add" /\ calls[c].step = "writing"
        /\ UNCHANGED <<groupDirs, messages, overlapped>>
    BY <1>5 DEF AddWrites, At
  <2>3. NoCall \in CallRecords /\ NoCall.op = "none" /\ NoCall.ref = {}
    BY DEF NoCall, CallRecords, CallSteps
  <2>4. /\ calls' \in [Calls -> CallRecords] /\ calls'[c] = NoCall
        /\ \A k \in Calls : k # c => calls'[k] = calls[k]
    BY <1>5, <2>3, CallBecomes DEF AddWrites, CallEnds
  <2>5. ref \in Refs /\ calls[c].ref = {ref} /\ ref \in groupDirs
    BY <2>1, <2>2 DEF GroupOps, CallShape, Shaped, HasDirectory
  <2>6. calls[c].who # {} /\ calls[c].who \subseteq Everybody
    <3>1. PICK p \in People : calls[c].who = {p}
      BY <2>2 DEF CallShape, Shaped
    <3>. QED BY <3>1, PersonOfAll
  <2>7. ref \notin overlapped => calls[c].read = roster[ref]
    BY <2>2, <2>5 DEF StillTrue, At
  <2>8. /\ \A k \in Calls : calls[k].op = "create" => calls[k].ref # {ref}
        /\ \A k \in Calls : k # c /\ calls[k].op = "add" /\ calls[k].ref = {ref} => ref \in overlapped
    BY <2>2, <2>5 DEF Drawn, OverlapsNoted, GroupOps
  <2>9. /\ \A g \in Refs : g # ref => roster'[g] = roster[g] /\ promised'[g] = promised[g]
        /\ roster'[ref] = calls[c].read \cup calls[c].who
        /\ promised'[ref] \subseteq promised[ref] \cup calls[c].who
    BY <2>1, <2>5 DEF GroupTypeOK
  <2>10. GroupTypeOK'
    <3>1. calls[c].read \cup calls[c].who \subseteq Everybody
      BY <2>2, <2>6 DEF CallShape, Shaped
    <3>2. roster' \in [Refs -> SUBSET Everybody]
      BY <2>1, <2>5, <3>1 DEF GroupTypeOK
    <3>3. promised' \in [Refs -> SUBSET Everybody]
      BY <2>1, <2>5, <2>6 DEF GroupTypeOK
    <3>. QED BY <2>2, <2>4, <3>2, <3>3 DEF GroupTypeOK
  <2>11. CallShape' /\ Drawn' /\ OverlapsNoted'
    BY <2>2, <2>3, <2>4 DEF CallShape, Shaped, Drawn, OverlapsNoted, GroupOps
  <2>12. Unwritten' /\ HasDirectory'
    BY <2>2, <2>3, <2>4, <2>5, <2>8, <2>9 DEF Unwritten, HasDirectory, GroupOps
  <2>13. StillTrue'
    BY <2>2, <2>3, <2>4, <2>5, <2>6, <2>7, <2>8, <2>9 DEF StillTrue, At, GroupOps
  <2>14. NobodyInNoGroup' /\ OnTheRoster'
    BY <2>2, <2>5, <2>6, <2>7, <2>9 DEF NobodyInNoGroup, OnTheRoster
  <2>. QED BY <2>10, <2>11, <2>12, <2>13, <2>14
<1>. QED
  BY <1>1, <1>2, <1>3, <1>4, <1>5 DEF Adds

\* POST /groups/:ref/turns: a member stays one while the message is on its way.
LEMMA PostSteps ==
  ASSUME GroupInv, NEW c \in Calls, Posts(c)
  PROVE  GroupInv'
<1>. USE DEF GroupInv
<1>1. CASE PostAsked(c)
  <2>1. PICK ref \in Refs \ Generated, p \in People :
          calls' = [calls EXCEPT ![c] = [NoCall EXCEPT !.op = "post", !.step = "getting", !.ref = {ref}, !.who = {p}]]
    BY <1>1 DEF PostAsked, Requested
  <2> DEFINE r == [NoCall EXCEPT !.op = "post", !.step = "getting", !.ref = {ref}, !.who = {p}]
  <2>2. ref \in Refs /\ \A k \in Calls : calls[k].op = "create" => calls[k].ref # {ref}
    BY <2>1 DEF Generated
  <2>3. /\ calls' = [calls EXCEPT ![c] = r] /\ r \in CallRecords /\ Shaped(r)
        /\ r.op = "post" /\ r.step = "getting" /\ r.ref = {ref} /\ r.who = {p}
    <3>1. {p} \subseteq Everybody
      BY <2>1, PersonOfAll
    <3>2. r \in CallRecords
      BY <2>2, <3>1 DEF CallRecords, CallSteps, GroupOps, NoCall
    <3>3. Shaped(r)
      BY <2>1, <2>2 DEF Shaped, GroupOps, NoCall
    <3>. QED BY <2>1, <3>2, <3>3 DEF NoCall
  <2>. HIDE DEF r
  <2>4. /\ calls' \in [Calls -> CallRecords] /\ calls'[c] = r
        /\ \A k \in Calls : k # c => calls'[k] = calls[k]
        /\ UNCHANGED <<groupDirs, roster, messages, promised, overlapped>>
    BY <1>1, <2>3, CallBecomes DEF PostAsked
  <2>5. GroupTypeOK' /\ CallShape'
    BY <2>3, <2>4 DEF GroupTypeOK, CallShape
  <2>6. Drawn'
    BY <2>2, <2>3, <2>4 DEF Drawn, GroupOps
  <2>7. Unwritten' /\ OverlapsNoted'
    BY <2>3, <2>4 DEF Unwritten, OverlapsNoted
  <2>8. HasDirectory' /\ StillTrue' /\ NobodyInNoGroup' /\ OnTheRoster'
    BY <2>3, <2>4 DEF HasDirectory, StillTrue, At, NobodyInNoGroup, OnTheRoster
  <2>. QED BY <2>5, <2>6, <2>7, <2>8
<1>2. CASE PostGets(c) /\ CallEnds(c)
  BY <1>2, CallLeaves DEF PostGets
<1>3. CASE PostGets(c) /\ ~ CallEnds(c)
  <2>1. /\ calls[c].op = "post" /\ calls[c].step = "getting"
        /\ UNCHANGED <<groupDirs, roster, messages, promised, overlapped>>
    BY <1>3 DEF PostGets, At
  <2>2. PICK ref \in calls[c].ref : calls[c].who \subseteq roster[ref] /\ CallGoes(c, "preparing")
    BY <1>3 DEF PostGets
  <2>3. calls[c].ref = {ref} /\ \E p \in People : calls[c].who = {p}
    BY <2>1, <2>2 DEF CallShape, Shaped, GroupOps
  <2>4. roster[ref] # {}
    BY <2>2, <2>3
  <2>5. GroupTypeOK'
    BY <2>1, <2>2, CallMoves DEF GroupTypeOK, CallSteps
  <2>6. CallShape' /\ Drawn' /\ Unwritten' /\ OverlapsNoted'
    BY <2>1, <2>2, CallMoves DEF CallShape, Shaped, Drawn, Unwritten, OverlapsNoted, CallSteps, GroupOps
  <2>7. HasDirectory' /\ NobodyInNoGroup' /\ OnTheRoster'
    BY <2>1, <2>2, CallMoves DEF HasDirectory, NobodyInNoGroup, OnTheRoster, CallSteps
  <2>8. StillTrue'
    BY <2>1, <2>2, <2>3, <2>4, CallMoves DEF StillTrue, At, CallSteps
  <2>. QED BY <2>5, <2>6, <2>7, <2>8
<1>4. CASE PostPrepares(c)
  <2>1. /\ CallGoes(c, "checking") /\ calls[c].op = "post" /\ calls[c].step = "preparing"
        /\ groupDirs' = groupDirs \cup calls[c].ref
        /\ UNCHANGED <<roster, messages, promised, overlapped>>
    BY <1>4 DEF PostPrepares, Prepares, At
  <2>2. calls[c].ref \subseteq Refs
    BY DEF GroupTypeOK, CallRecords
  <2>3. GroupTypeOK'
    BY <2>1, <2>2, CallMoves DEF GroupTypeOK, CallSteps
  <2>4. CallShape' /\ Drawn' /\ Unwritten' /\ OverlapsNoted'
    BY <2>1, CallMoves DEF CallShape, Shaped, Drawn, Unwritten, OverlapsNoted, CallSteps, GroupOps
  <2>5. HasDirectory' /\ StillTrue' /\ NobodyInNoGroup' /\ OnTheRoster'
    BY <2>1, CallMoves DEF HasDirectory, StillTrue, At, NobodyInNoGroup, OnTheRoster, CallSteps
  <2>. QED BY <2>3, <2>4, <2>5
<1>5. CASE PostChecks(c) /\ CallEnds(c)
  BY <1>5, CallLeaves DEF PostChecks
<1>6. CASE PostChecks(c) /\ ~ CallEnds(c)
  <2>1. /\ CallGoes(c, "writing") /\ calls[c].op = "post" /\ calls[c].step = "checking"
        /\ UNCHANGED <<groupDirs, roster, messages, promised, overlapped>>
    BY <1>6 DEF PostChecks, At
  <2>2. GroupTypeOK'
    BY <2>1, CallMoves DEF GroupTypeOK, CallSteps
  <2>3. CallShape' /\ Drawn' /\ Unwritten' /\ OverlapsNoted'
    BY <2>1, CallMoves DEF CallShape, Shaped, Drawn, Unwritten, OverlapsNoted, CallSteps, GroupOps
  <2>4. HasDirectory' /\ StillTrue' /\ NobodyInNoGroup' /\ OnTheRoster'
    BY <2>1, CallMoves DEF HasDirectory, StillTrue, At, NobodyInNoGroup, OnTheRoster, CallSteps
  <2>. QED BY <2>2, <2>3, <2>4
<1>7. CASE PostWrites(c)
  <2>1. PICK ref \in calls[c].ref, p \in calls[c].who :
          messages' = [messages EXCEPT ![ref] = Append(@, p)]
    BY <1>7 DEF PostWrites
  <2>2. /\ calls[c].op = "post" /\ calls[c].step = "writing"
        /\ UNCHANGED <<groupDirs, roster, promised, overlapped>>
    BY <1>7 DEF PostWrites, At
  <2>3. NoCall \in CallRecords /\ NoCall.op = "none" /\ NoCall.ref = {}
    BY DEF NoCall, CallRecords, CallSteps
  <2>4. /\ calls' \in [Calls -> CallRecords] /\ calls'[c] = NoCall
        /\ \A k \in Calls : k # c => calls'[k] = calls[k]
    BY <1>7, <2>3, CallBecomes DEF PostWrites, CallEnds
  <2>5. ref \in Refs /\ calls[c].ref = {ref} /\ p \in People
    BY <2>1, <2>2 DEF GroupOps, CallShape, Shaped
  <2>6. roster[ref] # {} /\ (ref \notin overlapped => p \in roster[ref])
    BY <2>1, <2>2, <2>5 DEF StillTrue
  <2>7. /\ messages \in [Refs -> Seq(People)] /\ messages' \in [Refs -> Seq(People)]
        /\ messages'[ref] = Append(messages[ref], p)
        /\ \A g \in Refs : g # ref => messages'[g] = messages[g]
    BY <2>1, <2>5 DEF GroupTypeOK
  <2>8. ref \notin overlapped => \A i \in 1 .. Len(messages'[ref]) : messages'[ref][i] \in roster[ref]
    BY <2>5, <2>6, <2>7 DEF OnTheRoster
  <2>9. GroupTypeOK'
    BY <2>2, <2>4, <2>7 DEF GroupTypeOK
  <2>10. CallShape' /\ Drawn' /\ Unwritten' /\ OverlapsNoted'
    BY <2>2, <2>3, <2>4 DEF CallShape, Shaped, Drawn, Unwritten, OverlapsNoted, GroupOps
  <2>11. HasDirectory' /\ StillTrue'
    BY <2>2, <2>3, <2>4 DEF HasDirectory, StillTrue, At
  <2>12. NobodyInNoGroup'
    BY <2>2, <2>6, <2>7 DEF NobodyInNoGroup
  <2>13. OnTheRoster'
    BY <2>2, <2>7, <2>8 DEF OnTheRoster
  <2>. QED BY <2>9, <2>10, <2>11, <2>12, <2>13
<1>. QED
  BY <1>1, <1>2, <1>3, <1>4, <1>5, <1>6, <1>7 DEF Posts

\* GET /groups writes nothing.
LEMMA ListSteps ==
  ASSUME GroupInv, NEW c \in Calls, Lists(c)
  PROVE  GroupInv'
<1>. USE DEF GroupInv
<1>1. CASE CallEnds(c)
  BY <1>1, CallLeaves DEF Lists, ListReads, ListGets, ListAnswered
<1>2. CASE ~ CallEnds(c)
  <2> DEFINE Listing(r) ==
        r \in CallRecords /\ r.op = "list" /\ r.read \subseteq Refs
  <2>1. /\ UNCHANGED <<groupDirs, roster, messages, promised, overlapped>>
        /\ \E r : calls' = [calls EXCEPT ![c] = r] /\ Listing(r)
    <3>1. CASE ListReads(c)
      <4> DEFINE r == [NoCall EXCEPT !.op = "list", !.step = "getting", !.read = groupDirs]
      <4>1. Listing(r)
        BY DEF GroupTypeOK, CallRecords, CallSteps, NoCall
      <4>2. calls' = [calls EXCEPT ![c] = r]
        BY <3>1 DEF ListReads
      <4>. HIDE DEF r
      <4>. QED BY <3>1, <4>1, <4>2 DEF ListReads
    <3>2. CASE ListGets(c)
      <4>1. calls[c] \in CallRecords /\ calls[c].op = "list" /\ calls[c].read \subseteq Refs
        BY <3>2 DEF ListGets, At, GroupTypeOK, CallShape, Shaped
      <4>2. PICK ref \in calls[c].read :
              \/ calls' = [calls EXCEPT ![c].read = @ \ {ref}]
              \/ calls' = [calls EXCEPT ![c].step = "refused", ![c].ref = {ref}, ![c].read = {}]
        BY <3>2, <1>2 DEF ListGets
      <4> DEFINE r1 == [calls[c] EXCEPT !.read = @ \ {ref}]
                 r2 == [calls[c] EXCEPT !.step = "refused", !.ref = {ref}, !.read = {}]
      <4>3. Listing(r1) /\ Listing(r2)
        BY <4>1 DEF CallRecords, CallSteps
      <4>4. calls' = [calls EXCEPT ![c] = r1] \/ calls' = [calls EXCEPT ![c] = r2]
        BY <4>2
      <4>. HIDE DEF r1, r2
      <4>. QED BY <3>2, <4>3, <4>4 DEF ListGets
    <3>. QED BY <1>2, <3>1, <3>2 DEF Lists, ListAnswered
  <2>2. PICK r : calls' = [calls EXCEPT ![c] = r] /\ Listing(r)
    BY <2>1
  <2>3. /\ calls' \in [Calls -> CallRecords] /\ calls'[c] = r
        /\ \A k \in Calls : k # c => calls'[k] = calls[k]
    BY <2>2, CallBecomes
  <2>4. GroupTypeOK'
    BY <2>1, <2>3 DEF GroupTypeOK
  <2>5. CallShape' /\ Drawn' /\ Unwritten' /\ OverlapsNoted'
    BY <2>1, <2>2, <2>3 DEF CallShape, Shaped, Drawn, Unwritten, OverlapsNoted, GroupOps
  <2>6. HasDirectory' /\ StillTrue' /\ NobodyInNoGroup' /\ OnTheRoster'
    BY <2>1, <2>2, <2>3 DEF HasDirectory, StillTrue, At, NobodyInNoGroup, OnTheRoster
  <2>. QED BY <2>4, <2>5, <2>6
<1>. QED BY <1>1, <1>2

\* Every request, failure and restart preserves the invariant.
LEMMA GroupPreserved == ASSUME GroupInv, [GroupNext]_groupVars PROVE GroupInv'
<1>1. ASSUME NEW c \in Calls, Creates(c) \/ Adds(c) \/ Posts(c) \/ Lists(c) PROVE GroupInv'
  BY <1>1, CreateSteps, AddSteps, PostSteps, ListSteps
<1>2. ASSUME NEW c \in Calls, CallFails(c) PROVE GroupInv'
  BY <1>2, CallLeaves DEF CallFails
<1>3. CASE ServerRestarts
  <2>1. NoCall \in CallRecords /\ NoCall.op = "none" /\ NoCall.ref = {}
    BY DEF NoCall, CallRecords, CallSteps
  <2>2. calls' \in [Calls -> CallRecords] /\ \A k \in Calls : calls'[k] = NoCall
    BY <1>3, <2>1 DEF ServerRestarts
  <2>3. UNCHANGED <<groupDirs, roster, messages, promised, overlapped>>
    BY <1>3 DEF ServerRestarts
  <2>4. GroupTypeOK' /\ CallShape' /\ Drawn' /\ Unwritten' /\ OverlapsNoted'
    BY <2>1, <2>2, <2>3 DEF GroupInv, GroupTypeOK, CallShape, Shaped, Drawn, Unwritten, OverlapsNoted, GroupOps
  <2>5. HasDirectory' /\ StillTrue' /\ NobodyInNoGroup' /\ OnTheRoster'
    BY <2>1, <2>2, <2>3 DEF GroupInv, HasDirectory, StillTrue, At, NobodyInNoGroup, OnTheRoster
  <2>. QED BY <2>4, <2>5 DEF GroupInv
<1>4. CASE UNCHANGED groupVars
  <2>1. GroupTypeOK' /\ CallShape' /\ Drawn' /\ Unwritten' /\ OverlapsNoted'
    BY <1>4 DEF groupVars, GroupInv, GroupTypeOK, CallShape, Drawn, Unwritten, OverlapsNoted
  <2>2. HasDirectory' /\ StillTrue' /\ NobodyInNoGroup' /\ OnTheRoster'
    BY <1>4 DEF groupVars, GroupInv, HasDirectory, StillTrue, At, NobodyInNoGroup, OnTheRoster
  <2>. QED BY <2>1, <2>2 DEF GroupInv
<1>. QED BY <1>1, <1>2, <1>3, <1>4 DEF GroupNext

\* The invariant of the group store, for every number of requests.
THEOREM GroupInvariant == GroupSpec => []GroupInv
<1>1. GroupInv /\ [GroupNext]_groupVars => GroupInv'
  BY GroupPreserved
<1>. QED
  BY GroupsInitially, <1>1, PTL DEF GroupSpec

\* Whoever was answered as a member of a group, or is mentioned in it, is on its roster from then
\* on, unless two additions to it overlapped.
THEOREM MembersStayMembers == GroupSpec => []MembersStay
<1>1. GroupInv => MembersStay
  BY DEF GroupInv, OnTheRoster, MembersStay
<1>. QED
  BY GroupInvariant, <1>1, PTL

\* A request moves no other request.
LEMMA CallsAreOwn ==
  ASSUME GroupTypeOK, NEW k \in Calls, Creates(k) \/ Adds(k) \/ Posts(k) \/ Lists(k) \/ CallFails(k)
  PROVE  \A c \in Calls : c # k => calls'[c] = calls[c]
<1>. USE DEF GroupTypeOK, CallGoes, CallEnds, Requested, Prepares
<1>1. CASE Creates(k)
  BY <1>1 DEF Creates, CreateAsked, CreateChecks, CreatePrepares, CreateWrites
<1>2. CASE Adds(k)
  BY <1>2 DEF Adds, AddAsked, AddPrepares, AddGets, AddWrites
<1>3. CASE Posts(k)
  BY <1>3 DEF Posts, PostAsked, PostGets, PostPrepares, PostChecks, PostWrites
<1>4. CASE Lists(k)
  BY <1>4 DEF Lists, ListReads, ListGets, ListAnswered
<1>5. CASE CallFails(k)
  BY <1>5 DEF CallFails
<1>. QED BY <1>1, <1>2, <1>3, <1>4, <1>5

\* The list of groups is refused for no group that was answered as created.
THEOREM ListsStopAtUnfinished == GroupSpec => ListStopsAtUnfinished
<1>1. ASSUME GroupInv, GroupNext, NEW c \in Calls, At(c, "list", "getting"),
             At(c, "list", "refused")', NEW ref \in calls'[c].ref
      PROVE  promised[ref] = {} /\ messages[ref] = <<>>
  <2>1. calls \in [Calls -> CallRecords] /\ calls[c].op = "list" /\ calls[c].step = "getting"
        /\ calls[c].read \subseteq Refs
    BY <1>1 DEF GroupInv, GroupTypeOK, CallShape, Shaped, At
  <2>2. calls'[c].op = "list" /\ calls'[c].step = "refused"
    BY <1>1 DEF At
  <2>3. calls'[c] # NoCall /\ calls[c] # NoCall /\ calls'[c] # calls[c]
    BY <2>1, <2>2 DEF NoCall
  <2>4. PICK k \in Calls : Creates(k) \/ Adds(k) \/ Posts(k) \/ Lists(k) \/ CallFails(k)
    BY <1>1, <2>3 DEF GroupNext, ServerRestarts
  <2>5. k = c
    BY <1>1, <2>3, <2>4, CallsAreOwn DEF GroupInv
  <2>6. ListGets(c) /\ ~ CallEnds(c)
    BY <2>1, <2>3, <2>4, <2>5
       DEF Creates, Adds, Posts, Lists, CallFails, CreateAsked, CreateChecks, CreatePrepares, CreateWrites,
           AddAsked, AddPrepares, AddGets, AddWrites, PostAsked, PostGets, PostPrepares, PostChecks, PostWrites,
           ListReads, ListAnswered, At, Requested, CallEnds
  <2>7. PICK g \in calls[c].read :
          ~ Exists(g) /\ calls' = [calls EXCEPT ![c].step = "refused", ![c].ref = {g}, ![c].read = {}]
    <3>1. \A g \in calls[c].read : calls' # [calls EXCEPT ![c].read = @ \ {g}]
      BY <2>1, <2>2 DEF CallRecords
    <3>. QED BY <2>6, <3>1 DEF ListGets
  <2>8. ref = g /\ g \in Refs
    BY <1>1, <2>1, <2>7 DEF CallRecords
  <2>. QED BY <1>1, <2>7, <2>8 DEF GroupInv, NobodyInNoGroup, Exists
<1>2. GroupInv /\ [GroupNext]_groupVars =>
        [\A c \in Calls : At(c, "list", "getting") /\ At(c, "list", "refused")' =>
           \A ref \in calls[c].ref' : promised[ref] = {} /\ messages[ref] = <<>>]_groupVars
  BY <1>1
<1>. QED
  BY GroupInvariant, <1>2, PTL DEF GroupSpec, ListStopsAtUnfinished

-----------------------------------------------------------------------------
(* AssetStore *)

\* The types of a request.
AskSteps ==
  {"idle", "landing", "landed", "checking", "preparing", "writing", "appending", "indexing",
   "reading", "comparing", "rebuilding", "answering", "refused"}
AskRecords ==
  [op : {"none", "asset", "document", "list"}, at : AskSteps, ws : SUBSET Folders,
   asset : SUBSET Assets, doc : SUBSET Docs, read : SUBSET Assets, found : SUBSET Assets,
   must : SUBSET Assets]

\* The types of the variables of AssetStore.
AssetTypeOK ==
  /\ current \in Folders
  /\ assetDirs \in [Folders -> SUBSET Assets]
  /\ assetRecords \in [Folders -> SUBSET [asset : Assets, doc : SUBSET Docs]]
  /\ ledger \in [Folders -> SUBSET Assets]
  /\ documents \in [Folders -> SUBSET Docs]
  /\ asks \in [Clients -> AskRecords]
  /\ created \in [Folders -> SUBSET Assets]
  /\ misplaced \subseteq Assets

\* What a request holds at its step.
Formed(r) ==
  /\ r.op # "none" => \E ws \in Folders : r.ws = {ws}
  /\ r.op = "none" => r.asset = {}
  /\ r.op = "asset" => r.doc = {} /\ r.at \in {"checking", "preparing", "writing", "appending", "indexing"}
  /\ r.op = "document" =>
       /\ \E d \in Docs : r.doc = {d}
       /\ r.at \in {"landing", "landed", "checking", "preparing", "writing", "appending", "indexing"}
       /\ r.at \in {"landing", "landed"} => r.asset = {}
  /\ r.op \in {"asset", "document"} /\ r.at \notin {"landing", "landed"} => \E a \in Assets : r.asset = {a}
  /\ r.op = "list" => r.at \in {"reading", "comparing", "rebuilding", "answering", "refused"}
  /\ r.op = "list" /\ r.at # "refused" => r.asset = {}

\* The fields of every request fit its operation and step.
AskShape == \A k \in Clients : Formed(asks[k])

\* The requests that have drawn a uuid and are not done with it.
Registering == {k \in Clients : asks[k].op \in {"asset", "document"} /\ asks[k].asset # {}}

\* A uuid is drawn once.
OwnAsset == \A j, k \in Registering : j # k => asks[j].asset # asks[k].asset

\* How far a registration is, seen from the disk.
OnDisk ==
  \A k \in Registering, ws \in Folders, a \in Assets : asks[k].asset = {a} =>
    /\ asks[k].at \in {"checking", "preparing"} => a \notin assetDirs[ws]
    /\ asks[k].at = "writing" => a \notin Stored(ws) /\ (asks[k].ws = {ws} => a \in assetDirs[ws])
    /\ asks[k].at = "appending" /\ asks[k].ws = {ws} => a \in Stored(ws)
    /\ asks[k].at = "indexing" /\ asks[k].ws = {ws} =>
         a \in Stored(ws) \cup misplaced /\ asks[k].read \subseteq Stored(ws) \cup misplaced

\* What is answered or in a ledger has a record, and every record a directory.
Recorded ==
  \A ws \in Folders :
    /\ Stored(ws) \subseteq assetDirs[ws]
    /\ ledger[ws] \subseteq Stored(ws) \cup misplaced
    /\ created[ws] \subseteq Stored(ws) \cup misplaced

\* A list has read, or will read, what was answered before it began.
ListsAll ==
  \A k \in Clients, ws \in Folders : asks[k].op = "list" /\ asks[k].ws = {ws} =>
    /\ asks[k].found \subseteq Stored(ws)
    /\ asks[k].must \subseteq Stored(ws) \cup misplaced
    /\ asks[k].at = "reading" => asks[k].must \subseteq asks[k].found \cup asks[k].read \cup misplaced
    /\ asks[k].at \in {"comparing", "rebuilding", "answering"} =>
         asks[k].must \subseteq asks[k].found \cup misplaced
    /\ asks[k].at = "refused" => asks[k].must \cap asks[k].asset \subseteq misplaced

\* A request that has made a document and will register it.
Claims(k) ==
  /\ asks[k].op = "document"
  /\ \/ asks[k].at = "landed"
     \/ asks[k].at \in {"checking", "preparing", "writing"} /\ ~ (asks[k].asset \subseteq misplaced)

\* Nobody else has made the document, and it is no asset yet.
Claimed ==
  \A k \in Clients, ws \in Folders : Claims(k) /\ asks[k].ws = {ws} =>
    /\ asks[k].doc \subseteq documents[ws]
    /\ \A r \in assetRecords[ws] : r.asset \notin misplaced => r.doc # asks[k].doc
    /\ \A j \in Clients \ {k} : Claims(j) /\ asks[j].ws = {ws} => asks[j].doc # asks[k].doc

\* The inductive invariant of AssetStore.
AssetInv ==
  /\ AssetTypeOK /\ AskShape /\ OwnAsset /\ OnDisk /\ Recorded /\ ListsAll /\ Claimed
  /\ OneAssetPerDocument

\* The workspace of a request is the one it names.
LEMMA HereIs ==
  ASSUME AssetTypeOK, AskShape, NEW k \in Clients, asks[k].op # "none"
  PROVE  Here(k) \in Folders /\ asks[k].ws = {Here(k)}
<1>1. PICK ws \in Folders : asks[k].ws = {ws}
  BY DEF AskShape, Formed
<1>2. Here(k) = ws
  BY <1>1 DEF Here
<1>. QED BY <1>1, <1>2

\* A request that goes on to its next step keeps everything else.
LEMMA AskMoves ==
  ASSUME AssetTypeOK, NEW k \in Clients, NEW at \in AskSteps, Steps(k, at)
  PROVE  /\ asks' \in [Clients -> AskRecords]
         /\ asks'[k].at = at
         /\ \A j \in Clients :
              /\ j # k => asks'[j] = asks[j]
              /\ asks'[j].op = asks[j].op /\ asks'[j].ws = asks[j].ws /\ asks'[j].asset = asks[j].asset
              /\ asks'[j].doc = asks[j].doc /\ asks'[j].read = asks[j].read
              /\ asks'[j].found = asks[j].found /\ asks'[j].must = asks[j].must
BY DEF AssetTypeOK, Steps, AskRecords

\* One that starts, ends or reads leaves the others alone.
LEMMA AskBecomes ==
  ASSUME AssetTypeOK, NEW k \in Clients, NEW r \in AskRecords, asks' = [asks EXCEPT ![k] = r]
  PROVE  /\ asks' \in [Clients -> AskRecords]
         /\ asks'[k] = r
         /\ \A j \in Clients : j # k => asks'[j] = asks[j]
BY DEF AssetTypeOK

\* Nothing is asked in NoAsk.
LEMMA NothingAsked == /\ NoAsk \in AskRecords /\ Formed(NoAsk)
                      /\ NoAsk.op = "none" /\ NoAsk.at = "idle" /\ NoAsk.asset = {} /\ NoAsk.ws = {}
BY DEF NoAsk, AskRecords, AskSteps, Formed

\* Records that do not change are the same assets.
LEMMA StoredAlike ==
  ASSUME UNCHANGED assetRecords
  PROVE  \A ws \in Folders : Stored(ws)' = Stored(ws)
BY DEF Stored

\* An empty disk, and nobody asks.
LEMMA AssetsInitially == ASSUME AssetInit PROVE AssetInv
<1>1. \A k \in Clients : asks[k] = NoAsk
  BY DEF AssetInit
<1>2. AssetTypeOK
  BY NothingAsked DEF AssetInit, AssetTypeOK
<1>3. \A ws \in Folders : Stored(ws) = {} /\ assetRecords[ws] = {} /\ ledger[ws] = {} /\ created[ws] = {}
  BY DEF AssetInit, Stored
<1>4. AskShape /\ OwnAsset /\ OnDisk
  BY <1>1, NothingAsked DEF AskShape, OwnAsset, OnDisk, Registering
<1>5. Recorded /\ ListsAll /\ Claimed
  BY <1>1, <1>3, NothingAsked DEF Recorded, ListsAll, Claimed, Claims
<1>6. OneAssetPerDocument
  BY <1>3 DEF OneAssetPerDocument
<1>. QED BY <1>2, <1>4, <1>5, <1>6 DEF AssetInv

\* A request that ends without a write takes its claims with it; calling an asset misplaced only
\* takes claims away.
LEMMA AskLeaves ==
  ASSUME AssetInv, NEW k \in Clients, AskEnds(k), UNCHANGED <<current, files, created>>,
         misplaced \subseteq misplaced', misplaced' \subseteq Assets
  PROVE  AssetInv'
<1>. USE DEF AssetInv, files
<1>1. /\ asks' \in [Clients -> AskRecords] /\ asks'[k] = NoAsk
      /\ \A j \in Clients : j # k => asks'[j] = asks[j]
  BY NothingAsked, AskBecomes DEF AskEnds
<1>2. \A ws \in Folders : Stored(ws)' = Stored(ws)
  BY StoredAlike
<1>3. AssetTypeOK' /\ AskShape'
  BY <1>1, NothingAsked DEF AssetTypeOK, AskShape
<1>4. OwnAsset' /\ OnDisk'
  BY <1>1, <1>2, NothingAsked DEF OwnAsset, OnDisk, Registering
<1>5. Recorded'
  BY <1>2 DEF Recorded
<1>6. ListsAll'
  BY <1>1, <1>2, NothingAsked DEF ListsAll
<1>7. Claimed'
  BY <1>1, NothingAsked DEF Claimed, Claims
<1>8. OneAssetPerDocument'
  BY DEF OneAssetPerDocument
<1>. QED BY <1>3, <1>4, <1>5, <1>6, <1>7, <1>8

\* A new request: a uuid is nobody else's, a document is not there yet, a list will read every
\* directory.
LEMMA AskStarts ==
  ASSUME AssetInv, NEW k \in Clients, AssetAsked(k) \/ DocumentAsked(k) \/ ListAsked(k)
  PROVE  AssetInv'
<1>. USE DEF AssetInv
<1>0. UNCHANGED <<current, assetDirs, assetRecords, ledger, documents, created, misplaced>>
  BY DEF AssetAsked, DocumentAsked, ListAsked, files
<1>1. \E r \in AskRecords :
        /\ asks' = [asks EXCEPT ![k] = r]
        /\ Formed(r) /\ r.ws = {current}
        /\ \/ /\ r.op = "asset" /\ r.at = "checking"
              /\ \E a \in FreshAssets : r.asset = {a}
           \/ r.op = "document" /\ r.at = "landing" /\ r.asset = {}
           \/ r.op = "list" /\ r.at = "reading" /\ r.asset = {} /\ r.found = {}
              /\ r.read = assetDirs[current] /\ r.must = created[current]
  <2>1. CASE AssetAsked(k)
    <3>1. PICK a \in FreshAssets :
            asks' = [asks EXCEPT ![k] = [NoAsk EXCEPT
                       !.op = "asset", !.at = "checking", !.ws = {current}, !.asset = {a}]]
      BY <2>1 DEF AssetAsked
    <3> DEFINE r == [NoAsk EXCEPT !.op = "asset", !.at = "checking", !.ws = {current}, !.asset = {a}]
    <3>2. a \in Assets /\ current \in Folders
      BY <3>1 DEF FreshAssets, AssetTypeOK
    <3>3. /\ r \in AskRecords /\ r.op = "asset" /\ r.at = "checking" /\ r.ws = {current} /\ r.asset = {a}
          /\ r.doc = {}
      BY <3>2 DEF NoAsk, AskRecords, AskSteps
    <3>. HIDE DEF r
    <3>4. Formed(r)
      BY <3>2, <3>3 DEF Formed
    <3>5. asks' = [asks EXCEPT ![k] = r]
      BY <3>1 DEF r
    <3>. QED BY <3>1, <3>3, <3>4, <3>5
  <2>2. CASE DocumentAsked(k)
    <3>1. PICK d \in Docs :
            asks' = [asks EXCEPT ![k] = [NoAsk EXCEPT
                       !.op = "document", !.at = "landing", !.ws = {current}, !.doc = {d}]]
      BY <2>2 DEF DocumentAsked
    <3> DEFINE r == [NoAsk EXCEPT !.op = "document", !.at = "landing", !.ws = {current}, !.doc = {d}]
    <3>2. current \in Folders
      BY DEF AssetTypeOK
    <3>3. /\ r \in AskRecords /\ r.op = "document" /\ r.at = "landing" /\ r.ws = {current} /\ r.asset = {}
          /\ r.doc = {d}
      BY <3>2 DEF NoAsk, AskRecords, AskSteps
    <3>. HIDE DEF r
    <3>4. Formed(r)
      BY <3>2, <3>3 DEF Formed
    <3>5. asks' = [asks EXCEPT ![k] = r]
      BY <3>1 DEF r
    <3>. QED BY <3>3, <3>4, <3>5
  <2>3. CASE ListAsked(k)
    <3> DEFINE r == [NoAsk EXCEPT !.op = "list", !.at = "reading", !.ws = {current},
                       !.read = assetDirs[current], !.must = created[current]]
    <3>1. asks' = [asks EXCEPT ![k] = r]
      BY <2>3 DEF ListAsked
    <3>2. current \in Folders /\ assetDirs[current] \subseteq Assets /\ created[current] \subseteq Assets
      BY DEF AssetTypeOK
    <3>3. /\ r \in AskRecords /\ r.op = "list" /\ r.at = "reading" /\ r.ws = {current} /\ r.asset = {}
          /\ r.found = {} /\ r.read = assetDirs[current] /\ r.must = created[current]
      BY <3>2 DEF NoAsk, AskRecords, AskSteps
    <3>. HIDE DEF r
    <3>4. Formed(r)
      BY <3>2, <3>3 DEF Formed
    <3>. QED BY <3>1, <3>3, <3>4
  <2>. QED BY <2>1, <2>2, <2>3
<1>2. PICK r \in AskRecords :
        /\ asks' = [asks EXCEPT ![k] = r]
        /\ Formed(r) /\ r.ws = {current}
        /\ \/ /\ r.op = "asset" /\ r.at = "checking"
              /\ \E a \in FreshAssets : r.asset = {a}
           \/ r.op = "document" /\ r.at = "landing" /\ r.asset = {}
           \/ r.op = "list" /\ r.at = "reading" /\ r.asset = {} /\ r.found = {}
              /\ r.read = assetDirs[current] /\ r.must = created[current]
  BY <1>1
<1>3. /\ asks' \in [Clients -> AskRecords] /\ asks'[k] = r
      /\ \A j \in Clients : j # k => asks'[j] = asks[j]
  BY <1>2, AskBecomes
<1>4. \A ws \in Folders : Stored(ws)' = Stored(ws)
  BY <1>0, StoredAlike
<1>5. AssetTypeOK' /\ AskShape'
  BY <1>0, <1>2, <1>3 DEF AssetTypeOK, AskShape
<1>6. OwnAsset'
  BY <1>2, <1>3 DEF OwnAsset, Registering, FreshAssets
<1>7. OnDisk'
  BY <1>0, <1>2, <1>3, <1>4 DEF OnDisk, Registering, FreshAssets
<1>8. Recorded'
  BY <1>0, <1>4 DEF Recorded
<1>9. ListsAll'
  BY <1>0, <1>2, <1>3, <1>4 DEF ListsAll, Recorded
<1>10. Claimed'
  BY <1>0, <1>2, <1>3 DEF Claimed, Claims
<1>11. OneAssetPerDocument'
  BY <1>0 DEF OneAssetPerDocument
<1>. QED BY <1>5, <1>6, <1>7, <1>8, <1>9, <1>10, <1>11

\* A document is made by one request, and registered by it.
LEMMA DocumentSteps ==
  ASSUME AssetInv, NEW k \in Clients, DocumentLands(k) \/ DocumentNamed(k)
  PROVE  AssetInv'
<1>. USE DEF AssetInv
<1>1. CASE DocumentLands(k) /\ AskEnds(k) /\ UNCHANGED documents
  BY <1>1, AskLeaves DEF DocumentLands, files, AssetTypeOK
<1>2. CASE DocumentLands(k) /\ ~ (AskEnds(k) /\ UNCHANGED documents)
  <2>1. /\ asks[k].op = "document" /\ asks[k].at = "landing"
        /\ ~ (asks[k].doc \subseteq documents[Here(k)]) /\ Steps(k, "landed")
        /\ documents' = With(documents, Here(k), asks[k].doc)
        /\ UNCHANGED <<current, assetDirs, assetRecords, ledger, created, misplaced>>
    BY <1>2 DEF DocumentLands, Stands
  <2>2. Here(k) \in Folders /\ asks[k].ws = {Here(k)}
    BY <2>1, HereIs
  <2>3. PICK d \in Docs : asks[k].doc = {d}
    BY <2>1 DEF AskShape, Formed
  <2>4. /\ asks' \in [Clients -> AskRecords]
        /\ asks'[k].at = "landed"
        /\ \A j \in Clients :
             /\ j # k => asks'[j] = asks[j]
             /\ asks'[j].op = asks[j].op /\ asks'[j].ws = asks[j].ws /\ asks'[j].asset = asks[j].asset
             /\ asks'[j].doc = asks[j].doc /\ asks'[j].read = asks[j].read
             /\ asks'[j].found = asks[j].found /\ asks'[j].must = asks[j].must
    BY <2>1, AskMoves DEF AskSteps
  <2>5. \A ws \in Folders : Stored(ws)' = Stored(ws)
    BY <2>1, StoredAlike
  <2>6. /\ documents' \in [Folders -> SUBSET Docs] /\ documents'[Here(k)] = documents[Here(k)] \cup {d}
        /\ \A ws \in Folders : documents[ws] \subseteq documents'[ws]
    BY <2>1, <2>2, <2>3 DEF With, AssetTypeOK
  <2>7. asks[k].asset = {}
    BY <2>1 DEF AskShape, Formed
  <2>8. AssetTypeOK'
    BY <2>1, <2>4, <2>6 DEF AssetTypeOK
  <2>9. AskShape'
    BY <2>1, <2>4, <2>7 DEF AskShape, Formed
  <2>10. OwnAsset' /\ OnDisk'
    BY <2>1, <2>4, <2>5, <2>7 DEF OwnAsset, OnDisk, Registering
  <2>11. Recorded' /\ ListsAll'
    BY <2>1, <2>4, <2>5 DEF Recorded, ListsAll
  <2>12. \A r \in assetRecords[Here(k)] : r.asset \notin misplaced => r.doc # {d}
    BY <2>1, <2>2, <2>3 DEF OneAssetPerDocument
  <2>13. \A j \in Clients : Claims(j) /\ asks[j].ws = {Here(k)} => asks[j].doc # {d}
    BY <2>1, <2>2, <2>3 DEF Claimed
  <2>14. \A j \in Clients : Claims(j)' => j = k \/ Claims(j)
    BY <2>1, <2>4 DEF Claims
  <2>15. Claimed'
    <3>. SUFFICES ASSUME NEW i \in Clients, NEW ws \in Folders, Claims(i)', asks'[i].ws = {ws}
                  PROVE  /\ asks'[i].doc \subseteq documents'[ws]
                         /\ \A r \in assetRecords'[ws] : r.asset \notin misplaced' => r.doc # asks'[i].doc
                         /\ \A j \in Clients \ {i} :
                              Claims(j)' /\ asks'[j].ws = {ws} => asks'[j].doc # asks'[i].doc
      BY DEF Claimed
    <3>1. CASE i = k
      <4>1. ws = Here(k) /\ asks'[i].doc = {d}
        BY <2>2, <2>3, <2>4, <3>1
      <4>. QED BY <2>1, <2>4, <2>6, <2>12, <2>13, <2>14, <3>1, <4>1
    <3>2. CASE i # k
      <4>1. Claims(i) /\ asks[i].ws = {ws} /\ asks'[i].doc = asks[i].doc
        BY <2>4, <2>14, <3>2
      <4>2. \A j \in Clients \ {i} : Claims(j)' /\ asks'[j].ws = {ws} => asks'[j].doc # asks'[i].doc
        <5>1. ASSUME asks'[k].ws = {ws} PROVE asks'[k].doc # asks'[i].doc
          <6>1. ws = Here(k) /\ asks'[k].doc = {d}
            BY <2>2, <2>3, <2>4, <5>1
          <6>. QED BY <2>13, <4>1, <6>1
        <5>. QED BY <2>4, <2>14, <4>1, <5>1 DEF Claimed
      <4>. QED BY <2>1, <2>6, <4>1, <4>2 DEF Claimed
    <3>. QED BY <3>1, <3>2
  <2>16. OneAssetPerDocument'
    BY <2>1, <2>6 DEF OneAssetPerDocument
  <2>. QED BY <2>8, <2>9, <2>10, <2>11, <2>15, <2>16
<1>3. CASE DocumentNamed(k)
  <2>1. PICK a \in FreshAssets :
          /\ asks' = [asks EXCEPT ![k].at = "checking", ![k].ws = {current}, ![k].asset = {a}]
          /\ misplaced' = IF current # Here(k) THEN misplaced \cup {a} ELSE misplaced
    BY <1>3 DEF DocumentNamed
  <2>2. /\ asks[k].op = "document" /\ asks[k].at = "landed"
        /\ UNCHANGED <<current, assetDirs, assetRecords, ledger, documents, created>>
    BY <1>3 DEF DocumentNamed, Stands, files
  <2>3. /\ a \in Assets /\ \A ws \in Folders : a \notin assetDirs[ws]
        /\ \A j \in Clients : asks[j].asset # {a}
    BY <2>1 DEF FreshAssets
  <2>4. current \in Folders /\ Here(k) \in Folders /\ asks[k].ws = {Here(k)} /\ asks[k] \in AskRecords
    BY <2>2, HereIs DEF AssetTypeOK
  <2> DEFINE r == [asks[k] EXCEPT !.at = "checking", !.ws = {current}, !.asset = {a}]
  <2>5. /\ r \in AskRecords /\ r.op = "document" /\ r.at = "checking" /\ r.ws = {current}
        /\ r.asset = {a} /\ r.doc = asks[k].doc
    BY <2>2, <2>3, <2>4 DEF AskRecords, AskSteps
  <2>6. asks' = [asks EXCEPT ![k] = r]
    BY <2>1
  <2>. HIDE DEF r
  <2>7. /\ asks' \in [Clients -> AskRecords] /\ asks'[k] = r
        /\ \A j \in Clients : j # k => asks'[j] = asks[j]
    BY <2>5, <2>6, AskBecomes
  <2>8. \A ws \in Folders : Stored(ws)' = Stored(ws) /\ a \notin Stored(ws)
    BY <2>2, <2>3, StoredAlike DEF Recorded
  <2>9. misplaced \subseteq misplaced' /\ misplaced' \subseteq Assets
        /\ (current # Here(k) => a \in misplaced')
    BY <2>1, <2>3 DEF AssetTypeOK
  <2>10. AssetTypeOK'
    BY <2>2, <2>7, <2>9 DEF AssetTypeOK
  <2>11. AskShape'
    <3>1. Formed(asks[k])
      BY DEF AskShape
    <3>2. Formed(r)
      BY <2>2, <2>3, <2>4, <2>5, <3>1 DEF Formed
    <3>. QED BY <2>7, <3>2 DEF AskShape
  <2>12. OwnAsset'
    BY <2>3, <2>5, <2>7 DEF OwnAsset, Registering
  <2>13. OnDisk'
    BY <2>2, <2>3, <2>5, <2>7, <2>8, <2>9 DEF OnDisk, Registering
  <2>14. Recorded' /\ ListsAll'
    BY <2>2, <2>5, <2>7, <2>8, <2>9 DEF Recorded, ListsAll
  <2>15. \A j \in Clients : Claims(j)' => Claims(j) /\ (j = k => current = Here(k))
    BY <2>2, <2>5, <2>7, <2>9 DEF Claims
  <2>16. \A j \in Clients : asks'[j].doc = asks[j].doc /\ (Claims(j)' => asks'[j].ws = asks[j].ws)
    BY <2>4, <2>5, <2>7, <2>15
  <2>17. Claimed'
    BY <2>2, <2>9, <2>15, <2>16 DEF Claimed
  <2>18. OneAssetPerDocument'
    BY <2>2, <2>9 DEF OneAssetPerDocument
  <2>. QED BY <2>10, <2>11, <2>12, <2>13, <2>14, <2>17, <2>18
<1>. QED
  BY <1>1, <1>2, <1>3

\* What each step of a registration knows of its request.
LEMMA OfRegistration ==
  ASSUME AssetInv, NEW k \in Clients, asks[k].op \in {"asset", "document"},
         asks[k].at \notin {"landing", "landed"}
  PROVE  /\ Here(k) \in Folders /\ asks[k].ws = {Here(k)} /\ k \in Registering
         /\ asks[k].op = "asset" => asks[k].doc = {}
         /\ \E a \in Assets : /\ asks[k].asset = {a}
                              /\ \A j \in Registering : j # k => asks[j].asset # {a}
<1>1. Here(k) \in Folders /\ asks[k].ws = {Here(k)}
  BY HereIs DEF AssetInv
<1>2. Formed(asks[k])
  BY DEF AssetInv, AskShape
<1>3. PICK a \in Assets : asks[k].asset = {a}
  BY <1>2 DEF Formed
<1>4. k \in Registering
  BY <1>3 DEF Registering
<1>. QED BY <1>1, <1>2, <1>3, <1>4 DEF AssetInv, OwnAsset, Formed

\* A registration that has counted the directories, or makes its own.
LEMMA RegistrationGoesOn ==
  ASSUME AssetInv, NEW k \in Clients, Checks(k) \/ Makes(k)
  PROVE  AssetInv'
<1>. USE DEF AssetInv
<1>1. CASE Checks(k) /\ AskEnds(k)
  BY <1>1, AskLeaves DEF Checks, AssetTypeOK
<1>2. CASE (Checks(k) /\ ~ AskEnds(k)) \/ Makes(k)
  <2>1. /\ asks[k].op \in {"asset", "document"} /\ asks[k].at \in {"checking", "preparing"}
        /\ UNCHANGED <<current, assetRecords, ledger, documents, created, misplaced>>
        /\ \/ Steps(k, "preparing") /\ assetDirs' = assetDirs
           \/ Steps(k, "writing") /\ assetDirs' = With(assetDirs, Here(k), asks[k].asset)
    BY <1>2 DEF Checks, Makes, Registers, files
  <2>2. /\ Here(k) \in Folders /\ asks[k].ws = {Here(k)} /\ k \in Registering
    BY <2>1, OfRegistration
  <2>3. PICK a \in Assets : /\ asks[k].asset = {a}
                            /\ \A j \in Registering : j # k => asks[j].asset # {a}
    BY <2>1, OfRegistration
  <2>4. /\ asks' \in [Clients -> AskRecords]
        /\ asks'[k].at \in {"preparing", "writing"}
        /\ \A j \in Clients :
             /\ j # k => asks'[j] = asks[j]
             /\ asks'[j].op = asks[j].op /\ asks'[j].ws = asks[j].ws /\ asks'[j].asset = asks[j].asset
             /\ asks'[j].doc = asks[j].doc /\ asks'[j].read = asks[j].read
             /\ asks'[j].found = asks[j].found /\ asks'[j].must = asks[j].must
    BY <2>1, AskMoves DEF AskSteps
  <2>5. \A ws \in Folders : Stored(ws)' = Stored(ws)
    BY <2>1, StoredAlike
  <2>6. /\ assetDirs' \in [Folders -> SUBSET Assets]
        /\ \A ws \in Folders : assetDirs[ws] \subseteq assetDirs'[ws] /\ assetDirs'[ws] \subseteq assetDirs[ws] \cup {a}
        /\ asks'[k].at = "writing" => a \in assetDirs'[Here(k)]
        /\ asks'[k].at = "preparing" => assetDirs' = assetDirs
    <3>1. CASE Steps(k, "preparing") /\ assetDirs' = assetDirs
      BY <2>1, <3>1, AskMoves DEF AssetTypeOK, AskSteps
    <3>2. CASE Steps(k, "writing") /\ assetDirs' = With(assetDirs, Here(k), asks[k].asset)
      <4>1. asks'[k].at = "writing"
        BY <3>2, AskMoves DEF AskSteps
      <4>. QED BY <2>2, <2>3, <3>2, <4>1 DEF AssetTypeOK, With
    <3>. QED BY <2>1, <3>1, <3>2
  <2>7. Registering' = Registering
    BY <2>4 DEF Registering
  <2>8. AssetTypeOK'
    BY <2>1, <2>4, <2>6 DEF AssetTypeOK
  <2>9. AskShape'
    <3>1. Formed(asks[k]) /\ Formed(asks'[k])
      BY <2>1, <2>4 DEF AskShape, Formed
    <3>. QED BY <2>4, <3>1 DEF AskShape
  <2>10. OwnAsset'
    <3>1. \A j \in Registering : asks'[j].asset = asks[j].asset
      BY <2>4 DEF Registering
    <3>. QED BY <2>7, <3>1 DEF OwnAsset
  <2>11. \A ws \in Folders : a \notin assetDirs[ws] /\ a \notin Stored(ws)
    BY <2>1, <2>2, <2>3 DEF OnDisk, Recorded
  <2>12. OnDisk'
    <3>1. ASSUME NEW j \in Registering', NEW ws \in Folders, NEW b \in Assets, asks'[j].asset = {b}
          PROVE  /\ asks'[j].at \in {"checking", "preparing"} => b \notin assetDirs'[ws]
                 /\ asks'[j].at = "writing" => b \notin Stored(ws)' /\ (asks'[j].ws = {ws} => b \in assetDirs'[ws])
                 /\ asks'[j].at = "appending" /\ asks'[j].ws = {ws} => b \in Stored(ws)'
                 /\ asks'[j].at = "indexing" /\ asks'[j].ws = {ws} =>
                      b \in Stored(ws)' \cup misplaced' /\ asks'[j].read \subseteq Stored(ws)' \cup misplaced'
      <4>1. j \in Clients /\ j \in Registering /\ asks[j].asset = {b}
        BY <2>4, <2>7, <3>1 DEF Registering
      <4>2. CASE j = k
        <5>1. b = a /\ (asks'[k].ws = {ws} => ws = Here(k))
          BY <2>2, <2>3, <2>4, <4>1, <4>2
        <5>. QED BY <2>4, <2>5, <2>6, <2>11, <4>2, <5>1
      <4>3. CASE j # k
        <5>1. b # a /\ asks'[j] = asks[j]
          BY <2>3, <2>4, <4>1, <4>3
        <5>. QED BY <2>1, <2>5, <2>6, <3>1, <4>1, <5>1 DEF OnDisk
      <4>. QED BY <4>2, <4>3
    <3>. QED BY <3>1 DEF OnDisk
  <2>13. Recorded'
    BY <2>1, <2>5, <2>6 DEF Recorded
  <2>14. ListsAll'
    BY <2>1, <2>4, <2>5 DEF ListsAll
  <2>15. \A j \in Clients : Claims(j)' <=> Claims(j)
    BY <2>1, <2>4 DEF Claims
  <2>16. Claimed'
    BY <2>1, <2>4, <2>15 DEF Claimed
  <2>17. OneAssetPerDocument'
    BY <2>1 DEF OneAssetPerDocument
  <2>. QED BY <2>8, <2>9, <2>10, <2>12, <2>13, <2>14, <2>16, <2>17
<1>. QED BY <1>1, <1>2

\* The record is written: the document becomes this one asset.
LEMMA RecordWritten == ASSUME AssetInv, NEW k \in Clients, Writes(k) PROVE AssetInv'
<1>. USE DEF AssetInv
<1>1. /\ asks[k].op \in {"asset", "document"} /\ asks[k].at = "writing"
      /\ UNCHANGED <<current, assetDirs, ledger, documents, created, misplaced>>
  BY DEF Writes, Registers
<1>2. PICK home \in Folders :
        /\ home = Here(k) /\ asks[k].ws = {home} /\ k \in Registering
        /\ asks[k].op = "asset" => asks[k].doc = {}
  BY <1>1, OfRegistration
<1>3. PICK a \in Assets : /\ asks[k].asset = {a}
                          /\ \A j \in Registering : j # k => asks[j].asset # {a}
  BY <1>1, OfRegistration
<1> DEFINE new == [asset |-> a, doc |-> asks[k].doc]
<1>4. /\ asks' \in [Clients -> AskRecords]
      /\ \A j \in Clients : j # k => asks'[j] = asks[j]
      /\ \/ asks'[k].op = "none" /\ asks'[k].asset = {} /\ Formed(asks'[k])
         \/ /\ asks'[k].at = "appending" /\ asks'[k].op = asks[k].op /\ asks'[k].ws = asks[k].ws
            /\ asks'[k].asset = asks[k].asset /\ asks'[k].doc = asks[k].doc
  <2>1. CASE Steps(k, "appending")
    BY <2>1, AskMoves DEF AskSteps
  <2>2. CASE AskEnds(k)
    BY <2>2, NothingAsked, AskBecomes DEF AskEnds
  <2>. QED BY <2>1, <2>2 DEF Writes
<1>5. /\ assetRecords'[home] = assetRecords[home] \cup {new}
      /\ \A ws \in Folders : ws # home => assetRecords'[ws] = assetRecords[ws]
      /\ assetRecords' \in [Folders -> SUBSET [asset : Assets, doc : SUBSET Docs]]
  <2>1. assetRecords' = With(assetRecords, home, {new})
    BY <1>2, <1>3 DEF Writes
  <2>2. new \in [asset : Assets, doc : SUBSET Docs]
    BY DEF AssetTypeOK, AskRecords
  <2>. HIDE DEF new
  <2>. QED BY <1>2, <2>1, <2>2 DEF With, AssetTypeOK
<1>6. /\ Stored(home)' = Stored(home) \cup {a}
      /\ \A ws \in Folders : ws # home => Stored(ws)' = Stored(ws)
  <2>1. new.asset = a
    OBVIOUS
  <2>. HIDE DEF new
  <2>2. \A ws \in Folders : \A x : x \in Stored(ws)' <=> \E r \in assetRecords'[ws] : x = r.asset
    BY DEF Stored
  <2>3. \A ws \in Folders : \A x : x \in Stored(ws) <=> \E r \in assetRecords[ws] : x = r.asset
    BY DEF Stored
  <2>4. \A x : x \in Stored(home)' <=> x \in Stored(home) \cup {a}
    BY <1>5, <2>1, <2>2, <2>3
  <2>5. ASSUME NEW ws \in Folders, ws # home PROVE \A x : x \in Stored(ws)' <=> x \in Stored(ws)
    BY <1>5, <2>2, <2>3, <2>5
  <2>. QED BY <2>4, <2>5
<1>7. a \in assetDirs[home] /\ \A ws \in Folders : a \notin Stored(ws)
  BY <1>1, <1>2, <1>3 DEF OnDisk
<1>8. AssetTypeOK'
  BY <1>1, <1>4, <1>5 DEF AssetTypeOK
<1>9. AskShape'
  <2>1. Formed(asks[k])
    BY DEF AskShape
  <2>2. Formed(asks'[k])
    BY <1>1, <1>4, <2>1 DEF Formed
  <2>. QED BY <1>4, <2>2 DEF AskShape
<1>10. /\ Registering' \subseteq Registering /\ Registering \subseteq Clients
       /\ \A j \in Registering' : asks'[j].asset = asks[j].asset /\ asks'[j].ws = asks[j].ws
  BY <1>4 DEF Registering
<1>11. OwnAsset'
  BY <1>10 DEF OwnAsset
<1>12. \A ws \in Folders : Stored(ws) \subseteq Stored(ws)' /\ Stored(ws)' \subseteq Stored(ws) \cup {a}
  BY <1>6
<1>13. OnDisk'
  <2>1. ASSUME NEW j \in Registering', NEW ws \in Folders, NEW b \in Assets, asks'[j].asset = {b}
        PROVE  /\ asks'[j].at \in {"checking", "preparing"} => b \notin assetDirs'[ws]
               /\ asks'[j].at = "writing" => b \notin Stored(ws)' /\ (asks'[j].ws = {ws} => b \in assetDirs'[ws])
               /\ asks'[j].at = "appending" /\ asks'[j].ws = {ws} => b \in Stored(ws)'
               /\ asks'[j].at = "indexing" /\ asks'[j].ws = {ws} =>
                    b \in Stored(ws)' \cup misplaced' /\ asks'[j].read \subseteq Stored(ws)' \cup misplaced'
    <3>1. CASE j = k
      <4>1. asks'[k].at = "appending" /\ b = a
        BY <1>3, <1>4, <1>10, <2>1, <3>1
      <4>2. asks'[k].ws = {ws} => ws = home
        BY <1>2, <1>4, <1>10, <2>1, <3>1
      <4>. QED BY <1>6, <3>1, <4>1, <4>2
    <3>2. CASE j # k
      <4>1. j \in Registering /\ asks'[j] = asks[j] /\ b # a
        BY <1>3, <1>4, <1>10, <2>1, <3>2
      <4>. QED BY <1>1, <1>12, <2>1, <4>1 DEF OnDisk
    <3>. QED BY <3>1, <3>2
  <2>. QED BY <2>1 DEF OnDisk
<1>14. Recorded'
  BY <1>1, <1>6, <1>7, <1>12 DEF Recorded
<1>15. ListsAll'
  BY <1>1, <1>4, <1>12 DEF ListsAll
<1>16. \A j \in Clients : Claims(j)' => j # k /\ Claims(j)
  BY <1>1, <1>4 DEF Claims
<1>17. a \notin misplaced /\ asks[k].doc # {} => Claims(k)
  BY <1>1, <1>2, <1>3 DEF Claims
<1>18. Claimed'
  <2>. SUFFICES ASSUME NEW i \in Clients, NEW ws \in Folders, Claims(i)', asks'[i].ws = {ws}
                PROVE  /\ asks'[i].doc \subseteq documents'[ws]
                       /\ \A r \in assetRecords'[ws] : r.asset \notin misplaced' => r.doc # asks'[i].doc
                       /\ \A j \in Clients \ {i} :
                            Claims(j)' /\ asks'[j].ws = {ws} => asks'[j].doc # asks'[i].doc
    BY DEF Claimed
  <2>1. i # k /\ Claims(i) /\ asks'[i] = asks[i]
    BY <1>4, <1>16
  <2>2. \A r \in assetRecords[ws] : r.asset \notin misplaced => r.doc # asks[i].doc
    BY <2>1 DEF Claimed
  <2>3. ASSUME ws = home, a \notin misplaced PROVE asks[k].doc # asks[i].doc
    <3>1. asks[i].op = "document" /\ Formed(asks[i])
      BY <2>1 DEF Claims, AskShape
    <3>2. asks[i].doc # {}
      BY <3>1 DEF Formed
    <3>3. CASE asks[k].doc = {}
      BY <3>2, <3>3
    <3>4. CASE asks[k].doc # {}
      BY <1>2, <1>17, <2>1, <2>3, <3>4 DEF Claimed
    <3>. QED BY <3>3, <3>4
  <2>4. \A j \in Clients \ {i} : Claims(j)' /\ asks'[j].ws = {ws} => asks'[j].doc # asks'[i].doc
    BY <1>4, <1>16, <2>1 DEF Claimed
  <2>. QED BY <1>1, <1>5, <2>1, <2>2, <2>3, <2>4 DEF Claimed
<1>19. OneAssetPerDocument'
  <2>1. \A r \in assetRecords[home] : asks[k].doc # {} /\ a \notin misplaced /\ r.asset \notin misplaced
          => r.doc # asks[k].doc
    BY <1>2, <1>17 DEF Claimed
  <2>2. asks[k].doc # {} /\ a \notin misplaced => asks[k].doc \subseteq documents[home]
    BY <1>2, <1>17 DEF Claimed
  <2>3. new.asset = a /\ new.doc = asks[k].doc
    OBVIOUS
  <2>. HIDE DEF new
  <2>4. ASSUME NEW ws \in Folders,
               NEW r \in assetRecords'[ws], NEW q \in assetRecords'[ws],
               r.asset \notin misplaced, q.asset \notin misplaced, r.doc # {}, q.doc # {}
        PROVE  r.doc \subseteq documents[ws] /\ (r.doc = q.doc => r = q)
    <3>1. CASE ws # home
      BY <1>5, <2>4, <3>1 DEF OneAssetPerDocument
    <3>2. CASE ws = home
      <4>1. CASE r = new
        BY <1>5, <2>1, <2>2, <2>3, <2>4, <3>2, <4>1
      <4>2. CASE r # new
        <5>1. r \in assetRecords[ws]
          BY <1>5, <3>2, <4>2
        <5>2. CASE q = new
          BY <2>1, <2>3, <2>4, <3>2, <5>1, <5>2 DEF OneAssetPerDocument
        <5>3. CASE q # new
          BY <1>5, <2>4, <3>2, <5>1, <5>3 DEF OneAssetPerDocument
        <5>. QED BY <5>2, <5>3
      <4>. QED BY <4>1, <4>2
    <3>. QED BY <3>1, <3>2
  <2>. QED BY <1>1, <2>4 DEF OneAssetPerDocument
<1>. QED BY <1>8, <1>9, <1>11, <1>13, <1>14, <1>15, <1>18, <1>19

\* The ledger is read, in the workspace that is open by now if it is a document's.
LEMMA LedgerRead == ASSUME AssetInv, NEW k \in Clients, Appends(k) PROVE AssetInv'
<1>. USE DEF AssetInv
<1>1. /\ asks[k].op \in {"asset", "document"} /\ asks[k].at = "appending"
      /\ UNCHANGED <<current, assetDirs, assetRecords, ledger, documents, created>>
  BY DEF Appends, Registers, files
<1>2. PICK home \in Folders :
        /\ home = Here(k) /\ asks[k].ws = {home} /\ k \in Registering
  BY <1>1, OfRegistration
<1>3. PICK a \in Assets : /\ asks[k].asset = {a}
                          /\ \A j \in Registering : j # k => asks[j].asset # {a}
  BY <1>1, OfRegistration
<1>4. \E ws \in Folders :
        /\ misplaced' = IF ws # home THEN misplaced \cup {a} ELSE misplaced
        /\ \/ AskEnds(k)
           \/ asks' = [asks EXCEPT ![k].at = "indexing", ![k].ws = {ws}, ![k].read = ledger[ws]]
  BY <1>2, <1>3 DEF Appends, AssetTypeOK
<1>5. PICK ws \in Folders :
        /\ misplaced' = IF ws # home THEN misplaced \cup {a} ELSE misplaced
        /\ \/ AskEnds(k)
           \/ asks' = [asks EXCEPT ![k].at = "indexing", ![k].ws = {ws}, ![k].read = ledger[ws]]
  BY <1>4
<1>6. misplaced \subseteq misplaced' /\ misplaced' \subseteq Assets
  BY <1>5 DEF AssetTypeOK
<1>7. CASE AskEnds(k)
  BY <1>1, <1>6, <1>7, AskLeaves DEF files
<1>8. CASE asks' = [asks EXCEPT ![k].at = "indexing", ![k].ws = {ws}, ![k].read = ledger[ws]]
  <2> DEFINE r == [asks[k] EXCEPT !.at = "indexing", !.ws = {ws}, !.read = ledger[ws]]
  <2>1. asks[k] \in AskRecords /\ ledger[ws] \subseteq Assets
    BY DEF AssetTypeOK
  <2>2. /\ r \in AskRecords /\ r.op = asks[k].op /\ r.at = "indexing" /\ r.ws = {ws}
        /\ r.asset = {a} /\ r.doc = asks[k].doc /\ r.read = ledger[ws]
    BY <1>3, <2>1 DEF AskRecords, AskSteps
  <2>3. asks' = [asks EXCEPT ![k] = r]
    BY <1>8
  <2>. HIDE DEF r
  <2>4. /\ asks' \in [Clients -> AskRecords] /\ asks'[k] = r
        /\ \A j \in Clients : j # k => asks'[j] = asks[j]
    BY <2>2, <2>3, AskBecomes
  <2>5. \A f \in Folders : Stored(f)' = Stored(f)
    BY <1>1, StoredAlike
  <2>6. AssetTypeOK'
    BY <1>1, <1>6, <2>4 DEF AssetTypeOK
  <2>7. AskShape'
    <3>1. Formed(asks[k])
      BY DEF AskShape
    <3>2. Formed(r)
      BY <1>1, <1>3, <2>2, <3>1 DEF Formed
    <3>. QED BY <2>4, <3>2 DEF AskShape
  <2>8. /\ Registering' = Registering /\ Registering \subseteq Clients
        /\ \A j \in Registering : asks'[j].asset = asks[j].asset
    BY <1>1, <1>3, <2>2, <2>4 DEF Registering
  <2>9. OwnAsset'
    BY <2>8 DEF OwnAsset
  <2>10. a \in Stored(home)
    BY <1>1, <1>2, <1>3 DEF OnDisk
  <2>11. OnDisk'
    <3>1. ASSUME NEW j \in Registering', NEW f \in Folders, NEW b \in Assets, asks'[j].asset = {b}
          PROVE  /\ asks'[j].at \in {"checking", "preparing"} => b \notin assetDirs'[f]
                 /\ asks'[j].at = "writing" => b \notin Stored(f)' /\ (asks'[j].ws = {f} => b \in assetDirs'[f])
                 /\ asks'[j].at = "appending" /\ asks'[j].ws = {f} => b \in Stored(f)'
                 /\ asks'[j].at = "indexing" /\ asks'[j].ws = {f} =>
                      b \in Stored(f)' \cup misplaced' /\ asks'[j].read \subseteq Stored(f)' \cup misplaced'
      <4>1. j \in Clients /\ j \in Registering
        BY <2>8
      <4>2. CASE j = k
        <5>1. b = a /\ (asks'[k].ws = {f} => f = ws)
          BY <2>2, <2>4, <3>1, <4>2
        <5>2. a \in Stored(ws) \cup misplaced'
          BY <1>5, <2>10
        <5>3. ledger[ws] \subseteq Stored(ws) \cup misplaced
          BY DEF Recorded
        <5>. QED BY <1>6, <2>2, <2>4, <2>5, <4>2, <5>1, <5>2, <5>3
      <4>3. CASE j # k
        <5>1. asks'[j] = asks[j]
          BY <2>4, <4>1, <4>3
        <5>. QED BY <1>1, <1>6, <2>5, <3>1, <4>1, <5>1 DEF OnDisk
      <4>. QED BY <4>2, <4>3
    <3>. QED BY <3>1 DEF OnDisk
  <2>12. Recorded'
    BY <1>1, <1>6, <2>5 DEF Recorded
  <2>13. ListsAll'
    BY <1>1, <1>6, <2>2, <2>4, <2>5 DEF ListsAll
  <2>14. \A j \in Clients : Claims(j)' => j # k /\ Claims(j)
    BY <1>1, <1>6, <2>2, <2>4 DEF Claims
  <2>15. Claimed'
    BY <1>1, <1>6, <2>4, <2>14 DEF Claimed
  <2>16. OneAssetPerDocument'
    BY <1>1, <1>6 DEF OneAssetPerDocument
  <2>. QED BY <2>6, <2>7, <2>9, <2>11, <2>12, <2>13, <2>15, <2>16
<1>. QED BY <1>5, <1>7, <1>8

\* The ledger is replaced by what was read and the new entry, and the creation answered.
LEMMA LedgerWritten == ASSUME AssetInv, NEW k \in Clients, Indexes(k) PROVE AssetInv'
<1>. USE DEF AssetInv
<1>1. /\ asks[k].op \in {"asset", "document"} /\ asks[k].at = "indexing" /\ AskEnds(k)
      /\ UNCHANGED <<current, assetDirs, assetRecords, documents, misplaced>>
  BY DEF Indexes, Registers
<1>2. PICK home \in Folders :
        /\ home = Here(k) /\ asks[k].ws = {home} /\ k \in Registering
  BY <1>1, OfRegistration
<1>3. PICK a \in Assets : asks[k].asset = {a}
  BY <1>1, OfRegistration
<1>4. {a} \cup asks[k].read \subseteq Stored(home) \cup misplaced
  BY <1>1, <1>2, <1>3 DEF OnDisk
<1>5. /\ asks' \in [Clients -> AskRecords] /\ asks'[k] = NoAsk
      /\ \A j \in Clients : j # k => asks'[j] = asks[j]
  BY <1>1, NothingAsked, AskBecomes DEF AskEnds
<1>6. /\ ledger' \in [Folders -> SUBSET Assets] /\ created' \in [Folders -> SUBSET Assets]
      /\ \A ws \in Folders : ledger'[ws] \subseteq Stored(ws) \cup misplaced /\ created'[ws] \subseteq Stored(ws) \cup misplaced
  <2>1. asks[k].read \cup {a} \subseteq Assets
    BY DEF AssetTypeOK, AskRecords
  <2>2. /\ ledger' = ledger \/ ledger' = [ledger EXCEPT ![home] = asks[k].read \cup {a}]
        /\ created' = created \/ created' = [created EXCEPT ![home] = @ \cup {a}]
    BY <1>2, <1>3 DEF Indexes, With
  <2>3. ledger' \in [Folders -> SUBSET Assets] /\ created' \in [Folders -> SUBSET Assets]
    BY <2>1, <2>2 DEF AssetTypeOK
  <2>4. ASSUME NEW ws \in Folders PROVE ledger'[ws] \subseteq Stored(ws) \cup misplaced
    BY <1>4, <2>2 DEF Recorded, AssetTypeOK
  <2>5. ASSUME NEW ws \in Folders PROVE created'[ws] \subseteq Stored(ws) \cup misplaced
    BY <1>4, <2>2 DEF Recorded, AssetTypeOK
  <2>. QED BY <2>3, <2>4, <2>5
<1>7. \A ws \in Folders : Stored(ws)' = Stored(ws)
  BY <1>1, StoredAlike
<1>8. AssetTypeOK' /\ AskShape'
  BY <1>1, <1>5, <1>6, NothingAsked DEF AssetTypeOK, AskShape
<1>9. OwnAsset' /\ OnDisk'
  BY <1>1, <1>5, <1>7, NothingAsked DEF OwnAsset, OnDisk, Registering
<1>10. Recorded'
  BY <1>1, <1>6, <1>7 DEF Recorded
<1>11. ListsAll'
  BY <1>1, <1>5, <1>7, NothingAsked DEF ListsAll
<1>12. Claimed'
  BY <1>1, <1>5, NothingAsked DEF Claimed, Claims
<1>13. OneAssetPerDocument'
  BY <1>1 DEF OneAssetPerDocument
<1>. QED BY <1>8, <1>9, <1>10, <1>11, <1>12, <1>13

\* A list reads record after record, compares the ledger and rebuilds it from what it found.
LEMMA ListGoesOn ==
  ASSUME AssetInv, NEW k \in Clients, ListReadsRecord(k) \/ ListCompares(k) \/ ListRebuilds(k)
  PROVE  AssetInv'
<1>. USE DEF AssetInv
<1>1. /\ asks[k].op = "list" /\ asks[k].at \in {"reading", "comparing", "rebuilding"}
      /\ UNCHANGED <<current, assetDirs, assetRecords, documents, created, misplaced>>
  BY DEF ListReadsRecord, ListCompares, ListRebuilds, Stands, files
<1>2. PICK home \in Folders : home = Here(k) /\ asks[k].ws = {home}
  BY <1>1, HereIs
<1>3. /\ asks[k] \in AskRecords /\ Formed(asks[k]) /\ asks[k].asset = {}
      /\ asks[k].found \subseteq Stored(home)
      /\ asks[k].must \subseteq Stored(home) \cup misplaced
      /\ asks[k].at = "reading" => asks[k].must \subseteq asks[k].found \cup asks[k].read \cup misplaced
      /\ asks[k].at \in {"comparing", "rebuilding"} => asks[k].must \subseteq asks[k].found \cup misplaced
  BY <1>1, <1>2 DEF AssetTypeOK, AskShape, Formed, ListsAll
<1> DEFINE Listed(r) ==
      /\ r \in AskRecords /\ r.op = "list" /\ r.ws = {home} /\ r.must = asks[k].must
      /\ r.at \in {"reading", "comparing", "rebuilding", "answering", "refused"}
      /\ r.at # "refused" => r.asset = {}
      /\ r.found \subseteq Stored(home)
      /\ r.at = "reading" => r.must \subseteq r.found \cup r.read \cup misplaced
      /\ r.at \in {"comparing", "rebuilding", "answering"} => r.must \subseteq r.found \cup misplaced
      /\ r.at = "refused" => r.must \cap r.asset \subseteq misplaced
<1>4. ASSUME NEW at \in {"comparing", "rebuilding", "answering", "refused"}, Steps(k, at),
             at = "refused" \/ asks[k].must \subseteq asks[k].found \cup misplaced
      PROVE  \E r : asks' = [asks EXCEPT ![k] = r] /\ Listed(r)
  <2> DEFINE r == [asks[k] EXCEPT !.at = at]
  <2>1. /\ r \in AskRecords /\ r.op = "list" /\ r.ws = {home} /\ r.must = asks[k].must /\ r.at = at
        /\ r.asset = {} /\ r.found = asks[k].found
    BY <1>1, <1>2, <1>3 DEF AskRecords, AskSteps
  <2>2. asks' = [asks EXCEPT ![k] = r]
    BY <1>4 DEF Steps
  <2>. HIDE DEF r
  <2>. QED BY <1>3, <1>4, <2>1, <2>2
<1>5. ASSUME ListReadsRecord(k), ~ Steps(k, "comparing")
      PROVE  \E r : asks' = [asks EXCEPT ![k] = r] /\ Listed(r)
  <2>1. PICK a \in asks[k].read :
          \/ /\ a \in Stored(home)
             /\ asks' = [asks EXCEPT ![k].read = @ \ {a}, ![k].found = @ \cup {a}]
          \/ /\ a \notin Stored(home)
             /\ asks' = [asks EXCEPT ![k].at = "refused", ![k].asset = {a}]
    BY <1>2, <1>5 DEF ListReadsRecord
  <2>2. asks[k].at = "reading" /\ a \in Assets
    BY <1>3, <1>5 DEF ListReadsRecord, Stands, AskRecords
  <2> DEFINE r1 == [asks[k] EXCEPT !.read = @ \ {a}, !.found = @ \cup {a}]
             r2 == [asks[k] EXCEPT !.at = "refused", !.asset = {a}]
  <2>3. /\ r1 \in AskRecords /\ r1.op = "list" /\ r1.ws = {home} /\ r1.must = asks[k].must /\ r1.at = "reading"
        /\ r1.asset = {} /\ r1.found = asks[k].found \cup {a} /\ r1.read = asks[k].read \ {a}
    BY <1>1, <1>2, <1>3, <2>2 DEF AskRecords, AskSteps
  <2>4. /\ r2 \in AskRecords /\ r2.op = "list" /\ r2.ws = {home} /\ r2.must = asks[k].must /\ r2.at = "refused"
        /\ r2.asset = {a} /\ r2.found = asks[k].found
    BY <1>1, <1>2, <1>3, <2>2 DEF AskRecords, AskSteps
  <2>5. \/ a \in Stored(home) /\ asks' = [asks EXCEPT ![k] = r1]
        \/ a \notin Stored(home) /\ asks' = [asks EXCEPT ![k] = r2]
    BY <2>1
  <2>. HIDE DEF r1, r2
  <2>6. a \in Stored(home) => Listed(r1)
    BY <1>3, <2>2, <2>3
  <2>7. a \notin Stored(home) => Listed(r2)
    BY <1>3, <2>4
  <2>. HIDE DEF Listed
  <2>. QED BY <2>5, <2>6, <2>7
<1>6. ASSUME ListReadsRecord(k), Steps(k, "comparing")
      PROVE  \E r : asks' = [asks EXCEPT ![k] = r] /\ Listed(r)
  <2>1. \/ asks[k].read = {}
        \/ \E a \in asks[k].read : asks' = [asks EXCEPT ![k].read = @ \ {a}, ![k].found = @ \cup {a}]
        \/ \E a \in asks[k].read : asks' = [asks EXCEPT ![k].at = "refused", ![k].asset = {a}]
    BY <1>6 DEF ListReadsRecord
  <2>2. asks[k].at = "reading" /\ asks'[k].at = "comparing" /\ asks'[k].read = asks[k].read
    BY <1>3, <1>6 DEF ListReadsRecord, Stands, Steps, AssetTypeOK, AskRecords
  <2>3. ~ \E a \in asks[k].read : asks' = [asks EXCEPT ![k].at = "refused", ![k].asset = {a}]
    <3>1. SUFFICES ASSUME NEW a, asks' = [asks EXCEPT ![k].at = "refused", ![k].asset = {a}] PROVE FALSE
      OBVIOUS
    <3>2. asks'[k].at = "refused"
      BY <1>3, <3>1 DEF AssetTypeOK, AskRecords
    <3>. QED BY <2>2, <3>2
  <2>4. ~ \E a \in asks[k].read : asks' = [asks EXCEPT ![k].read = @ \ {a}, ![k].found = @ \cup {a}]
    <3>1. SUFFICES ASSUME NEW a, asks' = [asks EXCEPT ![k].read = @ \ {a}, ![k].found = @ \cup {a}] PROVE FALSE
      OBVIOUS
    <3>2. asks'[k].at = asks[k].at
      BY <1>3, <3>1 DEF AssetTypeOK, AskRecords
    <3>. QED BY <2>2, <3>2
  <2>5. asks[k].read = {}
    BY <2>1, <2>3, <2>4
  <2>. HIDE DEF Listed
  <2>. QED BY <1>3, <1>4, <1>6, <2>2, <2>5
<1>7. ASSUME ListCompares(k)
      PROVE  \E r : asks' = [asks EXCEPT ![k] = r] /\ Listed(r)
  <2>1. asks[k].at = "comparing" /\ (Steps(k, "answering") \/ Steps(k, "rebuilding"))
    BY <1>7 DEF ListCompares, Stands
  <2>. HIDE DEF Listed
  <2>. QED BY <1>3, <1>4, <2>1
<1>8. ASSUME ListRebuilds(k)
      PROVE  \E r : asks' = [asks EXCEPT ![k] = r] /\ Listed(r)
  <2>1. asks[k].at = "rebuilding" /\ (Steps(k, "answering") \/ Steps(k, "refused"))
    BY <1>8 DEF ListRebuilds, Stands
  <2>. HIDE DEF Listed
  <2>. QED BY <1>3, <1>4, <2>1
<1>9. PICK r : asks' = [asks EXCEPT ![k] = r] /\ Listed(r)
  <2>. HIDE DEF Listed
  <2>. QED BY <1>5, <1>6, <1>7, <1>8
<1>10. /\ asks' \in [Clients -> AskRecords] /\ asks'[k] = r
       /\ \A j \in Clients : j # k => asks'[j] = asks[j]
  BY <1>9, AskBecomes
<1>11. \A ws \in Folders : Stored(ws)' = Stored(ws)
  BY <1>1, StoredAlike
<1>12. /\ ledger' \in [Folders -> SUBSET Assets]
       /\ \A ws \in Folders : ledger'[ws] \subseteq Stored(ws) \cup misplaced
  <2>1. ledger' = ledger \/ ledger' = [ledger EXCEPT ![home] = asks[k].found]
    BY <1>2 DEF ListReadsRecord, ListCompares, ListRebuilds, files
  <2>2. asks[k].found \subseteq Assets
    BY <1>3 DEF AskRecords
  <2>3. ledger' \in [Folders -> SUBSET Assets]
    BY <2>1, <2>2 DEF AssetTypeOK
  <2>4. ASSUME NEW ws \in Folders PROVE ledger'[ws] \subseteq Stored(ws) \cup misplaced
    BY <1>3, <2>1 DEF Recorded, AssetTypeOK
  <2>. QED BY <2>3, <2>4
<1>13. AssetTypeOK'
  BY <1>1, <1>10, <1>12 DEF AssetTypeOK
<1>14. AskShape'
  BY <1>9, <1>10 DEF AskShape, Formed
<1>15. /\ Registering' = Registering /\ k \notin Registering
       /\ \A j \in Registering : asks'[j] = asks[j]
  BY <1>1, <1>9, <1>10 DEF Registering
<1>16. OwnAsset' /\ OnDisk'
  BY <1>1, <1>11, <1>15 DEF OwnAsset, OnDisk
<1>17. Recorded'
  BY <1>1, <1>11, <1>12 DEF Recorded
<1>18. ListsAll'
  <2>1. ASSUME NEW j \in Clients, NEW ws \in Folders, asks'[j].op = "list", asks'[j].ws = {ws}
        PROVE  /\ asks'[j].found \subseteq Stored(ws)
               /\ asks'[j].must \subseteq Stored(ws) \cup misplaced
               /\ asks'[j].at = "reading" => asks'[j].must \subseteq asks'[j].found \cup asks'[j].read \cup misplaced
               /\ asks'[j].at \in {"comparing", "rebuilding", "answering"} =>
                    asks'[j].must \subseteq asks'[j].found \cup misplaced
               /\ asks'[j].at = "refused" => asks'[j].must \cap asks'[j].asset \subseteq misplaced
    <3>1. CASE j = k
      <4>1. ws = home
        BY <1>9, <1>10, <2>1, <3>1
      <4>. QED BY <1>3, <1>9, <1>10, <3>1, <4>1
    <3>2. CASE j # k
      <4>1. asks'[j] = asks[j]
        BY <1>10, <3>2
      <4>. QED BY <2>1, <4>1 DEF ListsAll
    <3>. QED BY <3>1, <3>2
  <2>. QED BY <1>1, <1>11, <2>1 DEF ListsAll
<1>19. \A j \in Clients : Claims(j)' => j # k /\ Claims(j)
  BY <1>1, <1>9, <1>10 DEF Claims
<1>20. Claimed'
  BY <1>1, <1>10, <1>19 DEF Claimed
<1>21. OneAssetPerDocument'
  BY <1>1 DEF OneAssetPerDocument
<1>. QED BY <1>13, <1>14, <1>16, <1>17, <1>18, <1>20, <1>21

\* Every step preserves the invariant: most by a lemma above, the rest because a request only
\* leaves, or because nobody asks.
LEMMA AssetPreserved == ASSUME AssetInv, [AssetNext]_assetVars PROVE AssetInv'
<1>1. CASE \E k \in Clients :
             \/ AssetAsked(k) \/ DocumentAsked(k) \/ DocumentLands(k) \/ DocumentNamed(k)
             \/ Checks(k) \/ Makes(k) \/ Writes(k) \/ Appends(k) \/ Indexes(k)
             \/ ListAsked(k) \/ ListReadsRecord(k) \/ ListCompares(k) \/ ListRebuilds(k) \/ ListEnds(k)
             \/ RegistrationFails(k)
  <2>1. PICK k \in Clients :
             \/ AssetAsked(k) \/ DocumentAsked(k) \/ DocumentLands(k) \/ DocumentNamed(k)
             \/ Checks(k) \/ Makes(k) \/ Writes(k) \/ Appends(k) \/ Indexes(k)
             \/ ListAsked(k) \/ ListReadsRecord(k) \/ ListCompares(k) \/ ListRebuilds(k) \/ ListEnds(k)
             \/ RegistrationFails(k)
    BY <1>1
  <2>2. CASE AssetAsked(k) \/ DocumentAsked(k) \/ ListAsked(k)
    BY <2>2, AskStarts
  <2>3. CASE DocumentLands(k) \/ DocumentNamed(k)
    BY <2>3, DocumentSteps
  <2>4. CASE Checks(k) \/ Makes(k)
    BY <2>4, RegistrationGoesOn
  <2>5. CASE Writes(k)
    BY <2>5, RecordWritten
  <2>6. CASE Appends(k)
    BY <2>6, LedgerRead
  <2>7. CASE Indexes(k)
    BY <2>7, LedgerWritten
  <2>8. CASE ListReadsRecord(k) \/ ListCompares(k) \/ ListRebuilds(k)
    BY <2>8, ListGoesOn
  <2>9. CASE ListEnds(k) \/ RegistrationFails(k)
    <3>1. AskEnds(k) /\ UNCHANGED <<current, files, created, misplaced>>
      BY <2>9 DEF ListEnds, RegistrationFails
    <3>. QED BY <3>1, AskLeaves DEF AssetInv, AssetTypeOK
  <2>. QED BY <2>1, <2>2, <2>3, <2>4, <2>5, <2>6, <2>7, <2>8, <2>9
<1>2. CASE OtherOpened
  <2>1. current' \in Folders /\ UNCHANGED <<files, asks, created, misplaced>>
    BY <1>2 DEF OtherOpened
  <2>2. \A ws \in Folders : Stored(ws)' = Stored(ws)
    BY <2>1, StoredAlike DEF files
  <2>3. AssetTypeOK' /\ AskShape'
    BY <2>1 DEF AssetInv, AssetTypeOK, AskShape, files
  <2>4. OwnAsset' /\ OnDisk'
    BY <2>1, <2>2 DEF AssetInv, OwnAsset, OnDisk, Registering, files
  <2>5. Recorded' /\ ListsAll'
    BY <2>1, <2>2 DEF AssetInv, Recorded, ListsAll, files
  <2>6. Claimed' /\ OneAssetPerDocument'
    BY <2>1 DEF AssetInv, Claimed, Claims, OneAssetPerDocument, files
  <2>. QED BY <2>3, <2>4, <2>5, <2>6 DEF AssetInv
<1>3. CASE AssetServerRestarts
  <2>1. /\ asks' = [k \in Clients |-> NoAsk] /\ UNCHANGED <<current, files, created, misplaced>>
        /\ \A k \in Clients : asks'[k] = NoAsk
    BY <1>3 DEF AssetServerRestarts
  <2>2. \A ws \in Folders : Stored(ws)' = Stored(ws)
    BY <2>1, StoredAlike DEF files
  <2>3. AssetTypeOK' /\ AskShape'
    BY <2>1, NothingAsked DEF AssetInv, AssetTypeOK, AskShape, files
  <2>4. OwnAsset' /\ OnDisk'
    BY <2>1, NothingAsked DEF OwnAsset, OnDisk, Registering
  <2>5. Recorded' /\ ListsAll'
    BY <2>1, <2>2, NothingAsked DEF AssetInv, Recorded, ListsAll, files
  <2>6. Claimed' /\ OneAssetPerDocument'
    BY <2>1, NothingAsked DEF AssetInv, Claimed, Claims, OneAssetPerDocument, files
  <2>. QED BY <2>3, <2>4, <2>5, <2>6 DEF AssetInv
<1>4. CASE UNCHANGED assetVars
  <2>1. UNCHANGED <<current, files, asks, created, misplaced>>
    BY <1>4 DEF assetVars
  <2>2. \A ws \in Folders : Stored(ws)' = Stored(ws)
    BY <2>1, StoredAlike DEF files
  <2>3. AssetTypeOK' /\ AskShape' /\ OwnAsset' /\ OnDisk'
    BY <2>1, <2>2 DEF AssetInv, AssetTypeOK, AskShape, OwnAsset, OnDisk, Registering, files
  <2>4. Recorded' /\ ListsAll' /\ Claimed' /\ OneAssetPerDocument'
    BY <2>1, <2>2 DEF AssetInv, Recorded, ListsAll, Claimed, Claims, OneAssetPerDocument, files
  <2>. QED BY <2>3, <2>4 DEF AssetInv
<1>. QED BY <1>1, <1>2, <1>3, <1>4 DEF AssetNext

\* The invariant of the asset store and of the creation of documents, for every number of requests,
\* workspaces and assets, and whatever the limits are.
THEOREM AssetInvariant == AssetSpec => []AssetInv
<1>1. AssetInv /\ [AssetNext]_assetVars => AssetInv'
  BY AssetPreserved
<1>. QED BY AssetsInitially, <1>1, PTL DEF AssetSpec

\* What has been answered with 201 stays one asset, listed from then on, through interleavings,
\* failures and restarts, unless another workspace was opened while its document was registered.
THEOREM CreatedAssetsAreKept == AssetSpec => []AssetsAreKept
<1>1. ASSUME AssetInv PROVE AssetsAreKept
  <2>1. LedgerOfRecords
    BY <1>1 DEF AssetInv, Recorded, LedgerOfRecords
  <2>2. ListIsComplete
    <3>1. ASSUME NEW k \in Clients, asks[k].op = "list"
          PROVE  /\ asks[k].at = "answering" => asks[k].must \subseteq asks[k].found \cup misplaced
                 /\ asks[k].at = "refused" => asks[k].must \cap asks[k].asset \subseteq misplaced
      <4>1. PICK ws \in Folders : asks[k].ws = {ws}
        BY <1>1, <3>1 DEF AssetInv, AskShape, Formed
      <4>. QED BY <1>1, <3>1, <4>1 DEF AssetInv, ListsAll
    <3>. QED BY <3>1 DEF ListIsComplete, Stands
  <2>. QED BY <1>1, <2>1, <2>2 DEF AssetInv, AssetsAreKept
<1>. QED BY AssetInvariant, <1>1, PTL

-----------------------------------------------------------------------------
(* TurnReports *)

\* Where a turn has the id of its conversation.
HasId == {"write", "rename", "executing", "finish", "replace", "done"}

\* The steps of a turn.
TurnSteps == HasId \cup {"idle", "mkdir", "mkturns", "ensure", "load", "create", "failed"}

\* The types the proof needs.
TurnsTyped ==
  /\ turns = [t \in Turns |-> turns[t]]
  /\ \A t \in Turns :
       /\ {"at", "of", "id", "now"} \subseteq DOMAIN turns[t]
       /\ turns[t].at \in TurnSteps /\ turns[t].now \in Nat
       /\ IF turns[t].at = "idle" THEN turns[t].of = None ELSE turns[t].of \in Conversations
  /\ metadata = [c \in Conversations |-> metadata[c]] /\ locks = [c \in Conversations |-> locks[c]]
  /\ records = [t \in Turns |-> records[t]]
  /\ \A c \in Conversations : metadata[c] \in Uuids \cup Sessions \cup {None}
  /\ ids \subseteq Uuids /\ audits \in Nat /\ clock \in Nat /\ dirs \subseteq Conversations

\* Metadata is written by the turn that holds the lock and found none; whoever has an id has that
\* of the metadata.
MetadataIsOwned ==
  \A t \in Turns :
    LET c == turns[t].of IN
    /\ turns[t].at \in {"load", "create"} =>
         /\ locks[c] = "pending"
         /\ \A u \in Turns : turns[u].at \in {"load", "create"} /\ turns[u].of = c => u = t
    /\ turns[t].at = "create" => metadata[c] = None /\ turns[t].id \in Uuids \cup Sessions
    /\ turns[t].at \in HasId => turns[t].id = metadata[c] /\ metadata[c] # None

\* What the lock resolved to is the metadata.
LocksResolved == \A c \in Conversations : locks[c] \notin {None, "pending"} => locks[c] = metadata[c]

\* A record is that of a turn that has got as far, and says so.
RecordsOwned ==
  \A t \in Turns : records[t] # None =>
    /\ turns[t].at \in HasId \cup {"failed"} /\ records[t].turn = t
    /\ turns[t].of \in Conversations /\ turns[t].of \in dirs
    /\ metadata[turns[t].of] # None /\ records[t].conversation = metadata[turns[t].of]

\* A turn of a session that began found the session in the index, and a directory is of such a turn.
SessionsFirst ==
  /\ dirs \cap Sessions \subseteq indexed
  /\ \A t \in Turns : turns[t].at # "idle" /\ turns[t].of \in Sessions => turns[t].of \in indexed
  /\ \A t \in Turns : turns[t].at \in {"mkturns", "ensure", "load", "create"} \cup HasId => turns[t].of \in dirs

\* The inductive invariant of the writers.
WritersInv == TurnsTyped /\ MetadataIsOwned /\ LocksResolved /\ RecordsOwned /\ SessionsFirst

\* The fields of a report.
ReportFields ==
  {"at", "source", "entries", "entry", "id", "files", "got", "audits", "sessions", "why", "owed",
   "owedAudits", "moved"}

\* Where a report is, and what it has: conversations there are, of which the sessions are in the
\* index, and files there were, all of one conversation.
ReportTyped ==
  /\ ReportFields \subseteq DOMAIN report
  /\ report.source \in {"position", "session"} /\ report.moved \in BOOLEAN
  /\ report.entries \subseteq dirs /\ report.audits \in Nat /\ report.owed \subseteq Turns
  /\ report.at \in {"idle", "audit"} => report.source = "position" /\ report.entries = {}
  /\ report.at = "list" => report.entries = {}
  /\ report.at = "answered" => report.source = "session" /\ report.entries = {}
  /\ report.source = "position" => report.entries \cap Sessions = {}
  /\ report.at = "index" => report.source = "session" /\ report.entries \subseteq indexed
  /\ report.at \in {"scan", "turns", "files"} => report.entries \cap Sessions \subseteq report.sessions
  /\ report.at \in {"turns", "files"} =>
       report.entry \in dirs /\ metadata[report.entry] = report.id /\ report.id # None

\* The files that were listed are there, but for temporaries, which go only when something moves.
FilesThere ==
  report.at = "files" => \A f \in report.files :
    /\ f[1] \in Turns /\ f[2] \in {"record", "temporary"} /\ f = <<f[1], f[2]>>
    /\ turns[f[1]].of = report.entry
    /\ f[2] = "record" => records[f[1]] # None
    /\ f[2] = "temporary" /\ f[1] \notin temps => report.moved

\* The turns whose records will still be read.
WillBeRead(t) ==
  LET c == turns[t].of IN
  \/ report.at \in {"idle", "audit"}
  \/ report.source = "position" /\ c \in Sessions
  \/ report.at = "list" /\ (report.source = "session" <=> c \in Sessions)
  \/ c \in report.entries
  \/ report.at = "turns" /\ c = report.entry
  \/ report.at = "files" /\ <<t, "record">> \in report.files

\* What a report owes has been read or will be, and the audit is that of the request.
OwedIsRead ==
  /\ \A t \in report.owed :
       records[t] # None /\ (WillBeRead(t) \/ \E r \in report.got : r.turn = t)
  /\ report.owedAudits = report.audits
  /\ report.at = "audit" /\ audits # report.audits => report.moved

\* The inductive invariant of TurnReports.
ReportsInv == WritersInv /\ ReportTyped /\ FilesThere /\ OwedIsRead

-----------------------------------------------------------------------------

\* Init satisfies it.
LEMMA WritersInit == Init => WritersInv
BY DEF Init, Idle, WritersInv, TurnsTyped, MetadataIsOwned, LocksResolved, RecordsOwned, SessionsFirst,
       TurnSteps, HasId


\* What the report relies on: nothing that is stored goes, and what moves says so.
Grows ==
  /\ dirs \subseteq dirs' /\ indexed \subseteq indexed' /\ dirs' \subseteq Conversations
  /\ \A c \in Conversations : metadata[c] # None => metadata'[c] = metadata[c]
  /\ \A t \in Turns : records[t] # None => records'[t] # None
  /\ \A t \in Turns : turns[t].at # "idle" => turns'[t].of = turns[t].of

\* A turn that neither has the lock nor gets it, writes no metadata and takes no id.
LEMMA TurnGoesOn ==
  ASSUME WritersInv, NEW t \in Turns, NEW at \in TurnSteps \ {"idle", "load", "create"},
         turns[t].at # "idle", turns' = [u \in Turns |-> turns'[u]],
         \A u \in Turns : u # t => turns'[u] = turns[u],
         turns'[t].at = at, turns'[t].of = turns[t].of, turns'[t].id = turns[t].id,
         {"at", "of", "id", "now"} \subseteq DOMAIN turns'[t], turns'[t].now \in Nat,
         UNCHANGED <<metadata, locks, ids, indexed>>, audits' \in Nat, clock' \in Nat,
         dirs \subseteq dirs', dirs' \subseteq dirs \cup {turns[t].of},
         at \in {"mkturns", "ensure"} \cup HasId => turns[t].of \in dirs',
         at \in HasId => turns[t].at \in HasId,
         records' = [u \in Turns |-> records'[u]], \A u \in Turns : u # t => records'[u] = records[u],
         turns[t].at \in HasId \cup {"failed"} => at \in HasId \cup {"failed"},
         \/ records'[t] = records[t]
         \/ /\ at \in HasId \cup {"failed"} /\ turns[t].at \in HasId
            /\ records'[t] # None /\ records'[t].turn = t /\ records'[t].conversation = turns[t].id
  PROVE  WritersInv' /\ Grows
<1>0. TurnsTyped /\ MetadataIsOwned /\ LocksResolved /\ RecordsOwned /\ SessionsFirst
  BY DEF WritersInv
<1>1. \A u \in Turns : turns'[u].of = turns[u].of /\ turns'[u].id = turns[u].id
                       /\ (turns'[u].at = turns[u].at \/ (u = t /\ turns'[u].at = at))
  OBVIOUS
<1>2. turns[t].of \in Conversations /\ dirs' \subseteq Conversations
  BY <1>0 DEF TurnsTyped
<1>3. TurnsTyped'
  BY <1>0, <1>1, <1>2 DEF TurnsTyped
<1>4. MetadataIsOwned'
  BY <1>0, <1>1 DEF MetadataIsOwned, HasId
<1>5. LocksResolved'
  BY <1>0 DEF LocksResolved
<1>6. RecordsOwned'
  <2>. SUFFICES ASSUME NEW u \in Turns, records'[u] # None
                PROVE  /\ turns'[u].at \in HasId \cup {"failed"} /\ records'[u].turn = u
                       /\ turns'[u].of \in Conversations /\ turns'[u].of \in dirs'
                       /\ metadata'[turns'[u].of] # None /\ records'[u].conversation = metadata'[turns'[u].of]
    BY DEF RecordsOwned
  <2>1. CASE records'[u] = records[u] /\ turns'[u].at = turns[u].at
    BY <2>1, <1>0, <1>1 DEF RecordsOwned
  <2>2. CASE u = t /\ records'[t] = records[t]
    <3>1. turns[t].at \in HasId \cup {"failed"}
      BY <2>2, <1>0 DEF RecordsOwned
    <3>2. at \in HasId \cup {"failed"}
      BY <3>1
    <3>. QED BY <2>2, <3>2, <1>0, <1>1 DEF RecordsOwned
  <2>3. CASE u = t /\ records'[t] # records[t]
    <3>1. /\ at \in HasId \cup {"failed"} /\ turns[t].at \in HasId
          /\ records'[t].turn = t /\ records'[t].conversation = turns[t].id
      BY <2>3
    <3>2. turns[t].id = metadata[turns[t].of] /\ metadata[turns[t].of] # None
      BY <3>1, <1>0 DEF MetadataIsOwned
    <3>3. turns[t].of \in dirs
      BY <3>1, <1>0 DEF SessionsFirst
    <3>. QED BY <2>3, <3>1, <3>2, <3>3, <1>1, <1>2
  <2>. QED BY <2>1, <2>2, <2>3, <1>1
<1>7. SessionsFirst'
  <2>1. turns[t].of \in Sessions => turns[t].of \in indexed
    BY <1>0 DEF SessionsFirst
  <2>2. \A u \in Turns : turns'[u].at # "idle" /\ turns'[u].of \in Sessions => turns'[u].of \in indexed'
    BY <2>1, <1>0, <1>1 DEF SessionsFirst
  <2>3. \A u \in Turns : turns'[u].at \in {"mkturns", "ensure", "load", "create"} \cup HasId => turns'[u].of \in dirs'
    BY <1>0, <1>1 DEF SessionsFirst, TurnSteps
  <2>. QED BY <2>1, <2>2, <2>3, <1>0 DEF SessionsFirst
<1>8. \A u \in Turns : records[u] # None => records'[u] # None
  OBVIOUS
<1>. QED BY <1>1, <1>2, <1>3, <1>4, <1>5, <1>6, <1>7, <1>8 DEF WritersInv, Grows

\* Everything but turns, the lock and the metadata of one conversation stays.
LEMMA MetadataGoesOn ==
  ASSUME WritersInv, NEW t \in Turns, turns[t].at \in {"ensure", "load", "create"},
         turns' = [u \in Turns |-> turns'[u]], \A u \in Turns : {"at", "of", "id", "now"} \subseteq DOMAIN turns'[u],
         \A u \in Turns : turns'[u].of = turns[u].of /\ turns'[u].now = turns[u].now,
         \A u \in Turns : u # t => turns'[u].id = turns[u].id /\ turns'[u].at \in {turns[u].at, "failed"}
                                   /\ (turns'[u].at = "failed" => turns[u].at \in {"ensure", "failed"}),
         turns'[t].at \in {"load", "create", "write", "failed"},
         metadata' = [c \in Conversations |-> metadata'[c]], locks' = [c \in Conversations |-> locks'[c]],
         \A c \in Conversations : c # turns[t].of => metadata'[c] = metadata[c] /\ locks'[c] = locks[c],
         UNCHANGED <<records, dirs, indexed, audits, clock>>, ids' \subseteq Uuids,
         LET c == turns[t].of IN
         /\ metadata'[c] \in Uuids \cup Sessions \cup {None}
         /\ metadata[c] # None => metadata'[c] = metadata[c]
         /\ locks'[c] \notin {None, "pending"} => locks'[c] = metadata'[c]
         /\ turns[t].at = "ensure" => locks[c] # "pending" /\ metadata'[c] = metadata[c]
         /\ turns'[t].at \in {"load", "create"} => locks'[c] = "pending"
         /\ turns'[t].at = "create" => metadata'[c] = None /\ turns'[t].id \in Uuids \cup Sessions
         /\ turns'[t].at = "write" => turns'[t].id = metadata'[c] /\ metadata'[c] # None
  PROVE  WritersInv' /\ Grows
<1>. DEFINE c == turns[t].of
<1>0. TurnsTyped /\ MetadataIsOwned /\ LocksResolved /\ RecordsOwned /\ SessionsFirst
  BY DEF WritersInv
<1>1. c \in Conversations /\ c \in dirs /\ (c \in Sessions => c \in indexed)
  BY <1>0 DEF TurnsTyped, SessionsFirst
<1>2. TurnsTyped'
  <2>1. \A u \in Turns : turns'[u].at \in TurnSteps
    BY <1>0 DEF TurnsTyped, TurnSteps, HasId
  <2>2. \A u \in Turns : IF turns'[u].at = "idle" THEN turns'[u].of = None ELSE turns'[u].of \in Conversations
    BY <1>0, <1>1 DEF TurnsTyped
  <2>3. UNCHANGED <<records, dirs, audits, clock>> /\ \A u \in Turns : turns'[u].now \in Nat
    BY <1>0 DEF TurnsTyped
  <2>4. \A d \in Conversations : metadata'[d] \in Uuids \cup Sessions \cup {None}
    BY <1>0 DEF TurnsTyped
  <2>. QED BY <2>1, <2>2, <2>3, <2>4, <1>0 DEF TurnsTyped
<1>3. MetadataIsOwned'
  <2>. SUFFICES ASSUME NEW u \in Turns
                PROVE  LET d == turns'[u].of IN
                       /\ turns'[u].at \in {"load", "create"} =>
                            /\ locks'[d] = "pending"
                            /\ \A v \in Turns : turns'[v].at \in {"load", "create"} /\ turns'[v].of = d => v = u
                       /\ turns'[u].at = "create" => metadata'[d] = None /\ turns'[u].id \in Uuids \cup Sessions
                       /\ turns'[u].at \in HasId => turns'[u].id = metadata'[d] /\ metadata'[d] # None
    BY DEF MetadataIsOwned
  <2>1. \A v \in Turns : v # t /\ turns[v].of = c => turns[v].at \notin {"load", "create"}
    <3>1. CASE turns[t].at = "ensure"
      BY <3>1, <1>0 DEF MetadataIsOwned
    <3>2. CASE turns[t].at \in {"load", "create"}
      BY <3>2, <1>0 DEF MetadataIsOwned
    <3>. QED BY <3>1, <3>2
  <2>2. CASE u = t
    <3>1. \A v \in Turns : turns'[v].at \in {"load", "create"} /\ turns'[v].of = c => v = t
      BY <2>1
    <3>. QED BY <2>2, <3>1, <1>1 DEF HasId
  <2>3. CASE u # t
    <3>1. turns'[u].at \in {"load", "create"} \cup HasId => turns'[u].at = turns[u].at
      BY <2>3 DEF HasId
    <3>2. CASE turns'[u].at \in {"load", "create"}
      <4>1. turns[u].of # c /\ turns[u].of \in Conversations
        BY <2>1, <2>3, <3>1, <3>2, <1>0 DEF TurnsTyped
      <4>2. \A v \in Turns : turns'[v].at \in {"load", "create"} /\ turns'[v].of = turns[u].of => v = u
        BY <4>1, <3>1, <3>2, <1>0 DEF MetadataIsOwned
      <4>. QED BY <2>3, <3>1, <3>2, <4>1, <4>2, <1>0 DEF MetadataIsOwned, HasId
    <3>3. CASE turns'[u].at \in HasId
      <4>1. turns[u].id = metadata[turns[u].of] /\ metadata[turns[u].of] # None
        BY <3>1, <3>3, <1>0 DEF MetadataIsOwned
      <4>2. turns[u].of \in Conversations
        BY <3>1, <3>3, <1>0 DEF TurnsTyped, HasId
      <4>3. metadata'[turns[u].of] = metadata[turns[u].of]
        BY <4>1, <4>2
      <4>. QED BY <2>3, <3>3, <4>1, <4>3 DEF HasId
    <3>. QED BY <3>2, <3>3
  <2>. QED BY <2>2, <2>3
<1>4. LocksResolved'
  BY <1>0, <1>1 DEF LocksResolved
<1>5. \A d \in Conversations : metadata[d] # None => metadata'[d] = metadata[d]
  OBVIOUS
<1>6. RecordsOwned'
  <2>. SUFFICES ASSUME NEW u \in Turns, records[u] # None
                PROVE  /\ turns'[u].at \in HasId \cup {"failed"} /\ records[u].turn = u
                       /\ turns'[u].of \in Conversations /\ turns'[u].of \in dirs
                       /\ metadata'[turns'[u].of] # None /\ records[u].conversation = metadata'[turns'[u].of]
    BY DEF RecordsOwned
  <2>1. /\ turns[u].at \in HasId \cup {"failed"} /\ records[u].turn = u /\ turns[u].of \in Conversations
        /\ turns[u].of \in dirs /\ metadata[turns[u].of] # None
        /\ records[u].conversation = metadata[turns[u].of]
    BY <1>0 DEF RecordsOwned
  <2>2. u # t
    BY <2>1 DEF HasId
  <2>. QED BY <2>1, <2>2, <1>5
<1>7. SessionsFirst'
  <2>1. \A u \in Turns : turns'[u].at # "idle" /\ turns'[u].of \in Sessions => turns'[u].of \in indexed
    <3>. SUFFICES ASSUME NEW u \in Turns, turns'[u].at # "idle", turns'[u].of \in Sessions
                  PROVE  turns'[u].of \in indexed
      OBVIOUS
    <3>1. turns[u].at # "idle"
      OBVIOUS
    <3>. QED BY <3>1, <1>0 DEF SessionsFirst
  <2>2. \A u \in Turns : turns'[u].at \in {"mkturns", "ensure", "load", "create"} \cup HasId => turns'[u].of \in dirs
    BY <1>0, <1>1 DEF SessionsFirst, HasId
  <2>. QED BY <2>1, <2>2, <1>0 DEF SessionsFirst
<1>8. dirs' = dirs /\ indexed' = indexed /\ records' = records /\ dirs \subseteq Conversations
  BY <1>0 DEF TurnsTyped
<1>. QED BY <1>2, <1>3, <1>4, <1>5, <1>6, <1>7, <1>8 DEF WritersInv, Grows

\* No turn is on its way any more.
LEMMA CrashKeeps ==
  ASSUME WritersInv, Crash
  PROVE  WritersInv' /\ Grows
<1>0. TurnsTyped /\ RecordsOwned /\ SessionsFirst /\ MetadataIsOwned
  BY DEF WritersInv
<1>1. /\ UNCHANGED <<dirs, ready, metadata, records, indexed, audits, ids, clock>>
      /\ locks' = [c \in Conversations |-> None]
      /\ turns' = [t \in Turns |-> IF turns[t].at \in {"idle", "done"} THEN turns[t] ELSE [turns[t] EXCEPT !.at = "failed"]]
  BY DEF Crash
<1>2. \A t \in Turns : /\ {"at", "of", "id", "now"} \subseteq DOMAIN turns'[t]
                       /\ turns'[t].at = IF turns[t].at \in {"idle", "done"} THEN turns[t].at ELSE "failed"
                       /\ turns'[t].of = turns[t].of /\ turns'[t].id = turns[t].id /\ turns'[t].now = turns[t].now
  BY <1>0, <1>1 DEF TurnsTyped
<1>3. turns' = [t \in Turns |-> turns'[t]]
  BY <1>1
<1>4. TurnsTyped'
  BY <1>0, <1>1, <1>2, <1>3 DEF TurnsTyped, TurnSteps, HasId
<1>5. MetadataIsOwned' /\ LocksResolved'
  BY <1>0, <1>1, <1>2 DEF MetadataIsOwned, LocksResolved, HasId
<1>6. RecordsOwned'
  BY <1>0, <1>1, <1>2 DEF RecordsOwned, HasId
<1>7. SessionsFirst'
  BY <1>0, <1>1, <1>2 DEF SessionsFirst, HasId
<1>. QED BY <1>0, <1>1, <1>2, <1>4, <1>5, <1>6, <1>7 DEF WritersInv, Grows, TurnsTyped

\* A turn begins: for a session, when the index has it.
LEMMA BeginKeeps ==
  ASSUME WritersInv, NEW t \in Turns, Begin(t)
  PROVE  WritersInv' /\ Grows
<1>0. TurnsTyped /\ MetadataIsOwned /\ LocksResolved /\ RecordsOwned /\ SessionsFirst
  BY DEF WritersInv
<1>. PICK c \in Conversations \ (Sessions \ indexed) :
       turns' = [turns EXCEPT ![t] = [at |-> "mkdir", of |-> c, id |-> None, now |-> clock]]
  BY DEF Begin
<1>1. turns[t].at = "idle" /\ UNCHANGED <<dirs, ready, metadata, records, indexed, audits, locks, ids>>
  BY DEF Begin, diskVars
<1>2. /\ turns' = [u \in Turns |-> turns'[u]]
      /\ \A u \in Turns : u # t => turns'[u] = turns[u]
      /\ turns'[t].at = "mkdir" /\ turns'[t].of = c
      /\ \A u \in Turns : {"at", "of", "id", "now"} \subseteq DOMAIN turns'[u]
      /\ turns'[t].now \in Nat /\ clock' \in Nat
  BY <1>0 DEF TurnsTyped, Begin
<1>3. records[t] = None
  BY <1>0, <1>1 DEF RecordsOwned, HasId
<1>4. TurnsTyped'
  BY <1>0, <1>1, <1>2 DEF TurnsTyped, TurnSteps
<1>5. MetadataIsOwned' /\ LocksResolved'
  BY <1>0, <1>1, <1>2 DEF MetadataIsOwned, LocksResolved, HasId
<1>6. RecordsOwned'
  BY <1>0, <1>1, <1>2, <1>3 DEF RecordsOwned
<1>7. SessionsFirst'
  BY <1>0, <1>1, <1>2 DEF SessionsFirst, HasId
<1>. QED BY <1>0, <1>1, <1>2, <1>4, <1>5, <1>6, <1>7 DEF WritersInv, Grows, TurnsTyped

\* The steps of a turn that leave metadata and locks alone.
LEMMA PassingKeeps ==
  ASSUME WritersInv, NEW t \in Turns,
         MakeDir(t) \/ MakeTurnsDir(t) \/ OpenTemporary(t) \/ Rename(t) \/ Ends(t) \/ Replace(t) \/ WriteFails(t)
  PROVE  WritersInv' /\ Grows
<1>. DEFINE Statuses == {"running", "completed", "failed", "indeterminate"}
            Codes == {"", "other", "position_budget_exceeded"}
<1>0. TurnsTyped /\ SessionsFirst /\ MetadataIsOwned
  BY DEF WritersInv
<1>1. ASSUME NEW at \in TurnSteps \ {"idle", "load", "create"}, Goes(t, at)
      PROVE  /\ turns' = [u \in Turns |-> turns'[u]] /\ \A u \in Turns : u # t => turns'[u] = turns[u]
             /\ turns'[t].at = at /\ turns'[t].of = turns[t].of /\ turns'[t].id = turns[t].id
             /\ {"at", "of", "id", "now"} \subseteq DOMAIN turns'[t] /\ turns'[t].now \in Nat
  BY <1>0, <1>1 DEF Goes, TurnsTyped
<1>2. /\ audits \in Nat /\ clock \in Nat /\ dirs \subseteq dirs \cup {turns[t].of}
      /\ records = [u \in Turns |-> records[u]]
      /\ turns[t].at \in {"mkturns"} \cup HasId => turns[t].of \in dirs
  BY <1>0 DEF TurnsTyped, SessionsFirst
<1>3. ASSUME NEW r, r.turn = t, r.conversation = turns[t].id, r # None, records' = [records EXCEPT ![t] = r]
      PROVE  /\ records' = [u \in Turns |-> records'[u]] /\ \A u \in Turns : u # t => records'[u] = records[u]
             /\ records'[t] # None /\ records'[t].turn = t /\ records'[t].conversation = turns[t].id
  BY <1>2, <1>3
<1>4. ASSUME NEW status, NEW tokens, NEW code
      PROVE  LET r == Record(t, status, tokens, code) IN r.turn = t /\ r.conversation = turns[t].id
  BY DEF Record
<1>5. CASE MakeDir(t)
  <2>1. /\ turns[t].at = "mkdir" /\ dirs' = dirs \cup {turns[t].of} /\ Goes(t, "mkturns")
        /\ UNCHANGED <<metadata, locks, ids, indexed, records, audits, clock>>
    BY <1>5 DEF MakeDir
  <2>2. "mkturns" \in TurnSteps \ {"idle", "load", "create"}
    BY DEF TurnSteps, HasId
  <2>. HIDE DEF Goes
  <2>3. "mkturns" \notin HasId /\ turns[t].at \notin HasId \cup {"failed"}
    BY <2>1 DEF HasId
  <2>. QED BY <2>1, <2>2, <2>3, <1>1, <1>2, TurnGoesOn
<1>6. CASE MakeTurnsDir(t)
  <2>1. /\ turns[t].at = "mkturns" /\ Goes(t, "ensure")
        /\ UNCHANGED <<dirs, metadata, locks, ids, indexed, records, audits, clock>>
    BY <1>6 DEF MakeTurnsDir
  <2>2. "ensure" \in TurnSteps \ {"idle", "load", "create"} /\ "ensure" \notin HasId
    BY DEF TurnSteps, HasId
  <2>3. turns[t].at \notin HasId \cup {"failed"}
    BY <2>1 DEF HasId
  <2>. QED BY <2>1, <2>2, <2>3, <1>1, <1>2, TurnGoesOn
<1>7. CASE OpenTemporary(t)
  <2>. DEFINE at == IF turns[t].at = "write" THEN "rename" ELSE "replace"
  <2>1. /\ turns[t].at \in HasId /\ turns[t].at # "idle" /\ Goes(t, at)
        /\ UNCHANGED <<dirs, metadata, locks, ids, indexed, records, audits, clock>>
    BY <1>7 DEF OpenTemporary, HasId
  <2>2. at \in TurnSteps \ {"idle", "load", "create"} /\ at \in HasId
    BY DEF TurnSteps, HasId
  <2>. HIDE DEF at
  <2>. QED BY <2>1, <2>2, <1>1, <1>2, TurnGoesOn
<1>8. CASE Ends(t)
  <2>1. /\ turns[t].at \in HasId /\ turns[t].at # "idle"
        /\ turns' = [turns EXCEPT ![t].at = "finish", ![t].now = clock] /\ clock' = clock + 1
        /\ UNCHANGED <<dirs, metadata, locks, ids, indexed, records, audits>>
    BY <1>8 DEF Ends, diskVars, HasId
  <2>2. /\ turns' = [u \in Turns |-> turns'[u]] /\ \A u \in Turns : u # t => turns'[u] = turns[u]
        /\ turns'[t].at = "finish" /\ turns'[t].of = turns[t].of /\ turns'[t].id = turns[t].id
        /\ {"at", "of", "id", "now"} \subseteq DOMAIN turns'[t] /\ turns'[t].now \in Nat /\ clock' \in Nat
    BY <2>1, <1>0, <1>2 DEF TurnsTyped
  <2>3. "finish" \in TurnSteps \ {"idle", "load", "create"} /\ "finish" \in HasId
    BY DEF TurnSteps, HasId
  <2>. QED BY <2>1, <2>2, <2>3, <1>2, TurnGoesOn
<1>9. ASSUME Rename(t) \/ Replace(t) \/ WriteFails(t)
      PROVE  WritersInv' /\ Grows
  <2>1. /\ turns[t].at \in HasId /\ turns[t].at # "idle"
        /\ UNCHANGED <<dirs, metadata, locks, ids, indexed, audits, clock>>
    BY <1>9 DEF Rename, Replace, WriteFails, HasId
  <2>2. \E at \in {"executing", "done", "failed"} : Goes(t, at)
    BY <1>9 DEF Rename, Replace, WriteFails
  <2>. PICK at \in {"executing", "done", "failed"} : Goes(t, at)
    BY <2>2
  <2>3. at \in TurnSteps \ {"idle", "load", "create"} /\ at \in HasId \cup {"failed"}
    BY DEF TurnSteps, HasId
  <2>4. \/ records' = records
        \/ \E status \in Statuses, tokens \in Nat, code \in Codes :
             records' = [records EXCEPT ![t] = Record(t, status, tokens, code)]
    <3>1. CASE Replace(t)
      <4>. PICK q \in Results : records' = [records EXCEPT ![t] = Record(t, q[1], q[2], q[3])]
        BY <3>1 DEF Replace
      <4>1. q[1] \in Statuses /\ q[2] \in Nat /\ q[3] \in Codes
        BY ReportsAssumption
      <4>. QED BY <4>1
    <3>2. "running" \in Statuses /\ "" \in Codes /\ "indeterminate" \in Statuses /\ "other" \in Codes
      OBVIOUS
    <3>3. CASE Rename(t)
      <4>1. records' = [records EXCEPT ![t] = Record(t, "running", 0, "")]
        BY <3>3 DEF Rename
      <4>. QED BY <3>2, <4>1
    <3>4. CASE WriteFails(t)
      <4>1. \/ records' = records
            \/ records' = [records EXCEPT ![t] = Record(t, "running", 0, "")]
            \/ records' = [records EXCEPT ![t] = Record(t, "indeterminate", 0, "other")]
        BY <3>4 DEF WriteFails
      <4>. QED BY <3>2, <4>1
    <3>. QED BY <1>9, <3>1, <3>3, <3>4
  <2>5. CASE records' = records
    BY <2>1, <2>3, <2>5, <1>1, <1>2, TurnGoesOn
  <2>6. CASE \E status \in Statuses, tokens \in Nat, code \in Codes :
                records' = [records EXCEPT ![t] = Record(t, status, tokens, code)]
    <3>. PICK status \in Statuses, tokens \in Nat, code \in Codes :
           records' = [records EXCEPT ![t] = Record(t, status, tokens, code)]
      BY <2>6
    <3>. DEFINE r == Record(t, status, tokens, code)
    <3>1. r.turn = t /\ r.conversation = turns[t].id
      BY <1>4
    <3>2. r # None
      <4>1. turns[t].id \in Uuids \cup Sessions /\ turns[t].now \in Nat
        BY <2>1, <1>0 DEF TurnsTyped, MetadataIsOwned, HasId
      <4>2. r \in [turn : Turns, conversation : Uuids \cup Sessions, updated : Nat,
                   tokens : Nat, status : Statuses, code : Codes]
        BY <4>1 DEF Record
      <4>. QED BY <4>2, ReportsAssumption
    <3>. HIDE DEF r
    <3>3. /\ records' = [u \in Turns |-> records'[u]] /\ \A u \in Turns : u # t => records'[u] = records[u]
          /\ records'[t] # None /\ records'[t].turn = t /\ records'[t].conversation = turns[t].id
      BY <3>1, <3>2, <1>3 DEF r
    <3>. QED BY <2>1, <2>3, <3>3, <1>1, <1>2, TurnGoesOn
  <2>. QED BY <2>4, <2>5, <2>6
<1>. QED BY <1>5, <1>6, <1>7, <1>8, <1>9

\* The steps of a turn that prepare the metadata of its conversation.
LEMMA PreparingKeeps ==
  ASSUME WritersInv, NEW t \in Turns, Ensure(t) \/ Load(t) \/ Create(t) \/ CreateFails(t)
  PROVE  WritersInv' /\ Grows
<1>. DEFINE c == turns[t].of
            Typed == /\ turns' = [u \in Turns |-> turns'[u]]
                     /\ \A u \in Turns : {"at", "of", "id", "now"} \subseteq DOMAIN turns'[u]
                     /\ \A u \in Turns : turns'[u].of = turns[u].of /\ turns'[u].now = turns[u].now
            Others == \A u \in Turns : u # t =>
                        /\ turns'[u].id = turns[u].id /\ turns'[u].at \in {turns[u].at, "failed"}
                        /\ turns'[u].at = "failed" => turns[u].at \in {"ensure", "failed"}
<1>0. TurnsTyped /\ MetadataIsOwned /\ LocksResolved /\ RecordsOwned /\ SessionsFirst
  BY DEF WritersInv
<1>1. /\ metadata = [d \in Conversations |-> metadata[d]] /\ locks = [d \in Conversations |-> locks[d]]
      /\ ids \subseteq Uuids /\ \A d \in Conversations : metadata[d] \in Uuids \cup Sessions \cup {None}
  BY <1>0 DEF TurnsTyped
<1>2. ASSUME turns[t].at # "idle"
      PROVE  c \in Conversations
  BY <1>0, <1>2 DEF TurnsTyped
<1>3. ASSUME NEW id \in Uuids \cup Sessions
      PROVE  id # None /\ id # "pending"
  BY ReportsAssumption
<1>4. ASSUME NEW at, Goes(t, at)
      PROVE  Typed /\ Others /\ turns'[t].at = at
  BY <1>0, <1>4 DEF Goes, TurnsTyped
<1>5. ASSUME NEW at, NEW id, turns' = [turns EXCEPT ![t].at = at, ![t].id = id]
      PROVE  Typed /\ Others /\ turns'[t].at = at /\ turns'[t].id = id
  BY <1>0, <1>5 DEF TurnsTyped
<1>6. CASE Ensure(t)
  <2>1. /\ turns[t].at = "ensure" /\ c \in Conversations
        /\ UNCHANGED <<metadata, records, dirs, indexed, audits, clock, ids>>
    BY <1>2, <1>6 DEF Ensure, diskVars
  <2>2. CASE locks[c] = None
    <3>1. locks' = [locks EXCEPT ![c] = "pending"] /\ Goes(t, "load")
      BY <1>6, <2>2 DEF Ensure
    <3>2. /\ locks' = [d \in Conversations |-> locks'[d]] /\ locks'[c] = "pending"
          /\ \A d \in Conversations : d # c => locks'[d] = locks[d]
      BY <1>1, <2>1, <3>1
    <3>3. Typed /\ Others /\ turns'[t].at = "load"
      BY <1>4, <3>1
    <3>4. locks[c] # "pending"
      BY <2>2, ReportsAssumption
    <3>. QED BY <1>1, <2>1, <3>2, <3>3, <3>4, MetadataGoesOn
  <2>3. CASE locks[c] # None
    <3>1. locks[c] # "pending" /\ locks' = locks /\ turns' = [turns EXCEPT ![t].at = "write", ![t].id = locks[c]]
      BY <1>6, <2>3 DEF Ensure
    <3>2. Typed /\ Others /\ turns'[t].at = "write" /\ turns'[t].id = locks[c]
      BY <1>5, <3>1
    <3>3. locks[c] = metadata[c]
      BY <1>0, <2>1, <2>3, <3>1 DEF LocksResolved
    <3>4. /\ metadata' = [d \in Conversations |-> metadata'[d]] /\ locks' = [d \in Conversations |-> locks'[d]]
          /\ metadata'[c] \in Uuids \cup Sessions \cup {None} /\ ids' \subseteq Uuids
          /\ \A d \in Conversations : d # c => metadata'[d] = metadata[d] /\ locks'[d] = locks[d]
      BY <1>1, <2>1, <3>1
    <3>. QED BY <2>1, <2>3, <3>1, <3>2, <3>3, <3>4, MetadataGoesOn
  <2>. QED BY <2>2, <2>3
<1>7. CASE Load(t)
  <2>1. /\ turns[t].at = "load" /\ c \in Conversations
        /\ UNCHANGED <<metadata, records, dirs, indexed, audits, clock>>
    BY <1>2, <1>7 DEF Load, diskVars
  <2>2. locks[c] = "pending"
    BY <1>0, <2>1 DEF MetadataIsOwned
  <2>3. CASE metadata[c] # None
    <3>1. /\ locks' = [locks EXCEPT ![c] = metadata[c]] /\ ids' = ids
          /\ turns' = [turns EXCEPT ![t].at = "write", ![t].id = metadata[c]]
      BY <1>7, <2>3 DEF Load, Resolved
    <3>2. /\ locks' = [d \in Conversations |-> locks'[d]] /\ locks'[c] = metadata[c]
          /\ \A d \in Conversations : d # c => locks'[d] = locks[d]
      BY <1>1, <2>1, <3>1
    <3>3. Typed /\ Others /\ turns'[t].at = "write" /\ turns'[t].id = metadata[c]
      BY <1>5, <3>1
    <3>4. /\ metadata' = [d \in Conversations |-> metadata'[d]] /\ locks' = [d \in Conversations |-> locks'[d]]
          /\ metadata'[c] \in Uuids \cup Sessions \cup {None} /\ ids' \subseteq Uuids
          /\ \A d \in Conversations : d # c => metadata'[d] = metadata[d] /\ locks'[d] = locks[d]
      BY <1>1, <2>1, <3>1, <3>2
    <3>5. /\ metadata'[c] = metadata[c] /\ metadata'[c] # None /\ locks'[c] = metadata'[c]
          /\ turns'[t].id = metadata'[c] /\ turns[t].at # "ensure"
      BY <2>1, <2>3, <3>2, <3>3
    <3>6. UNCHANGED <<records, dirs, indexed, audits, clock>> /\ turns[t].at \in {"ensure", "load", "create"}
      BY <2>1
    <3>7. Typed /\ Others /\ turns'[t].at = "write"
      BY <3>3
    <3>. QED BY <3>4, <3>5, <3>6, <3>7, MetadataGoesOn
  <2>4. CASE metadata[c] = None
    <3>. PICK id \in IF c \in Sessions THEN {c} ELSE ids :
           turns' = [turns EXCEPT ![t].at = "create", ![t].id = id] /\ ids' = ids \ {id}
      BY <1>7, <2>4 DEF Load
    <3>1. locks' = locks /\ id \in Uuids \cup Sessions /\ ids' \subseteq Uuids
      BY <1>1, <1>7, <2>4 DEF Load
    <3>2. Typed /\ Others /\ turns'[t].at = "create" /\ turns'[t].id = id
      BY <1>5
    <3>3. /\ metadata' = [d \in Conversations |-> metadata'[d]] /\ locks' = [d \in Conversations |-> locks'[d]]
          /\ metadata'[c] \in Uuids \cup Sessions \cup {None} /\ ids' \subseteq Uuids
          /\ \A d \in Conversations : d # c => metadata'[d] = metadata[d] /\ locks'[d] = locks[d]
      BY <1>1, <2>1, <3>1
    <3>. QED BY <2>1, <2>2, <2>4, <3>1, <3>2, <3>3, MetadataGoesOn
  <2>. QED BY <2>3, <2>4
<1>8. CASE Create(t)
  <2>. DEFINE id == turns[t].id
  <2>1. /\ turns[t].at = "create" /\ c \in Conversations /\ id \in Uuids \cup Sessions /\ metadata[c] = None
    BY <1>0, <1>2, <1>8 DEF Create, MetadataIsOwned
  <2>2. /\ metadata' = [metadata EXCEPT ![c] = id] /\ locks' = [locks EXCEPT ![c] = id]
        /\ turns' = [turns EXCEPT ![t].at = "write", ![t].id = id]
        /\ UNCHANGED <<records, dirs, indexed, audits, clock, ids>>
    BY <1>8 DEF Create, Resolved
  <2>3. /\ locks' = [d \in Conversations |-> locks'[d]] /\ locks'[c] = id
        /\ metadata' = [d \in Conversations |-> metadata'[d]] /\ metadata'[c] = id
        /\ \A d \in Conversations : d # c => metadata'[d] = metadata[d] /\ locks'[d] = locks[d]
    BY <1>1, <2>1, <2>2
  <2>4. Typed /\ Others /\ turns'[t].at = "write" /\ turns'[t].id = id
    BY <1>5, <2>2
  <2>5. id # None
    BY <1>3, <2>1
  <2>. QED BY <1>1, <2>1, <2>2, <2>3, <2>4, <2>5, MetadataGoesOn
<1>9. CASE CreateFails(t)
  <2>. DEFINE id == turns[t].id
  <2>1. /\ turns[t].at = "create" /\ c \in Conversations /\ id \in Uuids \cup Sessions /\ metadata[c] = None
    BY <1>0, <1>2, <1>9 DEF CreateFails, MetadataIsOwned
  <2>2. /\ metadata' \in {metadata, [metadata EXCEPT ![c] = id]} /\ locks' = [locks EXCEPT ![c] = None]
        /\ turns' = [u \in Turns |-> IF u = t \/ (turns[u].of = c /\ turns[u].at = "ensure")
                                    THEN [turns[u] EXCEPT !.at = "failed"] ELSE turns[u]]
        /\ UNCHANGED <<records, dirs, indexed, audits, clock, ids>>
    BY <1>9 DEF CreateFails
  <2>3. /\ locks' = [d \in Conversations |-> locks'[d]] /\ locks'[c] = None
        /\ metadata' = [d \in Conversations |-> metadata'[d]] /\ metadata'[c] \in Uuids \cup Sessions \cup {None}
        /\ \A d \in Conversations : d # c => metadata'[d] = metadata[d] /\ locks'[d] = locks[d]
    BY <1>1, <2>1, <2>2
  <2>4. Typed /\ Others /\ turns'[t].at = "failed"
    BY <1>0, <2>2 DEF TurnsTyped
  <2>. QED BY <1>1, <2>1, <2>2, <2>3, <2>4, MetadataGoesOn
<1>. QED BY <1>6, <1>7, <1>8, <1>9

\* Whoever writes keeps the invariant of the writers, and only adds.
LEMMA WritersKeep ==
  ASSUME WritersInv, (\E t \in Turns : Turn(t)) \/ CreateSession \/ SessionCreated \/ Audit \/ Crash
  PROVE  WritersInv' /\ Grows
<1>0. TurnsTyped /\ MetadataIsOwned /\ LocksResolved /\ RecordsOwned /\ SessionsFirst
  BY DEF WritersInv
<1>1. CASE \E t \in Turns : Turn(t)
  BY <1>1, BeginKeeps, PassingKeeps, PreparingKeeps DEF Turn
<1>2. CASE CreateSession \/ SessionCreated \/ Audit
  <2>1. /\ UNCHANGED <<dirs, metadata, records, locks, ids, turns, clock>>
        /\ indexed \subseteq indexed' /\ audits' \in Nat
    BY <1>0, <1>2 DEF CreateSession, SessionCreated, Audit, TurnsTyped
  <2>2. TurnsTyped'
    BY <1>0, <2>1 DEF TurnsTyped
  <2>3. MetadataIsOwned' /\ LocksResolved'
    BY <1>0, <2>1 DEF MetadataIsOwned, LocksResolved
  <2>4. RecordsOwned' /\ SessionsFirst'
    BY <1>0, <2>1 DEF RecordsOwned, SessionsFirst
  <2>. QED BY <1>0, <2>1, <2>2, <2>3, <2>4 DEF WritersInv, Grows, TurnsTyped
<1>3. CASE Crash
  BY <1>3, CrashKeeps
<1>. QED BY <1>1, <1>2, <1>3

\* Whatever is written, a report that is under way keeps what it has.
LEMMA ReportStays ==
  ASSUME ReportsInv, WritersInv', Grows, (report' = report /\ UNCHANGED <<temps, audits>>) \/ Moves
  PROVE  ReportsInv'
<1>0. WritersInv /\ TurnsTyped /\ RecordsOwned /\ ReportTyped /\ FilesThere /\ OwedIsRead
  BY DEF ReportsInv, WritersInv
<1>1. /\ ReportFields \subseteq DOMAIN report'
      /\ report'.at = report.at /\ report'.source = report.source /\ report'.entries = report.entries
      /\ report'.entry = report.entry /\ report'.id = report.id /\ report'.files = report.files
      /\ report'.got = report.got /\ report'.audits = report.audits /\ report'.sessions = report.sessions
      /\ report'.owed = report.owed /\ report'.owedAudits = report.owedAudits
  BY <1>0 DEF ReportTyped, ReportFields, Moves
<1>2. report'.moved \in BOOLEAN
  BY <1>0 DEF ReportTyped, ReportFields, Moves
<1>3. ASSUME report.moved, report.at \notin {"idle", "answered", "refused"}
      PROVE  report'.moved
  <2>1. CASE report' = report
    BY <1>3, <2>1
  <2>2. CASE Moves
    BY <1>0, <1>3, <2>2 DEF ReportTyped, ReportFields, Moves
  <2>. QED BY <2>1, <2>2
<1>4. ASSUME report.at \notin {"idle", "answered", "refused"}
      PROVE  report'.moved \/ (temps' = temps /\ audits' = audits)
  <2>1. CASE report' = report /\ UNCHANGED <<temps, audits>>
    BY <2>1
  <2>2. CASE Moves
    BY <1>0, <1>4, <2>2 DEF ReportTyped, ReportFields, Moves
  <2>. QED BY <2>1, <2>2
<1>5. ReportTyped'
  <2>1. ASSUME report.at \in {"turns", "files"}
        PROVE  report.entry \in dirs' /\ metadata'[report.entry] = report.id /\ report.id # None
    BY <1>0, <2>1 DEF ReportTyped, TurnsTyped, Grows
  <2>. QED BY <1>0, <1>1, <1>2, <2>1 DEF ReportTyped, Grows
<1>6. FilesThere'
  <2>. SUFFICES ASSUME report.at = "files", NEW f \in report.files
                PROVE  /\ f[1] \in Turns /\ f[2] \in {"record", "temporary"} /\ f = <<f[1], f[2]>>
                       /\ turns'[f[1]].of = report.entry
                       /\ f[2] = "record" => records'[f[1]] # None
                       /\ f[2] = "temporary" /\ f[1] \notin temps' => report'.moved
    BY <1>1 DEF FilesThere
  <2>1. /\ f[1] \in Turns /\ f[2] \in {"record", "temporary"} /\ f = <<f[1], f[2]>>
        /\ turns[f[1]].of = report.entry
        /\ f[2] = "record" => records[f[1]] # None
        /\ f[2] = "temporary" /\ f[1] \notin temps => report.moved
    BY <1>0 DEF FilesThere
  <2>2. turns[f[1]].at # "idle"
    <3>1. report.entry \in Conversations
      BY <1>0 DEF ReportTyped, TurnsTyped
    <3>. QED BY <2>1, <3>1, <1>0, ReportsAssumption DEF TurnsTyped
  <2>3. turns'[f[1]].of = report.entry /\ (f[2] = "record" => records'[f[1]] # None)
    BY <2>1, <2>2 DEF Grows
  <2>4. f[2] = "temporary" /\ f[1] \notin temps' => report'.moved
    BY <2>1, <1>3, <1>4
  <2>. QED BY <2>1, <2>3, <2>4
<1>7. OwedIsRead'
  <2>1. ASSUME NEW t \in report.owed
        PROVE  records'[t] # None /\ (WillBeRead(t)' \/ \E r \in report.got : r.turn = t)
    <3>1. t \in Turns /\ records[t] # None /\ (WillBeRead(t) \/ \E r \in report.got : r.turn = t)
      BY <1>0, <2>1 DEF OwedIsRead, ReportTyped
    <3>2. turns'[t].of = turns[t].of /\ records'[t] # None
      BY <1>0, <3>1 DEF RecordsOwned, Grows, HasId
    <3>3. WillBeRead(t) => WillBeRead(t)'
      BY <1>1, <3>2 DEF WillBeRead
    <3>. QED BY <3>1, <3>2, <3>3
  <2>2. report'.owedAudits = report'.audits
    BY <1>0, <1>1 DEF OwedIsRead
  <2>3. report'.at = "audit" /\ audits' # report'.audits => report'.moved
    BY <1>0, <1>1, <1>3, <1>4 DEF OwedIsRead
  <2>. QED BY <1>1, <2>1, <2>2, <2>3 DEF OwedIsRead
<1>. QED BY <1>0, <1>5, <1>6, <1>7 DEF ReportsInv

\* Init satisfies the invariant.
LEMMA ReportsInit == Init => ReportsInv
<1>. SUFFICES ASSUME Init PROVE ReportsInv
  OBVIOUS
<1>1. WritersInv /\ report = Asked
  BY WritersInit DEF Init
<1>2. ReportTyped /\ FilesThere /\ OwedIsRead
  <2>1. audits = 0
    BY DEF Init
  <2>. QED BY <1>1, <2>1 DEF Asked, ReportTyped, ReportFields, FilesThere, OwedIsRead
<1>. QED BY <1>1, <1>2 DEF ReportsInv

\* A report that is lost or refused has nothing and owes nothing.
LEMMA NothingOwed ==
  ASSUME WritersInv', NEW why, report' = Asked \/ report' = Refused(why)
  PROVE  ReportsInv'
<1>1. /\ ReportFields \subseteq DOMAIN Asked /\ Asked.at = "idle" /\ Asked.source = "position"
      /\ Asked.audits = 0 /\ Asked.owedAudits = 0 /\ Asked.moved = FALSE
      /\ Asked.entries = {} /\ Asked.owed = {}
  BY DEF Asked, ReportFields
<1>2. /\ DOMAIN Refused(why) = DOMAIN Asked /\ Refused(why).at = "refused"
      /\ \A f \in ReportFields \ {"at", "why"} : Refused(why)[f] = Asked[f]
  BY <1>1 DEF Refused, ReportFields
<1>3. /\ Refused(why).source = Asked.source /\ Refused(why).audits = Asked.audits
      /\ Refused(why).owedAudits = Asked.owedAudits /\ Refused(why).entries = Asked.entries
      /\ Refused(why).owed = Asked.owed /\ Refused(why).moved = Asked.moved
  BY <1>2 DEF ReportFields
<1>4. /\ ReportFields \subseteq DOMAIN report' /\ report'.at \in {"idle", "refused"}
      /\ report'.source = "position" /\ report'.audits = 0 /\ report'.owedAudits = 0
      /\ report'.entries = {} /\ report'.owed = {}
  BY <1>1, <1>2, <1>3
<1>5. report'.moved = FALSE
  BY <1>1, <1>3
<1>6. ReportTyped'
  <2>1. report'.moved \in BOOLEAN
    BY ONLY <1>5
  <2>2. report'.at \notin {"answered", "index", "scan", "turns", "files"}
    BY ONLY <1>4
  <2>. QED BY ONLY <1>4, <2>1, <2>2 DEF ReportTyped
<1>7. FilesThere' /\ OwedIsRead'
  BY <1>4 DEF FilesThere, OwedIsRead
<1>. QED BY <1>6, <1>7 DEF ReportsInv

\* Writers keep the invariant.
LEMMA WritersKeepReports ==
  ASSUME ReportsInv, (\E t \in Turns : Turn(t)) \/ CreateSession \/ SessionCreated \/ Audit \/ Crash
  PROVE  ReportsInv'
<1>1. WritersInv' /\ Grows
  BY WritersKeep DEF ReportsInv
<1>2. CASE Crash
  <2>1. report' = Asked
    BY <1>2 DEF Crash
  <2>. QED BY <1>1, <2>1, NothingOwed
<1>3. CASE \E t \in Turns : Turn(t)
  <2>1. (report' = report /\ UNCHANGED <<temps, audits>>) \/ Moves
    BY <1>3 DEF Turn, Begin, MakeDir, MakeTurnsDir, Ensure, Load, Create, CreateFails, OpenTemporary, Rename,
                Ends, Replace, WriteFails, diskVars
  <2>. QED BY <1>1, <2>1, ReportStays
<1>4. CASE CreateSession \/ SessionCreated \/ Audit
  BY <1>1, <1>4, ReportStays DEF CreateSession, SessionCreated, Audit
<1>. QED BY <1>2, <1>3, <1>4

\* What a read leaves as it is.
Stay == UNCHANGED <<dirs, ready, metadata, temps, records, indexed, creating, audits, locks, ids, turns, clock, crashes>>

\* Reading writes nothing.
LEMMA ReadingStays ==
  ASSUME ReportsInv, Scan
  PROVE  Stay /\ WritersInv'
<1>1. Stay
  BY DEF Scan, Ask, ReadAudit, List, ReadIndex, ReadMetadata, ListTurns, ReadFile, NextConversation, NextSource,
         Reads, diskVars, Stay
<1>2. TurnsTyped'
  BY <1>1 DEF ReportsInv, WritersInv, TurnsTyped, Stay
<1>3. MetadataIsOwned' /\ LocksResolved'
  BY <1>1 DEF ReportsInv, WritersInv, MetadataIsOwned, LocksResolved, Stay
<1>4. RecordsOwned' /\ SessionsFirst'
  BY <1>1 DEF ReportsInv, WritersInv, RecordsOwned, SessionsFirst, Stay
<1>. QED BY <1>1, <1>2, <1>3, <1>4 DEF WritersInv

\* The steps of a report up to the first directory.
LEMMA AskingKeeps ==
  ASSUME ReportsInv, Ask \/ ReadAudit
  PROVE  ReportsInv'
<1>0. WritersInv /\ TurnsTyped /\ RecordsOwned /\ ReportTyped /\ FilesThere /\ OwedIsRead
  BY DEF ReportsInv, WritersInv
<1>1. Stay /\ WritersInv'
  BY ReadingStays DEF Scan
<1>2. CASE Ask
  <2>1. /\ report.at = "idle" /\ report.source = "position" /\ report.entries = {}
        /\ report' = [report EXCEPT !.at = "audit", !.audits = audits, !.moved = FALSE, !.owedAudits = audits,
                                    !.owed = {t \in Turns : records[t] # None}]
    BY <1>0, <1>2 DEF Ask, Reads, ReportTyped
  <2>2. /\ ReportFields \subseteq DOMAIN report' /\ report'.at = "audit" /\ report'.source = "position"
        /\ report'.entries = {} /\ report'.audits = audits /\ report'.owedAudits = audits
        /\ report'.owed = {t \in Turns : records[t] # None}
    BY <1>0, <2>1 DEF ReportTyped, ReportFields
  <2>3. report'.moved \in BOOLEAN
    BY <1>0, <2>1 DEF ReportTyped, ReportFields
  <2>4. ReportTyped'
    BY <1>0, <2>2, <2>3 DEF ReportTyped, TurnsTyped
  <2>5. FilesThere' /\ OwedIsRead'
    BY <1>1, <2>2 DEF FilesThere, OwedIsRead, WillBeRead, Stay
  <2>. QED BY <1>1, <2>4, <2>5 DEF ReportsInv
<1>3. CASE ReadAudit
  <2>1. report.at = "audit" /\ report' = IF audits = report.audits THEN [report EXCEPT !.at = "list"] ELSE Refused("audit")
    BY <1>3 DEF ReadAudit, Reads
  <2>2. CASE audits = report.audits
    <3>1. /\ ReportFields \subseteq DOMAIN report' /\ report'.at = "list" /\ report'.source = report.source
          /\ report'.entries = report.entries /\ report'.audits = report.audits
          /\ report'.owedAudits = report.owedAudits /\ report'.owed = report.owed /\ report'.got = report.got
      BY <1>0, <2>1, <2>2 DEF ReportTyped, ReportFields
    <3>2. report'.moved \in BOOLEAN
      BY <1>0, <2>1, <2>2 DEF ReportTyped, ReportFields
    <3>3. ReportTyped'
      BY <1>0, <1>1, <2>1, <3>1, <3>2 DEF ReportTyped, Stay
    <3>4. FilesThere'
      BY <3>1 DEF FilesThere
    <3>5. OwedIsRead'
      BY <1>0, <1>1, <2>1, <3>1 DEF OwedIsRead, WillBeRead, ReportTyped, Stay
    <3>. QED BY <1>1, <3>3, <3>4, <3>5 DEF ReportsInv
  <2>3. CASE audits # report.audits
    BY <1>1, <2>1, <2>3, NothingOwed
  <2>. QED BY <2>2, <2>3
<1>. QED BY <1>2, <1>3

\* The steps of a report between two conversations.
LEMMA ListingKeeps ==
  ASSUME ReportsInv, List \/ ReadIndex \/ NextSource
  PROVE  ReportsInv'
<1>0. /\ WritersInv /\ TurnsTyped /\ RecordsOwned /\ SessionsFirst
      /\ ReportTyped /\ FilesThere /\ OwedIsRead
  BY DEF ReportsInv, WritersInv
<1>1. Stay /\ WritersInv'
  BY ReadingStays DEF Scan
<1>2. \A t \in report.owed : t \in Turns /\ turns[t].of \in dirs
  BY <1>0 DEF OwedIsRead, ReportTyped, RecordsOwned
<1>3. CASE List
  <2>. DEFINE es == Entries(report.source)
              at == IF report.source = "session" /\ es # {} THEN "index" ELSE "scan"
  <2>1. report.at = "list" /\ report.entries = {} /\ report' = [report EXCEPT !.entries = es, !.at = at]
    BY <1>0, <1>3 DEF List, Reads, ReportTyped
  <2>2. /\ ReportFields \subseteq DOMAIN report' /\ report'.at = at /\ report'.source = report.source
        /\ report'.entries = es /\ report'.audits = report.audits /\ report'.sessions = report.sessions
        /\ report'.owedAudits = report.owedAudits /\ report'.owed = report.owed /\ report'.got = report.got
    BY <1>0, <2>1 DEF ReportTyped, ReportFields
  <2>3. report'.moved \in BOOLEAN
    BY <1>0, <2>1 DEF ReportTyped, ReportFields
  <2>4. /\ es \subseteq dirs /\ \A c \in dirs : c \in es <=> (report.source = "session" <=> c \in Sessions)
        /\ report.source \in {"position", "session"}
    BY <1>0 DEF Entries, ReportTyped
  <2>. HIDE DEF es
  <2>5. ReportTyped'
    <3>1. report.source = "position" => es \cap Sessions = {}
      BY <2>4
    <3>2. report.source = "session" => es \subseteq indexed
      BY <1>0, <2>4 DEF SessionsFirst
    <3>. QED BY <1>0, <1>1, <2>2, <2>3, <2>4, <3>1, <3>2 DEF ReportTyped, Stay
  <2>6. FilesThere'
    BY <2>2 DEF FilesThere
  <2>7. OwedIsRead'
    BY <1>0, <1>1, <1>2, <2>1, <2>2, <2>4 DEF OwedIsRead, WillBeRead, Stay
  <2>. QED BY <1>1, <2>5, <2>6, <2>7 DEF ReportsInv
<1>4. CASE ReadIndex
  <2>1. \/ report.at = "index" /\ report' = [report EXCEPT !.at = "scan", !.sessions = indexed]
        \/ report' = Refused("temporary")
    BY <1>4 DEF ReadIndex, Reads
  <2>2. CASE report.at = "index" /\ report' = [report EXCEPT !.at = "scan", !.sessions = indexed]
    <3>1. /\ ReportFields \subseteq DOMAIN report' /\ report'.at = "scan" /\ report'.source = report.source
          /\ report'.entries = report.entries /\ report'.audits = report.audits /\ report'.sessions = indexed
          /\ report'.owedAudits = report.owedAudits /\ report'.owed = report.owed /\ report'.got = report.got
      BY <1>0, <2>2 DEF ReportTyped, ReportFields
    <3>2. report'.moved \in BOOLEAN
      BY <1>0, <2>2 DEF ReportTyped, ReportFields
    <3>3. ReportTyped'
      BY <1>0, <1>1, <2>2, <3>1, <3>2 DEF ReportTyped, Stay
    <3>4. FilesThere'
      BY <3>1 DEF FilesThere
    <3>5. OwedIsRead'
      BY <1>0, <1>1, <2>2, <3>1 DEF OwedIsRead, WillBeRead, Stay
    <3>. QED BY <1>1, <3>3, <3>4, <3>5 DEF ReportsInv
  <2>3. CASE report' = Refused("temporary")
    BY <1>1, <2>3, NothingOwed
  <2>. QED BY <2>1, <2>2, <2>3
<1>5. CASE NextSource
  <2>1. /\ report.at = "scan" /\ report.entries = {}
        /\ report' = IF report.source = "position" THEN [report EXCEPT !.at = "list", !.source = "session"]
                     ELSE [report EXCEPT !.at = "answered"]
    BY <1>5 DEF NextSource, Reads
  <2>2. /\ ReportFields \subseteq DOMAIN report' /\ report'.source = "session" /\ report'.entries = {}
        /\ report'.at = IF report.source = "position" THEN "list" ELSE "answered"
        /\ report'.audits = report.audits /\ report'.owedAudits = report.owedAudits
        /\ report'.owed = report.owed /\ report'.got = report.got
    BY <1>0, <2>1 DEF ReportTyped, ReportFields
  <2>3. report'.moved \in BOOLEAN
    BY <1>0, <2>1 DEF ReportTyped, ReportFields
  <2>4. ReportTyped'
    BY <1>0, <1>1, <2>2, <2>3 DEF ReportTyped, Stay
  <2>5. FilesThere'
    BY <2>2 DEF FilesThere
  <2>6. OwedIsRead'
    BY <1>0, <1>1, <2>1, <2>2 DEF OwedIsRead, WillBeRead, ReportTyped, Stay
  <2>. QED BY <1>1, <2>4, <2>5, <2>6 DEF ReportsInv
<1>. QED BY <1>3, <1>4, <1>5

\* The steps of a report within a conversation.
LEMMA ReadingKeeps ==
  ASSUME ReportsInv, ReadMetadata \/ ListTurns \/ ReadFile \/ NextConversation
  PROVE  ReportsInv'
<1>0. /\ WritersInv /\ TurnsTyped /\ RecordsOwned /\ ReportTyped /\ FilesThere /\ OwedIsRead
  BY DEF ReportsInv, WritersInv
<1>1. Stay /\ WritersInv'
  BY ReadingStays DEF Scan
<1>2. CASE ReadMetadata
  <2>. PICK c \in report.entries :
         report' = IF c \in Sessions /\ c \notin report.sessions THEN Refused("orphan")
                   ELSE IF metadata[c] = None THEN Refused("unprepared")
                   ELSE [report EXCEPT !.at = "turns", !.entry = c, !.id = metadata[c], !.entries = @ \ {c}]
    BY <1>2 DEF ReadMetadata, Reads
  <2>1. report.at = "scan"
    BY <1>2 DEF ReadMetadata
  <2>2. CASE report' = Refused("orphan") \/ report' = Refused("unprepared")
    BY <1>1, <2>2, NothingOwed
  <2>3. CASE /\ metadata[c] # None
             /\ report' = [report EXCEPT !.at = "turns", !.entry = c, !.id = metadata[c], !.entries = @ \ {c}]
    <3>1. /\ ReportFields \subseteq DOMAIN report' /\ report'.at = "turns" /\ report'.source = report.source
          /\ report'.entry = c /\ report'.id = metadata[c] /\ report'.entries = report.entries \ {c}
          /\ report'.audits = report.audits /\ report'.sessions = report.sessions
          /\ report'.owedAudits = report.owedAudits /\ report'.owed = report.owed /\ report'.got = report.got
      BY <1>0, <2>3 DEF ReportTyped, ReportFields
    <3>2. report'.moved \in BOOLEAN
      BY <1>0, <2>3 DEF ReportTyped, ReportFields
    <3>3. ReportTyped'
      BY <1>0, <1>1, <2>1, <2>3, <3>1, <3>2 DEF ReportTyped, Stay
    <3>4. FilesThere'
      BY <3>1 DEF FilesThere
    <3>5. OwedIsRead'
      BY <1>0, <1>1, <2>1, <3>1 DEF OwedIsRead, WillBeRead, Stay
    <3>. QED BY <1>1, <3>3, <3>4, <3>5 DEF ReportsInv
  <2>. QED BY <2>2, <2>3
<1>3. CASE ListTurns
  <2>. DEFINE own == {t \in Turns : turns[t].of = report.entry}
              listed == {<<t, "record">> : t \in {u \in own : records[u] # None}}
                        \cup {<<t, "temporary">> : t \in own \cap temps}
  <2>1. /\ report.at = "turns"
        /\ report' = IF report.entry \notin ready THEN Refused("unprepared")
                     ELSE [report EXCEPT !.at = "files", !.files = listed]
    BY <1>3 DEF ListTurns, Reads
  <2>2. CASE report' = Refused("unprepared")
    BY <1>1, <2>2, NothingOwed
  <2>3. CASE report' = [report EXCEPT !.at = "files", !.files = listed]
    <3>1. \A f \in listed : /\ f[1] \in Turns /\ f[2] \in {"record", "temporary"} /\ f = <<f[1], f[2]>>
                            /\ turns[f[1]].of = report.entry
                            /\ f[2] = "record" => records[f[1]] # None
                            /\ f[2] = "temporary" => f[1] \in temps
      OBVIOUS
    <3>2. \A t \in Turns : turns[t].of = report.entry /\ records[t] # None => <<t, "record">> \in listed
      OBVIOUS
    <3>. HIDE DEF listed
    <3>3. /\ ReportFields \subseteq DOMAIN report' /\ report'.at = "files" /\ report'.source = report.source
          /\ report'.entry = report.entry /\ report'.id = report.id /\ report'.entries = report.entries
          /\ report'.audits = report.audits /\ report'.sessions = report.sessions /\ report'.files = listed
          /\ report'.owedAudits = report.owedAudits /\ report'.owed = report.owed /\ report'.got = report.got
      BY <1>0, <2>3 DEF ReportTyped, ReportFields
    <3>4. report'.moved \in BOOLEAN
      BY <1>0, <2>3 DEF ReportTyped, ReportFields
    <3>5. ReportTyped'
      BY <1>0, <1>1, <2>1, <3>3, <3>4 DEF ReportTyped, Stay
    <3>6. FilesThere'
      BY <1>1, <3>1, <3>3 DEF FilesThere, Stay
    <3>7. OwedIsRead'
      BY <1>0, <1>1, <2>1, <3>2, <3>3 DEF OwedIsRead, WillBeRead, ReportTyped, Stay
    <3>. QED BY <1>1, <3>5, <3>6, <3>7 DEF ReportsInv
  <2>. QED BY <2>1, <2>2, <2>3
<1>4. CASE ReadFile
  <2>. PICK f \in report.files :
         \/ report' = IF f[2] = "temporary"
                      THEN IF f[1] \in temps THEN [report EXCEPT !.files = @ \ {f}] ELSE Refused("temporary")
                      ELSE IF records[f[1]].conversation # report.id THEN Refused("record")
                      ELSE [report EXCEPT !.files = @ \ {f}, !.got = @ \cup {records[f[1]]}]
         \/ report' = Refused("unstable")
    BY <1>4 DEF ReadFile, Reads
  <2>1. report.at = "files"
    BY <1>4 DEF ReadFile
  <2>2. CASE report' = Refused("temporary") \/ report' = Refused("record") \/ report' = Refused("unstable")
    BY <1>1, <2>2, NothingOwed
  <2>3. ASSUME NEW got, report' = [report EXCEPT !.files = @ \ {f}, !.got = got], report.got \subseteq got,
               f[2] = "record" => \E r \in got : r.turn = f[1]
        PROVE  ReportsInv'
    <3>1. /\ ReportFields \subseteq DOMAIN report' /\ report'.at = report.at /\ report'.source = report.source
          /\ report'.entry = report.entry /\ report'.id = report.id /\ report'.entries = report.entries
          /\ report'.audits = report.audits /\ report'.sessions = report.sessions
          /\ report'.owedAudits = report.owedAudits /\ report'.owed = report.owed /\ report'.got = got
          /\ report'.files = report.files \ {f}
      BY <1>0, <2>3 DEF ReportTyped, ReportFields
    <3>2. report'.moved = report.moved
      BY <1>0, <2>3 DEF ReportTyped, ReportFields
    <3>3. ReportTyped'
      BY <1>0, <1>1, <3>1, <3>2 DEF ReportTyped, Stay
    <3>4. FilesThere'
      BY <1>0, <1>1, <3>1, <3>2 DEF FilesThere, Stay
    <3>5. OwedIsRead'
      <4>1. ASSUME NEW t \in report.owed
            PROVE  WillBeRead(t)' \/ \E r \in got : r.turn = t
        <5>1. WillBeRead(t) \/ \E r \in report.got : r.turn = t
          BY <1>0, <4>1 DEF OwedIsRead
        <5>2. CASE f = <<t, "record">>
          BY <2>3, <5>2
        <5>3. CASE f # <<t, "record">>
          BY <1>1, <2>1, <2>3, <3>1, <5>1, <5>3 DEF WillBeRead, Stay
        <5>. QED BY <5>2, <5>3
      <4>. QED BY <1>0, <1>1, <2>1, <3>1, <4>1 DEF OwedIsRead, Stay
    <3>. QED BY <1>1, <3>3, <3>4, <3>5 DEF ReportsInv
  <2>4. CASE f[2] = "temporary" /\ report' = [report EXCEPT !.files = @ \ {f}]
    <3>1. report' = [report EXCEPT !.files = @ \ {f}, !.got = report.got]
      BY <1>0, <2>4 DEF ReportTyped, ReportFields
    <3>. QED BY <2>3, <2>4, <3>1
  <2>5. CASE f[2] # "temporary" /\ report' = [report EXCEPT !.files = @ \ {f}, !.got = @ \cup {records[f[1]]}]
    <3>1. f[1] \in Turns /\ f[2] = "record" /\ records[f[1]] # None
      BY <1>0, <2>1, <2>5 DEF FilesThere
    <3>2. records[f[1]].turn = f[1]
      BY <1>0, <3>1 DEF RecordsOwned
    <3>. DEFINE got == report.got \cup {records[f[1]]}
    <3>3. report.got \subseteq got /\ \E r \in got : r.turn = f[1]
      BY <3>2
    <3>4. report' = [report EXCEPT !.files = @ \ {f}, !.got = got]
      BY <2>5
    <3>. HIDE DEF got
    <3>. QED BY <2>3, <3>3, <3>4
  <2>. QED BY <2>2, <2>4, <2>5
<1>5. CASE NextConversation
  <2>1. report.at = "files" /\ report.files = {} /\ report' = [report EXCEPT !.at = "scan"]
    BY <1>5 DEF NextConversation, Reads
  <2>2. /\ ReportFields \subseteq DOMAIN report' /\ report'.at = "scan" /\ report'.source = report.source
        /\ report'.entries = report.entries /\ report'.audits = report.audits /\ report'.sessions = report.sessions
        /\ report'.owedAudits = report.owedAudits /\ report'.owed = report.owed /\ report'.got = report.got
    BY <1>0, <2>1 DEF ReportTyped, ReportFields
  <2>3. report'.moved \in BOOLEAN
    BY <1>0, <2>1 DEF ReportTyped, ReportFields
  <2>4. ReportTyped'
    BY <1>0, <1>1, <2>1, <2>2, <2>3 DEF ReportTyped, Stay
  <2>5. FilesThere'
    BY <2>2 DEF FilesThere
  <2>6. OwedIsRead'
    BY <1>0, <1>1, <2>1, <2>2 DEF OwedIsRead, WillBeRead, Stay
  <2>. QED BY <1>1, <2>4, <2>5, <2>6 DEF ReportsInv
<1>. QED BY <1>2, <1>3, <1>4, <1>5

\* A step that changes nothing changes nothing.
LEMMA ReportsStutter ==
  ASSUME ReportsInv, UNCHANGED reportVars
  PROVE  ReportsInv'
<1>1. UNCHANGED <<dirs, ready, metadata, temps, records, indexed, audits, locks, ids, turns, clock, report>>
  BY DEF reportVars, diskVars
<1>2. TurnsTyped' /\ MetadataIsOwned' /\ LocksResolved'
  BY <1>1 DEF ReportsInv, WritersInv, TurnsTyped, MetadataIsOwned, LocksResolved
<1>3. RecordsOwned' /\ SessionsFirst'
  BY <1>1 DEF ReportsInv, WritersInv, RecordsOwned, SessionsFirst
<1>4. ReportTyped' /\ FilesThere'
  BY <1>1 DEF ReportsInv, ReportTyped, FilesThere
<1>5. OwedIsRead'
  BY <1>1 DEF ReportsInv, OwedIsRead, WillBeRead
<1>. QED BY <1>2, <1>3, <1>4, <1>5 DEF ReportsInv, WritersInv

\* The invariant of turns and reports holds for every number of turns, conversations and crashes.
THEOREM ReportsInvariant == Spec => []ReportsInv
<1>1. Init => ReportsInv
  BY ReportsInit
<1>2. ASSUME ReportsInv, [Next]_reportVars PROVE ReportsInv'
  BY <1>2, WritersKeepReports, AskingKeeps, ListingKeeps, ReadingKeeps, ReportsStutter DEF Next, Scan
<1>. QED BY <1>1, <1>2, PTL DEF Spec

\* A record has the id of its conversation: one turn at a time makes it up, holding the lock, and
\* a failing write or a crash only takes the lock away.
THEOREM RecordsKeepTheirConversation == Spec => []RecordsOfTheirConversation
<1>1. ReportsInv => RecordsOfTheirConversation
  BY DEF ReportsInv, WritersInv, RecordsOwned, RecordsOfTheirConversation
<1>. QED BY <1>1, ReportsInvariant, PTL

\* A report that is answered has every record and every audit line there was when it was asked for.
THEOREM ReportsAreComplete == Spec => []ReportIsComplete
<1>1. ASSUME ReportsInv, report.at = "answered"
      PROVE  report.owed \subseteq {r.turn : r \in report.got} /\ report.owedAudits <= report.audits
  <2>1. \A t \in report.owed : ~ WillBeRead(t)
    BY <1>1 DEF ReportsInv, ReportTyped, WillBeRead
  <2>2. \A t \in report.owed : \E r \in report.got : r.turn = t
    BY <1>1, <2>1 DEF ReportsInv, OwedIsRead
  <2>3. report.owedAudits = report.audits /\ report.audits \in Nat
    BY <1>1 DEF ReportsInv, OwedIsRead, ReportTyped
  <2>. QED BY <2>2, <2>3
<1>2. ReportsInv => ReportIsComplete
  BY <1>1 DEF ReportIsComplete
<1>. QED BY <1>2, ReportsInvariant, PTL

\* What a refusal says of the state it was made in.
Explained(why) ==
  \/ why = "unprepared" /\ \E c \in dirs : metadata[c] = None \/ c \notin ready
  \/ why \in {"audit", "temporary", "unstable"} /\ report.moved

\* A refused report says why.
LEMMA RefusedSaysWhy ==
  ASSUME NEW why
  PROVE  Refused(why).why = why
BY DEF Refused, Asked

\* Each step that refuses does so for a reason.
LEMMA RefusalIsExplained ==
  ASSUME ReportsInv, Next, report.at # "refused", report'.at = "refused"
  PROVE  Explained(report'.why)
<1>0. /\ ReportFields \subseteq DOMAIN report /\ RecordsOwned /\ ReportTyped /\ FilesThere /\ OwedIsRead
  BY DEF ReportsInv, WritersInv, ReportTyped
<1>1. ASSUME NEW why, report' = Refused(why), Explained(why)
      PROVE  Explained(report'.why)
  BY <1>1, RefusedSaysWhy
<1>2. ASSUME NEW r, report' = r, r.at # "refused"
      PROVE  FALSE
  BY <1>2
<1>3. CASE (\E t \in Turns : Turn(t)) \/ CreateSession \/ SessionCreated \/ Audit
  <2>1. report' = report \/ Moves
    BY <1>3 DEF Turn, Begin, MakeDir, MakeTurnsDir, Ensure, Load, Create, CreateFails, OpenTemporary, Rename,
                Ends, Replace, WriteFails, CreateSession, SessionCreated, Audit
  <2>2. report'.at = report.at
    BY <1>0, <2>1 DEF Moves, ReportFields
  <2>. QED BY <2>2
<1>4. CASE Crash
  <2>1. report'.at = "idle"
    BY <1>4 DEF Crash, Asked
  <2>. QED BY <2>1
<1>5. CASE Ask \/ List \/ NextConversation \/ NextSource
  <2>1. report'.at \in {"audit", "index", "scan", "list", "answered"}
    BY <1>0, <1>5 DEF Ask, List, NextConversation, NextSource, Reads, ReportFields
  <2>. QED BY <2>1
<1>6. CASE ReadAudit
  <2>1. CASE audits = report.audits
    <3>1. report'.at = "list"
      BY <1>0, <1>6, <2>1 DEF ReadAudit, Reads, ReportFields
    <3>. QED BY <3>1
  <2>2. CASE audits # report.audits
    <3>1. report' = Refused("audit") /\ report.moved
      BY <1>0, <1>6, <2>2 DEF ReadAudit, Reads, OwedIsRead
    <3>. QED BY <1>1, <3>1 DEF Explained
  <2>. QED BY <2>1, <2>2
<1>7. CASE ReadIndex
  <2>1. CASE report' = [report EXCEPT !.at = "scan", !.sessions = indexed]
    <3>1. report'.at = "scan"
      BY <1>0, <2>1 DEF ReportFields
    <3>. QED BY <3>1
  <2>2. CASE report.moved /\ report' = Refused("temporary")
    BY <1>1, <2>2 DEF Explained
  <2>. QED BY <1>7, <2>1, <2>2 DEF ReadIndex, Reads
<1>8. CASE ReadMetadata
  <2>. PICK c \in report.entries :
         report' = IF c \in Sessions /\ c \notin report.sessions THEN Refused("orphan")
                   ELSE IF metadata[c] = None THEN Refused("unprepared")
                   ELSE [report EXCEPT !.at = "turns", !.entry = c, !.id = metadata[c], !.entries = @ \ {c}]
    BY <1>8 DEF ReadMetadata, Reads
  <2>1. c \in dirs /\ ~ (c \in Sessions /\ c \notin report.sessions)
    BY <1>0, <1>8 DEF ReadMetadata, ReportTyped
  <2>2. CASE metadata[c] = None
    <3>1. report' = Refused("unprepared") /\ Explained("unprepared")
      BY <2>1, <2>2 DEF Explained
    <3>. QED BY <1>1, <3>1
  <2>3. CASE metadata[c] # None
    <3>1. report'.at = "turns"
      BY <1>0, <2>1, <2>3 DEF ReportFields
    <3>. QED BY <3>1
  <2>. QED BY <2>2, <2>3
<1>9. CASE ListTurns
  <2>1. CASE report.entry \notin ready
    <3>1. report' = Refused("unprepared")
      BY <1>9, <2>1 DEF ListTurns, Reads
    <3>2. Explained("unprepared")
      BY <1>0, <1>9, <2>1 DEF ListTurns, ReportTyped, Explained
    <3>. QED BY <1>1, <3>1, <3>2
  <2>2. CASE report.entry \in ready
    <3>1. \E listed : report' = [report EXCEPT !.at = "files", !.files = listed]
      BY <1>9, <2>2 DEF ListTurns, Reads
    <3>2. report'.at = "files"
      BY <1>0, <3>1 DEF ReportFields
    <3>. QED BY <3>2
  <2>. QED BY <2>1, <2>2
<1>10. CASE ReadFile
  <2>. PICK f \in report.files :
         \/ report' = IF f[2] = "temporary"
                      THEN IF f[1] \in temps THEN [report EXCEPT !.files = @ \ {f}] ELSE Refused("temporary")
                      ELSE IF records[f[1]].conversation # report.id THEN Refused("record")
                      ELSE [report EXCEPT !.files = @ \ {f}, !.got = @ \cup {records[f[1]]}]
         \/ report.moved /\ report' = Refused("unstable")
    BY <1>10 DEF ReadFile, Reads
  <2>1. /\ report.at = "files" /\ f[1] \in Turns /\ f[2] \in {"record", "temporary"}
        /\ turns[f[1]].of = report.entry /\ metadata[report.entry] = report.id
        /\ f[2] = "record" => records[f[1]] # None
        /\ f[2] = "temporary" /\ f[1] \notin temps => report.moved
    BY <1>0, <1>10 DEF ReadFile, FilesThere, ReportTyped
  <2>2. CASE report' = Refused("unstable") /\ report.moved
    BY <1>1, <2>2 DEF Explained
  <2>3. CASE f[2] = "temporary" /\ f[1] \notin temps /\ report' = Refused("temporary")
    BY <1>1, <2>1, <2>3 DEF Explained
  <2>4. CASE f[2] = "record"
    <3>1. records[f[1]].conversation = report.id
      BY <1>0, <2>1, <2>4 DEF RecordsOwned
    <3>2. CASE report' = [report EXCEPT !.files = @ \ {f}, !.got = @ \cup {records[f[1]]}]
      <4>1. report'.at = "files"
        BY <1>0, <2>1, <3>2 DEF ReportFields
      <4>. QED BY <4>1
    <3>. QED BY <2>2, <2>4, <3>1, <3>2
  <2>5. CASE f[2] = "temporary" /\ f[1] \in temps /\ report' = [report EXCEPT !.files = @ \ {f}]
    <3>1. report'.at = "files"
      BY <1>0, <2>1, <2>5 DEF ReportFields
    <3>. QED BY <3>1
  <2>. QED BY <2>1, <2>2, <2>3, <2>4, <2>5
<1>. QED BY <1>3, <1>4, <1>5, <1>6, <1>7, <1>8, <1>9, <1>10 DEF Next, Scan

\* A report is refused only because a conversation is still being set up or never was, or because
\* what is read changes: never because of a session the index does not know, nor of a record that
\* is not its conversation's.
THEOREM RefusalsAreExplained == Spec => RefusalsExplained
<1>. DEFINE Step == report.at # "refused" /\ report'.at = "refused" =>
              CASE report'.why = "unprepared" -> \E c \in dirs : metadata[c] = None \/ c \notin ready
                [] report'.why \in {"audit", "temporary", "unstable"} -> report.moved
                [] report'.why \in {"orphan", "record"} -> FALSE
<1>1. ASSUME ReportsInv, Next
      PROVE  Step
  <2>. SUFFICES ASSUME report.at # "refused", report'.at = "refused"
                PROVE  CASE report'.why = "unprepared" -> \E c \in dirs : metadata[c] = None \/ c \notin ready
                         [] report'.why \in {"audit", "temporary", "unstable"} -> report.moved
                         [] report'.why \in {"orphan", "record"} -> FALSE
    OBVIOUS
  <2>1. Explained(report'.why)
    BY <1>1, RefusalIsExplained
  <2>2. CASE report'.why = "unprepared" /\ \E c \in dirs : metadata[c] = None \/ c \notin ready
    BY ONLY <2>2
  <2>3. CASE report'.why \in {"audit", "temporary", "unstable"} /\ report.moved
    BY ONLY <2>3
  <2>. QED BY <2>1, <2>2, <2>3 DEF Explained
<1>2. ReportsInv /\ [Next]_reportVars => [Step]_reportVars
  BY <1>1
<1>. HIDE DEF Step
<1>3. Spec => [][Step]_reportVars
  BY <1>2, ReportsInvariant, PTL DEF Spec
<1>. QED BY <1>3 DEF Step, RefusalsExplained

-----------------------------------------------------------------------------
(* TurnReports: the budgets *)

\* The times a turn was stamped with, where they can still be seen.
Stamps(t) ==
  {n \in Nat : \/ turns[t].at # "idle" /\ n = turns[t].now
               \/ records[t] # None /\ n = records[t].updated
               \/ \E r \in report.got : r.turn = t /\ n = r.updated}

\* No time is that of two turns: the clock goes on whenever one is taken.
StampsApart ==
  /\ \A t \in Turns : records[t] # None => records[t].updated \in Nat
  /\ \A r \in report.got : r.turn \in Turns /\ r.updated \in Nat
  /\ \A t \in Turns : \A n \in Stamps(t) : n < clock
  /\ \A t, u \in Turns : t # u => Stamps(t) \cap Stamps(u) = {}

\* A record is read once: what has been read will not be read again.
ReadOnce ==
  /\ \A r \in report.got : r.turn \in Turns /\ records[r.turn] # None
  /\ report.at # "refused" => \A r \in report.got : ~ WillBeRead(r.turn)
  /\ \A q, r \in report.got : q.turn = r.turn => q = r
  /\ report.at \in {"turns", "files"} =>
       /\ report.entry \notin report.entries
       /\ report.source = "position" => report.entry \notin Sessions

\* A step takes at most one new stamp, and that is the time of the clock, which it sets on.
LEMMA StampsGoOn ==
  ASSUME ReportsInv, StampsApart, NEW t \in Turns, clock' \in {clock, clock + 1},
         \A u \in Turns : records'[u] # None => records'[u].updated \in Nat,
         \A r \in report'.got : r.turn \in Turns /\ r.updated \in Nat,
         \A u \in Turns \ {t} : Stamps(u)' \subseteq Stamps(u),
         Stamps(t)' \subseteq Stamps(t) \cup (IF clock' = clock THEN {} ELSE {clock})
  PROVE  StampsApart'
<1>0. clock \in Nat /\ \A u \in Turns : Stamps(u) \subseteq Nat
  BY DEF ReportsInv, WritersInv, TurnsTyped, Stamps
<1>. DEFINE S(u) == Stamps(u)
            Z(u) == Stamps(u)'
<1>1. /\ \A u \in Turns : \A n \in S(u) : n < clock
      /\ \A u, v \in Turns : u # v => S(u) \cap S(v) = {}
      /\ \A u \in Turns : S(u) \subseteq Nat
      /\ \A u \in Turns \ {t} : Z(u) \subseteq S(u)
      /\ Z(t) \subseteq S(t) \cup (IF clock' = clock THEN {} ELSE {clock})
  BY <1>0 DEF StampsApart
<1>. HIDE DEF S, Z
<1>2. \A u \in Turns : \A n \in Z(u) : n < clock'
  BY <1>0, <1>1
<1>3. \A u, v \in Turns : u # v => Z(u) \cap Z(v) = {}
  <2>. SUFFICES ASSUME NEW u \in Turns, NEW v \in Turns, u # v, NEW n, n \in Z(u), n \in Z(v) PROVE FALSE
    OBVIOUS
  <2>1. (n \in S(u) \/ (u = t /\ n = clock)) /\ (n \in S(v) \/ (v = t /\ n = clock))
    BY <1>1
  <2>2. \A w \in Turns : clock \notin S(w)
    BY <1>0, <1>1
  <2>. QED BY <1>1, <2>1, <2>2
<1>. QED BY <1>2, <1>3 DEF S, Z, StampsApart

\* The same, for a step that takes no stamp.
LEMMA StampsStay ==
  ASSUME ReportsInv, StampsApart, clock' = clock,
         \A u \in Turns : records'[u] # None => records'[u].updated \in Nat,
         \A r \in report'.got : r.turn \in Turns /\ r.updated \in Nat,
         \A u \in Turns : Stamps(u)' \subseteq Stamps(u)
  PROVE  StampsApart'
<1>1. \A u \in Turns : \A n \in Stamps(u)' : n < clock'
  BY DEF StampsApart
<1>2. \A t, u \in Turns : t # u => Stamps(t)' \cap Stamps(u)' = {}
  <2>1. \A t, u \in Turns : t # u => Stamps(t) \cap Stamps(u) = {}
    BY DEF StampsApart
  <2>. HIDE DEF Stamps
  <2>. QED BY <2>1
<1>. QED BY <1>1, <1>2 DEF StampsApart

\* A turn is stamped when it begins and when its run is over.
LEMMA TurnsTakeStamps ==
  ASSUME ReportsInv, StampsApart, NEW t \in Turns, Begin(t) \/ Ends(t)
  PROVE  StampsApart'
<1>0. TurnsTyped /\ RecordsOwned /\ ReportTyped /\ clock \in Nat
  BY DEF ReportsInv, WritersInv, TurnsTyped
<1>1. UNCHANGED <<records, report>> /\ clock' = clock + 1
  BY DEF Begin, Ends, diskVars
<1>2. /\ \A u \in Turns : u # t => turns'[u] = turns[u]
      /\ turns'[t].now = clock
  <2>1. CASE Begin(t)
    <3>. PICK c \in Conversations :
           turns' = [turns EXCEPT ![t] = [at |-> "mkdir", of |-> c, id |-> None, now |-> clock]]
      BY <2>1 DEF Begin
    <3>. QED BY <1>0 DEF TurnsTyped
  <2>2. CASE Ends(t)
    <3>1. turns' = [turns EXCEPT ![t].at = "finish", ![t].now = clock]
      BY <2>2 DEF Ends
    <3>. QED BY <1>0, <3>1 DEF TurnsTyped
  <2>. QED BY <2>1, <2>2
<1>3. \A u \in Turns \ {t} : Stamps(u)' \subseteq Stamps(u)
  BY <1>1, <1>2 DEF Stamps
<1>4. Stamps(t)' \subseteq Stamps(t) \cup {clock}
  BY <1>0, <1>1, <1>2 DEF Stamps
<1>5. clock' # clock
  BY <1>0, <1>1
<1>6. /\ \A u \in Turns : records'[u] # None => records'[u].updated \in Nat
      /\ \A r \in report'.got : r.turn \in Turns /\ r.updated \in Nat
  BY <1>1 DEF StampsApart
<1>. QED BY <1>1, <1>3, <1>4, <1>5, <1>6, StampsGoOn

\* No other step of a writer takes one: a record says the time its turn was stamped with.
LEMMA WritersTakeNoStamps ==
  ASSUME ReportsInv, StampsApart, ~(\E t \in Turns : Begin(t) \/ Ends(t)),
         (\E t \in Turns : Turn(t)) \/ CreateSession \/ SessionCreated \/ Audit \/ Crash
  PROVE  StampsApart'
<1>0. TurnsTyped /\ RecordsOwned /\ ReportTyped /\ MetadataIsOwned
  BY DEF ReportsInv, WritersInv
<1>1. clock' = clock /\ report'.got \in {report.got, {}}
  <2>1. clock' = clock /\ (report' = report \/ Moves \/ report' = Asked)
    BY DEF Turn, MakeDir, MakeTurnsDir, Ensure, Load, Create, CreateFails, OpenTemporary, Rename, Replace,
           WriteFails, CreateSession, SessionCreated, Audit, Crash, diskVars
  <2>2. Asked.got = {}
    BY DEF Asked
  <2>3. Moves => report'.got = report.got
    BY <1>0 DEF Moves, ReportTyped, ReportFields
  <2>. QED BY <2>1, <2>2, <2>3
<1>2. \A u \in Turns : turns'[u].now = turns[u].now /\ (turns'[u].at # "idle" => turns[u].at # "idle")
  <2>1. CASE \E t \in Turns : \E at : Goes(t, at) /\ turns[t].at # "idle"
    BY <1>0, <2>1 DEF Goes, TurnsTyped
  <2>2. CASE \E t \in Turns : \E at, id : turns' = [turns EXCEPT ![t].at = at, ![t].id = id] /\ turns[t].at # "idle"
    BY <1>0, <2>2 DEF TurnsTyped
  <2>3. CASE turns' = turns
    BY <2>3
  <2>4. CASE \E t \in Turns : CreateFails(t)
    BY <1>0, <2>4 DEF CreateFails, TurnsTyped
  <2>5. CASE Crash
    BY <1>0, <2>5 DEF Crash, TurnsTyped
  <2>6. CASE \E t \in Turns : Ensure(t) \/ Load(t) \/ Create(t)
    <3>. PICK t \in Turns : Ensure(t) \/ Load(t) \/ Create(t)
      BY <2>6
    <3>1. turns[t].at # "idle"
      BY DEF Ensure, Load, Create
    <3>2. \/ \E at : Goes(t, at)
          \/ \E at, id : turns' = [turns EXCEPT ![t].at = at, ![t].id = id]
      BY DEF Ensure, Load, Create, Resolved
    <3>. QED BY <2>1, <2>2, <3>1, <3>2
  <2>7. CASE \E t \in Turns : MakeDir(t) \/ MakeTurnsDir(t) \/ OpenTemporary(t) \/ Rename(t) \/ Replace(t) \/ WriteFails(t)
    <3>. PICK t \in Turns : MakeDir(t) \/ MakeTurnsDir(t) \/ OpenTemporary(t) \/ Rename(t) \/ Replace(t) \/ WriteFails(t)
      BY <2>7
    <3>1. turns[t].at # "idle"
      BY DEF MakeDir, MakeTurnsDir, OpenTemporary, Rename, Replace, WriteFails
    <3>2. \E at : Goes(t, at)
      BY DEF MakeDir, MakeTurnsDir, OpenTemporary, Rename, Replace, WriteFails
    <3>. QED BY <2>1, <3>1, <3>2
  <2>. QED BY <2>3, <2>4, <2>5, <2>6, <2>7 DEF Turn, CreateSession, SessionCreated, Audit
<1>3. \A u \in Turns : records'[u] # None =>
        records'[u] = records[u] \/ (turns[u].at # "idle" /\ records'[u].updated = turns[u].now)
  <2>1. CASE records' = records
    BY <2>1
  <2>2. CASE \E t \in Turns : Rename(t) \/ Replace(t) \/ WriteFails(t)
    <3>. PICK t \in Turns : Rename(t) \/ Replace(t) \/ WriteFails(t)
      BY <2>2
    <3>1. turns[t].at # "idle"
      BY DEF Rename, Replace, WriteFails
    <3>2. \/ records' = records
          \/ \E status, tokens, code : records' = [records EXCEPT ![t] = Record(t, status, tokens, code)]
      BY DEF Rename, Replace, WriteFails
    <3>3. \A status, tokens, code : Record(t, status, tokens, code).updated = turns[t].now
      BY DEF Record
    <3>. HIDE DEF Record
    <3>. QED BY <1>0, <3>1, <3>2, <3>3 DEF TurnsTyped
  <2>. QED BY <2>1, <2>2 DEF Turn, MakeDir, MakeTurnsDir, Ensure, Load, Create, CreateFails, OpenTemporary,
           CreateSession, SessionCreated, Audit, Crash, diskVars
<1>4. \A u \in Turns : Stamps(u)' \subseteq Stamps(u)
  BY <1>0, <1>1, <1>2, <1>3 DEF Stamps, TurnsTyped
<1>5. \A u \in Turns : records'[u] # None => records'[u].updated \in Nat
  BY <1>0, <1>3 DEF StampsApart, TurnsTyped
<1>6. \A r \in report'.got : r.turn \in Turns /\ r.updated \in Nat
  BY <1>1 DEF StampsApart
<1>. QED BY <1>1, <1>4, <1>5, <1>6, StampsStay

\* What a report reads is a record, and keeps the stamp of that.
LEMMA ReadsTakeNoStamps ==
  ASSUME ReportsInv, StampsApart, Scan
  PROVE  StampsApart'
<1>0. WritersInv /\ TurnsTyped /\ RecordsOwned /\ ReportTyped /\ FilesThere
  BY DEF ReportsInv, WritersInv
<1>1. Stay
  BY ReadingStays
<1>2. \A r \in report'.got : r \in report.got \/ \E t \in Turns : records[t] # None /\ r = records[t] /\ r.turn = t
  <2>1. \/ report'.got \in {report.got, {}}
        \/ ReadFile
    BY <1>0 DEF Scan, Ask, ReadAudit, List, ReadIndex, ReadMetadata, ListTurns, NextConversation, NextSource,
                Reads, Refused, Asked, ReportTyped, ReportFields
  <2>2. CASE ReadFile
    <3>. PICK f \in report.files :
           \/ report' = IF f[2] = "temporary"
                        THEN IF f[1] \in temps THEN [report EXCEPT !.files = @ \ {f}] ELSE Refused("temporary")
                        ELSE IF records[f[1]].conversation # report.id THEN Refused("record")
                        ELSE [report EXCEPT !.files = @ \ {f}, !.got = @ \cup {records[f[1]]}]
           \/ report' = Refused("unstable")
      BY <2>2 DEF ReadFile, Reads
    <3>1. f[1] \in Turns /\ (f[2] # "temporary" => records[f[1]] # None /\ records[f[1]].turn = f[1])
      BY <1>0, <2>2 DEF ReadFile, FilesThere, RecordsOwned
    <3>2. \/ report'.got \in {report.got, {}}
          \/ f[2] # "temporary" /\ report'.got = report.got \cup {records[f[1]]}
      BY <1>0 DEF Refused, Asked, ReportTyped, ReportFields
    <3>. QED BY <3>1, <3>2
  <2>. QED BY <2>1, <2>2
<1>3. \A u \in Turns : Stamps(u)' \subseteq Stamps(u)
  BY <1>1, <1>2 DEF Stamps, Stay
<1>4. /\ \A u \in Turns : records'[u] # None => records'[u].updated \in Nat
      /\ \A r \in report'.got : r.turn \in Turns /\ r.updated \in Nat
      /\ clock' = clock
  BY <1>1, <1>2 DEF StampsApart, Stay
<1>. QED BY <1>3, <1>4, StampsStay

\* Writers leave a report what it has, and what it has read has been read.
LEMMA WritersLeaveRead ==
  ASSUME ReportsInv, ReadOnce, WritersInv', Grows, (report' = report /\ UNCHANGED <<temps, audits>>) \/ Moves
  PROVE  ReadOnce'
<1>0. WritersInv /\ TurnsTyped /\ RecordsOwned /\ ReportTyped
  BY DEF ReportsInv, WritersInv
<1>1. /\ report'.at = report.at /\ report'.source = report.source /\ report'.entries = report.entries
      /\ report'.entry = report.entry /\ report'.files = report.files /\ report'.got = report.got
  BY <1>0 DEF ReportTyped, ReportFields, Moves
<1>2. ASSUME NEW r \in report.got
      PROVE  r.turn \in Turns /\ records'[r.turn] # None /\ turns'[r.turn].of = turns[r.turn].of
  <2>1. r.turn \in Turns /\ records[r.turn] # None
    BY <1>2 DEF ReadOnce
  <2>2. turns[r.turn].at # "idle"
    BY <1>0, <2>1 DEF RecordsOwned, HasId
  <2>. QED BY <2>1, <2>2 DEF Grows
<1>3. report'.at # "refused" => \A r \in report'.got : ~ WillBeRead(r.turn)'
  BY <1>1, <1>2 DEF ReadOnce, WillBeRead
<1>. QED BY <1>1, <1>2, <1>3 DEF ReadOnce

\* A report that has read nothing.
LEMMA NothingRead ==
  ASSUME NEW why, report' = Asked \/ report' = Refused(why)
  PROVE  ReadOnce'
<1>1. Asked.got = {} /\ Asked.at = "idle"
  BY DEF Asked
<1>2. Refused(why).got = {} /\ Refused(why).at = "refused"
  BY DEF Asked, Refused
<1>3. report'.got = {} /\ report'.at \in {"idle", "refused"}
  BY <1>1, <1>2
<1>. QED BY <1>3 DEF ReadOnce

\* Before it lists, and from one list to the next.
LEMMA ListingReadsNothing ==
  ASSUME ReportsInv, ReadOnce, Ask \/ ReadAudit \/ List \/ ReadIndex \/ NextConversation \/ NextSource
  PROVE  ReadOnce'
<1>0. WritersInv /\ TurnsTyped /\ RecordsOwned /\ ReportTyped
  BY DEF ReportsInv, WritersInv
<1>1. Stay
  BY ReadingStays DEF Scan
<1>2. ASSUME \E why : report' = Refused(why)
      PROVE  ReadOnce'
  BY <1>2, NothingRead
<1>3. ASSUME report'.got = report.got, report'.at \notin {"turns", "files"},
             report.at # "refused", \A t \in Turns : WillBeRead(t)' /\ records[t] # None => WillBeRead(t)
      PROVE  ReadOnce'
  BY <1>1, <1>3 DEF ReadOnce, Stay
<1>4. CASE Ask
  <2>1. /\ report.at = "idle" /\ report'.at = "audit" /\ report'.got = report.got
    BY <1>0, <1>4 DEF Ask, Reads, ReportTyped, ReportFields
  <2>. QED BY <1>3, <2>1 DEF WillBeRead
<1>5. CASE ReadAudit
  <2>1. CASE audits = report.audits
    <3>1. /\ report.at = "audit" /\ report'.at = "list" /\ report'.got = report.got
      BY <1>0, <1>5, <2>1 DEF ReadAudit, Reads, ReportTyped, ReportFields
    <3>. QED BY <1>3, <3>1 DEF WillBeRead
  <2>2. CASE audits # report.audits
    BY <1>2, <1>5, <2>2 DEF ReadAudit, Reads
  <2>. QED BY <2>1, <2>2
<1>6. CASE List
  <2>. DEFINE es == Entries(report.source)
  <2>1. /\ report.at = "list" /\ report'.at \in {"index", "scan"} /\ report'.got = report.got
        /\ report'.source = report.source /\ report'.entries = es
    BY <1>0, <1>6 DEF List, Reads, ReportTyped, ReportFields
  <2>2. \A c \in es : report.source = "session" <=> c \in Sessions
    BY <1>0 DEF Entries, ReportTyped
  <2>3. \A t \in Turns : WillBeRead(t)' => WillBeRead(t)
    BY <1>1, <2>1, <2>2 DEF WillBeRead, Stay
  <2>. QED BY <1>3, <2>1, <2>3
<1>7. CASE ReadIndex
  <2>1. CASE report' = [report EXCEPT !.at = "scan", !.sessions = indexed]
    <3>1. /\ report.at = "index" /\ report'.at = "scan" /\ report'.got = report.got
          /\ report'.source = report.source /\ report'.entries = report.entries
      BY <1>0, <1>7, <2>1 DEF ReadIndex, ReportTyped, ReportFields
    <3>. QED BY <1>1, <1>3, <3>1 DEF WillBeRead, Stay
  <2>. QED BY <1>2, <1>7, <2>1 DEF ReadIndex, Reads
<1>8. CASE NextConversation
  <2>1. /\ report.at = "files" /\ report'.at = "scan" /\ report'.got = report.got
        /\ report'.source = report.source /\ report'.entries = report.entries
    BY <1>0, <1>8 DEF NextConversation, Reads, ReportTyped, ReportFields
  <2>. QED BY <1>1, <1>3, <2>1 DEF WillBeRead, Stay
<1>9. CASE NextSource
  <2>1. /\ report.at = "scan" /\ report'.at \in {"list", "answered"} /\ report'.got = report.got
        /\ report'.source = "session" /\ report'.entries = report.entries
        /\ report'.at = "list" => report.source = "position"
    BY <1>0, <1>9 DEF NextSource, Reads, ReportTyped, ReportFields
  <2>. QED BY <1>1, <1>3, <2>1 DEF WillBeRead, Stay
<1>. QED BY <1>4, <1>5, <1>6, <1>7, <1>8, <1>9

\* A conversation is taken from those that are left, and its files are read one by one.
LEMMA ReadingReadsOnce ==
  ASSUME ReportsInv, ReadOnce, ReadMetadata \/ ListTurns \/ ReadFile
  PROVE  ReadOnce'
<1>0. WritersInv /\ TurnsTyped /\ RecordsOwned /\ ReportTyped /\ FilesThere
  BY DEF ReportsInv, WritersInv
<1>1. Stay
  BY ReadingStays DEF Scan
<1>2. ASSUME \E why : report' = Refused(why)
      PROVE  ReadOnce'
  BY <1>2, NothingRead
<1>3. CASE ReadMetadata
  <2>. PICK c \in report.entries :
         report' = IF c \in Sessions /\ c \notin report.sessions THEN Refused("orphan")
                   ELSE IF metadata[c] = None THEN Refused("unprepared")
                   ELSE [report EXCEPT !.at = "turns", !.entry = c, !.id = metadata[c], !.entries = @ \ {c}]
    BY <1>3 DEF ReadMetadata, Reads
  <2>1. CASE report' = [report EXCEPT !.at = "turns", !.entry = c, !.id = metadata[c], !.entries = @ \ {c}]
    <3>1. /\ report.at = "scan" /\ report'.at = "turns" /\ report'.got = report.got
          /\ report'.source = report.source /\ report'.entries = report.entries \ {c} /\ report'.entry = c
      BY <1>0, <1>3, <2>1 DEF ReadMetadata, ReportTyped, ReportFields
    <3>2. \A t \in Turns : WillBeRead(t)' => WillBeRead(t)
      BY <1>1, <3>1 DEF WillBeRead, Stay
    <3>3. report.source = "position" => c \notin Sessions
      BY <1>0 DEF ReportTyped
    <3>. QED BY <1>1, <3>1, <3>2, <3>3 DEF ReadOnce, Stay
  <2>. QED BY <1>2, <2>1
<1>4. CASE ListTurns
  <2>. DEFINE own == {t \in Turns : turns[t].of = report.entry}
              listed == {<<t, "record">> : t \in {u \in own : records[u] # None}}
                        \cup {<<t, "temporary">> : t \in own \cap temps}
  <2>1. /\ report.at = "turns"
        /\ report' = IF report.entry \notin ready THEN Refused("unprepared")
                     ELSE [report EXCEPT !.at = "files", !.files = listed]
    BY <1>4 DEF ListTurns, Reads
  <2>2. CASE report' = [report EXCEPT !.at = "files", !.files = listed]
    <3>1. \A t : <<t, "record">> \in listed => t \in Turns /\ turns[t].of = report.entry
      OBVIOUS
    <3>. HIDE DEF listed
    <3>2. /\ report'.at = "files" /\ report'.got = report.got /\ report'.source = report.source
          /\ report'.entries = report.entries /\ report'.entry = report.entry /\ report'.files = listed
      BY <1>0, <2>1, <2>2 DEF ReportTyped, ReportFields
    <3>3. \A t \in Turns : WillBeRead(t)' => WillBeRead(t)
      BY <1>1, <2>1, <3>1, <3>2 DEF WillBeRead, Stay
    <3>. QED BY <1>1, <2>1, <3>2, <3>3 DEF ReadOnce, Stay
  <2>. QED BY <1>2, <2>1, <2>2
<1>5. CASE ReadFile
  <2>. PICK f \in report.files :
         \/ report' = IF f[2] = "temporary"
                      THEN IF f[1] \in temps THEN [report EXCEPT !.files = @ \ {f}] ELSE Refused("temporary")
                      ELSE IF records[f[1]].conversation # report.id THEN Refused("record")
                      ELSE [report EXCEPT !.files = @ \ {f}, !.got = @ \cup {records[f[1]]}]
         \/ report' = Refused("unstable")
    BY <1>5 DEF ReadFile, Reads
  <2>1. report.at = "files"
    BY <1>5 DEF ReadFile
  <2>2. /\ f[1] \in Turns /\ f[2] \in {"record", "temporary"} /\ f = <<f[1], f[2]>>
        /\ turns[f[1]].of = report.entry /\ (f[2] = "record" => records[f[1]] # None)
    BY <1>0, <2>1 DEF FilesThere
  <2>3. CASE f[2] = "temporary" /\ report' = [report EXCEPT !.files = @ \ {f}]
    <3>1. /\ report'.at = "files" /\ report'.got = report.got /\ report'.source = report.source
          /\ report'.entries = report.entries /\ report'.entry = report.entry /\ report'.files = report.files \ {f}
      BY <1>0, <2>1, <2>3 DEF ReportTyped, ReportFields
    <3>2. \A t \in Turns : WillBeRead(t)' => WillBeRead(t)
      BY <1>1, <2>1, <3>1 DEF WillBeRead, Stay
    <3>. QED BY <1>1, <2>1, <3>1, <3>2 DEF ReadOnce, Stay
  <2>4. CASE f[2] = "record" /\ report' = [report EXCEPT !.files = @ \ {f}, !.got = @ \cup {records[f[1]]}]
    <3>1. /\ report'.at = "files" /\ report'.got = report.got \cup {records[f[1]]} /\ report'.source = report.source
          /\ report'.entries = report.entries /\ report'.entry = report.entry /\ report'.files = report.files \ {f}
      BY <1>0, <2>1, <2>4 DEF ReportTyped, ReportFields
    <3>2. records[f[1]] # None /\ records[f[1]].turn = f[1]
      BY <1>0, <2>2, <2>4 DEF RecordsOwned
    <3>3. WillBeRead(f[1])
      BY <2>1, <2>2, <2>4 DEF WillBeRead
    <3>4. \A r \in report.got : r.turn # f[1] /\ r.turn \in Turns /\ records[r.turn] # None /\ ~ WillBeRead(r.turn)
      BY <2>1, <3>3 DEF ReadOnce
    <3>5. \A t \in Turns : WillBeRead(t)' => WillBeRead(t)
      BY <1>1, <2>1, <3>1 DEF WillBeRead, Stay
    <3>6. ~ WillBeRead(f[1])'
      BY <1>1, <2>1, <2>2, <2>4, <3>1 DEF WillBeRead, ReadOnce, Stay
    <3>7. \A r \in report'.got : r.turn \in Turns /\ records[r.turn] # None /\ ~ WillBeRead(r.turn)'
      BY <2>2, <3>1, <3>2, <3>4, <3>5, <3>6
    <3>8. \A q, r \in report'.got : q.turn = r.turn => q = r
      BY <3>1, <3>2, <3>4 DEF ReadOnce
    <3>. QED BY <1>1, <2>1, <3>1, <3>7, <3>8 DEF ReadOnce, Stay
  <2>. QED BY <1>2, <2>2, <2>3, <2>4
<1>. QED BY <1>3, <1>4, <1>5

\* Two records of a report are of two turns, and have two times.
THEOREM RecordsHaveTheirTime == Spec => [](StampsApart /\ ReadOnce)
<1>1. Init => StampsApart /\ ReadOnce
  <2>. SUFFICES ASSUME Init PROVE StampsApart /\ ReadOnce
    OBVIOUS
  <2>1. report = Asked /\ \A t \in Turns : turns[t].at = "idle" /\ records[t] = None
    BY DEF Init, Idle
  <2>2. Asked.got = {} /\ Asked.at = "idle"
    BY DEF Asked
  <2>. QED BY <2>1, <2>2 DEF StampsApart, Stamps, ReadOnce
<1>2. ASSUME ReportsInv, StampsApart, ReadOnce, [Next]_reportVars
      PROVE  StampsApart' /\ ReadOnce'
  <2>1. CASE UNCHANGED reportVars
    <3>1. UNCHANGED <<dirs, ready, metadata, temps, records, turns, clock, report>>
      BY <2>1 DEF reportVars, diskVars
    <3>. QED BY <1>2, <3>1 DEF StampsApart, Stamps, ReadOnce, WillBeRead
  <2>2. CASE (\E t \in Turns : Turn(t)) \/ CreateSession \/ SessionCreated \/ Audit \/ Crash
    <3>1. StampsApart'
      BY <1>2, <2>2, TurnsTakeStamps, WritersTakeNoStamps
    <3>2. WritersInv' /\ Grows
      BY <1>2, <2>2, WritersKeep DEF ReportsInv
    <3>3. CASE Crash
      BY <3>1, <3>3, NothingRead DEF Crash
    <3>4. CASE (\E t \in Turns : Turn(t)) \/ CreateSession \/ SessionCreated \/ Audit
      <4>1. (report' = report /\ UNCHANGED <<temps, audits>>) \/ Moves
        BY <3>4 DEF Turn, Begin, MakeDir, MakeTurnsDir, Ensure, Load, Create, CreateFails, OpenTemporary, Rename,
                    Ends, Replace, WriteFails, diskVars, CreateSession, SessionCreated, Audit
      <4>. QED BY <1>2, <3>1, <3>2, <4>1, WritersLeaveRead
    <3>. QED BY <2>2, <3>3, <3>4
  <2>3. CASE Scan
    <3>1. StampsApart'
      BY <1>2, <2>3, ReadsTakeNoStamps
    <3>2. ReadOnce'
      BY <1>2, <2>3, ListingReadsNothing, ReadingReadsOnce DEF Scan
    <3>. QED BY <3>1, <3>2
  <2>. QED BY <1>2, <2>1, <2>2, <2>3 DEF Next
<1>. QED BY <1>1, <1>2, ReportsInvariant, PTL DEF Spec

\* A budget is that of the turn that was settled or begun last: the order of the records is that of
\* their times, which no two turns share.
THEOREM ReportsAreTrue == Spec => []ReportIsTrue
<1>1. ASSUME StampsApart, ReadOnce
      PROVE  BudgetIsOfTheLatest
  <2>. SUFFICES ASSUME NEW r \in report.got,
                       \A q \in Own(PositionOf[turns[r.turn].of]) : q.updated <= r.updated
                PROVE  LET position == PositionOf[turns[r.turn].of] IN
                       Budget(position) = "exceeded" <=>
                         r.tokens > PerTask \/ \E q \in Own(position) : StoppedByBudget(q)
    BY DEF BudgetIsOfTheLatest
  <2>. DEFINE own == Own(PositionOf[turns[r.turn].of])
  <2>1. r \in own /\ own \subseteq report.got
    BY DEF Own
  <2>. HIDE DEF own
  <2>2. ASSUME NEW q \in own, q # r
        PROVE  q.updated < r.updated
    <3>1. q \in report.got /\ q.turn # r.turn /\ q.updated \in Nat /\ r.updated \in Nat
      BY <1>1, <2>1, <2>2 DEF ReadOnce, StampsApart
    <3>2. q.updated # r.updated
      <4>1. q.updated \in Stamps(q.turn) /\ r.updated \in Stamps(r.turn)
        BY <3>1 DEF Stamps
      <4>2. q.turn \in Turns /\ r.turn \in Turns
        BY <1>1, <3>1 DEF StampsApart
      <4>3. Stamps(q.turn) \cap Stamps(r.turn) = {}
        BY <1>1, <3>1, <4>2 DEF StampsApart
      <4>. QED BY <4>1, <4>3
    <3>3. q.updated <= r.updated
      BY <2>2 DEF own
    <3>. QED BY <3>1, <3>2, <3>3
  <2>3. \A q \in own : r.updated \in Int /\ q.updated \in Int
    BY <1>1, <2>1 DEF StampsApart
  <2>4. Latest(own) = r
    <3>1. \A q \in own \ {r} : NewestFirst(r, q) /\ ~ NewestFirst(q, r)
      BY <2>2, <2>3 DEF NewestFirst
    <3>2. \A x \in own : (\A q \in own \ {x} : NewestFirst(x, q)) => x = r
      BY <2>1, <3>1
    <3>. QED BY <2>1, <3>1, <3>2 DEF Latest
  <2>5. own # {}
    BY <2>1
  <2>. QED BY <2>4, <2>5 DEF Budget, own
<1>2. StampsApart /\ ReadOnce => BudgetIsOfTheLatest
  BY <1>1
<1>. QED BY <1>2, RecordsHaveTheirTime, ReportsAreComplete, PTL DEF ReportIsTrue
-----------------------------------------------------------------------------
(* Induction over the naturals: the library's theorems take a predicate as a parameter, so the *)
(* same is said here of a set, from the well-foundedness of <. *)

\* The order of the naturals, as a set of pairs.
LEMMA LessThanPairs == OpToRel(<, Nat) = {ss \in Nat \X Nat : ss[1] < ss[2]}
BY Zenon DEF OpToRel

\* A set of naturals that has a member has a least one.
LEMMA Least == ASSUME NEW S, S \subseteq Nat, S # {} PROVE \E m \in S : \A k \in S : m <= k
<1> DEFINE R == OpToRel(<, Nat)
<1>1. PICK m \in S : \A y \in S : ~ (<<y, m>> \in R)
  BY NatLessThanWellFounded, WFMin
<1>2. R = {ss \in Nat \X Nat : ss[1] < ss[2]}
  BY LessThanPairs
<1>3. ASSUME NEW k \in S PROVE m <= k
  <2> HIDE DEF R
  <2>1. ~(<<k, m>> \in {ss \in Nat \X Nat : ss[1] < ss[2]})
    BY <1>1, <1>2, Zenon
  <2> QED BY <2>1
<1> QED BY <1>3

\* Induction over the naturals, on a set instead of a predicate.
LEMMA Induction == ASSUME NEW S, 0 \in S, \A n \in Nat : n \in S => n + 1 \in S PROVE Nat \subseteq S
<1> SUFFICES ASSUME Nat \ S # {} PROVE FALSE
  OBVIOUS
<1>1. PICK m \in Nat \ S : \A k \in Nat \ S : m <= k
  BY Least
<1>2. m - 1 \in Nat /\ m - 1 \in S
  BY <1>1
<1> QED BY <1>2, <1>1

-----------------------------------------------------------------------------
(* TurnRecords *)

\* A date of the calendar.
Valid(d) ==
  /\ d = [year |-> d.year, month |-> d.month, day |-> d.day]
  /\ d.year \in Nat /\ d.year >= 1999 /\ d.month \in 1 .. 12
  /\ d.day \in 1 .. DaysInMonth(d.year, d.month)

\* The calendar by which an engine knows the date and daysInMonth of the store agree on every month.
LEMMA LengthsAreDays ==
  ASSUME NEW y \in Nat, NEW m \in 1 .. 12
  PROVE  Lengths(y)[m] = DaysInMonth(y, m)
<1>1. Lengths(y)[m] = CASE m = 2 -> DaysInMonth(y, 2) [] m \in {4, 6, 9, 11} -> 30 [] OTHER -> 31
  BY DEF Lengths, DaysInMonth, IsLeap
<1>. QED BY <1>1 DEF DaysInMonth

\* A year, a month and a day in it make a date.
LEMMA DatesAreValid ==
  ASSUME NEW y \in Nat, NEW m \in 1 .. 12, NEW k \in 1 .. DaysInMonth(y, m), y >= 1999
  PROVE  Valid([year |-> y, month |-> m, day |-> k])
<1>. HIDE DEF DaysInMonth
<1>. QED BY DEF Valid

\* The day after a date is a date.
LEMMA NextIsValid ==
  ASSUME NEW d, Valid(d)
  PROVE  Valid(Next1(d))
<1>. DEFINE e == Next1(d)
<1>0. /\ d = [year |-> d.year, month |-> d.month, day |-> d.day]
      /\ d.year \in Nat /\ d.year >= 1999 /\ d.month \in 1 .. 12
      /\ d.day \in 1 .. DaysInMonth(d.year, d.month)
  BY DEF Valid
<1>1. Lengths(d.year)[d.month] = DaysInMonth(d.year, d.month)
  BY <1>0, LengthsAreDays
<1>2. \A z \in Nat, n \in 1 .. 12 : DaysInMonth(z, n) \in 28 .. 31
  BY DEF DaysInMonth
<1>. HIDE DEF DaysInMonth
<1>3. CASE d.day < DaysInMonth(d.year, d.month)
  <2>1. e = [year |-> d.year, month |-> d.month, day |-> d.day + 1]
    BY <1>0, <1>1, <1>3 DEF Next1
  <2>2. d.day + 1 \in 1 .. DaysInMonth(d.year, d.month)
    BY <1>0, <1>2, <1>3
  <2>. QED BY <1>0, <2>1, <2>2, DatesAreValid
<1>4. CASE ~(d.day < DaysInMonth(d.year, d.month)) /\ d.month < 12
  <2>1. e = [year |-> d.year, month |-> d.month + 1, day |-> 1]
    BY <1>0, <1>1, <1>4 DEF Next1
  <2>2. 1 \in 1 .. DaysInMonth(d.year, d.month + 1) /\ d.month + 1 \in 1 .. 12
    BY <1>0, <1>2, <1>4
  <2>. QED BY <1>0, <2>1, <2>2, DatesAreValid
<1>5. CASE ~(d.day < DaysInMonth(d.year, d.month)) /\ ~(d.month < 12)
  <2>1. e = [year |-> d.year + 1, month |-> 1, day |-> 1]
    BY <1>0, <1>1, <1>5 DEF Next1
  <2>2. 1 \in 1 .. DaysInMonth(d.year + 1, 1) /\ d.year + 1 \in Nat /\ d.year + 1 >= 1999
    BY <1>0, <1>2
  <2>. QED BY <2>1, <2>2, DatesAreValid
<1>. QED BY <1>3, <1>4, <1>5

\* The days the store counts to a date.
Days(d) == DaysFromCivil(d.year, d.month, d.day)

\* The days the store counts go up by one within a month,
LEMMA WithinAMonth ==
  ASSUME NEW y \in Nat, NEW m \in 1 .. 12, NEW k \in Nat
  PROVE  DaysFromCivil(y, m, k + 1) = DaysFromCivil(y, m, k) + 1
BY DEF DaysFromCivil

\* from the last of a month to the first of the next, leap years or not,
LEMMA NextMonth ==
  ASSUME NEW y \in Nat, NEW m \in 1 .. 11
  PROVE  DaysFromCivil(y, m + 1, 1) = DaysFromCivil(y, m, DaysInMonth(y, m)) + 1
<1>1. CASE m = 1
  BY <1>1 DEF DaysFromCivil, DaysInMonth, IsLeap
<1>2. CASE m = 2
  BY <1>2 DEF DaysFromCivil, DaysInMonth, IsLeap
<1>3. CASE m \in {3, 5, 7, 8, 10}
  BY <1>3 DEF DaysFromCivil, DaysInMonth, IsLeap
<1>4. CASE m \in {4, 6, 9, 11}
  BY <1>4 DEF DaysFromCivil, DaysInMonth, IsLeap
<1>. QED BY <1>1, <1>2, <1>3, <1>4

\* and from one year to the next.
LEMMA NextYear ==
  ASSUME NEW y \in Nat
  PROVE  DaysFromCivil(y + 1, 1, 1) = DaysFromCivil(y, 12, 31) + 1
  BY DEF DaysFromCivil

\* So daysFromCivil counts the days of the calendar, whatever 400 years they fall in.
LEMMA NextDay ==
  ASSUME NEW d, Valid(d)
  PROVE  Days(Next1(d)) = Days(d) + 1
<1>. DEFINE e == Next1(d)
<1>0. d.year \in Nat /\ d.month \in 1 .. 12 /\ d.day \in 1 .. DaysInMonth(d.year, d.month)
  BY DEF Valid
<1>1. Lengths(d.year)[d.month] = DaysInMonth(d.year, d.month)
  BY <1>0, LengthsAreDays
<1>2. DaysInMonth(d.year, d.month) \in 28 .. 31 /\ d.day \in Nat
  BY <1>0 DEF DaysInMonth
<1>. HIDE DEF DaysInMonth
<1>3. CASE d.day < DaysInMonth(d.year, d.month)
  <2>1. e.year = d.year /\ e.month = d.month /\ e.day = d.day + 1
    BY <1>1, <1>3 DEF Next1, Valid
  <2>. QED BY <1>0, <1>2, <2>1, WithinAMonth DEF Days
<1>4. CASE d.day = DaysInMonth(d.year, d.month) /\ d.month < 12
  <2>1. e.year = d.year /\ e.month = d.month + 1 /\ e.day = 1
    BY <1>1, <1>4 DEF Next1, Valid
  <2>. QED BY <1>0, <1>4, <2>1, NextMonth DEF Days
<1>5. CASE d.day = DaysInMonth(d.year, d.month) /\ d.month = 12
  <2>1. e.year = d.year + 1 /\ e.month = 1 /\ e.day = 1
    BY <1>1, <1>5 DEF Next1, Valid
  <2>2. d.day = 31
    BY <1>5 DEF DaysInMonth
  <2>. QED BY <1>0, <1>5, <2>1, <2>2, NextYear DEF Days
<1>. QED BY <1>0, <1>2, <1>3, <1>4, <1>5

\* The first date of five digits is DaysToCome days from the start of the calendar or later.
LEMMA FarAway ==
  ASSUME NEW d, Valid(d), d.year > LastYear
  PROVE  Days(d) >= 10956 + DaysToCome
<1>1. d.day >= 1 /\ d.year >= 10000 /\ d.month \in 1 .. 12 /\ d.day \in Nat
  BY DEF Valid, DaysInMonth, LastYear
<1>2. ASSUME NEW y \in Nat, NEW m \in 1 .. 12, NEW k \in Nat, y >= 10000, k >= 1
      PROVE DaysFromCivil(y, m, k) >= 10956 + DaysToCome
  BY <1>2, SMT DEF DaysFromCivil, DaysToCome
<1>. QED BY <1>1, <1>2 DEF Days, Valid
\* Where the calendar starts.
LEMMA EpochIsValid == Valid(Epoch) /\ Days(Epoch) = 10956
 BY DEF Epoch, Valid, DaysInMonth, Days, DaysFromCivil

\* The calendar up to its n-th day.
UpTo(n, f) == f = [i \in 0 .. n |-> IF i = 0 THEN Epoch ELSE Next1(f[i - 1])]

\* There is a calendar up to any day,
LEMMA CalendarsExist ==
  ASSUME NEW n \in Nat
  PROVE  \E f : UpTo(n, f)
<1>. DEFINE S == {k \in Nat : \E f : UpTo(k, f)}
<1>1. 0 \in S
  <2>1. UpTo(0, [i \in 0 .. 0 |-> Epoch])
    BY DEF UpTo
  <2>. QED BY <2>1
<1>2. ASSUME NEW k \in Nat, k \in S
      PROVE  k + 1 \in S
  <2>1. PICK f : UpTo(k, f)
    BY <1>2
  <2>. DEFINE g == [i \in 0 .. k + 1 |-> IF i <= k THEN f[i] ELSE Next1(f[k])]
  <2>2. \A i \in 0 .. k : f[i] = IF i = 0 THEN Epoch ELSE Next1(f[i - 1])
    BY <2>1, Zenon DEF UpTo
  <2>3. ASSUME NEW i \in 0 .. k + 1
        PROVE  g[i] = IF i = 0 THEN Epoch ELSE Next1(g[i - 1])
    <3>1. CASE i <= k
      BY <2>2, <3>1
    <3>2. CASE i = k + 1
      BY <3>2
    <3>. QED BY <3>1, <3>2
  <2>4. UpTo(k + 1, g)
    <3>1. g = [i \in 0 .. k + 1 |-> g[i]]
      OBVIOUS
    <3>. HIDE DEF g
    <3>2. [i \in 0 .. k + 1 |-> g[i]] = [i \in 0 .. k + 1 |-> IF i = 0 THEN Epoch ELSE Next1(g[i - 1])]
      BY <2>3
    <3>. QED BY <3>1, <3>2, Zenon DEF UpTo
  <2>. HIDE DEF g
  <2>. QED BY <2>4
<1>. HIDE DEF S
<1>3. Nat \subseteq S
  BY <1>1, <1>2, Induction
<1>. QED BY <1>3 DEF S

\* any two agree as far as both go,
LEMMA CalendarsAgree ==
  ASSUME NEW n \in Nat, NEW k \in Nat, NEW f, NEW g, UpTo(n, f), UpTo(k, g), n <= k
  PROVE  \A i \in 0 .. n : f[i] = g[i]
<1>. DEFINE S == {i \in Nat : i <= n => f[i] = g[i]}
<1>1. /\ \A i \in 0 .. n : f[i] = IF i = 0 THEN Epoch ELSE Next1(f[i - 1])
      /\ \A i \in 0 .. k : g[i] = IF i = 0 THEN Epoch ELSE Next1(g[i - 1])
  BY Zenon DEF UpTo
<1>2. 0 \in S
  BY <1>1
<1>3. ASSUME NEW i \in Nat, i \in S
      PROVE  i + 1 \in S
  BY <1>1, <1>3
<1>. HIDE DEF S
<1>4. Nat \subseteq S
  BY <1>2, <1>3, Induction
<1>. QED BY <1>4 DEF S

\* so the recursive definition of Calendar has the value it says.
LEMMA CalendarIs ==
  Calendar = [n \in Nat |-> IF n = 0 THEN Epoch ELSE Next1(Calendar[n - 1])]
<1>. DEFINE A(n) == CHOOSE f : UpTo(n, f)
            F == [n \in Nat |-> A(n)[n]]
<1>1. ASSUME NEW n \in Nat
      PROVE  UpTo(n, A(n))
  BY CalendarsExist
<1>. HIDE DEF A
<1>2. ASSUME NEW n \in Nat
      PROVE  F[n] = IF n = 0 THEN Epoch ELSE Next1(F[n - 1])
  <2>1. A(n)[n] = IF n = 0 THEN Epoch ELSE Next1(A(n)[n - 1])
    <3>1. A(n) = [i \in 0 .. n |-> IF i = 0 THEN Epoch ELSE Next1(A(n)[i - 1])]
      BY <1>1, Zenon DEF UpTo
    <3>2. \A i \in 0 .. n : A(n)[i] = IF i = 0 THEN Epoch ELSE Next1(A(n)[i - 1])
      BY <3>1, Zenon
    <3>. QED BY <3>2
  <2>2. CASE n = 0
    BY <2>1, <2>2
  <2>3. CASE n # 0
    <3>1. n - 1 \in Nat /\ n - 1 <= n /\ n - 1 \in 0 .. n - 1
      BY <2>3
    <3>2. UpTo(n - 1, A(n - 1)) /\ UpTo(n, A(n))
      BY <1>1, <3>1
    <3>3. A(n - 1)[n - 1] = A(n)[n - 1]
      BY <3>1, <3>2, CalendarsAgree
    <3>. QED BY <2>1, <2>3, <3>1, <3>3
  <2>. QED BY <2>2, <2>3
<1>3. F = [n \in Nat |-> IF n = 0 THEN Epoch ELSE Next1(F[n - 1])]
  <2>1. F = [n \in Nat |-> F[n]]
    OBVIOUS
  <2>. HIDE DEF F
  <2>2. [n \in Nat |-> F[n]] = [n \in Nat |-> IF n = 0 THEN Epoch ELSE Next1(F[n - 1])]
    BY <1>2
  <2>. QED BY <2>1, <2>2, Zenon
<1>. HIDE DEF F
<1>4. Calendar = CHOOSE f : f = [n \in Nat |-> IF n = 0 THEN Epoch ELSE Next1(f[n - 1])]
  BY DEF Calendar
<1>. QED BY <1>3, <1>4, Zenon

\* The n-th day is a date, and the store counts n days from the start of the calendar to it.
LEMMA TheCalendar ==
  ASSUME NEW n \in Nat
  PROVE  Valid(Calendar[n]) /\ Days(Calendar[n]) = 10956 + n
<1>. DEFINE S == {k \in Nat : Valid(Calendar[k]) /\ Days(Calendar[k]) = 10956 + k}
<1>0. \A k \in Nat : Calendar[k] = IF k = 0 THEN Epoch ELSE Next1(Calendar[k - 1])
  BY CalendarIs, Zenon
<1>1. 0 \in S
  BY <1>0, EpochIsValid
<1>2. ASSUME NEW k \in Nat, k \in S
      PROVE  k + 1 \in S
  <2>1. Calendar[k + 1] = Next1(Calendar[k])
    BY <1>0
  <2>2. Valid(Next1(Calendar[k])) /\ Days(Next1(Calendar[k])) = Days(Calendar[k]) + 1
    BY <1>2, NextIsValid, NextDay
  <2>. QED BY <1>2, <2>1, <2>2
<1>. HIDE DEF S
<1>3. Nat \subseteq S
  BY <1>1, <1>2, Induction
<1>. QED BY <1>3 DEF S

\* The hour Epoch begins, counted from 1970-01-01.
Origin == 24 * 10956

\* A number of hours as days and hours.
LEMMA HoursOfADay ==
  ASSUME NEW t \in 0 .. HoursToCome - 1
  PROVE  t \div 24 \in Nat /\ t \div 24 < DaysToCome /\ t % 24 \in 0 .. 23 /\ t = 24 * (t \div 24) + (t % 24)
<1>1. DaysToCome \in Nat
  BY DEF DaysToCome
<1>2. t \in Nat /\ t < 24 * DaysToCome
  BY <1>1 DEF HoursToCome
<1>. QED BY <1>1, <1>2

\* parseRfc3339Instant takes what an engine writes in any zone, and reads the moment it was written at.
LEMMA StampsAreRead ==
  ASSUME NEW m \in Nat, NEW z \in -23 .. 23, m + z \in 0 .. HoursToCome - 1
  PROVE  IsRfc3339(Rendered(m, z)) /\ Instant(Rendered(m, z)) = Origin + m
<1>. DEFINE q == (m + z) \div 24
            h == (m + z) % 24
            d == Calendar[q]
            s == Rendered(m, z)
<1>1. q \in Nat /\ q < DaysToCome /\ h \in 0 .. 23 /\ m + z = 24 * q + h
  BY HoursOfADay
<1>2. /\ s.form = "rfc3339" /\ s.year = d.year /\ s.month = d.month /\ s.day = d.day
      /\ s.hour = h /\ s.zone = z
  BY DEF Rendered
<1>. HIDE DEF q, h, s
<1>3. Valid(d) /\ Days(d) = 10956 + q
  BY <1>1, TheCalendar
<1>. HIDE DEF d
<1>4. /\ d.year \in Nat /\ d.year >= 1999 /\ d.month \in 1 .. 12
      /\ d.day \in 1 .. DaysInMonth(d.year, d.month)
  BY <1>3 DEF Valid
<1>5. d.year \in 1 .. LastYear
  <2>1. d.year > LastYear => Days(d) >= 10956 + DaysToCome
    BY <1>3, FarAway
  <2>2. DaysToCome \in Nat
    BY DEF DaysToCome
  <2>3. q \in Nat /\ q < DaysToCome /\ Days(d) = 10956 + q
    BY <1>1, <1>3
  <2>4. ~(Days(d) >= 10956 + DaysToCome)
    BY <2>2, <2>3
  <2>5. ~(d.year > LastYear)
    BY <2>1, <2>4
  <2>6. LastYear \in Nat
    BY DEF LastYear
  <2>. QED BY <1>4, <2>5, <2>6
<1>6. IsRfc3339(s)
  BY <1>1, <1>2, <1>4, <1>5 DEF IsRfc3339
<1>7. Instant(s) = Days(d) * 24 + h - z
  BY <1>2 DEF Instant, Days
<1>8. Instant(s) = Origin + m
  BY <1>1, <1>3, <1>7, SMT DEF Origin
<1>. QED BY <1>6, <1>8 DEF s

\* An event the driver took and the moment it was stamped.
Event(e, moment) ==
  /\ e.type \in EventTypes /\ KeptFields(e)
  /\ moment \in Nat => IsRfc3339(e.stamp) /\ Instant(e.stamp) = Origin + moment
  /\ moment \in Nat \cup {-1}

\* What the driver has taken: well-formed events of one run, that starts first and ends last.
EventsInv ==
  /\ stream \in Seq(Range(stream)) /\ seen \in Seq(Int) /\ Len(seen) = Len(stream)
  /\ \A i \in 1 .. Len(stream) :
       /\ Event(stream[i], seen[i])
       /\ stream[i].type = "run.started" <=> i = 1
       /\ stream[i].type \in {"run.completed", "run.failed"} => i = Len(stream)
       /\ stream[i].run = stream[1].run

\* What is on disk: the record of a turn that runs, or one of the records made of its events.
RecordInv ==
  \/ record = Running
  \/ \E now \in 0 .. 2 :
       \/ /\ stream # <<>> /\ Last(stream).type \in {"run.completed", "run.failed"}
          /\ record = TrustedRecord(stream, now)
       \/ record = IndeterminateRecord(stream, now)
       \/ record = IndeterminateRecord(<<>>, now)

\* What the driver's sequence rules see of an event's type.
LEMMA LinesAreTypes ==
  ASSUME NEW t \in EventTypes
  PROVE  /\ LineOf(t) = "started" <=> t = "run.started"
         /\ LineOf(t) \in Terminals <=> t \in {"run.completed", "run.failed"}
  BY DEF LineOf, EventTypes, Terminals

\* EventsInv is kept by an event the driver takes.
LEMMA EventEmitted ==
  ASSUME EventsInv, EngineEmits
  PROVE  EventsInv'
<1>1. PICK type \in EventTypes, run \in Runs, moment \in Moments \cup {-1}, zone \in Zones,
           form \in {"parsable", "none"}, fields \in {"exact", "wrong"}, echo \in BOOLEAN :
        LET e == [type |-> type, run |-> run, fields |-> fields, echo |-> echo,
                  stamp |-> IF moment = -1 THEN OtherStamp(form) ELSE Rendered(moment, zone)]
        IN  /\ ParsedEvent(e)
            /\ Accepts([i \in 1 .. Len(stream) |-> LineOf(stream[i].type)], LineOf(type))
            /\ stream # <<>> => run = stream[1].run
            /\ stream' = Append(stream, e)
            /\ seen' = Append(seen, moment)
  BY Zenon DEF EngineEmits
<1>. DEFINE e == [type |-> type, run |-> run, fields |-> fields, echo |-> echo,
                  stamp |-> IF moment = -1 THEN OtherStamp(form) ELSE Rendered(moment, zone)]
            lines == [i \in 1 .. Len(stream) |-> LineOf(stream[i].type)]
<1>2. /\ ParsedEvent(e) /\ Accepts(lines, LineOf(type))
      /\ stream # <<>> => run = stream[1].run
      /\ stream' = Append(stream, e)
      /\ seen' = Append(seen, moment)
  BY <1>1
<1>3. e.type = type /\ e.run = run /\ e.fields = fields
  OBVIOUS
<1>4. moment # -1 => e.stamp = Rendered(moment, zone)
  OBVIOUS
<1>5. moment \in Nat \cup {-1} /\ zone \in -23 .. 23 /\ (moment # -1 => moment + zone \in 0 .. HoursToCome - 1)
  BY RecordsAssumption
<1>. HIDE DEF e
<1>6. Event(e, moment)
  <2>1. KeptFields(e)
    BY <1>2 DEF ParsedEvent, ExactFields, KeptFields
  <2>2. moment \in Nat => IsRfc3339(e.stamp) /\ Instant(e.stamp) = Origin + moment
    <3>. HAVE moment \in Nat
    <3>1. moment # -1
      OBVIOUS
    <3>. QED BY <1>4, <1>5, <3>1, StampsAreRead
  <2>. QED BY <1>3, <1>5, <2>1, <2>2 DEF Event
<1>7. /\ type = "run.started" <=> stream = <<>>
      /\ stream # <<>> => stream[Len(stream)].type \notin {"run.completed", "run.failed"}
  <2>1. Len(stream) \in Nat /\ Len(lines) = Len(stream) /\ (stream = <<>> <=> Len(stream) = 0)
    BY DEF EventsInv
  <2>2. LineOf(type) = "started" <=> lines = <<>>
    BY <1>2 DEF Accepts
  <2>3. lines = <<>> <=> stream = <<>>
    BY <2>1
  <2>4. stream # <<>> => lines[Len(stream)] \notin Terminals
    BY <1>2, <2>1, <2>3 DEF Accepts, Ended, Last
  <2>5. stream # <<>> => lines[Len(stream)] = LineOf(stream[Len(stream)].type) /\ stream[Len(stream)].type \in EventTypes
    BY <2>1 DEF EventsInv, Event
  <2>. QED BY <2>2, <2>3, <2>4, <2>5, LinesAreTypes
<1>. HIDE DEF lines
<1>8. /\ stream' \in Seq(Range(stream')) /\ Len(stream') = Len(stream) + 1 /\ stream'[Len(stream) + 1] = e
      /\ \A i \in 1 .. Len(stream) : stream'[i] = stream[i]
  <2>1. stream \in Seq(Range(stream) \cup {e})
    BY DEF EventsInv
  <2>2. /\ Len(stream') = Len(stream) + 1 /\ stream'[Len(stream) + 1] = e
        /\ \A i \in 1 .. Len(stream) : stream'[i] = stream[i]
        /\ stream' \in Seq(Range(stream) \cup {e})
    BY <1>2, <2>1
  <2>3. stream' \in Seq(Range(stream'))
    BY <2>2 DEF Range
  <2>. QED BY <2>2, <2>3
<1>9. /\ seen' \in Seq(Int) /\ Len(seen') = Len(stream) + 1 /\ seen'[Len(stream) + 1] = moment
      /\ \A i \in 1 .. Len(stream) : seen'[i] = seen[i]
  BY <1>2, <1>5 DEF EventsInv
<1>10. Len(stream) \in Nat /\ (stream = <<>> <=> Len(stream) = 0)
  BY DEF EventsInv
<1>11. ASSUME NEW i \in 1 .. Len(stream')
       PROVE  /\ Event(stream'[i], seen'[i])
              /\ stream'[i].type = "run.started" <=> i = 1
              /\ stream'[i].type \in {"run.completed", "run.failed"} => i = Len(stream')
              /\ stream'[i].run = stream'[1].run
  <2>1. CASE i = Len(stream) + 1
    BY <1>2, <1>3, <1>6, <1>7, <1>8, <1>9, <1>10, <2>1
  <2>2. CASE i \in 1 .. Len(stream)
    BY <1>7, <1>8, <1>9, <1>10, <2>2 DEF EventsInv
  <2>. QED BY <1>8, <1>10, <2>1, <2>2
<1>12. \A i \in 1 .. Len(stream') :
         /\ Event(stream'[i], seen'[i])
         /\ stream'[i].type = "run.started" <=> i = 1
         /\ stream'[i].type \in {"run.completed", "run.failed"} => i = Len(stream')
         /\ stream'[i].run = stream'[1].run
  BY <1>11
<1>. QED BY <1>8, <1>9, <1>12, Zenon DEF EventsInv, Event

\* The invariant of TurnRecords: the events are those the driver took, and the record is made of them.
LEMMA RecordInvHolds ==
  RecordInit /\ [][RecordNext]_recordVars => [](EventsInv /\ RecordInv)
<1>1. RecordInit => EventsInv /\ RecordInv
  BY DEF RecordInit, EventsInv, RecordInv, Range
<1>2. ASSUME EventsInv, RecordInv, [RecordNext]_recordVars
      PROVE  EventsInv' /\ RecordInv'
  <2>1. CASE EngineEmits
    <3>1. record = Running /\ record' = record
      BY <2>1 DEF EngineEmits
    <3>. QED BY <1>2, <2>1, <3>1, EventEmitted DEF RecordInv
  <2>2. ASSUME UNCHANGED <<stream, seen>>
        PROVE  EventsInv'
    BY <1>2, <2>2 DEF EventsInv, Event
  <2>3. CASE Finishes
    <3>1. PICK now \in 0 .. 2 :
            \/ /\ stream # <<>> /\ LineOf(Last(stream).type) \in Terminals
               /\ record' = TrustedRecord(stream, now)
            \/ record' = IndeterminateRecord(stream, now)
      BY <2>3 DEF Finishes
    <3>2. stream' = stream /\ seen' = seen
      BY <2>3 DEF Finishes
    <3>3. stream # <<>> => Last(stream).type \in EventTypes
      BY <1>2 DEF EventsInv, Event, Last
    <3>4. RecordInv'
      BY <3>1, <3>2, <3>3, LinesAreTypes DEF RecordInv
    <3>. QED BY <2>2, <3>2, <3>4
  <2>4. CASE Recovers
    <3>1. PICK now \in 0 .. 2 : record' = IndeterminateRecord(<<>>, now)
      BY <2>4 DEF Recovers
    <3>2. stream' = stream /\ seen' = seen
      BY <2>4 DEF Recovers
    <3>. QED BY <2>2, <3>1, <3>2 DEF RecordInv
  <2>5. CASE UNCHANGED recordVars
    BY <1>2, <2>2, <2>5 DEF recordVars, RecordInv
  <2>. QED BY <1>2, <2>1, <2>3, <2>4, <2>5 DEF RecordNext
<1>. QED BY <1>1, <1>2, PTL

\* Events stamped in order and as RFC 3339 says pass the store's rules, one by one and as a sequence.
LEMMA EventsReadBack ==
  ASSUME EventsInv, WellStamped
  PROVE  /\ \A i \in 1 .. Len(stream) : StoredEvent(stream[i])
         /\ IsEventSequence(stream)
<1>1. Len(stream) \in Nat
  BY DEF EventsInv
<1>2. ASSUME NEW i \in 1 .. Len(stream)
      PROVE  /\ seen[i] \in Nat
             /\ IsRfc3339(stream[i].stamp) /\ Instant(stream[i].stamp) = Origin + seen[i]
  BY <1>2 DEF EventsInv, Event, WellStamped
<1>3. ASSUME NEW i \in 1 .. Len(stream), i > 1
      PROVE  Instant(stream[i - 1].stamp) <= Instant(stream[i].stamp)
  <2>1. i - 1 \in 1 .. Len(stream)
    BY <1>1, <1>3
  <2>2. seen[i - 1] <= seen[i]
    BY <1>3 DEF EventsInv, WellStamped
  <2>3. Origin \in Nat
    BY SMT DEF Origin
  <2>. QED BY <1>2, <2>1, <2>2, <2>3
<1>4. \A i \in 1 .. Len(stream) : StoredEvent(stream[i])
  BY <1>2 DEF EventsInv, Event, StoredEvent
<1>. HIDE DEF StoredEvent
<1>5. IsEventSequence(stream)
  BY <1>3 DEF EventsInv, IsEventSequence
<1>. QED BY <1>4, <1>5

\* So does a record without events.
LEMMA EmptyReadsBack ==
  /\ \A i \in 1 .. Len(<<>>) : StoredEvent(<<>>[i])
  /\ IsEventSequence(<<>>)
  BY DEF IsEventSequence

\* A turn that ended without a trusted result makes a record isTurnRecord takes,
LEMMA IndeterminateReadsBack ==
  ASSUME NEW es, NEW now \in 0 .. 2, now >= 1,
         \A i \in 1 .. Len(es) : StoredEvent(es[i]), IsEventSequence(es)
  PROVE  IsTurnRecord(IndeterminateRecord(es, now))
<1>. DEFINE r == IndeterminateRecord(es, now)
<1>1. /\ r.status = "indeterminate" /\ r.events = es /\ r.error = "code" /\ r.output = ""
      /\ r.created = 1 /\ r.updated = now /\ r.run = IF es = <<>> THEN "" ELSE es[1].run
  BY DEF IndeterminateRecord, Running
<1>. HIDE DEF r
<1>2. IsTurnRecord(r)
  BY <1>1 DEF IsTurnRecord
<1>. QED BY <1>2 DEF r

\* and so does one that ended with run.completed or run.failed.
LEMMA TrustedReadsBack ==
  ASSUME NEW es, NEW now \in 0 .. 2, now >= 1, es # <<>>,
         Last(es).type \in {"run.completed", "run.failed"}, Last(es).run = es[1].run,
         \A i \in 1 .. Len(es) : StoredEvent(es[i]), IsEventSequence(es)
  PROVE  IsTurnRecord(TrustedRecord(es, now))
<1>. DEFINE r == TrustedRecord(es, now)
            completed == Last(es).type = "run.completed"
<1>1. /\ r.status = (IF completed THEN "completed" ELSE "failed") /\ r.events = es
      /\ r.error = (IF completed THEN "" ELSE "terminal")
      /\ r.output = (IF completed THEN "terminal" ELSE "")
      /\ r.created = 1 /\ r.updated = now /\ r.run = Last(es).run
  BY DEF TrustedRecord, Running
<1>. HIDE DEF r
<1>2. IsTurnRecord(r)
  BY <1>1 DEF IsTurnRecord
<1>. QED BY <1>2 DEF r

\* RecordsReadBack: whatever the driver took and however the run ended, the record that was written
\* is one isTurnRecord takes (store.ts:52-55), for streams of any length, any moments up to the year
\* 9999 and any zones, when the engine stamps in order and as RFC 3339 says and the server's clock
\* is not set back.
THEOREM EveryRecordReadsBack ==
  RecordInit /\ [][RecordNext]_recordVars => []RecordsReadBack
<1>1. ASSUME EventsInv, RecordInv, WellStamped, record.updated >= record.created
      PROVE  IsTurnRecord(record)
  <2>1. CASE record = Running
    <3>1. IsEventSequence(<<>>)
      BY EmptyReadsBack
    <3>2. IsTurnRecord(Running)
      BY <3>1, EmptyReadsBack DEF IsTurnRecord, Running
    <3>. QED BY <2>1, <3>2
  <2>2. ASSUME NEW now \in 0 .. 2, stream # <<>>, Last(stream).type \in {"run.completed", "run.failed"},
               record = TrustedRecord(stream, now)
        PROVE  IsTurnRecord(record)
    <3>1. now >= 1
      BY <1>1, <2>2 DEF TrustedRecord, Running
    <3>2. Last(stream).run = stream[1].run
      BY <1>1, <2>2 DEF EventsInv, Last
    <3>. QED BY <1>1, <2>2, <3>1, <3>2, EventsReadBack, TrustedReadsBack
  <2>3. ASSUME NEW now \in 0 .. 2, record = IndeterminateRecord(stream, now)
        PROVE  IsTurnRecord(record)
    <3>1. now >= 1
      BY <1>1, <2>3 DEF IndeterminateRecord, Running
    <3>. QED BY <1>1, <2>3, <3>1, EventsReadBack, IndeterminateReadsBack
  <2>4. ASSUME NEW now \in 0 .. 2, record = IndeterminateRecord(<<>>, now)
        PROVE  IsTurnRecord(record)
    <3>1. now >= 1
      BY <1>1, <2>4 DEF IndeterminateRecord, Running
    <3>. QED BY <2>4, <3>1, EmptyReadsBack, IndeterminateReadsBack
  <2>. QED BY <1>1, <2>1, <2>2, <2>3, <2>4 DEF RecordInv
<1>2. EventsInv /\ RecordInv => RecordsReadBack
  BY <1>1 DEF RecordsReadBack
<1>. QED BY <1>2, RecordInvHolds, PTL
=============================================================================

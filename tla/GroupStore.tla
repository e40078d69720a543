----------------------------- MODULE GroupStore -----------------------------
(***************************************************************************)
(* apps/server/src/groups/store.ts, class GroupStore, under the handlers   *)
(* of routes/groups.ts: one directory per group, in it group.json with the *)
(* roster and a directory of messages.  No method takes a lock: every      *)
(* await lets another request in between a check and the write it is for.  *)
(*                                                                         *)
(* A roster is the set of its positions (parseCreate and addMember keep    *)
(* them different), a message the position it mentions.  The session a     *)
(* group is anchored on (SessionStore's Creators) is never read again and  *)
(* is left out, as are texts and times.                                    *)
(***************************************************************************)
EXTENDS Naturals, Sequences, FiniteSets

CONSTANTS
  Refs,           \* conversation refs: generated ones and those a caller may misspell
  Rosters,        \* the member lists groups are created with
  People,         \* positions that may be added or mentioned
  Calls,          \* requests the server handles at a time
  MaxGroups,      \* MAX_GROUPS
  MaxMembers,     \* MAX_GROUP_MEMBERS
  MaxMessages     \* MAX_GROUP_MESSAGES

ASSUME GroupAssumption == \A members \in Rosters : Cardinality(members) \in 2 .. MaxMembers

VARIABLES
  groupDirs,   \* disk: the groups that have a directory
  roster,      \* disk: group.json of each ref, {} while there is none
  messages,    \* disk: the messages of each group, in the order they were written
  calls,       \* the request of each call: op, ref, who, the roster it read or lists still to read
  promised,    \* observation: the positions answered as members of each group
  overlapped   \* observation: groups of which two additions were under way at a time

groupVars == <<groupDirs, roster, messages, calls, promised, overlapped>>

NoCall == [op |-> "none", step |-> "idle", ref |-> {}, who |-> {}, read |-> {}]

GroupInit ==
  /\ groupDirs = {}
  /\ roster = [ref \in Refs |-> {}]
  /\ messages = [ref \in Refs |-> <<>>]
  /\ calls = [c \in Calls |-> NoCall]
  /\ promised = [ref \in Refs |-> {}]
  /\ overlapped = {}

At(c, op, step) == calls[c].op = op /\ calls[c].step = step
On(c, ref) == calls[c].ref = {ref}
CallGoes(c, step) == calls' = [calls EXCEPT ![c].step = step]
CallEnds(c) == calls' = [calls EXCEPT ![c] = NoCall]

Exists(ref) == roster[ref] # {}
Generated == UNION {calls[c].ref : c \in {k \in Calls : calls[k].op = "create"}}

Requested(c, op, step, ref, who) ==
  /\ calls[c] = NoCall
  /\ calls' = [calls EXCEPT ![c] = [NoCall EXCEPT !.op = op, !.step = step, !.ref = {ref}, !.who = who]]

\* prepareGroupDirectories: whatever is missing on the way to the group's messages is made.
Prepares(c, step) ==
  /\ groupDirs' = groupDirs \cup calls[c].ref
  /\ CallGoes(c, step)

-----------------------------------------------------------------------------
(* POST /groups *)

\* crypto.randomUUID.
FreshRefs == {ref \in Refs : ref \notin groupDirs /\ \A c \in Calls : ~ On(c, ref)}

CreateAsked(c) ==
  /\ \E ref \in FreshRefs, members \in Rosters : Requested(c, "create", "checking", ref, members)
  /\ UNCHANGED <<groupDirs, roster, messages, promised, overlapped>>

\* assertGroupCapacity, assertMessageCapacity: what a readdir counts.
Full(n, limit) == n >= limit

CreateChecks(c) ==
  /\ At(c, "create", "checking")
  /\ \/ Full(Cardinality(groupDirs), MaxGroups) /\ CallEnds(c)
     \/ ~ Full(Cardinality(groupDirs), MaxGroups) /\ CallGoes(c, "preparing")
  /\ UNCHANGED <<groupDirs, roster, messages, promised, overlapped>>

CreatePrepares(c) ==
  /\ At(c, "create", "preparing")
  /\ Prepares(c, "writing")
  /\ UNCHANGED <<roster, messages, promised, overlapped>>

\* group.json is renamed into place; the answer may still fail on the way.
CreateWrites(c) ==
  /\ At(c, "create", "writing")
  /\ \E ref \in calls[c].ref :
       /\ roster' = [roster EXCEPT ![ref] = calls[c].who]
       /\ \/ promised' = [promised EXCEPT ![ref] = @ \cup calls[c].who]
          \/ UNCHANGED promised
  /\ CallEnds(c)
  /\ UNCHANGED <<groupDirs, messages, overlapped>>

-----------------------------------------------------------------------------
(* POST /groups/:conversationRef/members *)

Adding(ref) == {c \in Calls : calls[c].op = "add" /\ On(c, ref)}

\* No caller knows the ref of a group whose create is still unanswered.
AddAsked(c) ==
  /\ \E ref \in Refs \ Generated, p \in People :
       /\ Requested(c, "add", "preparing", ref, {p})
       /\ overlapped' = IF Adding(ref) # {} THEN overlapped \cup {ref} ELSE overlapped
  /\ UNCHANGED <<groupDirs, roster, messages, promised>>

\* The directories come first, also those of a group that does not exist.
AddPrepares(c) ==
  /\ At(c, "add", "preparing")
  /\ Prepares(c, "getting")
  /\ UNCHANGED <<roster, messages, promised, overlapped>>

\* get: 404 without group.json; 409 for a member and for a full roster.
AddGets(c) ==
  /\ At(c, "add", "getting")
  /\ \E ref \in calls[c].ref :
       LET refused == \/ ~ Exists(ref)
                      \/ calls[c].who \subseteq roster[ref]
                      \/ Full(Cardinality(roster[ref]), MaxMembers)
       IN \/ refused /\ CallEnds(c)
          \/ /\ ~ refused
             /\ calls' = [calls EXCEPT ![c].step = "writing", ![c].read = roster[ref]]
  /\ UNCHANGED <<groupDirs, roster, messages, promised, overlapped>>

\* The roster that was read, with the newcomer, replaces the roster there is.
AddWrites(c) ==
  /\ At(c, "add", "writing")
  /\ \E ref \in calls[c].ref :
       /\ roster' = [roster EXCEPT ![ref] = calls[c].read \cup calls[c].who]
       /\ \/ promised' = [promised EXCEPT ![ref] = @ \cup calls[c].who]
          \/ UNCHANGED promised
  /\ CallEnds(c)
  /\ UNCHANGED <<groupDirs, messages, overlapped>>

-----------------------------------------------------------------------------
(* POST /groups/:conversationRef/turns, as far as its message *)

PostAsked(c) ==
  /\ \E ref \in Refs \ Generated, p \in People : Requested(c, "post", "getting", ref, {p})
  /\ UNCHANGED <<groupDirs, roster, messages, promised, overlapped>>

\* Variant: the group is not looked up before the message is stored (refuted by MembersStay and
\* RefusedForAReason).
PostTrusts(c) ==
  /\ At(c, "post", "getting")
  /\ CallGoes(c, "preparing")
  /\ UNCHANGED <<groupDirs, roster, messages, promised, overlapped>>

\* get answers 404; every mention has to be on the roster.
PostGets(c) ==
  /\ At(c, "post", "getting")
  /\ \E ref \in calls[c].ref :
       \/ calls[c].who \subseteq roster[ref] /\ CallGoes(c, "preparing")
       \/ ~ (calls[c].who \subseteq roster[ref]) /\ CallEnds(c)
  /\ UNCHANGED <<groupDirs, roster, messages, promised, overlapped>>

PostPrepares(c) ==
  /\ At(c, "post", "preparing")
  /\ Prepares(c, "checking")
  /\ UNCHANGED <<roster, messages, promised, overlapped>>

PostChecks(c) ==
  /\ At(c, "post", "checking")
  /\ \E ref \in calls[c].ref :
       \/ Full(Len(messages[ref]), MaxMessages) /\ CallEnds(c)
       \/ ~ Full(Len(messages[ref]), MaxMessages) /\ CallGoes(c, "writing")
  /\ UNCHANGED <<groupDirs, roster, messages, promised, overlapped>>

PostWrites(c) ==
  /\ At(c, "post", "writing")
  /\ \E ref \in calls[c].ref, p \in calls[c].who :
       messages' = [messages EXCEPT ![ref] = Append(@, p)]
  /\ CallEnds(c)
  /\ UNCHANGED <<groupDirs, roster, promised, overlapped>>

-----------------------------------------------------------------------------
(* GET /groups *)

\* list: the directories there are, then get of each in the order of the readdir.
ListReads(c) ==
  /\ calls[c] = NoCall
  /\ calls' = [calls EXCEPT
                  ![c] = [NoCall EXCEPT !.op = "list", !.step = "getting", !.read = groupDirs]]
  /\ UNCHANGED <<groupDirs, roster, messages, promised, overlapped>>

\* One group without its record ends the list with 404 group_missing.
ListGets(c) ==
  /\ At(c, "list", "getting")
  /\ \/ calls[c].read = {} /\ CallEnds(c)
     \/ \E ref \in calls[c].read :
          \/ Exists(ref) /\ calls' = [calls EXCEPT ![c].read = @ \ {ref}]
          \/ /\ ~ Exists(ref)
             /\ calls' = [calls EXCEPT ![c].step = "refused", ![c].ref = {ref}, ![c].read = {}]
  /\ UNCHANGED <<groupDirs, roster, messages, promised, overlapped>>

ListAnswered(c) ==
  /\ At(c, "list", "refused")
  /\ CallEnds(c)
  /\ UNCHANGED <<groupDirs, roster, messages, promised, overlapped>>

-----------------------------------------------------------------------------
(* Failures *)

\* A storage error on the way to the write: 500 group_storage_failed, nothing is undone.
CallFails(c) ==
  /\ calls[c].op \in {"create", "add", "post"} /\ calls[c].step \in {"preparing", "writing"}
  /\ CallEnds(c)
  /\ UNCHANGED <<groupDirs, roster, messages, promised, overlapped>>

\* The process restarts: what was under way is lost, the files stay.
ServerRestarts ==
  /\ calls' = [c \in Calls |-> NoCall]
  /\ UNCHANGED <<groupDirs, roster, messages, promised, overlapped>>

Creates(c) == CreateAsked(c) \/ CreateChecks(c) \/ CreatePrepares(c) \/ CreateWrites(c)
Adds(c) == AddAsked(c) \/ AddPrepares(c) \/ AddGets(c) \/ AddWrites(c)
Posts(c) == PostAsked(c) \/ PostGets(c) \/ PostPrepares(c) \/ PostChecks(c) \/ PostWrites(c)
Lists(c) == ListReads(c) \/ ListGets(c) \/ ListAnswered(c)

GroupNext ==
  \/ \E c \in Calls : Creates(c) \/ Adds(c) \/ Posts(c) \/ Lists(c) \/ CallFails(c)
  \/ ServerRestarts

GroupSpec == GroupInit /\ [][GroupNext]_groupVars

-----------------------------------------------------------------------------
(* Properties *)

\* Everybody answered as a member, by POST /groups or POST /groups/:ref/members, is on the
\* roster from then on, and so is everybody a stored message mentions ("mention is not a group
\* member", routes/groups.ts:192), however requests interleave, fail or are cut off -- unless two
\* additions to one group were under way at a time (groups/store.ts:250-268 reads, awaits, writes).
MembersStay ==
  \A ref \in Refs \ overlapped :
    promised[ref] \cup {messages[ref][i] : i \in 1..Len(messages[ref])} \subseteq roster[ref]

\* GET /groups is refused for one unreadable group only if that group was never answered as
\* created: its POST /groups is under way, failed or was cut off, or an addition named a group
\* that does not exist and left its directory behind (groups/store.ts:249, :240).
ListStopsAtUnfinished ==
  [][\A c \in Calls : At(c, "list", "getting") /\ At(c, "list", "refused")' =>
       \A ref \in calls[c].ref' : promised[ref] = {} /\ messages[ref] = <<>>]_groupVars
=============================================================================

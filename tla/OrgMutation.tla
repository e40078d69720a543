---------------------------- MODULE OrgMutation ----------------------------
(***************************************************************************)
(* Changes of the organization: adjust (POST /org/apply), undo, restore    *)
(* and hire under the mutation lock, the engine that adjudicates them, and *)
(* the open workspace they are served from.  From apps/server/src:         *)
(* org/apply.ts, org/undo.ts, org/restore.ts, org/layout.ts,               *)
(* routes/hire.ts, routes/workspace.ts, workspace-state.ts and the org     *)
(* commands of engine/driver-cli.ts.                                       *)
(*                                                                         *)
(* A step is what runs between two awaits another actor can tell apart.  A *)
(* scan of the position tree is one step, and so is an atomic write with   *)
(* the assignment to memory that follows it.                               *)
(***************************************************************************)
EXTENDS PositionTree

CONSTANTS
  Workspaces,  \* workspace directories
  Owner,       \* the owner of each workspace's organization
  FirstDirs,   \* the position directories each workspace starts with
  Manifests,   \* the change manifests clients send, well-formed (validateManifest)
  Hires,       \* the hires clients ask for: [id, reportTo]
  Restores,    \* the positions whose backups clients ask for
  MaxOpens,    \* bound: openings of a workspace
  Requests,    \* mutations, each made once
  None

ASSUME OrgAssumption ==
  /\ Owner \in [Workspaces -> Ids]
  /\ \A w \in Workspaces :
       /\ FirstDirs[w] \subseteq Paths /\ Closed(FirstDirs[w]) /\ ~ScanRefuses(FirstDirs[w])
       /\ Owner[w] \in ScannedIds(FirstDirs[w])
  /\ \A changes \in Manifests : changes \in Seq(Range(changes))
  /\ \A h \in Hires : h.id \in Ids
  /\ Restores \subseteq Ids /\ MaxOpens \in Nat
  /\ None \notin Workspaces \cup Requests \cup Ids

VARIABLES
  disk,      \* per workspace: positions/, org.json, layout, undo entry, backup/ (two backups of
             \* one position with equal trees count as one: their time stamps are left out), audit
  open,      \* WorkspaceState.current: its directory ...
  roles,     \* ... and its organization
  layout,    \* WorkspaceState.layout: the order in memory
  opening,   \* the locals of an openWorkspace call
  tail,      \* mutationTails: the last request of each workspace's chain
  req,       \* the locals of every mutation
  late,      \* engines nobody waits for any more: [dir, dirs], what they have read
  strayed,   \* observation: some mutation ran in a workspace it holds no lock of
  abandoned, \* observation: hires taken back while their engine was still at work: [dir, id]
  opens      \* openings so far

disks == <<disk, late>>
memory == <<open, roles, layout>>
observed == <<strayed, abandoned, opens>>
vars == <<disk, open, roles, layout, opening, tail, req, late, strayed, abandoned, opens>>

Fresh == [at |-> "new", job |-> None, lock |-> None, after |-> None, dir |-> None,
          changes |-> << >>, n |-> 0, goal |-> None, prev |-> None, entry |-> None,
          made |-> None, from |-> None, loaded |-> None, pending |-> None]

Finished == [Fresh EXCEPT !.at = "done"]

NotOpening == [at |-> "idle", dir |-> None, loaded |-> None, pending |-> None]

Jobs ==
  [kind : {"adjust"}, changes : Manifests] \cup [kind : {"undo"}]
    \cup [kind : {"restore"}, id : Restores]
    \cup {[kind |-> "hire", id |-> h.id, reportTo |-> h.reportTo] : h \in Hires}

\* A workspace whose applied model and layout agree with its positions; none is open.
Init ==
  /\ disk = [w \in Workspaces |->
       LET parents == Parents(FirstDirs[w]) IN
       [positions |-> FirstDirs[w], applied |-> parents, order |-> Reconcile(parents, << >>),
        undo |-> None, backup |-> {}, dismissed |-> << >>]]
  /\ open = None /\ roles = << >> /\ layout = << >>
  /\ opening = NotOpening
  /\ tail = [w \in Workspaces |-> None]
  /\ req = [r \in Requests |-> Fresh]
  /\ late = {}
  /\ strayed = FALSE /\ abandoned = {} /\ opens = 0

-----------------------------------------------------------------------------
(* The mutation lock: a chain of promises per workspace *)

\* The workspace open now names the lock; the caller waits for the tail it found.
Enqueue(r, job) ==
  /\ req[r].at = "new"
  /\ open # None
  /\ req' = [req EXCEPT ![r] = [Fresh EXCEPT !.at = "waiting", !.job = job,
                                             !.lock = open, !.after = tail[open]]]
  /\ tail' = [tail EXCEPT ![open] = r]
  /\ UNCHANGED <<disks, memory, opening, observed>>

Admitted(r) ==
  /\ req[r].at = "waiting"
  /\ req[r].after # None => req[req[r].after].at = "done"

\* Variant: the map entry goes whoever has queued behind it (refuted by MovesAreExact).
AnswerClearing(r) ==
  /\ req' = [req EXCEPT ![r] = Finished]
  /\ tail' = [tail EXCEPT ![req[r].lock] = None]

\* The answer, or a throw, releases; the map entry goes if nobody queued behind it.
Answer(r) ==
  /\ req' = [req EXCEPT ![r] = Finished]
  /\ tail' = [tail EXCEPT ![req[r].lock] = IF @ = r THEN None ELSE @]

Goes(r, locals) == req' = [req EXCEPT ![r] = locals] /\ UNCHANGED tail

To(r, at) == Goes(r, [req[r] EXCEPT !.at = at])

\* requireOpen() again, now inside the lock: the workspace a mutation works in.
Enters(r) ==
  /\ Admitted(r)
  /\ strayed' = (strayed \/ open # req[r].lock)
  /\ UNCHANGED <<abandoned, opens>>

-----------------------------------------------------------------------------
(* Adjust and undo: validation and the proposal *)

\* The moves and deletes of a manifest, in their order.
Structural(changes) == Kept(changes, {c \in Range(changes) : c.op # "reorder"})

\* applyChangeManifestUnlocked up to its first write.
StartAdjust(r, changes, entry) ==
  LET dirs == disk[open].positions
      valid == ~ScanRefuses(dirs) /\ Valid(Parents(dirs), changes, Owner[open])
  IN
  \/ ~valid /\ Answer(r)
  \/ /\ valid
     /\ Goes(r, [req[r] EXCEPT
          !.at = IF Structural(changes) = << >> THEN "ordering" ELSE "placing",
          !.dir = open, !.changes = changes, !.n = 1, !.entry = entry,
          !.goal = Trees(Parents(dirs), changes, Owner[open])[Len(changes)],
          !.prev = [roles |-> roles, order |-> layout]])

EnterAdjust(r) ==
  /\ Enters(r)
  /\ req[r].job.kind = "adjust"
  /\ StartAdjust(r, req[r].job.changes, None)
  /\ UNCHANGED <<disks, memory, opening>>

\* The entry is read in the workspace of the lock, replayed in the one open now.
EnterUndo(r) ==
  LET entry == disk[req[r].lock].undo IN
  /\ Enters(r)
  /\ req[r].job.kind = "undo"
  /\ \/ entry = None /\ Answer(r)
     \/ entry # None /\ entry.inverse # << >> /\ StartAdjust(r, entry.inverse, entry)
     \/ /\ entry # None /\ entry.inverse = << >>
        /\ Goes(r, [req[r] EXCEPT !.at = "undoing", !.dir = open, !.entry = entry])
  /\ UNCHANGED <<disks, memory, opening>>

Placed(r, dirs, backup) ==
  /\ disk' = [disk EXCEPT ![req[r].dir].positions = dirs, ![req[r].dir].backup = backup]
  /\ Goes(r, [req[r] EXCEPT !.n = @ + 1,
                            !.at = IF req[r].n = Len(req[r].changes) THEN "applying" ELSE @])

\* materializeProposal, one change: scan again, then rename within positions/ or to backup/.
Place(r) ==
  LET c == req[r].changes[req[r].n]
      dirs == disk[req[r].dir].positions
      backup == disk[req[r].dir].backup
      source == DirOf(dirs, c.id)
      destination == PlaceUnder(dirs, c.reportTo, c.id)
      found == ~ScanRefuses(dirs) /\ c.id \in ScannedIds(dirs)
  IN
  /\ req[r].at = "placing"
  /\ \/ c.op = "reorder" /\ Placed(r, dirs, backup)
     \/ c.op # "reorder" /\ ~found /\ Answer(r) /\ UNCHANGED disk
     \/ /\ c.op = "move" /\ found
        /\ \/ destination = source /\ Placed(r, dirs, backup)
           \/ /\ destination # source
              /\ destination \in dirs \/ Within(destination, source)
              /\ Answer(r) /\ UNCHANGED disk
           \/ /\ destination \notin dirs /\ ~Within(destination, source)
              /\ Placed(r, Renamed(dirs, source, destination), backup)
     \/ /\ c.op = "delete" /\ found
        /\ Placed(r, dirs \ Subtree(dirs, source),
                  backup \cup {[id |-> c.id, tree |-> Renamed(Subtree(dirs, source), source, <<c.id>>)]})
  /\ UNCHANGED <<late, memory, opening, observed>>

-----------------------------------------------------------------------------
(* Restore and hire up to the engine *)

EnterRestore(r) ==
  LET id == req[r].job.id
      dirs == disk[open].positions
      dismissed == disk[open].dismissed
      proposed == id \in ScannedIds(dirs)
      applied == id \in DOMAIN roles
  IN
  /\ Enters(r)
  /\ req[r].job.kind = "restore"
  /\ \/ /\ ScanRefuses(dirs) \/ id \notin DOMAIN dismissed
        /\ Answer(r) /\ UNCHANGED disk
     \/ \E b \in disk[open].backup :
          /\ ~ScanRefuses(dirs) /\ id \in DOMAIN dismissed
          /\ b.id = id
          /\ LET orphaned == dismissed[id] # Root /\ dismissed[id] \notin ScannedIds(dirs) IN
             \/ (applied \/ proposed \/ orphaned) /\ Answer(r) /\ UNCHANGED disk
             \/ /\ ~applied /\ ~proposed /\ ~orphaned
                /\ disk' = [disk EXCEPT
                     ![open].positions =
                       @ \cup Renamed(b.tree, <<id>>, PlaceUnder(dirs, dismissed[id], id)),
                     ![open].backup = @ \ {b}]
                /\ Goes(r, [req[r] EXCEPT !.at = "applying", !.dir = open])
     \/ \* the backup is gone: already restored, or a restore to be tried again
        /\ ~ScanRefuses(dirs) /\ id \in DOMAIN dismissed
        /\ \/ (applied \/ ~proposed) /\ Answer(r)
           \/ ~applied /\ proposed /\ Goes(r, [req[r] EXCEPT !.at = "applying", !.dir = open])
        /\ UNCHANGED disk
  /\ UNCHANGED <<late, memory, opening>>

EnterHire(r) ==
  LET job == req[r].job IN
  /\ Enters(r)
  /\ job.kind = "hire"
  /\ \/ job.id \in DOMAIN roles /\ Answer(r)
     \/ job.id \notin DOMAIN roles /\ ~Known(roles, job.reportTo) /\ Answer(r)
     \/ /\ job.id \notin DOMAIN roles /\ Known(roles, job.reportTo)
        /\ Goes(r, [req[r] EXCEPT !.at = "validating", !.dir = open])
  /\ UNCHANGED <<disks, memory, opening>>

\* hireValidate refuses, is not available or is not answered: nothing was written.
HireRefused(r) ==
  /\ req[r].at = "validating"
  /\ Answer(r)
  /\ UNCHANGED <<disks, memory, opening, observed>>

(***************************************************************************)
(* The skeleton is written beside the others, employee.json first; a later *)
(* file may fail: then the directory stays.                                *)
(***************************************************************************)
SkeletonWritten(r, made) ==
  /\ disk' = [disk EXCEPT ![req[r].dir].positions = @ \cup {made}]
  /\ Answer(r) \/ Goes(r, [req[r] EXCEPT !.at = "applying", !.made = made])

Stage(r) ==
  LET job == req[r].job
      dirs == disk[req[r].dir].positions
      target == IF job.reportTo = Root THEN Owner[req[r].dir] ELSE job.reportTo
      made == PlaceUnder(dirs, target, job.id)
  IN
  /\ req[r].at = "validating"
  /\ \/ /\ ScanRefuses(dirs) \/ made \in dirs
        /\ Answer(r) /\ UNCHANGED disk
     \/ ~ScanRefuses(dirs) /\ made \notin dirs /\ SkeletonWritten(r, made)
  /\ UNCHANGED <<late, memory, opening, observed>>

-----------------------------------------------------------------------------
(* The engine: org apply reads the proposal, writes the applied model and its audit *)

\* What the disk becomes when an engine applies the directories it has read.
AppliedFrom(d, dirs) ==
  LET new == Parents(dirs)
      gone == DOMAIN d.applied \ DOMAIN new
  IN [d EXCEPT !.applied = new,
               !.dismissed = [id \in DOMAIN d.dismissed \cup gone |->
                                IF id \in gone THEN d.applied[id] ELSE d.dismissed[id]]]

EngineApplies(r) ==
  LET w == req[r].dir IN
  /\ req[r].at = "applying"
  /\ ~ScanRefuses(disk[w].positions)
  /\ disk' = [disk EXCEPT ![w] = AppliedFrom(@, @.positions)]
  /\ To(r, "reloading")
  /\ UNCHANGED <<late, memory, opening, observed>>

\* Variant: a refused hire clears its parent's directory (refuted by NothingDestroyed).
RolledBackWithParent(r) ==
  LET w == req[r].dir
      dir == SubSeq(req[r].made, 1, Len(req[r].made) - 1) IN
  disk' = [disk EXCEPT ![w].positions =
             IF req[r].made = None THEN @ ELSE @ \ Subtree(@, dir)]

\* Only a hire takes its proposal back: rm -rf of the directory it wrote.
RolledBack(r) ==
  disk' = [disk EXCEPT ![req[r].dir].positions =
             IF req[r].made = None THEN @ ELSE @ \ Subtree(@, req[r].made)]

\* failed, unavailable or without the capability: the proposal of an adjustment stays.
EngineRefuses(r) ==
  /\ req[r].at = "applying"
  /\ RolledBack(r)
  /\ Answer(r)
  /\ UNCHANGED <<late, memory, opening, observed>>

LateEngine(r) == [dir |-> req[r].dir, dirs |-> disk[req[r].dir].positions]

\* SIGTERM and an answer at once; the engine may be past the point of writing.  So may one
\* that writes and then fails, or answers with something that is not trusted.
EngineTimesOut(r) ==
  /\ req[r].at = "applying"
  /\ late' = late \cup {LateEngine(r)}
  /\ abandoned' = IF req[r].made = None THEN abandoned
                   ELSE abandoned \cup {[dir |-> req[r].dir, id |-> req[r].job.id]}
  /\ RolledBack(r)
  /\ Answer(r)
  /\ UNCHANGED <<memory, opening, strayed, opens>>

\* It ends before it has written the applied model, between the model and its audit, or after.
EngineEndsLate(e) ==
  /\ late' = late \ {e}
  /\ \/ UNCHANGED disk
     \/ ~ScanRefuses(e.dirs) /\ disk' = [disk EXCEPT ![e.dir].applied = Parents(e.dirs)]
     \/ ~ScanRefuses(e.dirs) /\ disk' = [disk EXCEPT ![e.dir] = AppliedFrom(@, e.dirs)]
  /\ UNCHANGED <<memory, opening, tail, req, observed>>

-----------------------------------------------------------------------------
(* Reload, layout and undo entry after the engine applied *)

\* reloadAppliedOrganization: the workspace open now is read ...
ReloadRead(r) ==
  /\ req[r].at = "reloading"
  /\ Goes(r, [req[r] EXCEPT !.at = "replacing", !.from = open, !.loaded = disk[open].applied])
  /\ UNCHANGED <<disks, memory, opening, observed>>

\* ... and the organization of the workspace open then is replaced.
ReloadReplace(r) ==
  /\ req[r].at = "replacing"
  /\ roles' = req[r].loaded
  /\ To(r, "layouting")
  /\ UNCHANGED <<disks, open, layout, opening, observed>>

AfterReload(r) ==
  CASE req[r].job.kind = "restore" -> "answering"
    [] req[r].job.kind = "hire" -> "ordering"
    [] OTHER -> IF Reorders(req[r].changes) = {} THEN "recording" ELSE "ordering"

\* loadAndReconcileLayout: nothing is written when the file already fits.
ReloadLayout(r) ==
  LET order == disk[req[r].from].order
      fitting == Reconcile(req[r].loaded, order)
  IN
  /\ req[r].at = "layouting"
  /\ \/ fitting = order /\ layout' = order /\ To(r, AfterReload(r))
     \/ /\ fitting # order /\ UNCHANGED layout
        /\ Goes(r, [req[r] EXCEPT !.at = "stamping", !.pending = fitting])
  /\ UNCHANGED <<disks, open, roles, opening, observed>>

ReloadStamp(r) ==
  /\ req[r].at = "stamping"
  /\ disk' = [disk EXCEPT ![req[r].from].order = req[r].pending]
  /\ layout' = req[r].pending
  /\ Goes(r, [req[r] EXCEPT !.at = AfterReload(r), !.pending = None])
  /\ UNCHANGED <<late, open, roles, opening, observed>>

\* setLayoutOrder writes to the workspace open now.
SetLayoutOrder(order) ==
  /\ disk' = [disk EXCEPT ![open].order = order]
  /\ layout' = order

\* The reorders of a manifest.
Order(r) ==
  /\ req[r].at = "ordering" /\ req[r].job.kind # "hire"
  /\ SetLayoutOrder(Reordered(layout, req[r].changes))
  /\ To(r, "recording")
  /\ UNCHANGED <<late, open, roles, opening, observed>>

\* A hired employee is appended under the parent it was asked for.
OrderHired(r) ==
  LET job == req[r].job
      list == ListAt(layout, job.reportTo)
  IN
  /\ req[r].at = "ordering" /\ job.kind = "hire"
  /\ \/ job.id \in Range(list) /\ UNCHANGED <<disk, layout>>
     \/ /\ job.id \notin Range(list)
        /\ SetLayoutOrder([key \in DOMAIN layout \cup {job.reportTo} |->
                             IF key = job.reportTo THEN Append(list, job.id) ELSE layout[key]])
  /\ To(r, "answering")
  /\ UNCHANGED <<late, open, roles, opening, observed>>

ParentIn(parents, id) == IF id \in DOMAIN parents THEN parents[id] ELSE Root

\* Variant: the parents are those after the reload (refuted by MovesAreExact).
InverseAfterwards(r) ==
  LET moves == Structural(req[r].changes) IN
  [n \in DOMAIN moves |-> [op |-> "move", id |-> moves[n].id, reportTo |-> ParentIn(roles, moves[n].id)]]

\* The inverse moves in the order of the moves.
InverseMoves(r) ==
  LET moves == Structural(req[r].changes) IN
  [n \in DOMAIN moves |->
     [op |-> "move", id |-> moves[n].id, reportTo |-> ParentIn(req[r].prev.roles, moves[n].id)]]

\* saveUndoEntry, or clearUndoEntry after a delete.
Record(r) ==
  LET w == req[r].dir
      deletes == \E c \in Range(req[r].changes) : c.op = "delete"
  IN
  /\ req[r].at = "recording"
  /\ disk' = [disk EXCEPT ![w].undo =
                IF deletes THEN None
                ELSE [inverse |-> InverseMoves(r), order |-> req[r].prev.order,
                      before |-> req[r].prev.roles]]
  /\ To(r, IF req[r].job.kind = "undo" THEN "undoing" ELSE "answering")
  /\ UNCHANGED <<late, memory, opening, observed>>

\* The rest of an undo: the earlier order, then the entry is consumed.
UndoOrder(r) ==
  /\ req[r].at = "undoing"
  /\ SetLayoutOrder(req[r].entry.order)
  /\ To(r, "consuming")
  /\ UNCHANGED <<late, open, roles, opening, observed>>

UndoConsume(r) ==
  /\ req[r].at = "consuming"
  /\ disk' = [disk EXCEPT ![req[r].lock].undo = None]
  /\ To(r, "answering")
  /\ UNCHANGED <<late, memory, opening, observed>>

\* touch, org.updated and the answer.
Publish(r) ==
  /\ req[r].at = "answering"
  /\ Answer(r)
  /\ UNCHANGED <<disks, memory, opening, observed>>

\* Variant: a late failure takes the hire back as a refusal does (refuted by PackagesOfApplied).
FailsRollingBack(r) ==
  /\ req[r].at \in {"placing", "reloading", "layouting", "stamping", "ordering", "recording",
                    "undoing", "consuming"}
  /\ RolledBack(r)
  /\ Answer(r)
  /\ UNCHANGED <<late, memory, opening, observed>>

\* A file operation throws: 500, and what was done before stays.
Fails(r) ==
  /\ req[r].at \in {"placing", "reloading", "layouting", "stamping", "ordering", "recording",
                    "undoing", "consuming"}
  /\ Answer(r)
  /\ UNCHANGED <<disks, memory, opening, observed>>

-----------------------------------------------------------------------------
(* Opening a workspace: outside the lock *)

OpenRead(w) ==
  /\ opening.at = "idle" /\ opens < MaxOpens
  /\ opens' = opens + 1
  /\ opening' = [at |-> "read", dir |-> w, loaded |-> disk[w].applied, pending |-> None]
  /\ UNCHANGED <<disks, memory, tail, req, strayed, abandoned>>

Opens(order) ==
  /\ open' = opening.dir /\ roles' = opening.loaded /\ layout' = order
  /\ opening' = NotOpening

OpenLayout ==
  LET order == disk[opening.dir].order
      fitting == Reconcile(opening.loaded, order)
  IN
  /\ opening.at = "read"
  /\ \/ fitting = order /\ Opens(order)
     \/ /\ fitting # order /\ UNCHANGED memory
        /\ opening' = [opening EXCEPT !.at = "stamping", !.pending = fitting]
  /\ UNCHANGED <<disks, tail, req, observed>>

OpenStamp ==
  /\ opening.at = "stamping"
  /\ disk' = [disk EXCEPT ![opening.dir].order = opening.pending]
  /\ Opens(opening.pending)
  /\ UNCHANGED <<late, tail, req, observed>>

OpenFails ==
  /\ opening.at # "idle"
  /\ opening' = NotOpening
  /\ UNCHANGED <<disks, memory, tail, req, observed>>

\* The process restarts: nothing is open, unanswered requests are lost, engines may go on.
Restart ==
  /\ open' = None /\ roles' = << >> /\ layout' = << >>
  /\ opening' = NotOpening
  /\ tail' = [w \in Workspaces |-> None]
  /\ req' = [r \in Requests |-> IF req[r].at = "new" THEN Fresh ELSE Finished]
  /\ late' = late \cup {LateEngine(r) : r \in {q \in Requests : req[q].at = "applying"}}
  /\ UNCHANGED <<disk, observed>>

Mutate(r) ==
  \/ EnterAdjust(r) \/ EnterUndo(r) \/ EnterRestore(r) \/ EnterHire(r)
  \/ Place(r) \/ HireRefused(r) \/ Stage(r)
  \/ EngineApplies(r) \/ EngineRefuses(r) \/ EngineTimesOut(r)
  \/ ReloadRead(r) \/ ReloadReplace(r) \/ ReloadLayout(r) \/ ReloadStamp(r)
  \/ Order(r) \/ OrderHired(r) \/ Record(r) \/ UndoOrder(r) \/ UndoConsume(r)
  \/ Publish(r) \/ Fails(r)

Next ==
  \/ \E r \in Requests, job \in Jobs : Enqueue(r, job)
  \/ \E r \in Requests : Mutate(r)
  \/ \E e \in late : EngineEndsLate(e)
  \/ \E w \in Workspaces : OpenRead(w)
  \/ OpenLayout \/ OpenStamp \/ OpenFails
  \/ Restart

Spec == Init /\ [][Next]_vars

-----------------------------------------------------------------------------
(* Properties *)

(***************************************************************************)
(* Types, and: whatever renames, skeletons and removals do to positions/,  *)
(* every directory's parent is a position directory too - what a scan      *)
(* (apply.ts:240) relies on when it descends only into positions.          *)
(***************************************************************************)
TypeOK ==
  /\ open \in Workspaces \cup {None}
  /\ tail \in [Workspaces -> Requests \cup {None}]
  /\ opens \in 0..MaxOpens
  /\ \A w \in Workspaces :
       /\ DOMAIN disk[w].applied \subseteq Ids
       /\ disk[w].positions \subseteq Paths /\ Closed(disk[w].positions)

(***************************************************************************)
(* The promise chain of withOrgMutationLock (apply.ts:70) is a lock: no    *)
(* two mutations that queued for the same workspace are past it at once,   *)
(* although a request knows only the tail it found and the map entry is    *)
(* dropped by whoever finds itself at the end: what the properties below   *)
(* rest on, proved in OrgMutationProofs.                                   *)
(***************************************************************************)
Inside(r) == req[r].at \notin {"new", "waiting", "done"}

MutationsExclude ==
  \A r, q \in Requests : Inside(r) /\ Inside(q) /\ req[r].lock = req[q].lock => r = q

(***************************************************************************)
(* Every position of the applied model has its employee package in         *)
(* positions/ or in the restore area, whatever was refused, failed, timed  *)
(* out or was cut off by a restart; a hire that is taken back while its    *)
(* engine is still at work (hire.ts:271) is the one exception.             *)
(***************************************************************************)
Packages(d) == ScannedIds(d.positions) \cup UNION {ScannedIds(b.tree) : b \in d.backup}

PackagesOfApplied ==
  \A w \in Workspaces : \A id \in DOMAIN disk[w].applied :
    strayed \/ id \in Packages(disk[w]) \/ [dir |-> w, id |-> id] \in abandoned

(***************************************************************************)
(* The renames of materializeProposal, each after a scan of its own        *)
(* (apply.ts:427), leave for the engine exactly the tree the validation    *)
(* computed in memory (apply.ts:303); and an undo about to consume its     *)
(* entry has brought every position it moves back to where it was before   *)
(* the adjustment, whatever hires, restores and deletions came between     *)
(* (api-contract-v0.md 2.7).                                               *)
(***************************************************************************)
MovesAreExact ==
  \A r \in Requests : ~strayed =>
    /\ req[r].at = "applying" /\ req[r].job.kind \in {"adjust", "undo"} =>
         Parents(disk[req[r].dir].positions) = req[r].goal
    /\ req[r].at = "consuming" =>
         \A c \in Range(req[r].entry.inverse) :
           Parents(disk[req[r].dir].positions)[c.id] = ParentIn(req[r].entry.before, c.id)

(***************************************************************************)
(* Only the rollback of a hire removes a package, and only the package of  *)
(* the position it hires: a delete keeps it in the restore area, and every *)
(* refusal leaves it where the proposal put it (api-contract-v0.md 2.5).   *)
(***************************************************************************)
NothingDestroyed ==
  [][\A w \in Workspaces : \A id \in Packages(disk[w]) \ Packages(disk'[w]) :
       \/ strayed
       \/ \E r \in Requests : req[r].made # None /\ req[r].dir = w /\ req[r].job.id = id]_vars

(***************************************************************************)
(* A restore whose target conflicts is answered 409 restore_conflict       *)
(* (api-contract-v0.md 2.6), so that no position is in two places.  Refuted *)
(* by the run org_restore: only the root of the restored tree is compared. *)
(***************************************************************************)
OnePlacePerPosition ==
  \A w \in Workspaces : strayed \/ ~\E d, e \in disk[w].positions : d # e /\ IdOf(d) = IdOf(e)
=============================================================================

------------------------------ MODULE OrgCanvas ------------------------------
(***************************************************************************)
(* The organization on the screen: the tree of packages/ui/src/org-tree.tsx*)
(* with its drops and keys, and the calls of                               *)
(* apps/desktop/renderer/src/App.tsx that send a change and read the tree  *)
(* again, over a control plane that other calls change meanwhile.          *)
(*                                                                         *)
(* The control plane is taken whole: a mutation takes effect in one step   *)
(* (its steps, its lock and its failures are those of OrgMutation), one    *)
(* workspace is opened once, and an engine that refuses or does not answer *)
(* leaves the proposal in positions/.                                      *)
(*                                                                         *)
(* The snapshot is the function from every parent to the list of its       *)
(* children, as WorkspaceState.snapshot nests them.                        *)
(***************************************************************************)
EXTENDS PositionTree, SequencesExt

CONSTANTS
  Owner,       \* snapshot.owner
  FirstDirs,   \* the position directories at the start
  Newcomers,   \* the hires the operator may ask for: [id, reportTo]
  CallCount,   \* bound of the model: calls the operator makes
  HearCount,   \* bound of the model: refreshes for org.updated at a time
  MaxFaults,   \* bound of the model: events and answers that are lost
  None

ASSUME CanvasAssumption ==
  /\ ~ ScanRefuses(FirstDirs) /\ Owner \in ScannedIds(FirstDirs)
  /\ FirstDirs \subseteq Paths
  /\ \A n \in Newcomers : n.id \in Ids \ {Owner} /\ n.reportTo \in Ids \cup {Root}
  /\ None \notin {"adjust", "undo", "hire"}
  /\ CallCount \in Nat \ {0} /\ HearCount \in Nat \ {0} /\ MaxFaults \in Nat

Calls == 1..CallCount
Hearings == CallCount + 1..CallCount + HearCount
Tasks == Calls \cup Hearings

VARIABLES
  opened,      \* the control plane has a workspace open
  proposed,    \* the tree a scan of positions/ finds
  applied,     \* WorkspaceState.current.organization
  order,       \* WorkspaceState.layout
  entry,       \* the undo entry
  news,        \* org.updated events on their way to the renderer
  shown,       \* the renderer's snapshot, or None
  busy,        \* orgBusy
  task,        \* the locals of every call and refresh
  misled,      \* observation: a drop on an overtaken canvas, Ctrl-Z during a call, or a refused
               \* proposal that the next mutation has carried along
  overtaken,   \* observation: what is shown was read before what was shown last
  faults       \* faults so far

plane == <<opened, proposed, applied, order, entry>>
canvas == <<shown, busy>>
observed == <<misled, overtaken, faults>>
vars == <<plane, news, canvas, task, observed>>

\* after and late are observations: the answers read earlier and still to come, and whether a
\* later one came first.
Fresh == [at |-> "new", kind |-> None, changes |-> <<>>, gesture |-> None,
          tree |-> None, after |-> {}, late |-> FALSE]

\* WorkspaceState.snapshot
Lists == Reconcile(applied, order)

\* A refresh first asks whether a workspace is open: once one is, that answer is known.
Asking == IF opened THEN "open" ELSE "asking"

\* The window is mounted, before or after the shell has opened the workspace.
Init ==
  /\ opened \in BOOLEAN
  /\ applied = Parents(FirstDirs) /\ proposed = applied
  /\ order = Reconcile(applied, <<>>)
  /\ entry = None
  /\ news = 0
  /\ shown = None /\ busy = FALSE
  /\ task = [x \in Tasks |-> IF x = CallCount + 1 THEN [Fresh EXCEPT !.at = Asking] ELSE Fresh]
  /\ misled = FALSE /\ overtaken = FALSE /\ faults = 0

\* Calls and refreshes are numbered in the order they are made.
First(x, group) == task[x].at = "new" /\ \A y \in group : y < x => task[y].at # "new"

-----------------------------------------------------------------------------
(* What a gesture sends *)

ParentShown(lists, id) == CHOOSE key \in DOMAIN lists : id \in Range(lists[key])
Shown(lists) == UNION {Range(lists[key]) : key \in DOMAIN lists}

\* isInvalidDropTarget, containsNode
Below(lists, id, ancestor) ==
  IsDescendant([i \in Shown(lists) |-> ParentShown(lists, i)], id, ancestor)

\* The order of key with id put before or after the anchor.
Without(list, id) == Kept(list, Range(list) \ {id})

IndexOf(list, id) == CHOOSE n \in DOMAIN list : list[n] = id

\* Variant: the anchor is looked up before the dragged id is taken out (refuted by
\* DropMovesTheDragged).
InsertedByOldIndex(list, id, anchor, zone) ==
  LET at == IndexOf(list, anchor) IN
  InsertAt(Without(list, id), IF zone = "before" THEN at ELSE Min({at + 1, Len(Without(list, id)) + 1}), id)

Inserted(list, id, anchor, zone) ==
  LET ids == Without(list, id)
      at == IndexOf(ids, anchor)
  IN  InsertAt(ids, IF zone = "before" THEN at ELSE at + 1, id)

\* Where a drop on a row may fall, and what the arrow keys stand for.
Zones == {"before", "after", "body"}

Gestures(lists) ==
  {[id |-> i, zone |-> z, anchor |-> a] :
     i \in Shown(lists) \ {Owner}, z \in Zones, a \in Shown(lists) \cup {Root}}

\* movePosition: nothing is sent for the owner, the same parent or a cycle.
Moves(lists, g) ==
  IF ParentShown(lists, g.id) = g.anchor THEN {}
  ELSE {<<[op |-> "move", id |-> g.id, reportTo |-> g.anchor]>>}

\* reorderPosition: the list alone, or the move and the list.
Reorder(lists, g) ==
  LET parent == ParentShown(lists, g.anchor)
      list == Inserted(ListAt(lists, parent), g.id, g.anchor, g.zone)
      reorder == [op |-> "reorder", parentId |-> parent, order |-> list]
  IN  IF ParentShown(lists, g.id) = parent
      THEN IF list = ListAt(lists, parent) THEN {} ELSE {<<reorder>>}
      ELSE {<<[op |-> "move", id |-> g.id, reportTo |-> parent], reorder>>}

ManifestsOf(lists, g) ==
  IF g.zone = "body" THEN Moves(lists, g)
  ELSE IF g.anchor = Root THEN {} ELSE Reorder(lists, g)

-----------------------------------------------------------------------------
(* The operator *)

Sends(c, kind, changes, gesture) ==
  task' = [task EXCEPT ![c] = [Fresh EXCEPT !.at = "sent", !.kind = kind, !.changes = changes, !.gesture = gesture]]

\* A drop on a row or an arrow key, not while a call is under way.
Drop(c) ==
  /\ First(c, Calls) /\ shown # None /\ ~ busy
  /\ \E g \in Gestures(shown) :
       /\ g.anchor # Root => ~ Below(shown, g.anchor, g.id)
       /\ \E changes \in ManifestsOf(shown, g) : Sends(c, "adjust", changes, g)
  /\ busy' = TRUE
  /\ misled' = (misled \/ overtaken)
  /\ UNCHANGED <<plane, news, shown, overtaken, faults>>

\* dismissPosition
Dismiss(c) ==
  /\ First(c, Calls) /\ shown # None /\ ~ busy
  /\ \E id \in Shown(shown) \ {Owner} :
       Sends(c, "adjust", <<[op |-> "delete", id |-> id]>>, None)
  /\ busy' = TRUE
  /\ UNCHANGED <<plane, news, shown, observed>>

\* The button waits for the call under way, Ctrl-Z does not.
Undo(c) ==
  /\ First(c, Calls) /\ shown # None
  /\ Sends(c, "undo", <<>>, None)
  /\ misled' = (misled \/ busy)
  /\ busy' = TRUE
  /\ UNCHANGED <<plane, news, shown, overtaken, faults>>

\* The drawer is filled in and submitted while other calls are under way.
Hire(c) ==
  /\ First(c, Calls) /\ shown # None
  /\ \E n \in Newcomers : Sends(c, "hire", n, None)
  /\ UNCHANGED <<plane, news, canvas, observed>>

-----------------------------------------------------------------------------
(* The control plane *)

\* An undo with moves publishes for the adjustment it replays and for itself.
Published(times) == news' = news + times /\ UNCHANGED opened

Structural(changes) == Kept(changes, {c \in Range(changes) : c.op # "reorder"})

Answered(c, ok) == task' = [task EXCEPT ![c].at = IF ok THEN "ok" ELSE "refused"]

\* A mutation is refused, and with an engine that does not agree its proposal stays.
Refuses(c, tree) ==
  /\ Answered(c, FALSE)
  /\ proposed' = tree
  /\ UNCHANGED <<opened, applied, order, entry, news, misled>>

\* It is applied; list is the order of the layout, undo the entry it leaves.
Applies(c, tree, list, undo) ==
  /\ Answered(c, TRUE)
  /\ proposed' = tree /\ applied' = tree /\ order' = list /\ entry' = undo
  /\ misled' = (misled \/ proposed # applied)
  /\ Published(IF task[c].kind = "undo" THEN 2 ELSE 1)

\* Only the layout is written: no engine is asked, and a proposal left behind stays one.
Orders(c, list, undo) ==
  /\ Answered(c, TRUE)
  /\ order' = list /\ entry' = undo
  /\ UNCHANGED <<proposed, applied, misled>>
  /\ Published(1)

InverseMoves(changes) ==
  LET moves == Structural(changes) IN
  [n \in DOMAIN moves |->
     [op |-> "move", id |-> moves[n].id,
      reportTo |-> IF moves[n].id \in DOMAIN applied THEN applied[moves[n].id] ELSE Root]]

Adjust(c) ==
  LET changes == task[c].changes
      tree == Trees(proposed, changes, Owner)[Len(changes)]
      undo == IF \E n \in DOMAIN changes : changes[n].op = "delete" THEN None
              ELSE [inverse |-> InverseMoves(changes), order |-> order]
  IN
  /\ task[c].kind = "adjust"
  /\ \/ ~ Valid(proposed, changes, Owner) /\ Refuses(c, proposed)
     \/ /\ Valid(proposed, changes, Owner)
        /\ IF Structural(changes) = <<>>
           THEN Orders(c, Reordered(order, changes), undo)
           ELSE \/ Refuses(c, tree)
                \/ Applies(c, tree, Reordered(Reconcile(tree, order), changes), undo)

Undoes(c) ==
  /\ task[c].kind = "undo"
  /\ \/ entry = None /\ Refuses(c, proposed)
     \/ entry # None /\ entry.inverse = <<>> /\ Orders(c, entry.order, None)
     \/ /\ entry # None /\ entry.inverse # <<>>
        /\ LET tree == Trees(proposed, entry.inverse, Owner)[Len(entry.inverse)] IN
           \/ ~ Valid(proposed, entry.inverse, Owner) /\ Refuses(c, proposed)
           \/ Valid(proposed, entry.inverse, Owner) /\ (Refuses(c, tree) \/ Applies(c, tree, entry.order, None))

\* A hire that the engine refuses is taken back.
Hires(c) ==
  LET n == task[c].changes
      parent == IF n.reportTo = Root THEN Owner ELSE n.reportTo
      tree == [id \in DOMAIN proposed \cup {n.id} |-> IF id = n.id THEN parent ELSE proposed[id]]
      list == Reconcile(tree, order)
      key == n.reportTo
  IN
  /\ task[c].kind = "hire"
  /\ \/ Refuses(c, proposed)
     \/ /\ n.id \notin DOMAIN applied \cup DOMAIN proposed
        /\ Known(applied, n.reportTo) /\ parent \in DOMAIN proposed
        /\ Depth(tree, n.id) <= MaxDepth
        /\ Applies(c, tree,
                   IF n.id \in Range(ListAt(list, key)) THEN list
                   ELSE [k \in DOMAIN list \cup {key} |->
                           IF k = key THEN Append(ListAt(list, key), n.id) ELSE list[k]],
                   entry)

Serve(c) ==
  /\ task[c].at = "sent"
  /\ Adjust(c) \/ Undoes(c) \/ Hires(c)
  /\ UNCHANGED <<canvas, overtaken, faults>>

\* The shell, or openWorkspace of the renderer.
Open ==
  /\ ~ opened
  /\ opened' = TRUE
  /\ news' = news + 1
  /\ UNCHANGED <<proposed, applied, order, entry, canvas, task, observed>>

-----------------------------------------------------------------------------
(* The renderer: answers and refreshes *)

Over(x) == IF x \in Calls THEN [Fresh EXCEPT !.at = "done"] ELSE Fresh

Releases(x) == busy' = (busy /\ task[x].kind \notin {"adjust", "undo"})

\* The call ends; only hires leave the canvas as it is.
Ends(x) == task' = [task EXCEPT ![x] = Over(x)] /\ Releases(x)

Answer(c) ==
  /\ \/ task[c].at = "refused" /\ Ends(c)
     \/ /\ task[c].at = "ok"
        /\ task' = [task EXCEPT ![c].at = "open", ![c].gesture = None, ![c].changes = <<>>]
        /\ UNCHANGED busy
  /\ UNCHANGED <<plane, news, shown, observed>>

Fault == faults < MaxFaults /\ faults' = faults + 1 /\ UNCHANGED <<misled, overtaken>>

\* The answer does not arrive: the operator is told that the outcome is not known.
AnswerLost(c) ==
  /\ task[c].at \in {"ok", "refused"}
  /\ Ends(c)
  /\ Fault
  /\ UNCHANGED <<plane, news, shown>>

\* Variant: a refresh under way is taken for an answer to later events (refuted by
\* CanvasCatchesUp).
HearsOnce(x) ==
  /\ task' = IF \E y \in Tasks : task[y].at \in {"asking", "open", "read", "cards"} THEN task
             ELSE [task EXCEPT ![x] = [Fresh EXCEPT !.at = Asking]]
  /\ UNCHANGED busy

Hears(x) ==
  /\ task' = [task EXCEPT ![x] = [Fresh EXCEPT !.at = Asking]]
  /\ UNCHANGED busy

\* org.updated arrives: another refresh begins, whatever is under way.
Hear(x) ==
  /\ news > 0
  /\ First(x, Hearings)
  /\ news' = news - 1
  /\ Hears(x)
  /\ UNCHANGED <<plane, shown, observed>>

\* The event stream was down: nothing is read again when it is back.
EventLost ==
  /\ news > 0
  /\ news' = news - 1
  /\ Fault
  /\ UNCHANGED <<plane, canvas, task>>

\* The answer to the last read of x is on its way.
Reads(x, tree) ==
  task' = [task EXCEPT ![x].at = "read", ![x].tree = tree,
                       ![x].after = {y \in Tasks : task[y].at = "read"}]

\* refresh asks whether a workspace is open and, beside it, for the health of the engines.
ReadWorkspace(x) ==
  /\ task[x].at = "asking"
  /\ IF opened THEN task' = [task EXCEPT ![x].at = "open"] ELSE Reads(x, None)
  /\ UNCHANGED <<plane, news, canvas, observed>>

\* Both are there, and the workspace is open: the tree is asked for.
ReadTree(x) ==
  /\ task[x].at = "open"
  /\ Reads(x, Lists)
  /\ UNCHANGED <<plane, news, canvas, observed>>

\* The answer arrives and is shown, whatever was shown meanwhile; with no workspace open
\* everything is cleared.
ShowTree(x) ==
  LET next == IF task[x].kind \in {"adjust", "undo"} THEN [task[x] EXCEPT !.at = "cards", !.tree = None]
              ELSE Over(x)
  IN
  /\ task[x].at = "read"
  /\ shown' = task[x].tree
  /\ overtaken' = task[x].late
  /\ task' = [y \in Tasks |->
                IF y = x THEN [next EXCEPT !.after = {}, !.late = FALSE]
                ELSE [task[y] EXCEPT !.after = @ \ {x}, !.late = @ \/ y \in task[x].after]]
  /\ IF next.at = "cards" THEN UNCHANGED busy ELSE Releases(x)
  /\ UNCHANGED <<plane, news, misled, faults>>

\* Every position's card, the backups and the reports: then the call is over (nothing waits for
\* those of a hire or of an event).
ReadCards(x) ==
  /\ task[x].at = "cards"
  /\ Ends(x)
  /\ UNCHANGED <<plane, news, shown, observed>>

\* One of the reads rejects.
RefreshFails(x) ==
  /\ task[x].at \in {"asking", "open", "read", "cards"}
  /\ Ends(x)
  /\ Fault
  /\ UNCHANGED <<plane, news, shown>>

Refresh(x) == ReadWorkspace(x) \/ ReadTree(x) \/ ShowTree(x) \/ ReadCards(x)

Next ==
  \/ \E c \in Calls : Drop(c) \/ Dismiss(c) \/ Undo(c) \/ Hire(c) \/ Serve(c) \/ Answer(c) \/ AnswerLost(c)
  \/ \E x \in Hearings : Hear(x)
  \/ \E x \in Tasks : Refresh(x) \/ RefreshFails(x)
  \/ Open \/ EventLost

Spec == Init /\ [][Next]_vars

-----------------------------------------------------------------------------
(* Properties *)

\* Where a gesture puts what it drags: beside the anchor, or at the end of its children. After it
\* come at most children that the overlay does not list: reconcileLayout appends all of those in
\* alphabetical order (somebody hired since the overlay that an undo has put back).
Placed(g, lists, overlay) ==
  LET parent == ParentShown(lists, g.id)
      list == ListAt(lists, parent)
      at == IndexOf(list, g.id)
  IN  CASE g.zone = "before" -> at < Len(list) /\ list[at + 1] = g.anchor
        [] g.zone = "after"  -> at > 1 /\ list[at - 1] = g.anchor
        [] g.zone = "body"   -> /\ parent = g.anchor
                                /\ \A n \in at + 1..Len(list) : list[n] \notin Range(ListAt(overlay, parent))

(***************************************************************************)
(* A drop that is answered with 200 moves the dragged position to where    *)
(* the canvas showed it would fall (org-tree.tsx:314 buildInsertion) and   *)
(* nothing else: every other list and the order of all others stay, also   *)
(* when the tree has changed since it was read.  Left out are a tree that  *)
(* still has the proposal of a refused adjustment, which the next mutation *)
(* carries along (api-contract-v0.md 2.5), and all that comes after one    *)
(* has been carried along: a hire carries it too, and then the tree that   *)
(* is shown, the overlay and the undo entry are about another one.  So are *)
(* a canvas that shows what was overtaken, and one that was released too   *)
(* early: by Ctrl-Z during a call or by a lost answer.                     *)
(***************************************************************************)
DropMovesTheDragged ==
  [][\A c \in Calls :
       LET g == task[c].gesture IN
       task[c].at = "sent" /\ task'[c].at = "ok" /\ g # None
         /\ proposed = applied /\ ~ misled /\ faults = 0 =>
           /\ Placed(g, Lists', order)
           /\ \A key \in DOMAIN Lists \cup DOMAIN Lists' :
                Without(ListAt(Lists', key), g.id) = Without(ListAt(Lists, key), g.id)]_vars

\* No event and no refresh is on its way, and no call that changes the tree.
Quiet ==
  /\ news = 0
  /\ \A x \in Tasks : task[x].at \notin {"sent", "ok", "asking", "open", "read"}

(***************************************************************************)
(* App.tsx:79, "org.updated drives refresh; the UI never polls": however   *)
(* calls, events and refreshes overlapped, when all is quiet again the     *)
(* canvas shows the tree of the control plane - unless an event or an      *)
(* answer was lost, or answers overtook each other: App.tsx:217 shows each *)
(* as it comes, also one that was read before what is on the screen (and   *)
(* the answer "no workspace is open" waits for the health of the engines). *)
(***************************************************************************)
CanvasCatchesUp ==
  Quiet /\ opened /\ faults = 0 /\ ~ overtaken => shown = Lists
=============================================================================

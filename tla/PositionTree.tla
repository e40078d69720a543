---------------------------- MODULE PositionTree ----------------------------
(***************************************************************************)
(* The pure half of the organization: position directories and what a scan *)
(* makes of them, the validation of a change manifest against the scanned  *)
(* tree, and the overlay that orders siblings.  From                       *)
(* apps/server/src/org/apply.ts and org/layout.ts.                         *)
(*                                                                         *)
(* A directory is its path below positions/, a sequence of ids.  A tree is *)
(* the function `parents` from ids to the parent's id, or Root for null.   *)
(***************************************************************************)
EXTENDS Naturals, Sequences, FiniteSets, Functions

CONSTANTS
  Root,      \* reportTo null; also ORG_LAYOUT_ROOT_KEY, which is no position id
  Alphabet,  \* the position ids, in the order of localeCompare
  MaxDepth   \* MAX_POSITION_DEPTH

Ids == Range(Alphabet)

ASSUME TreeAssumption ==
  /\ Alphabet \in Seq(Ids) /\ IsInjective(Alphabet)
  /\ Root \notin Ids
  /\ MaxDepth \in Nat \ {0}

-----------------------------------------------------------------------------
(* Directories *)

Paths == Seq(Ids) \ {<<>>}

IdOf(d) == d[Len(d)]

ParentOf(d) == IF Len(d) = 1 THEN Root ELSE d[Len(d) - 1]

\* d is dir or lies below it.
Within(d, dir) == Len(dir) <= Len(d) /\ SubSeq(d, 1, Len(dir)) = dir

\* A scan descends into positions only: the directories above a position are positions.
Closed(dirs) == \A d \in dirs : \A n \in 1..Len(d) : SubSeq(d, 1, n) \in dirs

\* What a scan refuses: one id in two places, or a tree that is too deep.
ScanRefuses(dirs) ==
  \/ \E d, e \in dirs : d # e /\ IdOf(d) = IdOf(e)
  \/ \E d \in dirs : Len(d) > MaxDepth

ScannedIds(dirs) == {IdOf(d) : d \in dirs}

DirOf(dirs, id) == CHOOSE d \in dirs : IdOf(d) = id

Parents(dirs) == [id \in ScannedIds(dirs) |-> ParentOf(DirOf(dirs, id))]

\* Where a position that reports to parent belongs.
PlaceUnder(dirs, parent, id) ==
  IF parent \in ScannedIds(dirs) THEN Append(DirOf(dirs, parent), id) ELSE <<id>>

\* A rename takes the whole directory along.
Subtree(dirs, source) == {d \in dirs : Within(d, source)}

Rest(d, source) == SubSeq(d, Len(source) + 1, Len(d))

Renamed(dirs, source, destination) ==
  (dirs \ Subtree(dirs, source))
    \cup {destination \o Rest(d, source) : d \in Subtree(dirs, source)}

-----------------------------------------------------------------------------
(* Validation of a manifest *)

Children(parents, parent) == {id \in DOMAIN parents : parents[id] = parent}

\* The positions met on the walk from id towards the root, id included; a cycle ends it too.
Chain(parents, id) ==
  LET met[n \in 0..Cardinality(DOMAIN parents)] ==
        IF n = 0 THEN {id} \cap DOMAIN parents
        ELSE met[n - 1] \cup ({parents[i] : i \in met[n - 1]} \cap DOMAIN parents)
  IN met[Cardinality(DOMAIN parents)]

IsDescendant(parents, candidate, ancestor) == ancestor \in Chain(parents, candidate)

Depth(parents, id) == Cardinality(Chain(parents, id))

Known(parents, parent) == parent = Root \/ parent \in DOMAIN parents

Permits(parents, change, owner) ==
  CASE change.op = "move" ->
         /\ change.id \in DOMAIN parents
         /\ Known(parents, change.reportTo)
         /\ ~IsDescendant(parents, change.reportTo, change.id)
    [] change.op = "delete" -> change.id \in DOMAIN parents \ {owner}
    [] change.op = "reorder" -> TRUE

\* Variant: a delete leaves the subordinates (refuted by MovesAreExact).
EffectOfLeaf(parents, change) ==
  CASE change.op = "move" ->
         [id \in DOMAIN parents |-> IF id = change.id THEN change.reportTo ELSE parents[id]]
    [] change.op = "delete" -> [id \in DOMAIN parents \ {change.id} |-> parents[id]]
    [] change.op = "reorder" -> parents

Effect(parents, change) ==
  CASE change.op = "move" ->
         [id \in DOMAIN parents |-> IF id = change.id THEN change.reportTo ELSE parents[id]]
    [] change.op = "delete" ->
         [id \in {i \in DOMAIN parents : ~IsDescendant(parents, i, change.id)} |-> parents[id]]
    [] change.op = "reorder" -> parents

\* trees[n] is the tree after the first n changes.
Trees(parents, changes, owner) ==
  LET trees[n \in 0..Len(changes)] ==
        IF n = 0 THEN parents ELSE Effect(trees[n - 1], changes[n])
  IN trees

Reorders(changes) == {n \in DOMAIN changes : changes[n].op = "reorder"}

\* validateProposalChanges: every structural change against the tree its predecessors leave,
\* the reorders and the depth against the final tree.
Valid(parents, changes, owner) ==
  LET trees == Trees(parents, changes, owner)
      final == trees[Len(changes)]
  IN
  /\ \A n \in 1..Len(changes) : Permits(trees[n - 1], changes[n], owner)
  /\ \A n \in Reorders(changes) :
       /\ \A m \in Reorders(changes) : changes[m].parentId = changes[n].parentId => m = n
       /\ Known(final, changes[n].parentId)
       /\ Range(changes[n].order) = Children(final, changes[n].parentId)
       /\ IsInjective(changes[n].order)
  /\ \A id \in DOMAIN final : Depth(final, id) <= MaxDepth

-----------------------------------------------------------------------------
(* The overlay that orders siblings *)

Keys(parents) == Range(parents)

\* The members of a list that are in K, in their order.
Kept(list, K) ==
  LET kept[n \in 0..Len(list)] ==
        IF n = 0 THEN << >>
        ELSE IF list[n] \in K THEN Append(kept[n - 1], list[n]) ELSE kept[n - 1]
  IN  kept[Len(list)]

\* The listed children in their order, then the others in alphabetical order.
Ordered(list, children) ==
  Kept(list, children) \o Kept(Alphabet, children \ Range(list))

ListAt(order, key) == IF key \in DOMAIN order THEN order[key] ELSE << >>

\* reconcileLayout: one list for every parent, no id that does not exist.
Reconcile(parents, order) ==
  [key \in Keys(parents) |-> Ordered(ListAt(order, key), Children(parents, key))]

\* A later list for the same key wins, as in applyReordersToLayout.
Reordered(order, changes) ==
  LET new == {changes[n].parentId : n \in Reorders(changes)}
      list(key) == changes[CHOOSE n \in Reorders(changes) : changes[n].parentId = key].order
  IN [key \in DOMAIN order \cup new |-> IF key \in new THEN list(key) ELSE order[key]]
=============================================================================

---------------------------- MODULE MCOrgMutation ----------------------------
(***************************************************************************)
(* A small organization, and the workspace's assets and documents, while   *)
(* another workspace is opened; each by itself, in one run.                *)
(***************************************************************************)
EXTENDS OrgMutation, AssetStore, TLC

CONSTANTS boss, a, b, w1, w2, f1, f2

VARIABLE part      \* "positions" or "assets"

TheIds == <<a, b, boss>>
TheOwner == [w \in Workspaces |-> IF w = w1 THEN boss ELSE a]
TheDirs == [w \in Workspaces |-> IF w = w1 THEN {<<boss>>, <<boss, a>>, <<boss, a, b>>} ELSE {<<a>>}]

Mv(id, p) == [op |-> "move", id |-> id, reportTo |-> p]
De(id) == [op |-> "delete", id |-> id]
Re(p, s) == [op |-> "reorder", parentId |-> p, order |-> s]

TheManifests == {<<Mv(b, boss), Mv(a, b)>>, <<De(a)>>, <<Mv(a, Root), Re(Root, <<boss, a>>)>>,
   <<Mv(b, boss), Re(boss, <<b, a>>)>>, <<Re(boss, <<a>>)>>}
TheHires == {[id |-> b, reportTo |-> p] : p \in {Root, boss}}
TheRestores == {a}

\* Bound: three mutations under one opening, two when a workspace is opened again.
TwoAfterReopening == opens = MaxOpens => \E r \in Requests : req[r].at = "new"

\* AssetsAreKept says nothing of an asset that went astray: what follows is not explored.
NothingMisplaced == misplaced = {}

\* The two workspaces of AssetStore begin alike.
TheFolders == {f1, f2}

MCVars == <<vars, assetVars, part>>

MCInit == Init /\ AssetInit /\ current = f1 /\ part \in {"positions", "assets"}

MCNext ==
  /\ \/ part = "positions" /\ Next /\ UNCHANGED assetVars
     \/ part = "assets" /\ AssetNext /\ UNCHANGED vars
  /\ UNCHANGED part

MCSpec == MCInit /\ [][MCNext]_MCVars

Symmetry == Permutations(Requests)
=============================================================================

---------------------------- MODULE MCOrgCanvas ----------------------------
(***************************************************************************)
(* The organization on the screen, in one run: either two siblings below   *)
(* the owner, either of which may be dropped on the other, and one that is *)
(* hired below them; or the drawer that hires; or the conversation with    *)
(* two positions, one of which has a session already; each by itself.      *)
(***************************************************************************)
EXTENDS OrgCanvas, HireFlow, SessionMount, TLC

CONSTANTS boss, a, b, d, r1

VARIABLE part      \* "canvas", "drawer" or "conversation"

TheIds == <<a, b, boss, d>>
TheDirs == {<<boss>>, <<boss, a>>, <<boss, b>>}
TheNewcomers == {[id |-> d, reportTo |-> b]}

TheChains == [p \in Seats |-> IF p = a THEN <<>> ELSE <<r1>>]

MCVars == <<vars, hireVars, mountVars, part>>

MCInit ==
  /\ Init /\ HireInit /\ MountInit
  /\ part \in {"canvas", "drawer", "conversation"}
  /\ part # "canvas" => opened

MCNext ==
  /\ \/ part = "canvas" /\ Next /\ UNCHANGED <<hireVars, mountVars>>
     \/ part = "drawer" /\ HireNext /\ UNCHANGED <<vars, mountVars>>
     \/ part = "conversation" /\ MountNext /\ UNCHANGED <<vars, hireVars>>
  /\ UNCHANGED part

MCSpec == MCInit /\ [][MCNext]_MCVars

\* After a fault both properties of the canvas hold by what they say: its successors are not
\* explored.
BeforeFaults == faults = 0

\* Sessions that do not exist yet differ in nothing.
Symmetry == Permutations(Rooms \ {r1})
=============================================================================

---------------------------- MODULE DesktopShell ----------------------------
(***************************************************************************)
(* The shell from launch to quit (apps/desktop/src/main.js): the control   *)
(* plane it starts and waits for, the workspace it opens by itself, the    *)
(* one the operator picks, and the record of it that the next launch reads *)
(* (last-workspace.cjs).                                                   *)
(*                                                                         *)
(* A directory is a workspace as long as its workspace.json is there, and  *)
(* the control plane may still refuse it.  The shell kills only a control  *)
(* plane that has announced itself in time; one that has not is left       *)
(* behind.  Paths cross to WSL and back one to one, so they are not        *)
(* distinguished.                                                          *)
(***************************************************************************)
EXTENDS Naturals

CONSTANTS
  Dirs,         \* directories the operator may pick
  Demo,         \* the copy of the example, or the example itself
  MaxStarts,    \* bound of the model: launches
  MaxPicks,     \* bound of the model: directories picked, over all launches
  MaxTroubles,  \* bound of the model: lost answers, failed writes, exits, disappearing directories
  Unset

Starts == 1..MaxStarts
Picks == 1..MaxPicks

VARIABLES
  shell,     \* its launch, where it is, and ORG_WORKBENCH_DEFAULT_WORKSPACE
  child,     \* the control plane of each launch
  held,      \* controlPlane: the launch whose child it is, or Unset
  opened,    \* the workspace the control plane has open
  shown,     \* whether the window shows a workspace as open
  present,   \* the directories with a workspace.json
  recorded,  \* last-workspace.json
  notice,    \* pendingFallbackNotice, and then the banner of the window
  pick,      \* every directory picked: where its opening is
  astray,    \* observation: an answer or a write was lost, or openings overlapped, in this launch
  troubles   \* troubles so far

shellVars == <<shell, child, held, opened, shown, present, recorded, notice, pick, astray, troubles>>

Overrides == {Unset, Demo}

Launched(l, env) == [launch |-> l, at |-> "waiting", env |-> env]

ShellInit ==
  /\ \E env \in Overrides : shell = Launched(1, env)
  /\ child = [l \in Starts |-> IF l = 1 THEN "booting" ELSE "none"]
  /\ held = Unset /\ opened = Unset /\ shown = FALSE
  /\ present = Dirs \cup {Demo}
  /\ recorded \in Dirs \cup {Unset}
  /\ notice = Unset
  /\ pick = [n \in Picks |-> [at |-> "new", dir |-> Unset]]
  /\ astray = FALSE /\ troubles = 0

Trouble == troubles < MaxTroubles /\ troubles' = troubles + 1

-----------------------------------------------------------------------------
(* startControlPlane *)

\* The ready line arrives in time.
Announce ==
  LET l == shell.launch IN
  /\ shell.at = "waiting" /\ child[l] = "booting"
  /\ child' = [child EXCEPT ![l] = "up"]
  /\ held' = l
  /\ shell' = [shell EXCEPT !.at = "last"]
  /\ UNCHANGED <<opened, shown, present, recorded, notice, pick, astray, troubles>>

\* 15 seconds pass, and the child goes on by itself; or it exits.  The window opens all the same.
LaunchFails ==
  LET l == shell.launch IN
  /\ shell.at = "waiting" /\ Trouble
  /\ \E now \in {"booting", "gone"} : child' = [child EXCEPT ![l] = now]
  /\ shell' = [shell EXCEPT !.at = "running"]
  /\ UNCHANGED <<held, opened, shown, present, recorded, notice, pick, astray>>

\* One that was given up on is ready after all; nobody listens: it is a stray.
AnnounceLate ==
  /\ \E l \in Starts :
       /\ child[l] = "booting" /\ (l # shell.launch \/ shell.at # "waiting")
       /\ child' = [child EXCEPT ![l] = "stray"]
  /\ UNCHANGED <<shell, held, opened, shown, present, recorded, notice, pick, astray, troubles>>

\* After it was ready: controlPlane keeps naming it, and nothing starts another.
ChildExits ==
  /\ held # Unset /\ child[held] = "up" /\ Trouble
  /\ child' = [child EXCEPT ![held] = "gone"]
  /\ astray' = TRUE
  /\ UNCHANGED <<shell, held, opened, shown, present, recorded, notice, pick>>

-----------------------------------------------------------------------------
(* openDefaultWorkspace *)

Reachable == held # Unset /\ child[held] = "up"

\* POST /workspace/open: taken or refused, and the answer may be lost.
Asks(dir, ok, told) ==
  /\ Reachable \/ ~ ok
  /\ IF told THEN UNCHANGED troubles ELSE Trouble
  /\ opened' = IF ok THEN dir ELSE opened
  /\ astray' = (astray \/ ~ told)

Boots(at) == shell' = [shell EXCEPT !.at = at]

\* The operator's own choice of a default: no record, no notice, and nothing instead of it.
OpenOverride ==
  /\ shell.at = "last" /\ shell.env # Unset
  /\ \/ shell.env \in present /\ \E ok, told \in BOOLEAN : Asks(shell.env, ok, told)
     \/ shell.env \notin present /\ UNCHANGED <<opened, astray, troubles>>
  /\ Boots("running")
  /\ UNCHANGED <<child, held, shown, present, recorded, notice, pick>>

\* Variant: the notice is kept for a record whose directory is gone (refuted by ReopensOrTells).
NoticeOfMissing(path) == IF path \in present THEN Unset ELSE path

NoticeOf(path) == path

\* The record is tried first; whatever goes wrong with it is told.
OpenLast ==
  /\ shell.at = "last" /\ shell.env = Unset
  /\ IF recorded = Unset
     THEN Boots("demo") /\ UNCHANGED <<opened, notice, astray, troubles>>
     ELSE \/ /\ recorded \in present
             /\ \E ok, told \in BOOLEAN :
                  /\ Asks(recorded, ok, told)
                  /\ IF ok /\ told THEN Boots("running") /\ UNCHANGED notice
                     ELSE Boots("demo") /\ notice' = NoticeOf(recorded)
          \/ /\ recorded \notin present
             /\ Boots("demo") /\ notice' = NoticeOf(recorded)
             /\ UNCHANGED <<opened, astray, troubles>>
  /\ UNCHANGED <<child, held, shown, present, recorded, pick>>

\* Copied from the example if it is not there.
OpenDemo ==
  /\ shell.at = "demo"
  /\ \E ok, told \in BOOLEAN : Asks(Demo, ok, told)
  /\ Boots("running")
  /\ UNCHANGED <<child, held, shown, present, recorded, notice, pick>>

-----------------------------------------------------------------------------
(* The window *)

\* What the window knows of GET /workspace.
Show ==
  /\ shell.at = "running" /\ Reachable
  /\ shown # (opened # Unset)
  /\ shown' = (opened # Unset)
  /\ UNCHANGED <<shell, child, held, opened, present, recorded, notice, pick, astray, troubles>>

Unpicked(n) == pick[n].at = "new" /\ \A m \in Picks : m < n => pick[m].at # "new"
UnderWay == \E n \in Picks : pick[n].at \in {"sent", "taken", "refused"}

\* openWorkspace: the button is there as long as no workspace is shown as open, also while a
\* directory picked before is being opened.
Pick(n) ==
  /\ shell.at = "running" /\ ~ shown /\ Unpicked(n)
  /\ \E dir \in Dirs : pick' = [pick EXCEPT ![n] = [at |-> "sent", dir |-> dir]]
  /\ astray' = (astray \/ UnderWay)
  /\ UNCHANGED <<shell, child, held, opened, shown, present, recorded, notice, troubles>>

\* The control plane opens it, or refuses.
Serve(n) ==
  /\ pick[n].at = "sent"
  /\ \/ /\ Reachable /\ pick[n].dir \in present
        /\ opened' = pick[n].dir /\ pick' = [pick EXCEPT ![n].at = "taken"]
     \/ pick' = [pick EXCEPT ![n].at = "refused"] /\ UNCHANGED opened
  /\ UNCHANGED <<shell, child, held, shown, present, recorded, notice, astray, troubles>>

\* Variant: what is picked is recorded whatever comes of it (refuted by ReopensOrTells).
RecordsAll(n) == recorded' = pick[n].dir

\* Only an answer with 200 is recorded.
Records(n) == recorded' = IF pick[n].at = "taken" THEN pick[n].dir ELSE recorded

PickEnds(n) ==
  /\ shell.at = "running" /\ pick[n].at \in {"taken", "refused"}
  /\ pick' = [pick EXCEPT ![n].at = "done"]
  /\ \/ Records(n) /\ UNCHANGED <<astray, troubles>>
     \/ UNCHANGED recorded /\ astray' = TRUE /\ Trouble      \* the answer is lost, or the write fails
  /\ UNCHANGED <<shell, child, held, opened, shown, present, notice>>

\* The banner is closed.
Dismiss ==
  /\ notice # Unset /\ shell.at = "running"
  /\ notice' = Unset
  /\ astray' = TRUE
  /\ UNCHANGED <<shell, child, held, opened, shown, present, recorded, pick, troubles>>

\* A workspace is moved away or deleted.
Vanish ==
  /\ Trouble
  /\ \E dir \in Dirs \cap present : present' = present \ {dir}
  /\ UNCHANGED <<shell, child, held, opened, shown, recorded, notice, pick, astray>>

-----------------------------------------------------------------------------
(* The end of a launch, and the next *)

Over == [n \in Picks |-> IF pick[n].at = "new" THEN pick[n] ELSE [pick[n] EXCEPT !.at = "done"]]

\* What has not announced itself is not known to be there.
Kills(l) == child' = IF l = Unset THEN child ELSE [child EXCEPT ![l] = "gone"]

\* At any time: also before the control plane is ready.
QuitShell ==
  /\ shell.at # "gone"
  /\ Boots("gone")
  /\ Kills(held)
  /\ held' = Unset /\ opened' = Unset /\ shown' = FALSE /\ notice' = Unset
  /\ pick' = Over
  /\ UNCHANGED <<present, recorded, astray, troubles>>

Start ==
  /\ shell.at = "gone" /\ shell.launch < MaxStarts
  /\ \E env \in Overrides : shell' = Launched(shell.launch + 1, env)
  /\ child' = [child EXCEPT ![shell.launch + 1] = "booting"]
  /\ astray' = FALSE
  /\ UNCHANGED <<held, opened, shown, present, recorded, notice, pick, troubles>>

ShellNext ==
  \/ Announce \/ LaunchFails \/ AnnounceLate \/ ChildExits
  \/ OpenOverride \/ OpenLast \/ OpenDemo
  \/ Show \/ \E n \in Picks : Pick(n) \/ Serve(n) \/ PickEnds(n)
  \/ Dismiss \/ Vanish \/ QuitShell \/ Start

ShellSpec == ShellInit /\ [][ShellNext]_shellVars

-----------------------------------------------------------------------------
(* Properties *)

(***************************************************************************)
(* main.js:251 and :312 (the notice): once a launch has come up and no     *)
(* directory is being opened, the operator works in the workspace that the *)
(* next launch will open, or has been told which one could not be opened - *)
(* through refusals, directories that are gone, launches that fail and     *)
(* further launches.  Left out are a launch whose default is set in the    *)
(* environment, which ignores the record, and one in which an answer or    *)
(* the write was lost, the banner was closed or openings overlapped:       *)
(* the last to be answered is recorded, the last to be read is open.       *)
(***************************************************************************)
ReopensOrTells ==
  shell.at = "running" /\ held # Unset /\ ~ UnderWay /\ ~ astray
    /\ recorded # Unset /\ shell.env = Unset =>
      opened = recorded \/ notice = recorded
=============================================================================

------------------------------ MODULE AppUpdate ------------------------------
(***************************************************************************)
(* The free macOS update channel: the service of the running app           *)
(* (apps/desktop/src/macos-github-updater.cjs, started by updater.cjs and  *)
(* driven by main.js), and the detached helper that replaces the bundle    *)
(* once the app has exited (macos-update-helper.cjs).                      *)
(*                                                                         *)
(* A check started by the timer goes on to download what it finds; one     *)
(* started in the settings does not.  Neither is cancelled by anything,    *)
(* so several overlap.  Versions are numbers in the order compareVersions  *)
(* gives them; a manifest that verifies is its version.  A download is     *)
(* named by the call that made it, and so are its directory and the helper *)
(* that is handed it.                                                      *)
(***************************************************************************)
EXTENDS Integers, FiniteSets

CONSTANTS
  MaxCalls,     \* bound: calls of check and download, over all launches
  MaxRelease,   \* bound: the latest version GitHub will offer; 1 is installed at first
  MaxLaunches,  \* bound: launches of the app
  MaxFaults,    \* bound: failed requests, damaged downloads, failed commands, crashes
  None

ASSUME AppUpdateAssumption ==
  /\ MaxCalls \in Nat /\ MaxRelease \in Nat \ {0} /\ MaxLaunches \in Nat \ {0} /\ MaxFaults \in Nat
  /\ None \notin Nat

\* Calls are numbered as they are made.
Calls == 1..MaxCalls

VARIABLES
  published,  \* the latest release
  call,       \* where each call is, and the release it is about
  service,    \* the service: state, latest, downloaded (its manifest beside it), installing
  zip,        \* the archive in each download's directory, None where there is none
  request,    \* the manifest in each request.json
  app,        \* the app's process: running, closing or exited, its launch and version
  helper,     \* where each helper is, the launch that is its parent, the manifest it has read
  target,     \* the bundle at the app's path
  backup,     \* the bundle each helper has moved aside
  faults      \* faults so far

process == <<call, service, app>>
temporary == <<zip, request>>
bundle == <<target, backup>>
vars == <<published, call, service, zip, request, app, helper, target, backup, faults>>

Versions == 1..MaxRelease
Idle == [pc |-> "idle", release |-> None, automatic |-> FALSE]
Fresh == [state |-> "idle", latest |-> None, downloaded |-> None, manifest |-> None,
          installing |-> FALSE]

Init ==
  /\ published = 1 /\ call = [c \in Calls |-> Idle] /\ service = Fresh
  /\ zip = [c \in Calls |-> None] /\ request = [c \in Calls |-> None]
  /\ app = [pc |-> "running", launch |-> 1, version |-> 1]
  /\ helper = [c \in Calls |-> [pc |-> "none", parent |-> None, version |-> None]]
  /\ target = 1 /\ backup = [c \in Calls |-> None]
  /\ faults = 0

Alive == app.pc # "exited"
Fault == faults < MaxFaults /\ faults' = faults + 1

-----------------------------------------------------------------------------
(* The service *)

\* fail: whatever has been downloaded is given up, whoever fails.
Failed(s) == [s EXCEPT !.state = "error", !.downloaded = None, !.manifest = None]

Without(dirs, gone) == [c \in Calls |-> IF c \in gone THEN None ELSE dirs[c]]

\* cleanupDirectory of a failed call's own directory, and of what had been downloaded.
Fails(c) ==
  LET gone == {c, service.downloaded} IN
  /\ call' = [call EXCEPT ![c].pc = "done"]
  /\ service' = Failed(service)
  /\ zip' = Without(zip, gone) /\ request' = Without(request, gone)

\* The next call.
Unmade(c) == \A d \in Calls : call[d].pc = "idle" <=> d >= c

NewRelease ==
  /\ published < MaxRelease
  /\ published' = published + 1
  /\ UNCHANGED <<process, temporary, helper, bundle, faults>>

\* While one is downloading or downloaded a check answers at once.
Check(c, automatic) ==
  /\ Alive /\ Unmade(c) /\ service.state \notin {"downloading", "downloaded"}
  /\ call' = [call EXCEPT ![c] = [pc |-> "asking", release |-> published, automatic |-> automatic]]
  /\ service' = [service EXCEPT !.state = "checking"]
  /\ UNCHANGED <<published, temporary, app, helper, bundle, faults>>

CheckFails(c) ==
  /\ Alive /\ call[c].pc = "asking" /\ Fault
  /\ Fails(c)
  /\ UNCHANGED <<published, app, helper, bundle>>

\* download() up to its first await: a directory of its own.
Downloads(c, release, s) ==
  /\ call' = [call EXCEPT ![c] = [@ EXCEPT !.pc = "loading", !.release = release]]
  /\ service' = [s EXCEPT !.state = "downloading"]

\* compareVersions
Newer(release) == release > app.version

\* GitHub answered at some time since the call; an automatic check goes on at once.
CheckAnswers(c) ==
  /\ Alive /\ call[c].pc = "asking"
  /\ \E release \in call[c].release..published :
       LET found == [service EXCEPT !.latest = release, !.state = "available"] IN
       \/ /\ ~Newer(release)
          /\ call' = [call EXCEPT ![c].pc = "done"]
          /\ service' = [service EXCEPT !.latest = None, !.state = "current"]
       \/ /\ Newer(release) /\ call[c].automatic
          /\ Downloads(c, release, found)
       \/ /\ Newer(release) /\ ~call[c].automatic
          /\ call' = [call EXCEPT ![c].pc = "done"]
          /\ service' = found
  /\ UNCHANGED <<published, temporary, app, helper, bundle, faults>>

\* The operator's click in the settings.
Download(c) ==
  /\ Alive /\ Unmade(c) /\ service.state = "available" /\ service.latest # None
  /\ Downloads(c, service.latest, service)
  /\ UNCHANGED <<published, temporary, app, helper, bundle, faults>>

\* onProgress publishes whatever another call has published since, and names the latest
\* version: without one it throws, in the stream, and the chunk is lost.
Progress(c) ==
  /\ Alive /\ call[c].pc = "loading"
  /\ \/ /\ service.latest # None
        /\ service' = [service EXCEPT !.state = "downloading"]
        /\ UNCHANGED call
     \/ /\ service.latest = None
        /\ call' = [call EXCEPT ![c].release = None]
        /\ UNCHANGED service
  /\ UNCHANGED <<published, temporary, app, helper, bundle, faults>>

\* Variant: the archive is trusted to be the latest (refuted by DownloadedMatches).
MatchesUnchecked(c) == service.latest # None

\* Size and hash against the latest manifest, which another call may have replaced or dropped.
Matches(c) == service.latest # None /\ service.latest = call[c].release

DownloadEnds(c) ==
  /\ Alive /\ call[c].pc = "loading"
  /\ IF Matches(c)
     THEN /\ call' = [call EXCEPT ![c].pc = "done"]
          /\ zip' = [zip EXCEPT ![c] = call[c].release]
          /\ service' = [service EXCEPT !.state = "downloaded", !.downloaded = c,
                                        !.manifest = service.latest]
          /\ UNCHANGED request
     ELSE Fails(c)
  /\ UNCHANGED <<published, app, helper, bundle, faults>>

\* The connection fails, or what arrives is not what was signed.
DownloadFails(c) ==
  /\ Alive /\ call[c].pc = "loading" /\ Fault
  /\ Fails(c)
  /\ UNCHANGED <<published, app, helper, bundle>>

\* What install() may go on with.
Ready(s) == s.state = "downloaded" /\ s.downloaded # None /\ ~s.installing

\* request.json is written (it must not exist) and the helper spawned, or fail.
Installs ==
  LET d == service.downloaded IN
  \/ /\ request[d] = None
     /\ request' = [request EXCEPT ![d] = service.manifest]
     /\ helper' = [helper EXCEPT ![d] = [pc |-> "verifying", parent |-> app.launch,
                                           version |-> service.manifest]]
     /\ service' = [service EXCEPT !.installing = TRUE]
     /\ UNCHANGED <<zip, faults>>
  \/ /\ \/ request[d] # None /\ UNCHANGED faults
        \/ request[d] = None /\ Fault
     /\ service' = Failed(service)
     /\ zip' = Without(zip, {d}) /\ request' = Without(request, {d})
     /\ UNCHANGED helper

InstallsOnQuit(s) == Ready(s)

\* "Install and restart": after the helper is spawned the app quits, and before-quit finds
\* installing set.
Install ==
  /\ app.pc = "running" /\ Ready(service)
  /\ Installs
  /\ app' = [app EXCEPT !.pc = IF service'.installing THEN "closing" ELSE @]
  /\ UNCHANGED <<published, call, bundle>>

\* before-quit: a verified download is installed by a normal exit.
Quit ==
  /\ app.pc \in {"running", "closing"}
  /\ app' = [app EXCEPT !.pc = "closing"]
  /\ IF InstallsOnQuit(service) THEN Installs ELSE UNCHANGED <<temporary, service, helper, faults>>
  /\ UNCHANGED <<published, call, bundle>>

Ended == [c \in Calls |-> IF call[c].pc = "idle" THEN Idle ELSE [call[c] EXCEPT !.pc = "done"]]

Exit ==
  /\ app.pc = "closing"
  /\ app' = [app EXCEPT !.pc = "exited"]
  /\ call' = Ended
  /\ service' = Fresh
  /\ UNCHANGED <<published, temporary, helper, bundle, faults>>

Started == [pc |-> "running", launch |-> app.launch + 1, version |-> target]

\* The operator starts the app again, also while a helper is at work.
Launch ==
  /\ ~Alive /\ target # None /\ app.launch < MaxLaunches
  /\ app' = Started
  /\ UNCHANGED <<published, call, service, temporary, helper, bundle, faults>>

-----------------------------------------------------------------------------
(* The helper *)

At(h, pc) == helper[h].pc = pc
Goes(h, pc) == helper' = [helper EXCEPT ![h].pc = pc]
App == <<published, process>>

\* The request, the manifest, the archive and its hash once more; what fails here cleans nothing.
HelperVerifies(h) ==
  /\ At(h, "verifying")
  /\ Goes(h, IF zip[h] = request[h] /\ zip[h] # None /\ target # None THEN "waiting" ELSE "ended")
  /\ UNCHANGED <<App, temporary, bundle, faults>>

\* Variant: any running app is waited for (refuted by UpdateIsApplied).
ParentGoneIfAllAre(h) == ~Alive

\* waitForExit: the process that spawned the helper.
ParentGone(h) == ~Alive \/ app.launch > helper[h].parent

\* It waits 30 s.
HelperWaited(h) ==
  /\ At(h, "waiting")
  /\ \/ ParentGone(h) /\ Goes(h, "extracting") /\ UNCHANGED faults
     \/ ~ParentGone(h) /\ Fault /\ Goes(h, "ended")
  /\ UNCHANGED <<App, temporary, bundle>>

\* finally: the staged copy, the extraction and the download go.
Cleans(h) == zip' = Without(zip, {h}) /\ request' = Without(request, {h})

HelperGivesUp(h) == Goes(h, "ended") /\ Cleans(h) /\ UNCHANGED bundle

\* ditto, the look for unsafe links and the copy beside the target.
HelperExtracts(h) ==
  /\ At(h, "extracting")
  /\ \/ zip[h] # None /\ Goes(h, "staged") /\ UNCHANGED <<temporary, bundle, faults>>
     \/ zip[h] = None /\ HelperGivesUp(h) /\ UNCHANGED faults
     \/ Fault /\ HelperGivesUp(h)
  /\ UNCHANGED App

HelperMovesAside(h) ==
  /\ At(h, "staged")
  /\ \/ /\ target # None
        /\ backup' = [backup EXCEPT ![h] = target] /\ target' = None
        /\ Goes(h, "replacing")
        /\ UNCHANGED <<temporary, faults>>
     \/ target = None /\ HelperGivesUp(h) /\ UNCHANGED faults
     \/ Fault /\ HelperGivesUp(h)
  /\ UNCHANGED App

\* Variant: a replacement that fails is not undone (refuted by AppInPlace).
RestoresNothing(h) == UNCHANGED bundle

Restores(h) ==
  IF target = None /\ backup[h] # None
  THEN target' = backup[h] /\ backup' = [backup EXCEPT ![h] = None]
  ELSE UNCHANGED bundle

\* A bundle that somebody else has put there is not replaced.
HelperReplaces(h) ==
  /\ At(h, "replacing")
  /\ \/ /\ target = None
        /\ target' = helper[h].version
        /\ Goes(h, "replaced")
        /\ UNCHANGED <<backup, temporary, faults>>
     \/ /\ (target # None /\ UNCHANGED faults) \/ Fault
        /\ Restores(h)
        /\ Goes(h, "ended") /\ Cleans(h)
  /\ UNCHANGED App

\* The backup is removed if that works, and the app opened: one that runs stays.
HelperOpens(h) ==
  /\ At(h, "replaced")
  /\ backup' \in {backup, [backup EXCEPT ![h] = None]}
  /\ app' = IF Alive \/ target = None \/ app.launch = MaxLaunches THEN app ELSE Started
  /\ Goes(h, "ended") /\ Cleans(h)
  /\ UNCHANGED <<published, call, service, target, faults>>

\* The machine goes down: what is on the disk stays, everything else ends.
Crash ==
  /\ Fault
  /\ app' = [app EXCEPT !.pc = "exited"]
  /\ call' = Ended
  /\ service' = Fresh
  /\ helper' = [h \in Calls |-> IF At(h, "none") THEN helper[h] ELSE [helper[h] EXCEPT !.pc = "dead"]]
  /\ UNCHANGED <<published, temporary, bundle>>

-----------------------------------------------------------------------------

Serves(c) == \/ \E automatic \in BOOLEAN : Check(c, automatic)
             \/ CheckAnswers(c) \/ CheckFails(c)
             \/ Download(c) \/ Progress(c) \/ DownloadEnds(c) \/ DownloadFails(c)

Helps(h) == \/ HelperVerifies(h) \/ HelperWaited(h) \/ HelperExtracts(h)
            \/ HelperMovesAside(h) \/ HelperReplaces(h) \/ HelperOpens(h)

Next == \/ \E c \in Calls : Serves(c) \/ Helps(c)
        \/ NewRelease \/ Install \/ Quit \/ Exit \/ Launch \/ Crash

Spec == Init /\ [][Next]_vars

\* A helper goes on until it ends: its waits and its commands have time limits.
FairSpec == Spec /\ \A h \in Calls : WF_vars(Helps(h))

-----------------------------------------------------------------------------
(* Properties *)

TypeOK ==
  /\ published \in Versions /\ faults \in 0..MaxFaults
  /\ target \in Versions \cup {None}
  /\ \A c \in Calls : {zip[c], request[c], backup[c]} \subseteq Versions \cup {None}
  /\ app \in [pc : {"running", "closing", "exited"}, launch : 1..MaxLaunches, version : Versions]
  /\ service.state \in {"idle", "checking", "current", "available", "downloading", "downloaded", "error"}

(***************************************************************************)
(* What the service holds as downloaded is there, is the archive of the    *)
(* manifest it holds beside it, and is newer than the app, although checks *)
(* and downloads overlap and replace or drop the latest manifest.          *)
(***************************************************************************)
DownloadedMatches ==
  service.downloaded # None =>
    /\ zip[service.downloaded] = service.manifest
    /\ service.manifest > app.version

(***************************************************************************)
(* macos-update-helper.cjs:162-169: there is an app at the target, except  *)
(* between the two renames; whatever fails and whoever else replaces, the  *)
(* bundle moved aside is still there then.                                 *)
(***************************************************************************)
AppInPlace ==
  target = None => \E h \in Calls : backup[h] # None /\ helper[h].pc \in {"replacing", "dead"}

(***************************************************************************)
(* README.md:21: once a helper waits and its app has exited, its update is *)
(* applied, if nothing fails any more and its download has not been taken  *)
(* away; the operator may start the app again meanwhile.  Only the helper  *)
(* of another launch may be first.                                         *)
(***************************************************************************)
Applies(h) == At(h, "waiting") /\ ParentGone(h) /\ zip[h] # None /\ faults = MaxFaults

Applied(h) ==
  /\ target # None /\ helper[h].version # None
  /\ target >= helper[h].version \/ \E o \in Calls \ {h} : At(o, "replaced")

UpdateIsApplied == \A h \in Calls : Applies(h) ~> Applied(h)
=============================================================================

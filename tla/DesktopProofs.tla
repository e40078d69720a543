--------------------------- MODULE DesktopProofs ---------------------------
(***************************************************************************)
(* Proofs about the desktop app around its window: the free update channel *)
(* of macOS with its helper, the native channel, and the shell from launch *)
(* to quit, for any number of calls, releases, launches, openings and      *)
(* faults.                                                                 *)
(*                                                                         *)
(* A helper works only when the app that spawned it is gone, and a service *)
(* forgets with its app: so no helper touches what the running app holds   *)
(* as downloaded (Holding, Working).                                       *)
(***************************************************************************)
EXTENDS AppUpdate, NativeUpdate, DesktopShell, TLAPS

-----------------------------------------------------------------------------
(* AppUpdate *)

\* The types of a call, of the service and of a helper.
CallRecords ==
  [pc : {"idle", "asking", "loading", "done"}, release : Versions \cup {None}, automatic : BOOLEAN]
ServiceRecords ==
  [state : {"idle", "checking", "current", "available", "downloading", "downloaded", "error"},
   latest : Versions \cup {None}, downloaded : Calls \cup {None}, manifest : Versions \cup {None},
   installing : BOOLEAN]
HelperRecords ==
  [pc : {"none", "verifying", "waiting", "extracting", "staged", "replacing", "replaced", "ended", "dead"},
   parent : (1..MaxLaunches) \cup {None}, version : Versions \cup {None}]

\* The types of the variables of AppUpdate.
AppTypes ==
  /\ published \in Versions /\ faults \in 0..MaxFaults
  /\ call \in [Calls -> CallRecords]
  /\ service \in ServiceRecords
  /\ zip \in [Calls -> Versions \cup {None}]
  /\ request \in [Calls -> Versions \cup {None}]
  /\ backup \in [Calls -> Versions \cup {None}]
  /\ helper \in [Calls -> HelperRecords]
  /\ target \in Versions \cup {None}
  /\ app \in [pc : {"running", "closing", "exited"}, launch : 1..MaxLaunches, version : Versions]

\* The service and its calls end with the app.
Forgotten == ~ Alive => service = Fresh /\ \A c \in Calls : call[c].pc \in {"idle", "done"}

\* What is offered is newer, and what is held as downloaded is there and no helper is at it.
Holding ==
  /\ \A c \in Calls : call[c].pc = "asking" => call[c].release # None
  /\ service.latest # None => service.latest > app.version
  /\ \A d \in Calls : service.downloaded = d =>
       /\ call[d].pc = "done"
       /\ zip[d] = service.manifest /\ service.manifest # None /\ service.manifest > app.version
       /\ helper[d].pc \in {"none", "verifying", "waiting", "ended"}
       /\ helper[d].pc # "none" => helper[d].parent = app.launch

\* A helper has a download, a version and a parent; it goes to work when the parent is gone.
Working ==
  \A h \in Calls : helper[h].pc # "none" =>
    /\ call[h].pc = "done" /\ helper[h].version # None
    /\ helper[h].parent # None /\ helper[h].parent <= app.launch
    /\ helper[h].pc \in {"extracting", "staged", "replacing", "replaced"} => ParentGone(h)
    /\ helper[h].pc = "replacing" => backup[h] # None

\* The inductive invariant of AppUpdate.
AppInv == AppTypes /\ Forgotten /\ Holding /\ Working /\ AppInPlace

\* The types of what is written.
LEMMA Ranges ==
  /\ None \notin Versions /\ None \notin Calls /\ None \notin 1..MaxLaunches
  /\ Versions \subseteq Nat /\ 1..MaxLaunches \subseteq Nat
  /\ Fresh \in ServiceRecords /\ Fresh.downloaded = None /\ Fresh.latest = None
  /\ Idle \in CallRecords /\ Idle.pc = "idle"
BY AppUpdateAssumption DEF Versions, Calls, Fresh, Idle, ServiceRecords, CallRecords

\* The app has just been installed, and runs.
LEMMA AppInitially == ASSUME Init PROVE AppInv
<1>. USE DEF Init
<1>1. /\ 1 \in Versions /\ 1 \in 1..MaxLaunches /\ 0 \in 0..MaxFaults
  BY AppUpdateAssumption DEF Versions
<1>2. AppTypes
  BY <1>1, Ranges DEF AppTypes, HelperRecords
<1>3. Forgotten
  BY DEF Forgotten, Alive
<1>4. Holding
  BY Ranges DEF Holding
<1>5. Working
  BY DEF Working
<1>6. AppInPlace
  BY <1>1, Ranges DEF AppInPlace
<1>. QED BY <1>2, <1>3, <1>4, <1>5, <1>6 DEF AppInv

\* A call that fails gives up whatever was downloaded, and no more.
LEMMA CallFailsKeeps ==
  ASSUME AppInv, NEW c \in Calls, Alive, call[c].pc \in {"asking", "loading"}, Fails(c),
         UNCHANGED <<published, app, helper, bundle>>, faults' \in 0..MaxFaults
  PROVE  AppInv'
<1>. USE DEF AppInv, bundle
<1> DEFINE gone == {c, service.downloaded}
<1>1. /\ call' = [call EXCEPT ![c].pc = "done"] /\ service' = Failed(service)
      /\ zip' = Without(zip, gone) /\ request' = Without(request, gone)
  BY DEF Fails
<1>2. /\ service' \in ServiceRecords /\ service'.downloaded = None /\ service'.latest = service.latest
  BY <1>1 DEF AppTypes, ServiceRecords, Failed
<1>3. /\ call' \in [Calls -> CallRecords]
      /\ \A d \in Calls : /\ call'[d].pc = IF d = c THEN "done" ELSE call[d].pc
                          /\ call'[d].release = call[d].release
  BY <1>1 DEF AppTypes, CallRecords
<1>4. zip' \in [Calls -> Versions \cup {None}] /\ request' \in [Calls -> Versions \cup {None}]
  BY <1>1 DEF AppTypes, Without
<1>5. AppTypes'
  BY <1>2, <1>3, <1>4 DEF AppTypes
<1>6. Forgotten'
  BY DEF Forgotten, Alive
<1>7. Holding'
  BY <1>2, <1>3, Ranges DEF Holding, AppTypes
<1>8. Working'
  BY <1>3 DEF Working, ParentGone, Alive
<1>9. AppInPlace'
  BY DEF AppInPlace
<1>. QED BY <1>5, <1>6, <1>7, <1>8, <1>9

\* What the service does while the app runs, but for the end of a download and installing.
LEMMA ServicePreserves ==
  ASSUME AppInv, NEW c \in Calls,
         (\E automatic \in BOOLEAN : Check(c, automatic)) \/ CheckAnswers(c) \/ Download(c) \/ Progress(c)
  PROVE  AppInv'
<1>. USE DEF AppInv, bundle, temporary
<1>1. /\ Alive /\ UNCHANGED <<published, zip, request, app, helper, target, backup, faults>>
  BY DEF Check, CheckAnswers, Download, Progress
<1>2. /\ service' \in ServiceRecords
      /\ service'.downloaded = service.downloaded /\ service'.manifest = service.manifest
      /\ service'.latest # None => service'.latest > app.version
  <2>1. CASE \E automatic \in BOOLEAN : Check(c, automatic)
    BY <2>1 DEF Check, AppTypes, ServiceRecords, Holding
  <2>2. CASE CheckAnswers(c)
    <3>1. call[c].pc = "asking" /\ call[c].release \in Versions /\ published \in Versions
      BY <2>2 DEF CheckAnswers, AppTypes, CallRecords, Holding
    <3>2. PICK release \in call[c].release..published :
            \/ service' = [service EXCEPT !.latest = None, !.state = "current"]
            \/ /\ release > app.version
               /\ \/ service' = [[service EXCEPT !.latest = release, !.state = "available"] EXCEPT !.state = "downloading"]
                  \/ service' = [service EXCEPT !.latest = release, !.state = "available"]
      BY <2>2 DEF CheckAnswers, Downloads, Newer
    <3>3. release \in Versions
      BY <3>1, AppUpdateAssumption DEF Versions
    <3>. QED BY <3>2, <3>3 DEF AppTypes, ServiceRecords
  <2>3. CASE Download(c)
    BY <2>3 DEF Download, Downloads, AppTypes, ServiceRecords, Holding
  <2>4. CASE Progress(c)
    BY <2>4 DEF Progress, AppTypes, ServiceRecords, Holding
  <2>. QED BY <2>1, <2>2, <2>3, <2>4
<1>3. /\ call' \in [Calls -> CallRecords]
      /\ \A d \in Calls : d # c => call'[d] = call[d]
      /\ call[c].pc # "done" /\ (call'[c].pc = "asking" => call'[c].release # None)
  <2>1. CASE \E automatic \in BOOLEAN : Check(c, automatic)
    <3>1. PICK automatic \in BOOLEAN : Check(c, automatic)
      BY <2>1
    <3>2. call[c].pc = "idle" /\ published \in Versions /\ published # None
      BY <3>1, Ranges DEF Check, Unmade, Calls, AppTypes
    <3> DEFINE r == [pc |-> "asking", release |-> published, automatic |-> automatic]
    <3>3. r \in CallRecords /\ r.release # None
      BY <3>2 DEF CallRecords
    <3>4. call' = [call EXCEPT ![c] = r]
      BY <3>1 DEF Check
    <3>. HIDE DEF r
    <3>. QED BY <3>2, <3>3, <3>4 DEF AppTypes
  <2>2. CASE CheckAnswers(c)
    <3>1. call[c].pc = "asking" /\ call[c].release \in Versions /\ published \in Versions
      BY <2>2 DEF CheckAnswers, AppTypes, CallRecords, Holding
    <3>2. PICK release \in call[c].release..published :
            \/ call' = [call EXCEPT ![c].pc = "done"]
            \/ call' = [call EXCEPT ![c] = [call[c] EXCEPT !.pc = "loading", !.release = release]]
      BY <2>2 DEF CheckAnswers, Downloads
    <3>3. release \in Versions
      BY <3>1, AppUpdateAssumption DEF Versions
    <3> DEFINE done == [call[c] EXCEPT !.pc = "done"]
               loads == [call[c] EXCEPT !.pc = "loading", !.release = release]
    <3>4. /\ done \in CallRecords /\ done.pc = "done"
          /\ loads \in CallRecords /\ loads.pc = "loading"
      <4>1. call[c] \in CallRecords
        BY DEF AppTypes
      <4>2. done \in CallRecords /\ done.pc = "done"
        BY <4>1 DEF CallRecords
      <4>3. loads \in CallRecords /\ loads.pc = "loading"
        BY <3>3, <4>1 DEF CallRecords
      <4>. QED BY <4>2, <4>3
    <3>5. call' = [call EXCEPT ![c] = done] \/ call' = [call EXCEPT ![c] = loads]
      BY <3>2
    <3>. HIDE DEF done, loads
    <3>. QED BY <3>1, <3>4, <3>5 DEF AppTypes
  <2>3. CASE Download(c)
    <3>1. service.latest \in Versions /\ call[c].pc = "idle"
      BY <2>3 DEF Download, Unmade, Calls, AppTypes, ServiceRecords
    <3>. QED BY <2>3, <3>1 DEF Download, Downloads, AppTypes, CallRecords
  <2>4. CASE Progress(c)
    BY <2>4 DEF Progress, AppTypes, CallRecords
  <2>. QED BY <2>1, <2>2, <2>3, <2>4
<1>4. AppTypes'
  BY <1>1, <1>2, <1>3 DEF AppTypes
<1>5. Forgotten'
  BY <1>1 DEF Forgotten, Alive
<1>6. \A d \in Calls : call[d].pc = "done" => call'[d] = call[d]
  BY <1>3
<1>7. Holding'
  BY <1>1, <1>2, <1>3, <1>6 DEF Holding
<1>8. Working'
  BY <1>1, <1>6 DEF Working, ParentGone, Alive
<1>9. AppInPlace'
  BY <1>1 DEF AppInPlace
<1>. QED BY <1>4, <1>5, <1>7, <1>8, <1>9

\* What is trusted is the archive of the latest manifest.
LEMMA DownloadPreserves == ASSUME AppInv, NEW c \in Calls, DownloadEnds(c) PROVE AppInv'
<1>. USE DEF AppInv, bundle
<1>1. /\ Alive /\ call[c].pc = "loading" /\ UNCHANGED <<published, app, helper, target, backup, faults>>
  BY DEF DownloadEnds
<1>2. CASE ~ Matches(c)
  BY <1>1, <1>2, CallFailsKeeps DEF DownloadEnds, AppTypes
<1>3. CASE Matches(c)
  <2>1. /\ service.latest \in Versions /\ service.latest = call[c].release
        /\ service.latest > app.version
    BY <1>3 DEF Matches, AppTypes, ServiceRecords, Holding
  <2>2. /\ call' = [call EXCEPT ![c].pc = "done"]
        /\ zip' = [zip EXCEPT ![c] = call[c].release]
        /\ service' = [service EXCEPT !.state = "downloaded", !.downloaded = c, !.manifest = service.latest]
        /\ UNCHANGED request
    BY <1>3 DEF DownloadEnds
  <2>3. /\ call' \in [Calls -> CallRecords]
        /\ \A d \in Calls : /\ call'[d].pc = IF d = c THEN "done" ELSE call[d].pc
                            /\ call'[d].release = call[d].release
    BY <2>2 DEF AppTypes, CallRecords
  <2>4. /\ service' \in ServiceRecords /\ service'.downloaded = c /\ service'.manifest = service.latest
        /\ service'.latest = service.latest
    BY <2>1, <2>2 DEF AppTypes, ServiceRecords
  <2>5. zip' \in [Calls -> Versions \cup {None}] /\ zip'[c] = service.latest
    BY <2>1, <2>2 DEF AppTypes
  <2>6. AppTypes'
    BY <1>1, <2>2, <2>3, <2>4, <2>5 DEF AppTypes
  <2>7. Forgotten'
    BY <1>1 DEF Forgotten, Alive
  <2>8. helper[c].pc = "none"
    BY <1>1 DEF Working
  <2>9. Holding'
    BY <1>1, <2>1, <2>3, <2>4, <2>5, <2>8, Ranges DEF Holding
  <2>10. Working'
    BY <1>1, <2>3 DEF Working, ParentGone, Alive
  <2>11. AppInPlace'
    BY <1>1 DEF AppInPlace
  <2>. QED BY <2>6, <2>7, <2>9, <2>10, <2>11
<1>. QED BY <1>2, <1>3

\* A helper is spawned for what is held as downloaded, or it is given up; the app closes or not.
LEMMA InstallPreserves == ASSUME AppInv, Install \/ Quit PROVE AppInv'
<1>. USE DEF AppInv, bundle, temporary
<1>1. /\ Alive /\ UNCHANGED <<published, call, target, backup>>
      /\ app'.pc \in {"running", "closing"} /\ app'.launch = app.launch /\ app'.version = app.version
      /\ app' \in [pc : {"running", "closing", "exited"}, launch : 1..MaxLaunches, version : Versions]
  BY DEF Install, Quit, Alive, AppTypes
<1>2. Alive' /\ (\A h \in Calls : ParentGone(h) => app.launch > helper[h].parent)
  BY <1>1 DEF Alive, ParentGone
<1>3. CASE UNCHANGED <<temporary, service, helper, faults>>
  <2>1. AppTypes' /\ Forgotten' /\ Holding' /\ AppInPlace'
    BY <1>1, <1>2, <1>3 DEF AppTypes, Forgotten, Holding, AppInPlace
  <2>2. Working'
    BY <1>1, <1>2, <1>3 DEF Working, ParentGone
  <2>. QED BY <2>1, <2>2
<1>4. CASE Ready(service) /\ Installs
  <2>1. PICK d \in Calls : d = service.downloaded
    BY <1>4 DEF Ready, AppTypes, ServiceRecords
  <2>2. /\ call[d].pc = "done" /\ zip[d] = service.manifest /\ service.manifest \in Versions
        /\ service.manifest > app.version /\ service.manifest # None
        /\ helper[d].pc \in {"none", "verifying", "waiting", "ended"}
    BY <2>1 DEF Holding, AppTypes, ServiceRecords
  <2>3. CASE /\ request' = [request EXCEPT ![d] = service.manifest]
             /\ helper' = [helper EXCEPT ![d] = [pc |-> "verifying", parent |-> app.launch,
                                                   version |-> service.manifest]]
             /\ service' = [service EXCEPT !.installing = TRUE]
             /\ UNCHANGED <<zip, faults>>
    <3>1. /\ service' \in ServiceRecords /\ service'.downloaded = d
          /\ service'.manifest = service.manifest /\ service'.latest = service.latest
      BY <2>1, <2>3 DEF AppTypes, ServiceRecords
    <3>2. app.launch \in 1..MaxLaunches
      BY DEF AppTypes
    <3>3. /\ helper' \in [Calls -> HelperRecords]
          /\ helper'[d].pc = "verifying" /\ helper'[d].parent = app.launch
          /\ helper'[d].version = service.manifest
          /\ \A h \in Calls : h # d => helper'[h] = helper[h]
      BY <2>2, <2>3, <3>2 DEF AppTypes, HelperRecords
    <3>4. request' \in [Calls -> Versions \cup {None}]
      BY <2>2, <2>3 DEF AppTypes
    <3>5. AppTypes'
      BY <1>1, <2>3, <3>1, <3>3, <3>4 DEF AppTypes
    <3>6. Forgotten'
      BY <1>2 DEF Forgotten
    <3>7. Holding'
      BY <1>1, <2>1, <2>2, <2>3, <3>1, <3>3 DEF Holding
    <3>8. Working'
      BY <1>1, <1>2, <2>2, <3>2, <3>3, Ranges DEF Working, ParentGone
    <3>9. AppInPlace'
      BY <1>1, <2>2, <3>3 DEF AppInPlace
    <3>. QED BY <3>5, <3>6, <3>7, <3>8, <3>9
  <2>4. CASE /\ faults' \in 0..MaxFaults
             /\ service' = Failed(service)
             /\ zip' = Without(zip, {d}) /\ request' = Without(request, {d})
             /\ UNCHANGED helper
    <3>1. /\ service' \in ServiceRecords /\ service'.downloaded = None /\ service'.latest = service.latest
      BY <2>4 DEF AppTypes, ServiceRecords, Failed
    <3>2. zip' \in [Calls -> Versions \cup {None}] /\ request' \in [Calls -> Versions \cup {None}]
      BY <2>4 DEF AppTypes, Without
    <3>3. AppTypes'
      BY <1>1, <2>4, <3>1, <3>2 DEF AppTypes
    <3>4. Forgotten'
      BY <1>2 DEF Forgotten
    <3>5. Holding'
      BY <1>1, <3>1, Ranges DEF Holding
    <3>6. Working'
      BY <1>1, <1>2, <2>4 DEF Working, ParentGone
    <3>7. AppInPlace'
      BY <1>1, <2>4 DEF AppInPlace
    <3>. QED BY <3>3, <3>4, <3>5, <3>6, <3>7
  <2>5. faults \in Nat /\ faults <= MaxFaults /\ MaxFaults \in Nat
    BY AppUpdateAssumption DEF AppTypes
  <2>. QED BY <1>4, <2>1, <2>3, <2>4, <2>5 DEF Installs, Fault
<1>. QED BY <1>3, <1>4 DEF Install, Quit, InstallsOnQuit

\* With the app the service forgets everything; the disk and the helpers stay.
LEMMA EndPreserves == ASSUME AppInv, Exit \/ Crash PROVE AppInv'
<1>. USE DEF AppInv, bundle, temporary
<1>1. /\ app' = [app EXCEPT !.pc = "exited"] /\ call' = Ended /\ service' = Fresh
      /\ UNCHANGED <<published, zip, request, target, backup>>
  BY DEF Exit, Crash
<1>2. /\ call' \in [Calls -> CallRecords]
      /\ \A c \in Calls : call'[c].pc \in {"idle", "done"} /\ (call[c].pc = "done" => call'[c].pc = "done")
  BY <1>1, Ranges DEF Ended, AppTypes, CallRecords
<1>3. /\ helper' \in [Calls -> HelperRecords]
      /\ \A h \in Calls :
           /\ helper'[h].pc = helper[h].pc \/ helper'[h].pc = "dead"
           /\ helper[h].pc = "none" => helper'[h].pc = "none"
           /\ helper'[h].parent = helper[h].parent /\ helper'[h].version = helper[h].version
  <2>1. CASE UNCHANGED helper
    BY <2>1 DEF AppTypes
  <2>2. CASE helper' = [h \in Calls |-> IF At(h, "none") THEN helper[h] ELSE [helper[h] EXCEPT !.pc = "dead"]]
    BY <2>2 DEF At, AppTypes, HelperRecords
  <2>. QED BY <2>1, <2>2 DEF Exit, Crash
<1>4. /\ app' \in [pc : {"running", "closing", "exited"}, launch : 1..MaxLaunches, version : Versions]
      /\ ~ Alive' /\ app'.launch = app.launch
  BY <1>1 DEF AppTypes, Alive
<1>5. faults' \in 0..MaxFaults
  BY AppUpdateAssumption DEF Exit, Crash, Fault, AppTypes
<1>6. AppTypes'
  BY <1>1, <1>2, <1>3, <1>4, <1>5, Ranges DEF AppTypes
<1>7. Forgotten'
  BY <1>1, <1>2 DEF Forgotten
<1>8. Holding'
  BY <1>1, <1>2, Ranges DEF Holding
<1>9. Working'
  BY <1>1, <1>2, <1>3, <1>4 DEF Working, ParentGone
<1>10. AppInPlace'
  BY <1>1, <1>3 DEF AppInPlace
<1>. QED BY <1>6, <1>7, <1>8, <1>9, <1>10

\* The app begins anew: with no service of before, and later than every helper there is.
LEMMA StartPreserves ==
  ASSUME AppInv, ~ Alive, target # None, app.launch # MaxLaunches, app' = Started,
         UNCHANGED <<published, call, service, temporary, helper, bundle, faults>>
  PROVE  AppInv'
<1>. USE DEF AppInv, bundle, temporary
<1>1. /\ app' \in [pc : {"running", "closing", "exited"}, launch : 1..MaxLaunches, version : Versions]
      /\ app'.launch > app.launch /\ Alive'
  BY AppUpdateAssumption DEF Started, AppTypes, Alive
<1>2. AppTypes' /\ Forgotten'
  BY <1>1 DEF AppTypes, Forgotten
<1>3. Holding'
  BY Ranges DEF Holding, Forgotten
<1>4. Working'
  <2>1. app.launch \in Nat /\ app'.launch \in Nat /\ \A h \in Calls : helper[h].parent \in Nat \cup {None}
    BY <1>1, AppUpdateAssumption DEF AppTypes, HelperRecords
  <2>. QED BY <1>1, <2>1 DEF Working, ParentGone
<1>5. AppInPlace'
  BY DEF AppInPlace
<1>. QED BY <1>2, <1>3, <1>4, <1>5

\* What the steps of a helper have in common: it alone moves and touches its own files only, and
\* what the running app holds as downloaded is not among those of one that works.
LEMMA HelperMoves ==
  ASSUME AppInv, NEW h \in Calls, helper[h].pc \notin {"none", "ended", "dead"},
         NEW next \in {"waiting", "extracting", "staged", "replacing", "replaced", "ended"},
         Goes(h, next), next \notin {"waiting", "ended"} => ParentGone(h),
         UNCHANGED <<published, call, service>>, faults' \in 0..MaxFaults,
         app' = app \/ (~ Alive /\ target # None /\ app.launch # MaxLaunches /\ app' = Started),
         zip' = zip \/ (zip' = Without(zip, {h}) /\ helper[h].pc \notin {"verifying", "waiting"}),
         request' = request \/ request' = Without(request, {h}),
         backup' \in [Calls -> Versions \cup {None}], target' \in Versions \cup {None},
         \A d \in Calls : d # h => backup'[d] = backup[d],
         next = "replacing" => backup'[h] # None,
         target' # None \/ next = "replacing" \/ (target' = target /\ helper[h].pc # "replacing")
  PROVE  AppInv'
<1>. USE DEF AppInv
<1>1. /\ helper' \in [Calls -> HelperRecords]
      /\ helper'[h].pc = next /\ helper'[h].parent = helper[h].parent /\ helper'[h].version = helper[h].version
      /\ \A d \in Calls : d # h => helper'[d] = helper[d]
  BY DEF Goes, AppTypes, HelperRecords
<1>2. /\ zip' \in [Calls -> Versions \cup {None}] /\ request' \in [Calls -> Versions \cup {None}]
      /\ \A d \in Calls : d # h => zip'[d] = zip[d]
  BY DEF Without, AppTypes
<1>3. /\ app' \in [pc : {"running", "closing", "exited"}, launch : 1..MaxLaunches, version : Versions]
      /\ app' = app \/ (app'.launch > app.launch /\ Alive' /\ ~ Alive)
  BY AppUpdateAssumption DEF Started, AppTypes, Alive
<1>4. AppTypes'
  BY <1>1, <1>2, <1>3 DEF AppTypes
<1>5. Forgotten'
  BY <1>3 DEF Forgotten, Alive
<1>6. \A d \in Calls : service.downloaded = d =>
        /\ app' = app
        /\ d = h => zip' = zip /\ next \in {"waiting", "ended"}
  <2>1. ASSUME NEW d \in Calls, service.downloaded = d PROVE app' = app /\ Alive
    BY <1>3, <2>1, Ranges DEF Forgotten
  <2>2. ASSUME service.downloaded = h PROVE zip' = zip /\ next \in {"waiting", "ended"}
    <3>1. helper[h].pc \in {"verifying", "waiting"} /\ helper[h].parent = app.launch /\ Alive
      BY <2>1, <2>2 DEF Holding
    <3>2. app.launch \in Nat
      BY Ranges DEF AppTypes
    <3>3. ~ ParentGone(h)
      BY <3>1, <3>2 DEF ParentGone
    <3>. QED BY <3>1, <3>3
  <2>. QED BY <2>1, <2>2
<1>7. Holding'
  <2>1. CASE app' = app
    BY <1>1, <1>2, <1>6, <2>1 DEF Holding
  <2>2. CASE app' # app
    BY <1>3, <2>2, Ranges DEF Holding, Forgotten
  <2>. QED BY <2>1, <2>2
<1>8. Working'
  <2>1. /\ app.launch \in Nat /\ app'.launch \in Nat /\ app'.launch >= app.launch
        /\ \A d \in Calls : helper[d].parent \in Nat \cup {None}
    BY <1>3, Ranges DEF AppTypes, HelperRecords
  <2>2. ASSUME NEW d \in Calls, helper[d].pc # "none", ParentGone(d) PROVE ParentGone(d)'
    <3>1. helper[d].parent \in Nat /\ helper[d].parent <= app.launch /\ helper'[d].parent = helper[d].parent
      BY <1>1, <2>1, <2>2 DEF Working
    <3>. QED BY <1>3, <2>1, <2>2, <3>1 DEF ParentGone, Alive
  <2>3. ASSUME NEW d \in Calls, helper'[d].pc # "none"
        PROVE  /\ call'[d].pc = "done" /\ helper'[d].version # None
               /\ helper'[d].parent # None /\ helper'[d].parent <= app'.launch
               /\ helper'[d].pc \in {"extracting", "staged", "replacing", "replaced"} => ParentGone(d)'
               /\ helper'[d].pc = "replacing" => backup'[d] # None
    <3>1. /\ helper[d].pc # "none"
          /\ helper'[d].version = helper[d].version /\ helper'[d].parent = helper[d].parent
      BY <1>1, <2>3
    <3>2. helper[d].parent \in Nat /\ helper[d].parent <= app.launch
      BY <2>1, <3>1 DEF Working
    <3>3. call'[d].pc = "done" /\ helper'[d].version # None /\ helper'[d].parent # None
      BY <3>1 DEF Working
    <3>4. helper'[d].parent <= app'.launch
      BY <2>1, <3>1, <3>2
    <3>5. helper'[d].pc \in {"extracting", "staged", "replacing", "replaced"} => ParentGone(d)'
      BY <1>1, <2>2, <3>1 DEF Working
    <3>6. helper'[d].pc = "replacing" => backup'[d] # None
      BY <1>1, <3>1 DEF Working
    <3>. QED BY <3>3, <3>4, <3>5, <3>6
  <2>. QED BY <2>3 DEF Working
<1>9. AppInPlace'
  <2>1. CASE target' # None \/ next = "replacing"
    BY <1>1, <2>1 DEF AppInPlace
  <2>2. CASE target' = target /\ helper[h].pc # "replacing"
    BY <1>1, <2>2 DEF AppInPlace
  <2>. QED BY <2>1, <2>2
<1>. QED BY <1>4, <1>5, <1>7, <1>8, <1>9

\* Each step of a helper is such a move.
LEMMA HelperPreserves == ASSUME AppInv, NEW h \in Calls, Helps(h) PROVE AppInv'
<1>. USE DEF AppInv, bundle, temporary, App, process, At
<1>1. /\ target \in Versions \cup {None} /\ backup \in [Calls -> Versions \cup {None}]
      /\ faults \in 0..MaxFaults /\ (Fault => faults' \in 0..MaxFaults)
  BY AppUpdateAssumption DEF AppTypes, Fault
<1>2. helper[h].pc \in {"extracting", "staged", "replacing", "replaced"} => ParentGone(h)
  BY DEF Working
<1>3. CASE HelperVerifies(h)
  BY <1>1, <1>3, HelperMoves DEF HelperVerifies
<1>4. CASE HelperWaited(h)
  BY <1>1, <1>4, HelperMoves DEF HelperWaited
<1>5. ASSUME HelperGivesUp(h), helper[h].pc \in {"extracting", "staged"}, faults' \in 0..MaxFaults,
             UNCHANGED <<published, call, service, app>>
      PROVE  AppInv'
  BY <1>1, <1>5, HelperMoves DEF HelperGivesUp, Cleans
<1>6. CASE HelperExtracts(h)
  <2>1. CASE Goes(h, "staged") /\ UNCHANGED <<temporary, bundle, faults>>
    BY <1>1, <1>2, <1>6, <2>1, HelperMoves DEF HelperExtracts
  <2>. QED BY <1>1, <1>5, <1>6, <2>1 DEF HelperExtracts
<1>7. CASE HelperMovesAside(h)
  <2>1. CASE /\ target # None /\ backup' = [backup EXCEPT ![h] = target] /\ target' = None
             /\ Goes(h, "replacing") /\ UNCHANGED <<temporary, faults>>
    <3>1. /\ backup' \in [Calls -> Versions \cup {None}] /\ backup'[h] # None
          /\ \A d \in Calls : d # h => backup'[d] = backup[d]
      BY <1>1, <2>1
    <3>. QED BY <1>1, <1>2, <1>7, <2>1, <3>1, HelperMoves DEF HelperMovesAside
  <2>. QED BY <1>1, <1>5, <1>7, <2>1 DEF HelperMovesAside
<1>8. CASE HelperReplaces(h)
  <2>1. helper[h].version \in Versions /\ backup[h] \in Versions /\ helper[h].pc = "replacing"
    BY <1>1, <1>8 DEF HelperReplaces, Working, AppTypes, HelperRecords
  <2>2. CASE target' = helper[h].version /\ Goes(h, "replaced") /\ UNCHANGED <<backup, temporary, faults>>
    BY <1>1, <1>2, <1>8, <2>1, <2>2, Ranges, HelperMoves DEF HelperReplaces
  <2>3. CASE Restores(h) /\ Goes(h, "ended") /\ Cleans(h) /\ faults' \in 0..MaxFaults
    <3>1. /\ target' \in Versions /\ backup' \in [Calls -> Versions \cup {None}]
          /\ \A d \in Calls : d # h => backup'[d] = backup[d]
      BY <1>1, <2>1, <2>3 DEF Restores
    <3>. QED BY <1>1, <1>8, <2>1, <2>3, <3>1, Ranges, HelperMoves DEF HelperReplaces, Cleans
  <2>. QED BY <1>1, <1>8, <2>2, <2>3 DEF HelperReplaces
<1>9. CASE HelperOpens(h)
  <2>1. /\ backup' \in [Calls -> Versions \cup {None}]
        /\ \A d \in Calls : d # h => backup'[d] = backup[d]
    BY <1>1, <1>9 DEF HelperOpens
  <2>2. app' = app \/ (~ Alive /\ target # None /\ app.launch # MaxLaunches /\ app' = Started)
    BY <1>9 DEF HelperOpens
  <2>. QED BY <1>1, <1>9, <2>1, <2>2, HelperMoves DEF HelperOpens, Cleans
<1>. QED BY <1>3, <1>4, <1>6, <1>7, <1>8, <1>9 DEF Helps

\* Every step preserves the invariant.
LEMMA AppPreserved == ASSUME AppInv, [Next]_vars PROVE AppInv'
<1>1. ASSUME NEW c \in Calls, Serves(c) PROVE AppInv'
  <2>1. CASE CheckFails(c) \/ DownloadFails(c)
    <3>1. /\ Alive /\ call[c].pc \in {"asking", "loading"} /\ Fails(c)
          /\ UNCHANGED <<published, app, helper, bundle>> /\ Fault
      BY <2>1 DEF CheckFails, DownloadFails
    <3>2. faults' \in 0..MaxFaults
      BY <3>1, AppUpdateAssumption DEF Fault, AppInv, AppTypes
    <3>. QED BY <3>1, <3>2, CallFailsKeeps
  <2>. QED BY <1>1, <2>1, ServicePreserves, DownloadPreserves DEF Serves
<1>2. ASSUME NEW h \in Calls, Helps(h) PROVE AppInv'
  BY <1>2, HelperPreserves
<1>3. CASE NewRelease
  <2>1. published' \in Versions
    BY <1>3, AppUpdateAssumption DEF NewRelease, Versions, AppInv, AppTypes
  <2>2. UNCHANGED <<call, service, app, zip, request, helper, target, backup, faults>>
    BY <1>3 DEF NewRelease, process, temporary, bundle
  <2>3. AppTypes' /\ Forgotten' /\ Holding' /\ AppInPlace'
    BY <2>1, <2>2 DEF AppInv, AppTypes, Forgotten, Holding, AppInPlace, Alive
  <2>4. Working'
    BY <2>2 DEF AppInv, Working, ParentGone, Alive
  <2>. QED BY <2>3, <2>4 DEF AppInv
<1>4. CASE Launch
  <2>1. app.launch # MaxLaunches
    BY <1>4, AppUpdateAssumption DEF Launch, AppInv, AppTypes
  <2>. QED BY <1>4, <2>1, StartPreserves DEF Launch
<1>5. CASE UNCHANGED vars
  <2>1. UNCHANGED <<published, call, service, app, zip, request, helper, target, backup, faults>>
    BY <1>5 DEF vars
  <2>2. AppTypes' /\ Forgotten' /\ Holding' /\ AppInPlace'
    BY <2>1 DEF AppInv, AppTypes, Forgotten, Holding, AppInPlace, Alive
  <2>3. Working'
    BY <2>1 DEF AppInv, Working, ParentGone, Alive
  <2>. QED BY <2>2, <2>3 DEF AppInv
<1>. QED BY <1>1, <1>2, <1>3, <1>4, <1>5, InstallPreserves, EndPreserves DEF Next

\* The invariant of the free update channel.
THEOREM AppInvariant == Spec => []AppInv
<1>1. AppInv /\ [Next]_vars => AppInv'
  BY AppPreserved
<1>. QED BY AppInitially, <1>1, PTL DEF Spec

\* Type correctness.
THEOREM AppTyped == Spec => []TypeOK
<1>1. AppInv => TypeOK
  BY DEF AppInv, AppTypes, TypeOK, ServiceRecords
<1>. QED BY AppInvariant, <1>1, PTL

\* What the service holds as downloaded is there, is the archive of the manifest it holds beside
\* it, and is newer than the app, for any number of overlapping checks, downloads and helpers.
THEOREM DownloadsMatch == Spec => []DownloadedMatches
<1>1. ASSUME AppInv PROVE DownloadedMatches
  <2>1. service.downloaded \in Calls \cup {None}
    BY <1>1 DEF AppInv, AppTypes, ServiceRecords
  <2>. QED BY <1>1, <2>1 DEF AppInv, Holding, DownloadedMatches
<1>. QED BY AppInvariant, <1>1, PTL

\* There is an app at the target, or the bundle that was moved aside is still there.
THEOREM AppStaysInPlace == Spec => []AppInPlace
<1>1. AppInv => AppInPlace
  BY DEF AppInv
<1>. QED BY AppInvariant, <1>1, PTL

-----------------------------------------------------------------------------
(* NativeUpdate *)

\* The inductive invariant of NativeUpdate: what is offered or downloaded is newer than what runs.
NativeInv ==
  /\ offer # Nothing => offer > running
  /\ loading # Nothing => loading > running
  /\ ReadyIsDownloaded

\* The installer that "Install" is granted for is whole, of the version that is shown, and newer
\* than what runs, for any number of checks, downloads and errors.
THEOREM InstallerIsReady == NativeSpec => []ReadyIsDownloaded
<1>1. NativeInit => NativeInv
  BY DEF NativeInit, FreshNative, NativeInv, ReadyIsDownloaded
<1>2. NativeInv /\ [NativeNext]_nativeVars => NativeInv'
  <2>. SUFFICES ASSUME NativeInv, [NativeNext]_nativeVars PROVE NativeInv'
    OBVIOUS
  <2>. USE DEF NativeInv, ReadyIsDownloaded, Publishes
  <2>1. CASE CheckNow \/ CheckTells \/ CheckErrs
    BY <2>1 DEF CheckNow, CheckTells, CheckErrs
  <2>2. CASE DownloadNow
    BY <2>2 DEF DownloadNow, Granted
  <2>3. CASE ProgressTells \/ DownloadTells \/ DownloadErrs
    BY <2>3 DEF ProgressTells, Downloading, DownloadTells, DownloadErrs
  <2>4. CASE InstallNow \/ QuitNative
    BY <2>4 DEF InstallNow, QuitNative, FreshNative
  <2>5. CASE Released \/ UNCHANGED nativeVars
    BY <2>5 DEF Released, nativeVars
  <2>. QED BY <2>1, <2>2, <2>3, <2>4, <2>5 DEF NativeNext
<1>3. NativeInv => ReadyIsDownloaded
  BY DEF NativeInv
<1>. QED BY <1>1, <1>2, <1>3, PTL DEF NativeSpec

-----------------------------------------------------------------------------
(* DesktopShell *)

\* The directories whose opening is on its way.
Openings == {n \in Picks : pick[n].at \in {"sent", "taken", "refused"}}

\* The types of what the proof needs.
ShellTypes ==
  /\ shell \in [launch : Nat, at : {"waiting", "last", "demo", "running", "gone"}, env : Overrides]
  /\ pick \in [Picks -> [at : {"new", "sent", "taken", "refused", "done"}, dir : Dirs \cup {Unset}]]
  /\ astray \in BOOLEAN

\* Nothing is opened by hand before the window is there, and one directory at a time.
OneOpening ==
  /\ shell.at # "running" => Openings = {}
  /\ ~ astray => \A m, n \in Openings : m = n

\* The operator knows where they work, or will once the directory that has been opened is recorded.
Knows ==
  /\ shell.at \in {"waiting", "gone"} => held = Unset
  /\ shell.at = "demo" /\ ~ astray => recorded = Unset \/ notice = recorded
  /\ ~ astray => \A n \in Openings : pick[n].at = "taken" => opened = pick[n].dir
  /\ shell.at = "running" /\ held # Unset /\ ~ astray /\ recorded # Unset /\ shell.env = Unset =>
       \/ opened = recorded \/ notice = recorded
       \/ \E n \in Openings : pick[n].at = "taken"

\* The inductive invariant of DesktopShell.
ShellInv == ShellTypes /\ OneOpening /\ Knows

\* A launch opens by itself what was recorded, or the example.
LEMMA OpenPreserves == ASSUME ShellInv, OpenOverride \/ OpenLast \/ OpenDemo PROVE ShellInv'
<1>. USE DEF ShellInv
<1>1. /\ shell.at \in {"last", "demo"} /\ Openings = {} /\ UNCHANGED <<held, recorded, pick>>
  BY DEF OpenOverride, OpenLast, OpenDemo, OneOpening
<1>2. /\ Openings' = {} /\ (shell.at = "demo" => UNCHANGED notice)
  BY <1>1 DEF Openings, OpenDemo, OpenOverride, OpenLast
<1>3. /\ shell' \in [launch : Nat, at : {"waiting", "last", "demo", "running", "gone"}, env : Overrides]
      /\ shell'.env = shell.env /\ shell'.at \in {"demo", "running"}
  BY DEF OpenOverride, OpenLast, OpenDemo, Boots, ShellTypes
<1>4. astray' \in BOOLEAN /\ (~ astray' => ~ astray)
  BY DEF OpenOverride, OpenLast, OpenDemo, Asks, ShellTypes
<1>5. ShellTypes' /\ OneOpening'
  BY <1>1, <1>2, <1>3, <1>4 DEF ShellTypes, OneOpening
<1>6. ASSUME shell.env = Unset, ~ astray', recorded # Unset PROVE opened' = recorded \/ notice' = recorded
  <2>1. CASE OpenLast
    BY <1>6, <2>1 DEF OpenLast, Asks, NoticeOf
  <2>2. CASE OpenDemo
    BY <1>4, <1>6, <2>2 DEF OpenDemo, Knows
  <2>. QED BY <1>6, <2>1, <2>2 DEF OpenOverride
<1>7. ASSUME shell'.at = "demo", ~ astray', recorded # Unset PROVE notice' = recorded
  BY <1>3, <1>7 DEF OpenOverride, OpenLast, OpenDemo, Boots, NoticeOf, ShellTypes
<1>8. Knows'
  BY <1>1, <1>2, <1>3, <1>6, <1>7 DEF Knows
<1>. QED BY <1>5, <1>8

\* A directory is picked, opened or refused, and recorded, or its answer is lost.
LEMMA PickPreserves ==
  ASSUME ShellInv, NEW n \in Picks, Pick(n) \/ Serve(n) \/ PickEnds(n)
  PROVE  ShellInv'
<1>. USE DEF ShellInv
<1>1. CASE Pick(n)
  <2>1. PICK dir \in Dirs : pick' = [pick EXCEPT ![n] = [at |-> "sent", dir |-> dir]]
    BY <1>1 DEF Pick
  <2>2. /\ shell.at = "running" /\ astray' = (astray \/ Openings # {})
        /\ UNCHANGED <<shell, held, opened, recorded, notice>>
    BY <1>1 DEF Pick, UnderWay, Openings
  <2>3. /\ pick' \in [Picks -> [at : {"new", "sent", "taken", "refused", "done"}, dir : Dirs \cup {Unset}]]
        /\ pick'[n].at = "sent" /\ \A m \in Picks : m # n => pick'[m] = pick[m]
    BY <2>1 DEF ShellTypes
  <2>4. Openings' \subseteq Openings \cup {n}
    BY <2>3 DEF Openings
  <2>5. ShellTypes'
    BY <2>2, <2>3 DEF ShellTypes
  <2>6. OneOpening'
    BY <2>2, <2>4, <2>5 DEF OneOpening, ShellTypes
  <2>7. Knows'
    BY <2>2, <2>3, <2>4 DEF Knows, ShellTypes
  <2>. QED BY <2>5, <2>6, <2>7
<1>2. CASE Serve(n)
  <2>1. /\ pick[n].at = "sent" /\ UNCHANGED <<shell, held, recorded, notice, astray>>
        /\ \/ opened' = pick[n].dir /\ pick' = [pick EXCEPT ![n].at = "taken"]
           \/ pick' = [pick EXCEPT ![n].at = "refused"] /\ UNCHANGED opened
    BY <1>2 DEF Serve
  <2>2. /\ pick' \in [Picks -> [at : {"new", "sent", "taken", "refused", "done"}, dir : Dirs \cup {Unset}]]
        /\ \/ pick'[n].at = "taken" /\ opened' = pick'[n].dir
           \/ pick'[n].at = "refused" /\ opened' = opened
        /\ \A m \in Picks : m # n => pick'[m] = pick[m]
    BY <2>1 DEF ShellTypes
  <2>3. Openings' = Openings /\ n \in Openings
    BY <2>1, <2>2 DEF Openings
  <2>4. ShellTypes' /\ OneOpening'
    BY <2>1, <2>2, <2>3 DEF ShellTypes, OneOpening
  <2>5. Knows'
    BY <2>1, <2>2, <2>3 DEF Knows, OneOpening
  <2>. QED BY <2>4, <2>5
<1>3. CASE PickEnds(n)
  <2>1. /\ shell.at = "running" /\ pick[n].at \in {"taken", "refused"}
        /\ pick' = [pick EXCEPT ![n].at = "done"] /\ UNCHANGED <<shell, held, opened, notice>>
        /\ \/ recorded' = (IF pick[n].at = "taken" THEN pick[n].dir ELSE recorded) /\ UNCHANGED astray
           \/ UNCHANGED recorded /\ astray' = TRUE
    BY <1>3 DEF PickEnds, Records
  <2>2. /\ pick' \in [Picks -> [at : {"new", "sent", "taken", "refused", "done"}, dir : Dirs \cup {Unset}]]
        /\ pick'[n].at = "done" /\ \A m \in Picks : m # n => pick'[m] = pick[m]
    BY <2>1 DEF ShellTypes
  <2>3. Openings' = Openings \ {n} /\ n \in Openings
    BY <2>1, <2>2 DEF Openings
  <2>4. astray' \in BOOLEAN /\ (~ astray' => ~ astray)
    <3>1. CASE UNCHANGED astray
      BY <3>1 DEF ShellTypes
    <3>2. CASE astray' = TRUE
      BY <3>2
    <3>. QED BY <2>1, <3>1, <3>2
  <2>5. ~ astray' => ~ astray /\ Openings' = {}
    BY <2>3, <2>4 DEF OneOpening
  <2>6. ShellTypes'
    BY <2>1, <2>2, <2>4 DEF ShellTypes
  <2>7. OneOpening'
    BY <2>1, <2>5 DEF OneOpening
  <2>8. ~ astray' => recorded' = (IF pick[n].at = "taken" THEN pick[n].dir ELSE recorded)
    BY <2>1
  <2>9. Knows'
    BY <2>1, <2>3, <2>5, <2>8 DEF Knows, OneOpening
  <2>. QED BY <2>6, <2>7, <2>9
<1>. QED BY <1>1, <1>2, <1>3

\* Every other step of the shell.
LEMMA ShellPreserved == ASSUME ShellInv, [ShellNext]_shellVars PROVE ShellInv'
<1>. USE DEF ShellInv
<1>1. CASE Announce
  <2>1. /\ shell.at = "waiting" /\ shell' = [shell EXCEPT !.at = "last"]
        /\ UNCHANGED <<opened, recorded, notice, pick, astray>>
    BY <1>1 DEF Announce
  <2>2. ShellTypes' /\ shell'.at = "last"
    BY <2>1 DEF ShellTypes
  <2>3. Openings' = Openings
    BY <2>1 DEF Openings
  <2>4. OneOpening' /\ Knows'
    BY <2>1, <2>2, <2>3 DEF OneOpening, Knows
  <2>. QED BY <2>2, <2>4
<1>2. CASE LaunchFails
  <2>1. /\ shell.at = "waiting" /\ shell' = [shell EXCEPT !.at = "running"]
        /\ UNCHANGED <<held, opened, recorded, notice, pick, astray>>
    BY <1>2 DEF LaunchFails
  <2>2. ShellTypes' /\ shell'.at = "running"
    BY <2>1 DEF ShellTypes
  <2>3. Openings' = Openings
    BY <2>1 DEF Openings
  <2>4. OneOpening' /\ Knows'
    BY <2>1, <2>2, <2>3 DEF OneOpening, Knows
  <2>. QED BY <2>2, <2>4
<1>3. CASE AnnounceLate \/ Show \/ Vanish \/ UNCHANGED shellVars
  <2>1. UNCHANGED <<shell, held, opened, recorded, notice, pick, astray>>
    BY <1>3 DEF AnnounceLate, Show, Vanish, shellVars
  <2>2. Openings' = Openings
    BY <2>1 DEF Openings
  <2>. QED BY <2>1, <2>2 DEF ShellTypes, OneOpening, Knows
<1>4. CASE ChildExits \/ Dismiss
  <2>1. astray' = TRUE /\ UNCHANGED <<shell, held, pick>>
    BY <1>4 DEF ChildExits, Dismiss
  <2>2. Openings' = Openings
    BY <2>1 DEF Openings
  <2>. QED BY <2>1, <2>2 DEF ShellTypes, OneOpening, Knows
<1>5. CASE QuitShell
  <2>1. shell' = [shell EXCEPT !.at = "gone"] /\ held' = Unset /\ pick' = Over /\ UNCHANGED astray
    BY <1>5 DEF QuitShell, Boots
  <2>2. /\ pick' \in [Picks -> [at : {"new", "sent", "taken", "refused", "done"}, dir : Dirs \cup {Unset}]]
        /\ \A m \in Picks : pick'[m].at \in {"new", "done"}
    BY <2>1 DEF Over, ShellTypes
  <2>3. ShellTypes' /\ shell'.at = "gone"
    BY <2>1, <2>2 DEF ShellTypes
  <2>4. Openings' = {}
    BY <2>2 DEF Openings
  <2>. QED BY <2>1, <2>3, <2>4 DEF OneOpening, Knows
<1>6. CASE Start
  <2>1. PICK env \in Overrides : shell' = Launched(shell.launch + 1, env)
    BY <1>6 DEF Start
  <2>2. shell.at = "gone" /\ astray' = FALSE /\ UNCHANGED <<held, pick>>
    BY <1>6 DEF Start
  <2>3. ShellTypes' /\ shell'.at = "waiting"
    <3>1. /\ shell' \in [launch : Nat, at : {"waiting", "last", "demo", "running", "gone"}, env : Overrides]
          /\ shell'.at = "waiting"
      BY <2>1 DEF ShellTypes, Launched
    <3>2. astray' \in BOOLEAN
      BY <2>2
    <3>. QED BY <2>2, <3>1, <3>2 DEF ShellTypes
  <2>4. Openings' = {}
    BY <2>2 DEF Openings, OneOpening
  <2>. QED BY <2>2, <2>3, <2>4 DEF OneOpening, Knows
<1>. QED BY <1>1, <1>2, <1>3, <1>4, <1>5, <1>6, OpenPreserves, PickPreserves DEF ShellNext

\* Once a launch has come up and no directory is being opened, the operator works in the workspace
\* that the next launch will open, or has been told which one could not be opened, over any number
\* of launches, openings and directories that are gone.
THEOREM LaunchReopensOrTells == ShellSpec => []ReopensOrTells
<1>1. ShellInit => ShellInv
  <2>. SUFFICES ASSUME ShellInit PROVE ShellInv
    OBVIOUS
  <2>1. ShellTypes
    <3>1. shell \in [launch : Nat, at : {"waiting", "last", "demo", "running", "gone"}, env : Overrides]
      BY DEF ShellInit, Launched
    <3>2. pick \in [Picks -> [at : {"new", "sent", "taken", "refused", "done"}, dir : Dirs \cup {Unset}]]
      BY DEF ShellInit
    <3>3. astray \in BOOLEAN
      BY DEF ShellInit
    <3>. QED BY <3>1, <3>2, <3>3 DEF ShellTypes
  <2>2. Openings = {} /\ shell.at = "waiting" /\ held = Unset
    BY DEF ShellInit, Launched, Openings
  <2>. QED BY <2>1, <2>2 DEF ShellInv, OneOpening, Knows
<1>2. ShellInv /\ [ShellNext]_shellVars => ShellInv'
  BY ShellPreserved
<1>3. ShellInv => ReopensOrTells
  BY DEF ShellInv, Knows, Openings, ReopensOrTells, UnderWay
<1>. QED BY <1>1, <1>2, <1>3, PTL DEF ShellSpec
=============================================================================

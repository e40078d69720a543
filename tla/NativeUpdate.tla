---------------------------- MODULE NativeUpdate ----------------------------
(***************************************************************************)
(* The native update channel, Windows' and that of a signed macOS build:   *)
(* which builds have it, and the service createUpdaterService of           *)
(* apps/desktop/src/updater.cjs, as main.js and the settings drive it,     *)
(* over electron-updater, which is vendored when the app is packaged and   *)
(* modelled from its events.                                               *)
(*                                                                         *)
(* The service keeps one state, and the last event or call to come sets    *)
(* it: checks (by the timer and in the settings) and downloads overlap.    *)
(* electron-updater has one check and one download at a time; a call made  *)
(* while one is under way joins it.                                        *)
(***************************************************************************)
EXTENDS Naturals

CONSTANTS
  LastVersion,  \* bound of the model: the latest release; 1 is installed
  MaxChecks,    \* bound of the model: checks
  MaxErrors,    \* bound of the model: requests that fail
  Nothing

VARIABLES
  build,      \* the build that runs
  native,    \* state, and the version published with it
  checking,   \* a check of electron-updater is under way
  offer,      \* updateInfoAndProvider: the release its next download is of
  loading,    \* the release its download is of
  file,       \* the installer it has downloaded
  running,    \* the version that runs
  released,   \* the latest release
  counts      \* checks and errors so far

nativeVars == <<build, native, checking, offer, loading, file, running, released, counts>>

\* Whether it names its publisher, whether OWB_NATIVE_MAC_UPDATES is set, and whether the
\* vendored updater loads.
Builds ==
  [platform : {"win32", "darwin", "linux"}, signed : BOOLEAN, flag : BOOLEAN, loads : BOOLEAN]

\* updateChannelAvailability
Available(b) == b.platform = "win32" \/ (b.platform = "darwin" /\ b.signed)

\* startUpdaterService
Channel(b) ==
  CASE b.platform = "darwin" /\ ~ b.flag /\ ~ b.signed -> "free"
    [] Available(b) /\ b.loads -> "native"
    [] OTHER -> "none"

FreshNative == [state |-> IF Channel(build) = "native" THEN "idle" ELSE "unavailable", version |-> Nothing]

NativeInit ==
  /\ build \in {b \in Builds : Channel(b) # "free"}
  /\ native = FreshNative
  /\ checking = FALSE /\ offer = Nothing /\ loading = Nothing /\ file = Nothing
  /\ running = 1 /\ released = 1
  /\ counts = [checks |-> 0, errors |-> 0]

Publishes(state, version) == native' = [state |-> state, version |-> version]

Erring == counts.errors < MaxErrors /\ counts' = [counts EXCEPT !.errors = @ + 1]

Released ==
  /\ released < LastVersion
  /\ released' = released + 1
  /\ UNCHANGED <<build, native, checking, offer, loading, file, running, counts>>

-----------------------------------------------------------------------------
(* Checks: unsigned builds make them too *)

CheckNow ==
  /\ counts.checks < MaxChecks
  /\ counts' = [counts EXCEPT !.checks = @ + 1]
  /\ IF Channel(build) = "native" THEN Publishes("checking", Nothing) /\ checking' = TRUE
     ELSE Publishes("unavailable", Nothing) /\ UNCHANGED checking
  /\ UNCHANGED <<build, offer, loading, file, running, released>>

\* update-available and update-not-available: only the former replaces the offer.
CheckTells ==
  /\ checking /\ checking' = FALSE
  /\ IF released > running
     THEN Publishes("available", released) /\ offer' = released
     ELSE Publishes("current", Nothing) /\ UNCHANGED offer
  /\ UNCHANGED <<build, loading, file, running, released, counts>>

CheckErrs ==
  /\ checking /\ checking' = FALSE
  /\ Erring
  /\ Publishes("error", Nothing)
  /\ UNCHANGED <<build, offer, loading, file, running, released>>

-----------------------------------------------------------------------------
(* Downloads *)

\* What the operator's confirmation is checked for: the signature, the confirmation (which
\* main.js forwards and never makes up), and the state.
Granted(confirmed, state) == build.signed /\ confirmed /\ native.state = state

\* downloadUpdate: one of another release does away with the installer that is there.
DownloadNow ==
  /\ \E confirmed \in BOOLEAN : Granted(confirmed, "available")
  /\ loading = Nothing
  /\ loading' = offer
  /\ file' = IF file = offer THEN file ELSE Nothing
  /\ UNCHANGED <<build, native, checking, offer, running, released, counts>>

\* Variant: the last of the progress is taken for the end (refuted by ReadyIsDownloaded).
ReadyAtOnce(version) == Publishes("downloaded", version)

Downloading(version) == Publishes("downloading", Nothing)

\* download-progress
ProgressTells ==
  /\ loading # Nothing
  /\ Downloading(loading)
  /\ UNCHANGED <<build, checking, offer, loading, file, running, released, counts>>

\* update-downloaded
DownloadTells ==
  /\ loading # Nothing
  /\ file' = loading /\ loading' = Nothing
  /\ Publishes("downloaded", loading)
  /\ UNCHANGED <<build, checking, offer, running, released, counts>>

\* The connection fails, or the installer is not its publisher's.
DownloadErrs ==
  /\ loading # Nothing /\ loading' = Nothing
  /\ Erring
  /\ Publishes("error", Nothing)
  /\ UNCHANGED <<build, checking, offer, file, running, released>>

-----------------------------------------------------------------------------
(* Installation *)

\* quitAndInstall: what runs next is the file; nothing of the service outlives the app.
InstallNow ==
  /\ \E confirmed \in BOOLEAN : Granted(confirmed, "downloaded")
  /\ running' = IF file = Nothing THEN running ELSE file
  /\ native' = FreshNative
  /\ checking' = FALSE /\ offer' = Nothing /\ loading' = Nothing /\ file' = Nothing
  /\ UNCHANGED <<build, released, counts>>

\* autoInstallOnAppQuit is off: a normal quit installs nothing.
QuitNative ==
  /\ native # FreshNative
  /\ native' = FreshNative
  /\ checking' = FALSE /\ offer' = Nothing /\ loading' = Nothing /\ file' = Nothing
  /\ UNCHANGED <<build, running, released, counts>>

NativeNext ==
  \/ Released \/ CheckNow \/ CheckTells \/ CheckErrs
  \/ DownloadNow \/ ProgressTells \/ DownloadTells \/ DownloadErrs
  \/ InstallNow \/ QuitNative

NativeSpec == NativeInit /\ [][NativeNext]_nativeVars

-----------------------------------------------------------------------------
(* Properties *)

(***************************************************************************)
(* updater.cjs:272-279: "Install" is granted in the state "downloaded"     *)
(* alone, so that state must never outlive or precede what it says.        *)
(* However checks, downloads and their events overlap, and after a later   *)
(* release was offered, the version that is shown as downloaded is the     *)
(* installer electron-updater has, whole and of a newer version, and no    *)
(* other is being downloaded in its place.                                 *)
(***************************************************************************)
ReadyIsDownloaded ==
  native.state = "downloaded" =>
    file = native.version /\ file > running /\ loading = Nothing
=============================================================================

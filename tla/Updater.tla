------------------------------ MODULE Updater ------------------------------
(***************************************************************************)
(* The update state machine (updater.rs): check, download and install, one *)
(* at a time, each on a worker thread, with a callback after every change. *)
(*                                                                         *)
(* A locked region is one step. A worker calls notify after it unlocks, so *)
(* that call is a step of its own: with `working' already false, the next  *)
(* worker can run before a finished one has told anybody. The callback is  *)
(* the shell's (start_updater): raise a flag, and wake the host if it was  *)
(* down. Versions are numbers; a signature, a checksum or a network that   *)
(* fails is one outcome, an error. Byte counts of a download are left out. *)
(***************************************************************************)
EXTENDS Integers

CONSTANTS
    Build,      \* the version of the running build
    Versions,   \* the versions a feed may name
    MaxLate     \* bound: finished workers that have not called notify yet

ASSUME VersionsAssumption == Build \in Nat /\ Versions \subseteq Nat
ASSUME MaxLateAssumption == MaxLate \in Nat

VARIABLES
    canInstall, \* config.installation is set
    status, working,
    release,    \* the latest release seen: a set of at most one
    ready,      \* the version of the installer held open: a set of at most one
    dayPassed,  \* last_check is None or a day old
    worker,     \* the job of the thread behind `working'
    late,       \* workers that are done and still owe a notify
    flag, woken \* Inbox::update, and a wake-up the host has not taken

machine == <<status, working, release, ready, dayPassed, worker>>
updaterVars == <<canInstall, machine, late, flag, woken>>

None == {}
Some(x) == {x}

\* Idle, Checking and the failures are about no version
About(is, v) == [is |-> is, version |-> Some(v)]
Plain(is) == [is |-> is, version |-> None]

Busy(s) == s.is \in {"Checking", "Downloading", "Installing"}
IsOlderThan(v) == v > Build

NoJob == [job |-> "none"]
CheckJob(manual, download, previous) ==
    [job |-> "check", manual |-> manual, download |-> download,
     previous |-> previous]
Job(name) == [job |-> name]

UInit ==
    /\ canInstall \in BOOLEAN
    /\ status = Plain("Idle") /\ working = FALSE
    /\ release = None /\ ready = None /\ dayPassed = TRUE
    /\ worker = NoJob /\ late = 0
    /\ flag = FALSE /\ woken = FALSE

-----------------------------------------------------------------------------
(* The callback *)

Raise ==
    /\ flag' = TRUE
    /\ woken' = (woken \/ ~flag)

(* A worker that has finished calls it. *)
Changed ==
    /\ late > 0
    /\ late' = late - 1
    /\ Raise
    /\ UNCHANGED <<canInstall, machine>>

\* Mutant: a worker that is done tells nobody.
FinishSilently(new) ==
    /\ status' = new
    /\ working' = FALSE
    /\ worker' = NoJob
    /\ UNCHANGED <<canInstall, dayPassed, late, flag, woken>>

(* A job is over and `working' is clear: the thread unlocks with the new   *)
(* status and still owes a notify.                                         *)
Finish(new) ==
    /\ late < MaxLate
    /\ late' = late + 1
    /\ status' = new
    /\ working' = FALSE
    /\ worker' = NoJob
    /\ UNCHANGED <<canInstall, dayPassed, flag, woken>>

-----------------------------------------------------------------------------
(* Requests, made on the host's one thread *)

\* Mutant: a thread that does not start is not told of.
SpawnSilently(job, new, quietly) ==
    \/ /\ working' = TRUE /\ worker' = job /\ status' = new
       /\ IF quietly THEN UNCHANGED <<flag, woken>> ELSE Raise
    \/ /\ working' = FALSE /\ worker' = NoJob
       /\ status' = Plain("FailedCheck")
       /\ UNCHANGED <<flag, woken>>

(* A thread for `job'; without one, whatever was asked for ends as a failed *)
(* check. Either way the caller has notified, `quietly' aside.             *)
Spawn(job, new, quietly) ==
    \/ /\ working' = TRUE /\ worker' = job /\ status' = new
       /\ IF quietly THEN UNCHANGED <<flag, woken>> ELSE Raise
    \/ /\ working' = FALSE /\ worker' = NoJob /\ status' = Plain("FailedCheck")
       /\ Raise

\* Mutant: a check is due while an installer waits.
DueWhileReady == ~working /\ dayPassed

Due == ~working /\ status.is # "Ready" /\ dayPassed

Check(manual, download) ==
    IF working
    THEN UNCHANGED updaterVars
    ELSE /\ Spawn(CheckJob(manual, download, status),
                  IF manual THEN Plain("Checking") ELSE status, ~manual)
         /\ dayPassed' = FALSE
         /\ UNCHANGED <<canInstall, release, ready, late>>

MayDownload(r) == ~working /\ IsOlderThan(r.version)

Download ==
    IF \E r \in release : MayDownload(r)
    THEN \E r \in release :
            /\ Spawn(Job("download"), About("Downloading", r.version), FALSE)
            /\ UNCHANGED <<canInstall, release, ready, dayPassed, late>>
    ELSE UNCHANGED updaterVars

MayInstall == canInstall /\ ~working /\ status.is = "Ready" /\ ready # None

(* The worker takes the held installer with it. *)
Install ==
    IF MayInstall
    THEN \E v \in ready :
            /\ Spawn([job |-> "setup", version |-> v],
                     About("Installing", v), FALSE)
            /\ ready' = None
            /\ UNCHANGED <<canInstall, release, dayPassed, late>>
    ELSE UNCHANGED updaterVars

-----------------------------------------------------------------------------
(* Workers *)

Fetches(r) ==
    IsOlderThan(r.version) /\ worker.download /\ canInstall /\ r.installer

\* Mutant: an available release is not named.
FoundUnnamed(r) ==
    IF ~IsOlderThan(r.version) THEN About("UpToDate", r.version)
    ELSE IF Fetches(r) THEN About("Downloading", r.version)
    ELSE Plain("Available")

Found(r) ==
    IF ~IsOlderThan(r.version) THEN About("UpToDate", r.version)
    ELSE IF Fetches(r) THEN About("Downloading", r.version)
    ELSE About("Available", r.version)

(* The latest release is known: whatever the feed names now, which may be  *)
(* older than what it named before.                                        *)
CheckFinds ==
    /\ worker.job = "check"
    /\ \E r \in [version : Versions, installer : BOOLEAN] :
          /\ release' = Some(r)
          /\ \/ /\ ~Fetches(r)
                /\ Finish(Found(r))
             \/ /\ Fetches(r)
                /\ status' = Found(r)
                /\ worker' = Job("found")
                /\ UNCHANGED <<canInstall, working, dayPassed, late, flag,
                               woken>>
    /\ UNCHANGED ready

CheckFails ==
    /\ worker.job = "check"
    /\ Finish(IF worker.manual THEN Plain("FailedCheck") ELSE worker.previous)
    /\ UNCHANGED <<release, ready>>

(* The check's own thread goes on to download. *)
CheckGoesOn ==
    /\ worker.job = "found"
    /\ worker' = Job("download")
    /\ Raise
    /\ UNCHANGED <<canInstall, status, working, release, ready, dayPassed,
                   late>>

DownloadProgress ==
    /\ worker.job = "download"
    /\ \E r \in release : status' = About("Downloading", r.version)
    /\ Raise
    /\ UNCHANGED <<canInstall, working, release, ready, dayPassed, worker,
                   late>>

(* The download is moved over the file of its name. An installer of that   *)
(* version that is still held open lets nobody replace it.                 *)
Fetchable(r) == r.installer /\ r.version \notin ready

DownloadReady ==
    /\ worker.job = "download"
    /\ \E r \in release :
          /\ Fetchable(r)
          /\ ready' = Some(r.version)
          /\ Finish(About("Ready", r.version))
    /\ UNCHANGED release

DownloadFails ==
    /\ worker.job = "download"
    /\ Finish(Plain("FailedDownload"))
    /\ UNCHANGED <<release, ready>>

(* Setup exits with 2 or 5 and this process still runs. *)
SetupCancelled ==
    /\ worker.job = "setup"
    /\ ready' = Some(worker.version)
    /\ Finish(About("Ready", worker.version))
    /\ UNCHANGED release

(* Setup could not run, or exits with anything else. *)
SetupFails ==
    /\ worker.job = "setup"
    /\ Finish(Plain("FailedInstall"))
    /\ UNCHANGED <<release, ready>>

JobEnds ==
    \/ CheckFinds \/ CheckFails
    \/ DownloadReady \/ DownloadFails
    \/ SetupCancelled \/ SetupFails

Workers == JobEnds \/ CheckGoesOn \/ DownloadProgress \/ Changed

=============================================================================

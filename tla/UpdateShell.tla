---------------------------- MODULE UpdateShell ----------------------------
(***************************************************************************)
(* The updater as the shell drives it (ot-shell-core): the button, the     *)
(* hourly tick, settings, closing the window with an update waiting, and   *)
(* the inbox through which a worker's change reaches the view.             *)
(*                                                                         *)
(* All of the shell runs on the host's one thread, so a handler is one     *)
(* step. The exception is drain: workers change the status between its     *)
(* clearing of the flag and its reading of the status.                     *)
(***************************************************************************)
EXTENDS Updater

CONSTANT MaxDays    \* bound: days that pass

ASSUME MaxDaysAssumption == MaxDays \in Nat

VARIABLES
    view,       \* the status the view shows and its button acts on
    settings,   \* check_updates, download_updates, install_updates
    closing,    \* Shell::closing
    closeAsked, \* a close of the window has been posted
    draining,   \* drain has taken the update flag and not read the status
    alive,      \* the process runs
    days

shellVars == <<view, settings, closing, closeAsked, draining, alive, days>>
vars == <<updaterVars, shellVars>>

Settings == [check : BOOLEAN, download : BOOLEAN, install : BOOLEAN]
Downloads(s) == s.download \/ s.install

Init ==
    /\ UInit
    /\ view = Plain("Idle")
    /\ settings \in Settings
    /\ closing = "No"
    /\ closeAsked = FALSE /\ draining = FALSE /\ alive = TRUE
    /\ days = 0

Handler == alive /\ ~draining

(* Windows, the one system with an installation, hands out what was posted *)
(* before it hands out input and timers.                                   *)
Input == Handler /\ (canInstall => ~woken)

-----------------------------------------------------------------------------
(* The button *)

Action(s) ==
    IF s.is = "Ready" THEN "Install"
    ELSE IF s.is = "Available"
         THEN (IF canInstall THEN "Download" ELSE "OpenReleasePage")
    ELSE IF Busy(s) THEN "none"
    ELSE "Check"

(* What the click does is decided by what the view shows. *)
Click ==
    /\ Input
    /\ \/ Action(view) = "Check" /\ Check(TRUE, canInstall)
       \/ Action(view) = "Download" /\ Download
       \/ Action(view) = "Install" /\ Install
    /\ UNCHANGED shellVars

-----------------------------------------------------------------------------
(* The clock, and the settings *)

UpdateTick ==
    /\ Input
    /\ settings.check /\ Due
    /\ Check(FALSE, Downloads(settings) /\ canInstall)
    /\ UNCHANGED shellVars

DayPasses ==
    /\ alive
    /\ days < MaxDays /\ ~dayPassed
    /\ days' = days + 1
    /\ dayPassed' = TRUE
    /\ UNCHANGED <<canInstall, status, working, release, ready, worker, late,
                   flag, woken, view, settings, closing, closeAsked, draining,
                   alive>>

ReleaseWaits == status.is = "Available" /\ canInstall

SaveSettings ==
    /\ Input
    /\ \E new \in Settings :
          /\ settings' = new
          /\ IF Downloads(new) /\ ReleaseWaits
             THEN Download
             ELSE UNCHANGED updaterVars
    /\ UNCHANGED <<view, closing, closeAsked, draining, alive, days>>

-----------------------------------------------------------------------------
(* Closing *)

UserCloses ==
    /\ alive
    /\ closeAsked' = TRUE
    /\ UNCHANGED <<updaterVars, view, settings, closing, draining, alive, days>>

(* Logoff or shutdown; or Setup, through Restart Manager. *)
SessionEnds ==
    /\ Handler
    /\ closing' = "SessionEnding"
    /\ closeAsked' = TRUE
    /\ UNCHANGED <<updaterVars, view, settings, draining, alive, days>>

InstallsOnClose ==
    /\ closing = "No"
    /\ settings.install /\ status.is = "Ready" /\ canInstall

(* The window hides while Setup runs. *)
CloseHides ==
    /\ Handler /\ closeAsked
    /\ InstallsOnClose
    /\ closeAsked' = FALSE
    /\ closing' = "InstallingUpdate"
    /\ Install
    /\ UNCHANGED <<view, settings, draining, alive, days>>

CloseEnds ==
    /\ Handler /\ closeAsked
    /\ ~InstallsOnClose
    /\ alive' = FALSE
    /\ UNCHANGED <<updaterVars, view, settings, closing, closeAsked, draining,
                   days>>

-----------------------------------------------------------------------------
(* The inbox *)

(* Another notification wakes the host as well. *)
OtherWake ==
    /\ alive
    /\ woken' = TRUE
    /\ UNCHANGED <<canInstall, machine, late, flag, shellVars>>

Drain ==
    /\ Handler /\ woken
    /\ woken' = FALSE
    /\ draining' = flag
    /\ flag' = FALSE
    /\ UNCHANGED <<canInstall, machine, late, view, settings, closing,
                   closeAsked, alive, days>>

(* Setup was started as the window closed, and has ended without closing   *)
(* it: finish closing.                                                     *)
FinishesClosing == closing = "InstallingUpdate" /\ status.is # "Installing"

OnUpdate ==
    /\ alive /\ draining
    /\ draining' = FALSE
    /\ view' = status
    /\ closeAsked' = (closeAsked \/ FinishesClosing)
    /\ UNCHANGED <<updaterVars, settings, closing, alive, days>>

-----------------------------------------------------------------------------
WorkersRun == alive /\ Workers /\ UNCHANGED shellVars

Next ==
    \/ Click \/ UpdateTick \/ DayPasses \/ SaveSettings
    \/ UserCloses \/ SessionEnds \/ CloseHides \/ CloseEnds
    \/ OtherWake \/ Drain \/ OnUpdate
    \/ WorkersRun

(* The host takes its messages in the order they were posted, so a close   *)
(* that is asked for is not put off for ever by wake-ups, and a thread that *)
(* runs goes on. A job ends: a fetch has time limits, and Setup runs       *)
(* without a wizard.                                                       *)
Fairness ==
    /\ WF_vars(Drain) /\ WF_vars(OnUpdate)
    /\ SF_vars(CloseHides) /\ SF_vars(CloseEnds)
    /\ WF_vars(alive /\ JobEnds /\ UNCHANGED shellVars)
    /\ WF_vars(alive /\ CheckGoesOn /\ UNCHANGED shellVars)
    /\ WF_vars(alive /\ Changed /\ UNCHANGED shellVars)

Spec == Init /\ [][Next]_vars
FairSpec == Spec /\ Fairness

-----------------------------------------------------------------------------
(* Properties *)

Options(S) == {None} \cup {Some(x) : x \in S}
Statuses ==
    [is : {"Idle", "Checking", "FailedCheck", "FailedDownload",
           "FailedInstall"}, version : {None}]
    \cup [is : {"UpToDate", "Available", "Downloading", "Ready", "Installing"},
          version : {Some(v) : v \in Versions}]
Releases == [version : Versions, installer : BOOLEAN]

Jobs ==
    {NoJob} \cup {Job(name) : name \in {"found", "download"}}
    \cup [job : {"setup"}, version : Versions]
    \cup [job : {"check"}, manual : BOOLEAN, download : BOOLEAN,
          previous : Statuses]

(* Every variable has its type. *)
TypeOK ==
    /\ canInstall \in BOOLEAN /\ working \in BOOLEAN /\ dayPassed \in BOOLEAN
    /\ flag \in BOOLEAN /\ woken \in BOOLEAN
    /\ status \in Statuses /\ view \in Statuses
    /\ release \in Options(Releases) /\ ready \in Options(Versions)
    /\ worker \in Jobs
    /\ late \in 0 .. MaxLate /\ days \in 0 .. MaxDays
    /\ settings \in Settings
    /\ closing \in {"No", "InstallingUpdate", "SessionEnding"}
    /\ closeAsked \in BOOLEAN /\ draining \in BOOLEAN /\ alive \in BOOLEAN

(* Ready and the installer held open go together. Whenever the status says *)
(* Ready an install would go ahead: no worker runs, and the installer held *)
(* is the one the status names; close relies on it when it hides the       *)
(* window and calls install, which refuses in silence. And an installer    *)
(* held while no worker runs is on offer: one held and not offered would   *)
(* lock its own replacement out, since the next download of that version   *)
(* could not be moved into place (hold, fetch_installer). It takes the     *)
(* tick's due test, what a failed quiet check puts back, a cancelled Setup *)
(* and the order the host takes its messages in together.                  *)
ReadyIsInstallable ==
    /\ status.is = "Ready" => MayInstall /\ ready = status.version
    /\ ready # None /\ ~working => status.is = "Ready"

(* A status that shows something under way has a worker that will end it:  *)
(* while it shows, the button does nothing, so without a worker it would   *)
(* stay dead.                                                              *)
BusyIsWorking == Busy(status) => working /\ worker # NoJob

(* Once every notification has been taken in, the view shows the           *)
(* updater's status, whatever workers did between the clearing of the flag *)
(* and the reading of the status (Shell::drain, Inbox::flag).              *)
Told == late = 0 /\ worker.job # "found" /\ ~draining
SettledViewIsCurrent == Told /\ ~woken => view = status

(* A window hidden for an install either has Setup running, or a           *)
(* notification or a close still on its way: it is never left hidden with  *)
(* nothing that will end the process (Shell::close, Shell::on_update).     *)
HiddenIsInstalling ==
    alive /\ closing = "InstallingUpdate" =>
        \/ status.is = "Installing"
        \/ closeAsked \/ draining \/ woken \/ late > 0

(* Closing the window with an update waiting ends the process, whether     *)
(* Setup closes it, fails, is cancelled or never starts.                   *)
HiddenCloses == (closing = "InstallingUpdate") ~> ~alive

(* The button never stays dead: what it shows as under way comes to an end *)
(* the view hears about.                                                   *)
ButtonComesBack == Busy(view) ~> (~Busy(view) \/ ~alive)

(* What the sources say and the code does not do: *)

(* "Downloading was just turned on with a release waiting: start now"      *)
(* (ot-shell-core/src/lib.rs:828).                                         *)
DownloadStartsWhenTurnedOn ==
    [][ ~Downloads(settings) /\ Downloads(settings') /\ ReleaseWaits
        => status' # status ]_vars

=============================================================================

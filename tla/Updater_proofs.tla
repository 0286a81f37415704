--------------------------- MODULE Updater_proofs ---------------------------
(***************************************************************************)
(* The updater's safety properties, for any versions and any number of     *)
(* days and of finished workers that have not told anybody yet.            *)
(*                                                                         *)
(* None of them is inductive alone. A held installer is on offer because a *)
(* click cannot check over it, and it cannot because the view the click is *)
(* decided by is busy, ready, or about to be refreshed by a message the    *)
(* host takes before the click. IInv says how far the view may lag behind. *)
(***************************************************************************)
EXTENDS UpdateShell, TLAPS

Fetching == worker.job \in {"found", "download"}

\* The job behind `working', and the status it goes with.
JobInv ==
    /\ working <=> worker # NoJob
    /\ Fetching <=> status.is = "Downloading"
    /\ worker.job = "setup" <=> status.is = "Installing"
    /\ status.is = "Checking" => worker.job = "check"
    /\ worker.job \in {"found", "download", "setup"} => canInstall
    /\ worker.job = "check" /\ ~worker.manual =>
          worker.previous.is # "Ready" /\ ~Busy(worker.previous)

\* An installer is held exactly while the status offers it.
ReadyInv ==
    /\ ready # None => status.is = "Ready"
    /\ status.is = "Ready" => canInstall /\ ~working /\ ready = status.version

\* A change the host has been told of and has not taken in.
Pending == flag \/ draining

\* While there is an installer, or one is on its way, the view offers no check.
ViewInv ==
    /\ flag => woken
    /\ worker.job = "download" \/ worker.job = "setup" \/ status.is = "Ready" =>
          Pending \/ view.is \in {"Downloading", "Installing", "Ready"}
    /\ late = 0 /\ worker.job # "found" /\ ~Pending => view = status

ClosingInv ==
    alive /\ closing = "InstallingUpdate" =>
        status.is = "Installing" \/ closeAsked \/ Pending \/ late > 0

IInv == TypeOK /\ JobInv /\ ReadyInv /\ ViewInv /\ ClosingInv

USE VersionsAssumption, MaxLateAssumption, MaxDaysAssumption
    DEF VersionsAssumption, MaxLateAssumption, MaxDaysAssumption

-----------------------------------------------------------------------------
(* Statuses and jobs                                                        *)

\* A status has one of the names, and one that is Ready names a version.
LEMMA StatusShape ==
    ASSUME NEW s \in Statuses
    PROVE  /\ s.is \in {"Idle", "Checking", "FailedCheck", "FailedDownload",
                        "FailedInstall", "UpToDate", "Available",
                        "Downloading", "Ready", "Installing"}
           /\ s.is = "Ready" => \E v \in Versions : s.version = Some(v)
BY DEF Statuses

\* A status about a version is one.
LEMMA AboutShape ==
    ASSUME NEW is \in {"UpToDate", "Available", "Downloading", "Ready",
                       "Installing"},
           NEW v \in Versions
    PROVE  /\ About(is, v) \in Statuses
           /\ About(is, v).is = is /\ About(is, v).version = Some(v)
BY DEF About, Statuses

\* A status about no version is one.
LEMMA PlainShape ==
    ASSUME NEW is \in {"Idle", "Checking", "FailedCheck", "FailedDownload",
                       "FailedInstall"}
    PROVE  Plain(is) \in Statuses /\ Plain(is).is = is
BY DEF Plain, Statuses

\* A job is one of five, each with the parts its worker uses.
LEMMA JobShape ==
    ASSUME NEW j \in Jobs
    PROVE  /\ j.job \in {"none", "found", "download", "setup", "check"}
           /\ j.job = "none" <=> j = NoJob
           /\ j.job = "setup" => j.version \in Versions
           /\ j.job = "check" => /\ j.manual \in BOOLEAN
                                 /\ j.download \in BOOLEAN
                                 /\ j.previous \in Statuses
BY DEF Jobs, NoJob, Job

\* The jobs that need no more than a name are jobs.
LEMMA NamedJob ==
    ASSUME NEW name \in {"found", "download"}
    PROVE  Job(name) \in Jobs /\ Job(name).job = name /\ Job(name) # NoJob
BY DEF Jobs, Job, NoJob

\* Running the installer is a job.
LEMMA SetupJob ==
    ASSUME NEW v \in Versions
    PROVE  LET j == [job |-> "setup", version |-> v] IN
           j \in Jobs /\ j.job = "setup" /\ j # NoJob
BY DEF Jobs, NoJob

\* A check is a job.
LEMMA CheckJobShape ==
    ASSUME NEW manual \in BOOLEAN, NEW download \in BOOLEAN,
           NEW previous \in Statuses
    PROVE  LET j == CheckJob(manual, download, previous) IN
           /\ j \in Jobs /\ j.job = "check" /\ j # NoJob
           /\ j.manual = manual /\ j.previous = previous
BY DEF Jobs, CheckJob, NoJob

\* To have nothing to do is a job too.
LEMMA NoJobShape == NoJob \in Jobs /\ NoJob.job = "none"
BY DEF Jobs, NoJob

\* An optional value is none, or some one value.
LEMMA OptionShape ==
    ASSUME NEW S
    PROVE  /\ None \in Options(S)
           /\ \A x \in S : Some(x) \in Options(S) /\ Some(x) # None
           /\ \A o \in Options(S) : o \subseteq S
           /\ \A o \in Options(S) : \A x \in o : o = Some(x)
BY DEF Options, None, Some

-----------------------------------------------------------------------------

\* The invariant holds at the beginning.
LEMMA InitInv == Init => IInv
<1> SUFFICES ASSUME Init PROVE IInv OBVIOUS
<1> USE DEF Init, UInit
<1>1. Plain("Idle") \in Statuses /\ Plain("Idle").is = "Idle" BY PlainShape
<1>2. TypeOK
    <2>1. None \in Options(Releases) /\ None \in Options(Versions)
        BY OptionShape
    <2>2. 0 \in 0 .. MaxLate /\ 0 \in 0 .. MaxDays OBVIOUS
    <2> QED BY <1>1, <2>1, <2>2, NoJobShape DEF TypeOK
<1>3. JobInv BY <1>1, NoJobShape DEF JobInv, Fetching
<1>4. ReadyInv BY <1>1 DEF ReadyInv
<1>5. ViewInv BY <1>1, NoJobShape DEF ViewInv, Pending
<1>6. ClosingInv BY DEF ClosingInv
<1> QED BY <1>2, <1>3, <1>4, <1>5, <1>6 DEF IInv

-----------------------------------------------------------------------------
(* A job begins and everybody hears of it, or none begins and they do too.  *)

\* A job that begins while nothing works, with its status published, keeps the invariant.
LEMMA LoudSpawn ==
    ASSUME IInv, ~working, status.is # "Ready" \/ ready' = None,
           NEW job \in Jobs, NEW new \in Statuses, Spawn(job, new, FALSE),
           \/ job.job = "check" /\ new.is = "Checking" /\ job.manual
           \/ job.job = "download" /\ new.is = "Downloading" /\ canInstall
           \/ job.job = "setup" /\ new.is = "Installing" /\ canInstall,
           ready' \in {ready, None}, dayPassed' \in BOOLEAN,
           settings' \in Settings, closeAsked' \in BOOLEAN,
           closing' \in {"No", "InstallingUpdate", "SessionEnding"},
           UNCHANGED <<canInstall, release, late, view, draining, alive, days>>
    PROVE  IInv'
<1> USE DEF IInv
<1>1. PICK j \in {job, NoJob}, s \in {new, Plain("FailedCheck")} :
        /\ worker' = j /\ status' = s /\ working' = (j = job)
        /\ j = job <=> s = new
        /\ flag' = TRUE /\ woken' = (woken \/ ~flag)
    <2>1. job # NoJob BY JobShape, NoJobShape
    <2>2. new # Plain("FailedCheck") BY PlainShape
    <2> QED BY <2>1, <2>2 DEF Spawn, Raise
<1>2. j \in Jobs /\ s \in Statuses BY NoJobShape, PlainShape
<1>3. ready' = None
    <2>1. status.is # "Ready" => ready = None BY DEF ReadyInv
    <2> QED BY <2>1
<1>4. woken' = TRUE BY <1>1 DEF ViewInv, TypeOK
<1>5. TypeOK' BY <1>1, <1>2, <1>3, <1>4, OptionShape DEF TypeOK
<1>6. JobInv'
    <2>1. CASE j = job
        <3>1. job # NoJob /\ worker' = job /\ status' = new /\ working' = TRUE
            BY <2>1, <1>1, JobShape, NoJobShape
        <3> QED BY <3>1 DEF JobInv, Fetching
    <2>2. CASE j = NoJob
        <3>1. job # NoJob BY JobShape, NoJobShape
        <3>2. /\ worker' = NoJob /\ status' = Plain("FailedCheck")
              /\ working' = FALSE
            BY <2>2, <3>1, <1>1
        <3> QED BY <3>2, NoJobShape, PlainShape DEF JobInv, Fetching
    <2> QED BY <2>1, <2>2
<1>7. status'.is # "Ready" BY <1>1, PlainShape
<1>8. ReadyInv' BY <1>3, <1>7 DEF ReadyInv
<1>9. ViewInv' /\ ClosingInv' BY <1>1, <1>4 DEF ViewInv, ClosingInv, Pending
<1> QED BY <1>5, <1>6, <1>8, <1>9

\* Nothing of the updater moves, and nothing a shell handler may not change.
LEMMA Refused ==
    ASSUME IInv, UNCHANGED updaterVars, settings' \in Settings,
           UNCHANGED <<view, closing, closeAsked, draining, alive, days>>
    PROVE  IInv'
<1> USE DEF IInv, updaterVars, machine
<1>1. TypeOK' BY DEF TypeOK
<1>2. JobInv' /\ ReadyInv' BY DEF JobInv, ReadyInv, Fetching
<1>3. ViewInv' /\ ClosingInv' BY DEF ViewInv, ClosingInv, Pending
<1> QED BY <1>1, <1>2, <1>3

\* A check asked for by hand keeps the invariant.
LEMMA ManualCheckInv ==
    ASSUME IInv, status.is # "Ready", Check(TRUE, canInstall),
           UNCHANGED shellVars
    PROVE  IInv'
<1> USE DEF IInv, shellVars
<1>1. CASE working BY <1>1, Refused DEF Check, TypeOK
<1>2. CASE ~working
    <2> DEFINE job == CheckJob(TRUE, canInstall, status)
               new == Plain("Checking")
    <2>1. Spawn(job, new, FALSE) BY <1>2 DEF Check
    <2>2. canInstall \in BOOLEAN /\ status \in Statuses BY DEF TypeOK
    <2>3. job \in Jobs /\ job.job = "check" /\ job.manual
        BY ONLY <2>2, CheckJobShape DEF job
    <2>4. new \in Statuses /\ new.is = "Checking" BY ONLY PlainShape DEF new
    <2> HIDE DEF job, new
    <2>5. dayPassed' = FALSE /\ UNCHANGED <<canInstall, release, ready, late>>
        BY <1>2 DEF Check
    <2> QED BY <1>2, <2>1, <2>3, <2>4, <2>5, LoudSpawn DEF TypeOK
<1> QED BY <1>1, <1>2

\* Download keeps the invariant.
LEMMA DownloadInv ==
    ASSUME IInv, status.is # "Ready", canInstall, Download,
           settings' \in Settings,
           UNCHANGED <<view, closing, closeAsked, draining, alive, days>>
    PROVE  IInv'
<1> USE DEF IInv
<1>1. CASE \E r \in release : MayDownload(r)
    <2>1. PICK r \in release :
            /\ Spawn(Job("download"), About("Downloading", r.version), FALSE)
            /\ UNCHANGED <<canInstall, release, ready, dayPassed, late>>
        BY <1>1 DEF Download
    <2>2. ~working BY <1>1 DEF MayDownload
    <2>3. r.version \in Versions
        <3>1. release \subseteq Releases BY OptionShape DEF TypeOK
        <3> QED BY <3>1 DEF Releases
    <2>4. /\ About("Downloading", r.version) \in Statuses
          /\ About("Downloading", r.version).is = "Downloading"
        BY <2>3, AboutShape
    <2>5. Job("download") \in Jobs /\ Job("download").job = "download"
        BY NamedJob
    <2> QED BY <2>1, <2>2, <2>4, <2>5, LoudSpawn DEF TypeOK
<1>2. CASE ~ \E r \in release : MayDownload(r)
    BY <1>2, Refused DEF Download
<1> QED BY <1>1, <1>2

\* Install keeps the invariant.
LEMMA InstallInv ==
    ASSUME IInv, MayInstall, Install,
           settings' \in Settings, closeAsked' \in BOOLEAN,
           closing' \in {"No", "InstallingUpdate", "SessionEnding"},
           UNCHANGED <<view, draining, alive, days>>
    PROVE  IInv'
<1> USE DEF IInv
<1>1. PICK v \in ready :
        /\ Spawn([job |-> "setup", version |-> v], About("Installing", v),
                 FALSE)
        /\ ready' = None
        /\ UNCHANGED <<canInstall, release, dayPassed, late>>
    BY DEF Install
<1>2. v \in Versions BY OptionShape DEF TypeOK
<1>3. /\ About("Installing", v) \in Statuses
      /\ About("Installing", v).is = "Installing"
    BY <1>2, AboutShape
<1>4. /\ [job |-> "setup", version |-> v] \in Jobs
      /\ [job |-> "setup", version |-> v].job = "setup"
    BY <1>2, SetupJob
<1>5. canInstall /\ ~working BY DEF MayInstall
<1> QED BY <1>1, <1>3, <1>4, <1>5, LoudSpawn DEF TypeOK

-----------------------------------------------------------------------------
(* The shell's handlers                                                     *)

\* Click keeps the invariant.
LEMMA ClickInv == ASSUME IInv, Click PROVE IInv'
<1> USE DEF IInv, shellVars
<1>1. ~draining /\ (canInstall => ~woken) BY DEF Click, Input, Handler
<1>2. status.is = "Ready" => view.is \in {"Downloading", "Installing", "Ready"}
    BY <1>1 DEF ReadyInv, ViewInv, Pending
<1>3. CASE Action(view) = "Check" /\ Check(TRUE, canInstall)
    <2>1. view.is \notin {"Downloading", "Installing", "Ready"}
        BY <1>3 DEF Action, Busy
    <2> QED BY <1>2, <1>3, <2>1, ManualCheckInv DEF Click
<1>4. CASE Action(view) = "Download" /\ Download
    <2>1. view.is = "Available" /\ canInstall BY <1>4 DEF Action
    <2> QED BY <1>2, <1>4, <2>1, DownloadInv DEF Click, TypeOK
<1>5. CASE Action(view) = "Install" /\ Install
    <2>1. CASE MayInstall BY <1>5, <2>1, InstallInv DEF Click, TypeOK
    <2>2. CASE ~MayInstall BY <1>5, <2>2, Refused DEF Click, Install, TypeOK
    <2> QED BY <2>1, <2>2
<1> QED BY <1>3, <1>4, <1>5 DEF Click

\* A scheduled check: nobody is told, and nothing shows, unless it cannot start.
LEMMA UpdateTickInv == ASSUME IInv, UpdateTick PROVE IInv'
<1> USE DEF IInv, shellVars
<1>1. /\ ~working /\ status.is # "Ready" /\ UNCHANGED shellVars
      /\ Check(FALSE, Downloads(settings) /\ canInstall)
    BY DEF UpdateTick, Due
<1> DEFINE job == CheckJob(FALSE, Downloads(settings) /\ canInstall, status)
<1>2. /\ Spawn(job, status, TRUE)
      /\ dayPassed' = FALSE /\ UNCHANGED <<canInstall, release, ready, late>>
    BY <1>1 DEF Check
<1>3. ready = None BY <1>1 DEF ReadyInv
<1>4. status \in Statuses BY DEF TypeOK
<1>5. (Downloads(settings) /\ canInstall) \in BOOLEAN OBVIOUS
<1>6. /\ job \in Jobs /\ job.job = "check" /\ job # NoJob
      /\ job.previous = status
    BY <1>4, <1>5, CheckJobShape
<1> HIDE DEF job
<1>7. worker = NoJob /\ ~Busy(status)
    BY <1>1, NoJobShape DEF JobInv, Fetching, Busy
<1>8. CASE /\ working' = TRUE /\ worker' = job /\ status' = status
           /\ UNCHANGED <<flag, woken>>
    <2>1. TypeOK' BY <1>1, <1>2, <1>6, <1>8 DEF TypeOK
    <2>2. JobInv' BY <1>1, <1>2, <1>6, <1>7, <1>8 DEF JobInv, Fetching, Busy
    <2>3. ReadyInv' BY <1>1, <1>2, <1>3, <1>8 DEF ReadyInv
    <2>4. ViewInv'
        BY <1>1, <1>2, <1>6, <1>7, <1>8, NoJobShape DEF ViewInv, Pending
    <2>5. ClosingInv' BY <1>1, <1>2, <1>8 DEF ClosingInv, Pending
    <2> QED BY <2>1, <2>2, <2>3, <2>4, <2>5
<1>9. CASE /\ working' = FALSE /\ worker' = NoJob
           /\ status' = Plain("FailedCheck") /\ Raise
    <2>1. woken' = TRUE /\ flag' = TRUE BY <1>9 DEF Raise, ViewInv, TypeOK
    <2>2. status' \in Statuses /\ status'.is = "FailedCheck"
        BY <1>9, PlainShape
    <2>3. TypeOK' BY <1>1, <1>2, <1>9, <2>1, <2>2, NoJobShape DEF TypeOK
    <2>4. JobInv' BY <1>1, <1>2, <1>9, <2>2, NoJobShape DEF JobInv, Fetching
    <2>5. ReadyInv' BY <1>1, <1>2, <1>3, <2>2 DEF ReadyInv
    <2>6. ViewInv' /\ ClosingInv' BY <2>1 DEF ViewInv, ClosingInv, Pending
    <2> QED BY <2>3, <2>4, <2>5, <2>6
<1> QED BY <1>2, <1>8, <1>9 DEF Spawn

\* SaveSettings keeps the invariant.
LEMMA SaveSettingsInv == ASSUME IInv, SaveSettings PROVE IInv'
<1> USE DEF IInv
<1>1. PICK new \in Settings :
        /\ settings' = new
        /\ IF Downloads(new) /\ ReleaseWaits THEN Download
           ELSE UNCHANGED updaterVars
    BY DEF SaveSettings
<1>2. UNCHANGED <<view, closing, closeAsked, draining, alive, days>>
    BY DEF SaveSettings
<1>3. CASE Downloads(new) /\ ReleaseWaits
    BY <1>1, <1>2, <1>3, DownloadInv DEF ReleaseWaits
<1>4. CASE ~(Downloads(new) /\ ReleaseWaits) BY <1>1, <1>2, <1>4, Refused
<1> QED BY <1>3, <1>4

\* CloseHides keeps the invariant.
LEMMA CloseHidesInv == ASSUME IInv, CloseHides PROVE IInv'
<1> USE DEF IInv
<1>1. /\ status.is = "Ready" /\ Install
      /\ closeAsked' = FALSE /\ closing' = "InstallingUpdate"
      /\ UNCHANGED <<view, settings, draining, alive, days>>
    BY DEF CloseHides, InstallsOnClose
<1>2. MayInstall
    <2>1. \E v \in Versions : ready = Some(v)
        BY <1>1, StatusShape DEF ReadyInv, TypeOK
    <2> QED BY <1>1, <2>1, OptionShape DEF MayInstall, ReadyInv
<1> QED BY <1>1, <1>2, InstallInv DEF TypeOK

\* The updater is left alone, and no message of its is taken.
LEMMA ShellOnly ==
    ASSUME IInv, UNCHANGED <<canInstall, status, working, release, ready,
                             worker, late, flag, view, settings, draining>>,
           dayPassed' \in BOOLEAN, woken' \in BOOLEAN, woken => woken',
           closing' \in {"No", "InstallingUpdate", "SessionEnding"},
           closing' = "InstallingUpdate" => closing = "InstallingUpdate",
           closeAsked' \in BOOLEAN, closeAsked => closeAsked',
           alive' \in BOOLEAN, alive' => alive, days' \in 0 .. MaxDays
    PROVE  IInv'
<1> USE DEF IInv
<1>1. TypeOK' BY DEF TypeOK
<1>2. JobInv' /\ ReadyInv' BY DEF JobInv, ReadyInv, Fetching
<1>3. ViewInv' BY DEF ViewInv, Pending
<1>4. ClosingInv' BY DEF ClosingInv, Pending
<1> QED BY <1>1, <1>2, <1>3, <1>4

\* What happens outside the updater keeps the invariant.
LEMMA QuietInv ==
    ASSUME IInv, DayPasses \/ UserCloses \/ SessionEnds \/ CloseEnds \/ OtherWake
    PROVE  IInv'
<1> USE DEF IInv, TypeOK, updaterVars, shellVars, machine
<1>1. CASE DayPasses
    <2>1. days + 1 \in 0 .. MaxDays BY <1>1 DEF DayPasses
    <2> QED BY <1>1, <2>1, ShellOnly DEF DayPasses
<1>2. CASE UserCloses BY <1>2, ShellOnly DEF UserCloses
<1>3. CASE SessionEnds BY <1>3, ShellOnly DEF SessionEnds
<1>4. CASE CloseEnds BY <1>4, ShellOnly DEF CloseEnds
<1>5. CASE OtherWake BY <1>5, ShellOnly DEF OtherWake
<1> QED BY <1>1, <1>2, <1>3, <1>4, <1>5

\* Drain keeps the invariant.
LEMMA DrainInv == ASSUME IInv, Drain PROVE IInv'
<1> USE DEF IInv, Drain, machine
<1>1. TypeOK' BY DEF TypeOK
<1>2. JobInv' /\ ReadyInv' BY DEF JobInv, ReadyInv, Fetching
<1>3. draining' = flag /\ flag' = FALSE /\ ~draining BY DEF Handler
<1>4. ViewInv' BY <1>3 DEF ViewInv, Pending
<1>5. ClosingInv' BY <1>3 DEF ClosingInv, Pending
<1> QED BY <1>1, <1>2, <1>4, <1>5

\* OnUpdate keeps the invariant.
LEMMA OnUpdateInv == ASSUME IInv, OnUpdate PROVE IInv'
<1> USE DEF IInv, OnUpdate, updaterVars, machine
<1>1. TypeOK' BY DEF TypeOK, FinishesClosing
<1>2. JobInv' /\ ReadyInv' BY DEF JobInv, ReadyInv, Fetching
<1>3. ViewInv' BY DEF ViewInv, JobInv, Fetching
<1>4. ClosingInv' BY DEF ClosingInv, FinishesClosing
<1> QED BY <1>1, <1>2, <1>3, <1>4

-----------------------------------------------------------------------------
(* The workers                                                              *)

\* A worker that ends with a status keeps the invariant.
LEMMA FinishInv ==
    ASSUME IInv, alive, UNCHANGED shellVars,
           NEW new \in Statuses, Finish(new), ~Busy(new),
           worker # NoJob, release' \in Options(Releases),
           \/ new.is # "Ready" /\ ready' = None
           \/ /\ new.is = "Ready" /\ ready' = new.version
              /\ worker.job = "download" \/ worker.job = "setup"
    PROVE  IInv'
<1> USE DEF IInv, Finish, shellVars
<1>1. ready' \in Options(Versions)
    BY StatusShape, OptionShape
<1>2. late + 1 \in 0 .. MaxLate BY DEF TypeOK
<1>3. TypeOK' BY <1>1, <1>2, NoJobShape DEF TypeOK
<1>4. JobInv' BY NoJobShape DEF JobInv, Fetching, Busy
<1>5. ReadyInv' BY DEF ReadyInv, JobInv
<1>6. late' # 0 /\ late' > 0 BY DEF TypeOK
<1>7. ViewInv' BY <1>6, NoJobShape DEF ViewInv, Pending
<1>8. ClosingInv' BY <1>6 DEF ClosingInv
<1> QED BY <1>3, <1>4, <1>5, <1>7, <1>8

\* While a worker runs nothing is ready, so nothing is held.
LEMMA NothingHeld == ASSUME IInv, worker # NoJob PROVE ready = None
BY DEF IInv, JobInv, ReadyInv

\* CheckFinds keeps the invariant.
LEMMA CheckFindsInv ==
    ASSUME IInv, alive, UNCHANGED shellVars, CheckFinds PROVE IInv'
<1> USE DEF IInv, shellVars
<1>1. PICK r \in [version : Versions, installer : BOOLEAN] :
        /\ release' = Some(r)
        /\ \/ ~Fetches(r) /\ Finish(Found(r))
           \/ /\ Fetches(r)
              /\ status' = Found(r)
              /\ worker' = Job("found")
              /\ UNCHANGED <<canInstall, working, dayPassed, late, flag, woken>>
    BY DEF CheckFinds
<1>2. worker.job = "check" /\ ready' = ready BY DEF CheckFinds
<1>3. worker # NoJob BY <1>2, NoJobShape
<1>4. ready = None BY <1>3, NothingHeld
<1>5. release' \in Options(Releases) BY <1>1, OptionShape DEF Releases
<1>6. CASE ~Fetches(r) /\ Finish(Found(r))
    <2>1. /\ Found(r) \in Statuses
          /\ Found(r).is \in {"UpToDate", "Available"}
        BY <1>6, AboutShape DEF Found
    <2>2. ~Busy(Found(r)) BY <2>1 DEF Busy
    <2> QED BY <1>2, <1>3, <1>4, <1>5, <1>6, <2>1, <2>2, FinishInv
<1>7. CASE /\ Fetches(r) /\ status' = Found(r) /\ worker' = Job("found")
           /\ UNCHANGED <<canInstall, working, dayPassed, late, flag, woken>>
    <2>1. status' \in Statuses /\ status'.is = "Downloading" /\ canInstall
        BY <1>7, AboutShape DEF Found, Fetches
    <2>2. worker' \in Jobs /\ worker'.job = "found" /\ worker' # NoJob
        BY <1>7, NamedJob
    <2>3. TypeOK' BY <1>2, <1>5, <1>7, <2>1, <2>2 DEF TypeOK
    <2>4. JobInv' BY <1>3, <1>7, <2>1, <2>2 DEF JobInv, Fetching
    <2>5. ReadyInv' BY <1>2, <1>4, <2>1 DEF ReadyInv
    <2>6. ViewInv' BY <1>7, <2>1, <2>2 DEF ViewInv, Pending
    <2>7. status.is # "Installing" BY <1>2 DEF JobInv
    <2>8. ClosingInv' BY <1>7, <2>7 DEF ClosingInv, Pending
    <2> QED BY <2>3, <2>4, <2>5, <2>6, <2>8
<1> QED BY <1>1, <1>6, <1>7

\* The ends of checks, downloads and installers keep the invariant.
LEMMA EndsInv ==
    ASSUME IInv, alive, UNCHANGED shellVars,
           \/ CheckFails \/ DownloadReady \/ DownloadFails
           \/ SetupCancelled \/ SetupFails
    PROVE  IInv'
<1> USE DEF IInv
<1>1. worker \in Jobs /\ release \in Options(Releases) BY DEF TypeOK
<1>2. worker # NoJob
    BY NoJobShape DEF CheckFails, DownloadReady, DownloadFails,
                      SetupCancelled, SetupFails
<1>3. ready = None BY <1>2, NothingHeld
<1>4. CASE CheckFails
    <2> DEFINE new == IF worker.manual THEN Plain("FailedCheck")
                      ELSE worker.previous
    <2>1. worker.job = "check" /\ Finish(new) /\ UNCHANGED <<release, ready>>
        BY <1>4 DEF CheckFails
    <2>2. new \in Statuses BY <1>1, <2>1, JobShape, PlainShape
    <2>3. new.is # "Ready" /\ ~Busy(new)
        BY <2>1, PlainShape DEF JobInv, Busy
    <2> HIDE DEF new
    <2> QED BY <1>1, <1>2, <1>3, <2>1, <2>2, <2>3, FinishInv
<1>5. CASE DownloadReady
    <2>1. PICK r \in release : /\ ready' = Some(r.version)
                               /\ Finish(About("Ready", r.version))
        BY <1>5 DEF DownloadReady
    <2>2. r.version \in Versions
        <3>1. release \subseteq Releases BY <1>1, OptionShape
        <3> QED BY <3>1 DEF Releases
    <2> DEFINE new == About("Ready", r.version)
    <2>3. new \in Statuses /\ new.is = "Ready" /\ new.version = Some(r.version)
        BY <2>2, AboutShape
    <2> HIDE DEF new
    <2>4. ~Busy(new) BY <2>3 DEF Busy
    <2>5. worker.job = "download" /\ release' = release
        BY <1>5 DEF DownloadReady
    <2>6. Finish(new) BY <2>1 DEF new
    <2> QED BY <1>1, <1>2, <2>1, <2>3, <2>4, <2>5, <2>6, FinishInv
<1>6. CASE DownloadFails
    <2>1. Finish(Plain("FailedDownload")) /\ UNCHANGED <<release, ready>>
        BY <1>6 DEF DownloadFails
    <2>2. /\ Plain("FailedDownload") \in Statuses
          /\ Plain("FailedDownload").is = "FailedDownload"
        BY PlainShape
    <2>3. ~Busy(Plain("FailedDownload")) BY <2>2 DEF Busy
    <2> QED BY <1>1, <1>2, <1>3, <2>1, <2>2, <2>3, FinishInv
<1>7. CASE SetupCancelled
    <2> DEFINE new == About("Ready", worker.version)
    <2>1. /\ worker.job = "setup" /\ ready' = Some(worker.version)
          /\ Finish(new) /\ release' = release
        BY <1>7 DEF SetupCancelled
    <2>2. worker.version \in Versions BY <1>1, <2>1, JobShape
    <2>3. /\ new \in Statuses /\ new.is = "Ready"
          /\ new.version = Some(worker.version)
        BY <2>2, AboutShape
    <2> HIDE DEF new
    <2>4. ~Busy(new) BY <2>3 DEF Busy
    <2> QED BY <1>1, <1>2, <2>1, <2>3, <2>4, FinishInv
<1>8. CASE SetupFails
    <2>1. Finish(Plain("FailedInstall")) /\ UNCHANGED <<release, ready>>
        BY <1>8 DEF SetupFails
    <2>2. /\ Plain("FailedInstall") \in Statuses
          /\ Plain("FailedInstall").is = "FailedInstall"
        BY PlainShape
    <2>3. ~Busy(Plain("FailedInstall")) BY <2>2 DEF Busy
    <2> QED BY <1>1, <1>2, <1>3, <2>1, <2>2, <2>3, FinishInv
<1> QED BY <1>4, <1>5, <1>6, <1>7, <1>8

\* A worker that goes on tells the host.
LEMMA RaisingInv ==
    ASSUME IInv, alive, UNCHANGED shellVars,
           CheckGoesOn \/ DownloadProgress \/ Changed
    PROVE  IInv'
<1> USE DEF IInv, shellVars
<1>1. flag' = TRUE /\ woken' = TRUE
    BY DEF CheckGoesOn, DownloadProgress, Changed, Raise, ViewInv, TypeOK
<1>2. ViewInv' /\ ClosingInv' BY <1>1 DEF ViewInv, ClosingInv, Pending
<1>3. CASE CheckGoesOn
    <2>1. worker' \in Jobs /\ worker'.job = "download" /\ worker' # NoJob
        BY <1>3, NamedJob DEF CheckGoesOn
    <2>2. TypeOK' BY <1>1, <1>3, <2>1 DEF CheckGoesOn, TypeOK
    <2>3. JobInv' BY <1>3, <2>1, NoJobShape DEF CheckGoesOn, JobInv, Fetching
    <2>4. ReadyInv' BY <1>3 DEF CheckGoesOn, ReadyInv
    <2> QED BY <1>2, <2>2, <2>3, <2>4
<1>4. CASE DownloadProgress
    <2>1. PICK r \in release : status' = About("Downloading", r.version)
        BY <1>4 DEF DownloadProgress
    <2>2. r.version \in Versions
        <3>1. release \subseteq Releases BY OptionShape DEF TypeOK
        <3> QED BY <3>1 DEF Releases
    <2>3. status' \in Statuses /\ status'.is = "Downloading"
        BY <2>1, <2>2, AboutShape
    <2>4. TypeOK' BY <1>1, <1>4, <2>3 DEF DownloadProgress, TypeOK
    <2>5. JobInv' BY <1>4, <2>3 DEF DownloadProgress, JobInv, Fetching
    <2>6. worker # NoJob BY <1>4, NoJobShape DEF DownloadProgress
    <2>7. ReadyInv' BY <1>4, <2>3, <2>6, NothingHeld
                       DEF DownloadProgress, ReadyInv
    <2> QED BY <1>2, <2>4, <2>5, <2>7
<1>5. CASE Changed
    <2>1. late - 1 \in 0 .. MaxLate BY <1>5 DEF Changed, TypeOK
    <2>2. TypeOK' BY <1>1, <1>5, <2>1 DEF Changed, TypeOK, machine
    <2>3. JobInv' /\ ReadyInv'
        BY <1>5 DEF Changed, machine, JobInv, ReadyInv, Fetching
    <2> QED BY <1>2, <2>2, <2>3
<1> QED BY <1>3, <1>4, <1>5

-----------------------------------------------------------------------------

\* A stutter keeps the invariant.
LEMMA StutterInv == ASSUME IInv, UNCHANGED vars PROVE IInv'
BY Refused DEF vars, shellVars, IInv, TypeOK

\* No step gives the invariant up.
LEMMA NextInv == IInv /\ [Next]_vars => IInv'
<1> SUFFICES ASSUME IInv, [Next]_vars PROVE IInv' OBVIOUS
<1>1. CASE Click BY <1>1, ClickInv
<1>2. CASE UpdateTick BY <1>2, UpdateTickInv
<1>3. CASE SaveSettings BY <1>3, SaveSettingsInv
<1>4. CASE DayPasses \/ UserCloses \/ SessionEnds \/ CloseEnds \/ OtherWake
    BY <1>4, QuietInv
<1>5. CASE CloseHides BY <1>5, CloseHidesInv
<1>6. CASE Drain BY <1>6, DrainInv
<1>7. CASE OnUpdate BY <1>7, OnUpdateInv
<1>8. CASE WorkersRun
    <2>1. alive /\ UNCHANGED shellVars BY <1>8 DEF WorkersRun
    <2>2. CASE CheckFinds BY <2>1, <2>2, CheckFindsInv
    <2>3. CASE \/ CheckFails \/ DownloadReady \/ DownloadFails
               \/ SetupCancelled \/ SetupFails
        BY <2>1, <2>3, EndsInv
    <2>4. CASE CheckGoesOn \/ DownloadProgress \/ Changed
        BY <2>1, <2>4, RaisingInv
    <2> QED BY <1>8, <2>2, <2>3, <2>4 DEF WorkersRun, Workers, JobEnds
<1>9. CASE UNCHANGED vars BY <1>9, StutterInv
<1> QED BY <1>1, <1>2, <1>3, <1>4, <1>5, <1>6, <1>7, <1>8, <1>9 DEF Next

\* It always holds.
LEMMA Invariance == Spec => []IInv
BY InitInv, NextInv, PTL DEF Spec

-----------------------------------------------------------------------------
(* What the updater promises, with no fairness.                             *)

\* Every variable of the updater and its shell has its type.
THEOREM TypeCorrect == Spec => []TypeOK
<1>1. IInv => TypeOK BY DEF IInv
<1> QED BY <1>1, Invariance, PTL

\* A status of Ready is true, and an installer that is held is on offer: install
\* would go ahead with the version it names (Updater::install, Shell::close).
THEOREM ReadyIsTrue == Spec => []ReadyIsInstallable
<1>1. ASSUME IInv, status.is = "Ready"
      PROVE  MayInstall /\ ready = status.version
    <2>1. canInstall /\ ~working /\ ready = status.version
        BY <1>1 DEF IInv, ReadyInv
    <2>2. \E v \in Versions : ready = Some(v)
        BY <1>1, <2>1, StatusShape DEF IInv, TypeOK
    <2>3. ready # None BY <2>2, OptionShape
    <2> QED BY <1>1, <2>1, <2>3 DEF MayInstall
<1>2. IInv => (ready # None /\ ~working => status.is = "Ready")
    BY DEF IInv, ReadyInv
<1>3. IInv => ReadyIsInstallable BY <1>1, <1>2 DEF ReadyIsInstallable
<1> QED BY <1>3, Invariance, PTL

\* A status that shows something under way has a worker (Updater::check,
\* download, install).
THEOREM BusyHasWorker == Spec => []BusyIsWorking
<1>1. IInv => BusyIsWorking
    BY NoJobShape DEF IInv, JobInv, Fetching, BusyIsWorking, Busy
<1> QED BY <1>1, Invariance, PTL

\* The view is never left on an old status once every notification is taken in
\* (Shell::drain, Inbox::flag).
THEOREM NoLostUpdate == Spec => []SettledViewIsCurrent
<1>1. IInv => SettledViewIsCurrent
    BY DEF IInv, ViewInv, Pending, SettledViewIsCurrent, Told
<1> QED BY <1>1, Invariance, PTL

\* A window hidden for an install has something on its way that ends it
\* (Shell::close, Shell::on_update).
THEOREM HiddenIsNotForgotten == Spec => []HiddenIsInstalling
<1>1. IInv => HiddenIsInstalling
    BY DEF IInv, ClosingInv, ViewInv, Pending, HiddenIsInstalling
<1> QED BY <1>1, Invariance, PTL
=============================================================================

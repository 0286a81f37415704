SPECIFICATION FairSpec
CONSTANTS
    Build = 1
    Versions <- MCVersions
    MaxLate = 2
    MaxDays = 1
INVARIANTS
    TypeOK
    ReadyIsInstallable
    SettledViewIsCurrent
PROPERTIES
    HiddenCloses
    ButtonComesBack
CHECK_DEADLOCK FALSE

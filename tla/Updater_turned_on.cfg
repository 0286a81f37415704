SPECIFICATION Spec
CONSTANTS
    Build = 1
    Versions <- MCVersions
    MaxLate = 2
    MaxDays = 1
PROPERTY
    DownloadStartsWhenTurnedOn
CHECK_DEADLOCK FALSE

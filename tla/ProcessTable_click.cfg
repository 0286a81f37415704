\* A click between a snapshot and the frame that shows it.
SPECIFICATION Spec
CONSTANTS
    Abs = 1
    Rel = 50
    Processes <- MCProcesses
    Idle = 0
    None = none
    Name <- MCName
    Snapshots <- MCSnapshots
    Searches = {}
    MaxSnapshots = 2
    MaxInputs = 1
PROPERTY
    ClickSelectsWhatIsShown

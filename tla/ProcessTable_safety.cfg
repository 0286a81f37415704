\* Three snapshots of five processes, and up to three things a user does.
SPECIFICATION Spec
CONSTANTS
    Abs = 1
    Rel = 50
    Processes <- MCProcesses
    Idle = 0
    None = none
    Name <- MCName
    Snapshots <- MCSnapshots
    Searches = {{4}}
    MaxSnapshots = 3
    MaxInputs = 3
INVARIANTS
    TypeOK
    OrderIsCurrent
    DisorderIsBounded
    EveryoneIsListed
    TreeIsRepaired
PROPERTIES
    SelectionIsRevealed
    HeldRowsStay

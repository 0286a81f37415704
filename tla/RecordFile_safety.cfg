SPECIFICATION Spec
CONSTANTS
    Processes = {p1, p2}
    Width = 2
    KeyEvery = 3
    MaxFrames = 4
SYMMETRY Symmetry
INVARIANTS
    TypeOK
    ReadsWhatWasWritten
    ListsEveryWholeFrame

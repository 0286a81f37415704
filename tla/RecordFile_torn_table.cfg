SPECIFICATION Spec
CONSTANTS
    Processes = {p1, p2}
    Width = 2
    KeyEvery = 2
    MaxFrames = 2
INVARIANT
    AlwaysOpens

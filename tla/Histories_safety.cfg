SPECIFICATION Spec
CONSTANTS
    root = root
    child = child
    grandchild = grandchild
    None = none
    Processes <- MCProcesses
    Programs = {"a", "b"}
    Program <- MCProgram
    Spawner <- MCSpawner
    Rate <- MCRate
    Early = {root}
    RAW_FRAMES = 1
    STEP_MIN_MS = 2
    STEPS = 2
    RAW_SAMPLES = 1
    FINE_MS = 2
    FINE_SPAN_MS = 4
    COARSE_MS = 3
    Reaches = {3, 6}
    Start = 10
    Steps = {1, 4}
    MaxSnapshots = 5
    MaxChoices = 1
INVARIANTS
    TypeOK
    EachSampleOnce
    HistoryIsWhole
    FramesTile
    ChartComesToTotals
    LineageIsWhole

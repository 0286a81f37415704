SPECIFICATION Spec
CONSTANTS
    root = root
    None = none
    Processes <- MCProcesses
    Programs = {"a"}
    Program <- MCProgram
    Early = {root}
    RAW_FRAMES = 2
    STEP_MIN_MS = 2
    STEPS = 2
    RAW_SAMPLES = 2
    FINE_MS = 2
    FINE_SPAN_MS = 4
    COARSE_MS = 3
    Reach = 6
    Tape <- MCTape
    MaxShown = 5
INVARIANT
    NoStretchTwice
CHECK_DEADLOCK FALSE

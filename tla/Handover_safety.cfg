SPECIFICATION HandoverFairSpec
CONSTANTS
    Procs = {p1, p2, p3}
    StandIns = {p1, p2}
    NoProc = NoProc
    Patience = 1
INVARIANTS
    TypeOK
    OnePressOneWindow
PROPERTY
    EveryPressIsAnswered
CHECK_DEADLOCK FALSE

\* Two recordings one after the other, a queue of one, three passes.
SPECIFICATION SamplerFairSpec
CONSTANTS
    Recordings = {r1, r2}
    NoRecording = none
    QUEUE = 1
    MaxTick = 3
    MaxErrors = 1
INVARIANTS
    TypeOK
    StatsAccountForEveryPass
    FileInTickOrder
PROPERTIES
    RecordsCountedGaps
    CallsReturn
    SamplerNeverWaitsForDisk

SPECIFICATION Spec
CONSTANTS
    Owners = {o1, o2}
    Addresses = {a1, a2, a3}
    SweepEvery = 2
    QueueLen = 1
    MaxAllocs = 4
    MaxFrames = 4
SYMMETRY Symmetry
INVARIANTS
    TypeOK
    ValuesReadBack
    IdentityIsKept
    TableIsRecent

\* Failed writes, a torn line, a restart: what no step may break.
CONSTANTS
    e1 = e1
    e2 = e2
    e3 = e3
    c1 = c1
    t1 = t1
    Writes <- ThreeWrites
    Clears <- OneClear
    Tails <- NoTail
    QueueSize = 1
    BufferSize = 1
    MaxFaults = 1
    MaxRestarts = 1
SPECIFICATION Spec
SYMMETRY MCSymmetry
INVARIANTS
    TypeOK
    WriteNeverPanics
    StoredInCallOrder
    FileKeepsUp
    ClearedStaysCleared
    AcceptedIsStored

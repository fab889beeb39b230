\* A slow tail: nobody waits for it, its order, and what happens in the end.
CONSTANTS
    e1 = e1
    e2 = e2
    e3 = e3
    c1 = c1
    t1 = t1
    Writes <- TwoWrites
    Clears <- OneClear
    Tails <- OneTail
    QueueSize = 1
    BufferSize = 1
    MaxFaults = 0
    MaxRestarts = 0
SPECIFICATION FairSpec
INVARIANTS
    TailInCallOrder
PROPERTIES
    UnregisteredIsSilent
    WriteReturns
    CloseReturns

\* Two goroutines on one container: what happens in the end.
CONSTANTS
    p1 = p1
    p2 = p2
    c1 = c1
    alice = alice
    bob = bob
    Free = Free
    Procs <- TwoProcs
    Containers <- OneContainer
    Owners <- OneOwner
    MaxFaults = 1
SPECIFICATION FairSpec
PROPERTIES
    CallsReturn
    PendingResolves

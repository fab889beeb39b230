\* Deleting a container whose create failed.
CONSTANTS
    p1 = p1
    p2 = p2
    c1 = c1
    alice = alice
    bob = bob
    Free = Free
    Procs <- TwoProcs
    Containers <- OneContainer
    Owners <- OneOwner
    MaxFaults = 0
SPECIFICATION Spec
INVARIANTS
    FailedCanBeDeleted

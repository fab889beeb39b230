\* Two goroutines on one container, with two failures or restarts.
CONSTANTS
    p1 = p1
    p2 = p2
    c1 = c1
    alice = alice
    bob = bob
    Free = Free
    Procs <- TwoProcs
    Containers <- OneContainer
    Owners <- MCOwners
    MaxFaults = 2
SPECIFICATION Spec
SYMMETRY MCSymmetry
INVARIANTS
    TypeOK
    OneLifecycleCallAtATime
    OnlyOwnerControls
    LiveContainerHasRow
    DeletedStaysDeleted
    SettledRowMatchesDocker
PROPERTIES
    RowMovesForward

\* Two requests on one upload, with two failures or restarts.
CONSTANTS
    r1 = r1
    r2 = r2
    u1 = u1
    alice = alice
    bob = bob
    NoUpload = NoUpload
    Requests <- MCRequests
    Uploads <- OneUpload
    Owners <- MCOwners
    MaxFaults = 2
SPECIFICATION Spec
SYMMETRY MCSymmetry
INVARIANTS
    RowHasFile
    AnsweredUploadStays
    NoOrphanWithoutMishap
    StrangersSeeOnlyShared
    LoggedStatusIsAnswered

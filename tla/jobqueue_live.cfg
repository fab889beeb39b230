\* One worker, a queue of one: what happens in the end, and the contract.
CONSTANTS
    j1 = j1
    j2 = j2
    j3 = j3
    w1 = w1
    w2 = w2
    NoJob = NoJob
    Jobs <- MCJobs
    CreateJobs <- MCCreateJobs
    Workers <- OneWorker
    QueueSize = 1
SPECIFICATION FairSpec
PROPERTIES
    AcceptedJobFinishes
    CloseTerminates
    ImplementsContract

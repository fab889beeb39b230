\* Two workers, a queue of one: what no step may break.
CONSTANTS
    j1 = j1
    j2 = j2
    j3 = j3
    w1 = w1
    w2 = w2
    NoJob = NoJob
    Jobs <- MCJobs
    CreateJobs <- MCCreateJobs
    Workers <- TwoWorkers
    QueueSize = 1
SPECIFICATION Spec
SYMMETRY MCSymmetry
INVARIANTS
    TypeOK
    NoSendOnClosedChannel
    AcceptedJobInOnePlace
    AnswerMatchesRecord
    DrainedOnReturn
PROPERTIES
    RecordMovesForward

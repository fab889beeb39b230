\* One worker, an unbuffered channel, operations that may never return.
CONSTANTS
    j1 = j1
    j2 = j2
    j3 = j3
    w1 = w1
    w2 = w2
    NoJob = NoJob
    Jobs <- MCJobs
    CreateJobs <- MCCreateJobs
    Workers <- OneWorker
    QueueSize = 0
SPECIFICATION HangSpec
PROPERTIES
    SubmitAnswers

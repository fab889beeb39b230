\* Start-up, work and shutdown over the lives of the process.
CONSTANTS
    s1 = s1
    j1 = j1
    Sessions <- OneSession
    Jobs <- OneJob
    MaxWorkers = 1
SPECIFICATION Spec
INVARIANTS
    TypeOK
    WorkFindsDatabase
    DrainedOrLogged
PROPERTIES
    HangUpEndsSession
    HelpersEndToo
    ShutdownEnds

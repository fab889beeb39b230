------------------------------- MODULE Server -------------------------------
(***************************************************************************)
(* The server process (cmd/server/main.go): start-up, where everything is  *)
(* opened in order or the process ends; the HTTP listener with requests    *)
(* that submit jobs; and the shutdown, which drains the requests and then  *)
(* the jobs, each with a timeout.  It composes the contract of the job     *)
(* service (JobContract) with the WebSocket sessions (Session), which the  *)
(* shutdown does not wait for.  The process may be killed and started      *)
(* again; of its database the schema version and the seeded key survive.   *)
(***************************************************************************)
EXTENDS Session, Integers, FiniteSets

CONSTANTS Jobs,        \* HTTP requests that submit a job, and their jobs
          MaxWorkers   \* the largest JOB_WORKERS

ASSUME ServerAssumption == MaxWorkers \in Nat

VARIABLES main,      \* where main() is
          exit,      \* how the process ended: "none" while it runs
          config,    \* JOB_WORKERS and JOB_QUEUE_SIZE
          db,        \* the connection pool: "closed" or "open"
          schema,    \* the database's schema: "behind", "dirty" or "current"
          seeded,    \* the development key is in the table of keys
          listener,  \* "off", "starting", "listening" or "closed"
          request,   \* job -> the HTTP request that submits it
          phase,     \* job -> its status, as in JobContract
          service,   \* the job service, as in JobContract
          timedOut,  \* the drains that were given up: "http", "jobs"
          warned     \* those of them that the log tells of

process  == <<main, exit, listener>>
database == <<db, schema, seeded>>
work     == <<request, phase, service>>
drains   == <<timedOut, warned>>
vars == <<session, process, config, database, work, drains>>

Job == INSTANCE JobContract WITH MaxRunning <- MaxWorkers

Startup  == {"config", "log", "containers", "apiKeys", "uploads", "migrating",
             "seed", "docker", "wire", "listen"}
Shutdown == {"http", "jobs", "close", "return"}
MainStates == Startup \cup {"await"} \cup Shutdown \cup {"exited"}

NoConfig == [workers |-> 0, queue |-> 0]

Alive == main # "exited"

\* What http.Server.Shutdown waits for.  A connection that a WebSocket session
\* has taken over is not among it; before that its request is.
ActiveJobs == {j \in Jobs : request[j] \in {"active", "submitted"}}
Active == ActiveJobs \cup {s \in Sessions : At(s, "auth")}

\* The sessions that have taken over their connection and have yet to make
\* their access check in the table.
Opening == {s \in Sessions : At(s, "open")}

-----------------------------------------------------------------------------
Init == /\ SessionInit
        /\ main = "config" /\ exit = "none" /\ listener = "off"
        /\ config = NoConfig
        /\ db = "closed" /\ schema = "behind" /\ seeded = FALSE
        /\ request = [j \in Jobs |-> "none"]
        /\ Job!Init
        /\ timedOut = {} /\ warned = {}

MainGoes(from, to) == /\ main = from /\ main' = to
                      /\ UNCHANGED <<exit, session>>

\* The process ends, and with it its goroutines and connections.
Dies(how) ==
    /\ main' = "exited" /\ exit' = how
    /\ listener' = "off" /\ db' = "closed"
    /\ session' = [s \in Sessions |-> NoSession]
    /\ UNCHANGED <<config, schema, seeded, work, drains>>

Fatal(at) == main = at /\ Dies("fatal")

-----------------------------------------------------------------------------
(* Start-up: an error ends the process with log.Fatalf. *)

\* Faulty variant: a number that does not parse becomes -1.
LoadUnparsed ==
    \/ Fatal("config")
    \/ /\ MainGoes("config", "log")
       /\ \E w, q \in {-1, 1} : config' = [workers |-> w, queue |-> q]
       /\ UNCHANGED <<listener, database, work, drains>>

\* The numbers and the duration must parse and the driver must be known;
\* nothing checks the range of a number.  A negative JOB_WORKERS acts as zero.
LoadConfig ==
    \/ Fatal("config")
    \/ /\ MainGoes("config", "log")
       /\ \E w \in 0 .. MaxWorkers, q \in {-1, 1} :
            config' = [workers |-> w, queue |-> q]
       /\ UNCHANGED <<listener, database, work, drains>>

OpenLog ==
    \/ Fatal("log")
    \/ /\ MainGoes("log", "containers")
       /\ UNCHANGED <<config, listener, database, work, drains>>

\* Each repository applies the migrations.  A version is marked dirty before
\* its statements run, and a dirty schema is refused.
OpenRepo(at, next) ==
    \/ Fatal(at)
    \/ /\ schema = "current" /\ MainGoes(at, next)
       /\ db' = "open"
       /\ UNCHANGED <<config, listener, schema, seeded, work, drains>>
    \/ /\ schema = "behind" /\ MainGoes(at, "migrating")
       /\ db' = "open" /\ schema' = "dirty"
       /\ UNCHANGED <<config, listener, seeded, work, drains>>

\* The first repository finds the work to do; the next ones find none.
FinishMigration ==
    \/ Fatal("migrating")
    \/ /\ MainGoes("migrating", "apiKeys")
       /\ schema' = "current"
       /\ UNCHANGED <<config, listener, db, seeded, work, drains>>

SeedKey ==
    \/ Fatal("seed")
    \/ /\ MainGoes("seed", "docker")
       /\ seeded' = TRUE
       /\ UNCHANGED <<config, listener, db, schema, work, drains>>

ConnectDocker ==
    \/ Fatal("docker")
    \/ /\ MainGoes("docker", "wire")
       /\ UNCHANGED <<config, listener, database, work, drains>>

\* job.NewService makes a channel of JOB_QUEUE_SIZE, which panics below zero;
\* the embedded frontend may be missing.
Wire ==
    \/ main = "wire" /\ config.queue < 0 /\ Dies("panic")
    \/ Fatal("wire") /\ config.queue >= 0
    \/ /\ config.queue >= 0 /\ MainGoes("wire", "listen")
       /\ UNCHANGED <<config, listener, database, work, drains>>

\* A goroutine starts to listen; main goes on to wait for a signal.
Listen ==
    /\ MainGoes("listen", "await")
    /\ listener' = "starting"
    /\ UNCHANGED <<config, database, work, drains>>

ListenerStarts ==
    /\ Alive /\ listener = "starting"
    /\ listener' = "listening"
    /\ UNCHANGED <<main, exit, config, database, work, drains, session>>

ListenerFails ==
    /\ Alive /\ listener \in {"starting", "listening"}
    /\ Dies("fatal")

-----------------------------------------------------------------------------
(* Requests and jobs. *)

RequestArrives(j) ==
    /\ listener = "listening" /\ request[j] = "none"
    /\ request' = [request EXCEPT ![j] = "active"]
    /\ UNCHANGED <<process, config, database, phase, service, drains,
                   session>>

RequestEnds(j, from) == /\ Alive /\ request[j] = from
                        /\ request' = [request EXCEPT ![j] = "answered"]

\* job.Submit: the job is recorded and queued if the service is open and the
\* container is found and owned; otherwise the request is answered.
Submit(j) ==
    /\ Alive
    /\ \/ /\ request[j] = "active" /\ db = "open"
          /\ request' = [request EXCEPT ![j] = "submitted"]
          /\ Job!Accept(j)
       \/ RequestEnds(j, "active") /\ UNCHANGED <<phase, service>>
    /\ UNCHANGED <<process, config, database, drains, session>>

\* The answer: 202, or 503 if the queue was full.
Answer(j) ==
    /\ RequestEnds(j, "submitted")
    /\ Job!Reject(j) \/ UNCHANGED <<phase, service>>
    /\ UNCHANGED <<process, config, database, drains, session>>

\* A worker takes a job and does it, or is stuck with it in Docker.
Work(j) ==
    /\ Alive
    /\ \/ Cardinality(Job!Running) < config.workers /\ Job!Start(j)
       \/ Job!Finish(j)
    /\ UNCHANGED <<process, config, database, request, drains, session>>

-----------------------------------------------------------------------------
(* WebSocket sessions: they need the listener to begin and the database for *)
(* the key and for the access check.                                       *)

ServeSession(s) ==
    /\ Alive
    /\ \/ Upgrade(s) /\ listener = "listening"
       \/ Accept(s) /\ (db = "closed" => session'[s].conn = "none")
       \/ OpenStream(s) /\ db = "open"
       \/ HandlerStep(s) \/ PumpStep(s) \/ ContextStep(s) \/ Surroundings(s)
    /\ UNCHANGED <<process, config, database, work, drains>>

-----------------------------------------------------------------------------
(* Shutdown. *)

Signal ==
    /\ MainGoes("await", "http")
    /\ listener' = "closed"
    /\ UNCHANGED <<config, database, work, drains>>

\* Faulty variant: the listener is closed and the requests are left alone.
HttpLeft ==
    /\ MainGoes("http", "jobs")
    /\ UNCHANGED <<config, listener, database, work, drains>>

\* Shutdown returns when no request is active, or with its context's error.
HttpDrained ==
    /\ MainGoes("http", "jobs") /\ Active = {}
    /\ UNCHANGED <<config, listener, database, work, drains>>

GivesUp(drain) == /\ timedOut' = timedOut \cup {drain}
                  /\ warned' = warned \cup {drain}

HttpTimesOut ==
    /\ MainGoes("http", "jobs") /\ GivesUp("http")
    /\ UNCHANGED <<config, listener, database, work>>

\* jobSvc.Close() in a goroutine of its own; without a worker its wait is over
\* at once.
CloseJobs ==
    /\ Alive /\ main \in Shutdown \ {"http"}
    /\ \/ Job!BeginClose
       \/ Job!EndClose
       \/ /\ config.workers = 0 /\ service = "closing"
          /\ service' = "closed" /\ UNCHANGED phase
    /\ UNCHANGED <<process, config, database, request, drains, session>>

JobsDrained ==
    /\ MainGoes("jobs", "close") /\ service = "closed"
    /\ UNCHANGED <<config, listener, database, work, drains>>

\* Faulty variant: the select waits for the jobs alone.
JobsAwaited ==
    /\ MainGoes("jobs", "close") /\ service = "closed" /\ GivesUp("jobs")
    /\ UNCHANGED <<config, listener, database, work>>

\* Faulty variant: the jobs are given up without a line in the log.
JobsForgotten ==
    /\ MainGoes("jobs", "close") /\ timedOut' = timedOut \cup {"jobs"}
    /\ UNCHANGED <<config, listener, database, work, warned>>

JobsTimeOut ==
    /\ MainGoes("jobs", "close") /\ GivesUp("jobs")
    /\ UNCHANGED <<config, listener, database, work>>

\* logger.Close() and the deferred calls, the database last.
CloseAll ==
    /\ MainGoes("close", "return")
    /\ db' = "closed"
    /\ UNCHANGED <<config, listener, schema, seeded, work, drains>>

Return == main = "return" /\ Dies("ok")

-----------------------------------------------------------------------------
\* The process is killed: by a signal before main waits for one, or from
\* outside.
Killed == Alive /\ Dies("killed")

Boot ==
    /\ main = "exited"
    /\ main' = "config" /\ exit' = "none" /\ config' = NoConfig
    /\ request' = [j \in Jobs |-> "none"]
    /\ phase' = [j \in Jobs |-> "absent"] /\ service' = "open"
    /\ timedOut' = {} /\ warned' = {}
    /\ UNCHANGED <<listener, database, session>>

MainStep == \/ LoadConfig \/ OpenLog
            \/ OpenRepo("containers", "apiKeys")
            \/ OpenRepo("apiKeys", "uploads")
            \/ OpenRepo("uploads", "seed")
            \/ FinishMigration \/ SeedKey \/ ConnectDocker \/ Wire \/ Listen
            \/ HttpDrained \/ HttpTimesOut \/ JobsDrained \/ JobsTimeOut
            \/ CloseAll \/ Return

Next == \/ MainStep
        \/ ListenerStarts \/ ListenerFails
        \/ \E j \in Jobs : RequestArrives(j) \/ Submit(j) \/ Answer(j) \/ Work(j)
        \/ \E s \in Sessions : ServeSession(s)
        \/ Signal \/ CloseJobs \/ Killed \/ Boot

\* main goes on, its timers fire, and the sessions' goroutines run.  Nothing
\* is assumed of requests or of jobs: a client may be slow, Docker may hang.
Fairness == WF_vars(MainStep) /\ SessionFairness

Spec == Init /\ [][Next]_vars /\ Fairness

-----------------------------------------------------------------------------
(* Properties. *)

TypeOK ==
    /\ SessionTypeOK
    /\ main \in MainStates
    /\ exit \in {"none", "fatal", "panic", "killed", "ok"}
    /\ config \in [workers : 0 .. MaxWorkers, queue : {-1, 0, 1}]
    /\ db \in {"closed", "open"}
    /\ schema \in {"behind", "dirty", "current"}
    /\ seeded \in BOOLEAN
    /\ listener \in {"off", "starting", "listening", "closed"}
    /\ request \in [Jobs -> {"none", "active", "submitted", "answered"}]
    /\ phase \in [Jobs -> {"absent", "pending", "running", "done", "failed"}]
    /\ service \in {"open", "closing", "closed"}
    /\ timedOut \subseteq {"http", "jobs"} /\ warned \subseteq {"http", "jobs"}

\* Whoever works with the database finds a current schema and the seeded key in
\* it.  A request finds it open unless the drain of the requests was given up,
\* and a running job unless that of the jobs was.  Nothing waits for the access
\* check of a session that has taken over its connection: it may find the
\* database closed, but not before the jobs are finished or given up.
WorkFindsDatabase ==
    Alive =>
      /\ Active \cup Opening # {} => schema = "current" /\ seeded
      /\ Active # {} => db = "open" \/ "http" \in timedOut
      /\ Job!Running # {} => db = "open" \/ "jobs" \in timedOut
      /\ Opening # {} => db = "open" \/ service = "closed" \/ "jobs" \in timedOut

\* A process that ended in order has answered every request and finished every
\* job it took on, or its log says which of the two drains was given up.  With
\* JOB_WORKERS at zero or below, queued jobs are dropped without a word.
DrainedOrLogged ==
    exit = "ok" =>
      /\ ActiveJobs = {} \/ "http" \in warned
      /\ Job!Unfinished = {} \/ "jobs" \in warned \/ config.workers = 0

\* Once a signal has come the process ends, whatever hangs: a client that does
\* not send, a Docker call that does not return, a shell that stays open.
ShutdownEnds == main = "http" ~> main = "exited"
=============================================================================

# conTogether: TLA+ models, checks and proofs

conTogether is a small container manager: a Go server (`src/container-api`) that
runs Docker containers for API-key owners, and a React frontend (`src/web`).
This directory holds TLA+ modules that model the server's concurrent core, TLC
configurations that check them on small instances, and proofs, checked by TLAPS,
of the invariants that matter most. `PROJECT.json` lists components, runs,
mutants, theorems, findings and hazards, and maps every definition to the lines
it models.

## The system

Paths are relative to `src/container-api/internal` unless they start with `src/`.

| Component | State | Operations | Talks to |
|---|---|---|---|
| `job.Service` (`job/`) | bounded channel, `closed` under `stateMu`, job records in memory | `Submit`, `SubmitCreate`, `Get`, `Close`, N workers running `execute` | handlers call it; it calls ContainerService |
| `ContainerService` (`service/`) | a mutex per container ID | begin/create, start, stop, delete, set-visibility, stream logs, exec, get, list | the containers table and Docker |
| containers table (`repository/`) | rows: owner, status, Docker ID, visibility | one SQL statement per operation, SQLite or Postgres | |
| Docker wrapper (`container/`) | none; Docker's containers are behind it | create (with pull and retry), start, stop, remove, inspect, attach | Docker daemon |
| `applog.Manager` (`applog/`) | bounded queue, entries in memory, JSON-lines file, handlers | `WriteLog`, write loop, `ReadLogs`, `ClearLogs`, `RegisterLogHandler`, `Close` | everyone writes; tails register |
| WebSocket streams (`wsstream/`) | a buffer per log tail, a Docker stream per shell | tail the log, stream a container's logs, interactive shell | applog, ContainerService |
| `upload.Service` (`upload/`) | files on disk and rows in a table | save, get, list, set-visibility | |
| HTTP layer (`handler/`, `middleware/`) | none between requests | binding, authentication, error mapping, request log | all services |
| Process (`src/container-api/cmd/server/main.go`) | | start-up, signal, drain with two timeouts, close | all services |
| Frontend (`src/web`) | lists, jobs being polled | refresh, run an action and poll its job | HTTP, WebSocket |

How they interact. A start, stop or delete request becomes a job; a create
request first saves a placeholder row ("pending") and then submits a job for it.
A worker takes the job and calls ContainerService, which checks ownership, calls
Docker and records the outcome in the row. The client polls the job. On SIGTERM
`main` stops the HTTP server, closes the job service (waiting for a while), then
closes the log. Rows, Docker's containers and the log file outlive the process;
jobs, locks and queued log entries do not.

What is hard, and what correctness means, component by component:

- **job.Service**: submitters, workers and `Close` meet on one channel and one
  RWMutex. No send on a closed channel; an accepted job is in exactly one place
  and executed once; a rejected one is never executed and its record says so;
  `Close` returns only over a drained queue, and does return; `Submit` never
  hangs, even when every worker does.
- **ContainerService**: row and Docker are changed by separate calls, any of which
  can fail, in operations that interleave; creation does not take the
  container's mutex; the process may end between two calls. Exclusion per
  container, ownership, no Docker container without a row, deletes that are
  final, rows that match Docker when nothing failed, every call returns.
- **applog**: two mutexes and a queue; the write loop, `ClearLogs` and `Close` share
  a file that may be cut short. No panic on shutdown, order and uniqueness of
  entries, file and memory in step, cleared entries gone, accepted entries
  stored, no writer blocked by a slow tail.
- **upload.Service and the middlewares**: a file and a row are written one after the
  other, either may fail, the clean-up may fail, a handler may panic and the
  process may end anywhere. Rows name complete files, what a client was told is
  stored stays, only named mishaps orphan a file, a stranger sees only what its
  owner had shared while he was asking, and the log tells the status the client got.
- **Sessions** (shell and container log): a handler and up to three helper goroutines
  between a client that may stall or vanish and a process that may exit. The loss
  of the client ends the handler, and the helpers end with it.
- **The process**: what main opens, in which order, and every way a start fails; a
  shutdown with two drains that time out. Nobody works on a schema that is
  behind or half migrated, and no request or job on a closed pool unless a drain was
  given up, an
  orderly end has done its work or logged that it has not, and it does end.

## Modules

| Module | Models | Status |
|---|---|---|
| `JobQueue` | `job/service.go`, `job/memory_store.go` | done |
| `JobContract` | what a client of the job service may rely on (abstract) | done |
| `JobQueueProofs` | theorems about `JobQueue` | done |
| `ContainerService` | `service/container_service.go`, the containers table, the Docker wrapper and daemon | done |
| `ContainerServiceProofs` | theorems about `ContainerService` | done |
| `AppLog` | `applog/manager.go`, `wsstream/applogs.go`, the log file across restarts | done |
| `AppLogProofs` | theorems about `AppLog` | done |
| `Uploads` | `upload/service.go`, `handler/upload_handler.go`, the uploads table, `middleware/` | done |
| `UploadsProofs` | theorems about `Uploads` | done |
| `Session` | `wsstream/containerexec.go`, `wsstream/containerlogs.go`, the streams of `container/docker.go` | done |
| `Server` | `cmd/server/main.go`, `config/`, `migrations/`; composes `Session` and `JobContract` | done |
| `ServerProofs` | theorems about `Server` | done |
| `MC*` | constants and symmetry for TLC | done |

### JobQueue

One member of `Jobs` is one call of `submit`, the ID it gets and its task.
`pc[j]` is where the call is: waiting for the read lock, at the check of
`closed`, at the owner check, saving the record, sending, marking the record
failed when the queue is full, unlocking. `readers` and `cpc` are the RWMutex
and the one call of `Close` (lock, set the flag, close the channel, unlock, wait
for the workers, return). A writer that waits keeps new readers out, as
`sync.RWMutex` does. A send either goes into the buffer or to a worker that is
parked in its receive, so a queue of size 0 behaves as Go's unbuffered channel.
`wpc[w]` walks through `execute`: running, stage, operation, done or failed,
log. The container operation succeeds or fails freely; under `HangSpec` it need
not return.

`JobContract` has two variables, `phase` (the status a poll shows) and `service`
(open, closing, closed). `JobQueue` implements it with `phase[j]` the record's
status and `service` read off the channel and `Close`.

### ContainerService

`Procs` are goroutines, request handlers or workers; each makes one call at a
time. `pc[p]` names the next external step of the call: take the mutex, read the
row and check access, call Docker, inspect, update or delete the row, return.
Every database statement and every Docker call is a step of its own and may
fail (`faults`, bounded by `MaxFaults`), and one that fails may have taken effect all
the same, when the connection broke after it; the create is docker, pull, retry,
link, update, as in the wrapper and the service. `Restart` ends every call,
frees every mutex, forgets the queued create jobs and keeps rows and `dock`.
The queue itself is abstracted to the set `createJobs`: JobQueue shows that an
accepted job is executed once. `dock` and the process that exits by itself are
external, modelled from how the wrapper uses them. A `SetVisibility` with an invalid
value is refused before the mutex and changes nothing; that call is left out.

`SettledRowMatchesDocker` compares row and container while nothing has failed and
nobody is at work. Two differences it accepts, because the code leaves them: "created"
over a container that runs (finding 2) and "running" over one that has exited since
`IsRunning` was asked.

### AppLog

One member of `Writes` is one call of `WriteLog` and the entry it makes.
`stateMu` is `readers` and `close`, as in JobQueue; `mu` says whether the write
loop or a `ClearLogs` has the entries and the file. The file is the sequence of
writes made to it: a whole line, a line that lost its newline, or a fragment;
`Load` reads it as `loadEntries` does, so that a write after a fragment lands on
the same line and is skipped with it. A failed operation may have done any part
of its work. `Restart` is the end of the process at any point followed by
`NewManager`. A tail registers, sends what its handler buffered, and goes; the
handler drops what its buffer has no room for. `ReadLogs` changes nothing and
takes `mu` for reading; it is left out, and so is the filter. `stamped` is the
order of the timestamps, from which the argument of a `ClearLogs` selects a
prefix. `earlier`, `cleared` and `unwritten` are history for the properties:
`earlier[w]` holds the calls that had ended when `w` was called, whether by their return
or with their process, so what is loaded from the file has to stand before what is
written after the restart.
`Pick(s, keep)` is what the loops of `loadEntries` and `ClearLogs` build: the members
of `s` at the places in `keep`, in their order. It is a recursive function rather than
`SelectSeq`, so that it can be reasoned about. `AppLogAssumption` says that the bounds
are numbers and that the names of `ClearLogs` calls are not those of the other
holders of `mu`.

### Uploads

`request[r]` is one HTTP request in hand: `at` is its next step, `call` what it
asks for and on whose behalf, `status`, `err` and `logged` what the middlewares
do with, and `revealed` the uploads whose data its response carries. `row` and
`file` survive a restart. A Save creates the file, copies the body, inserts the
row; a body over `MaxUploadBytes` and a failed insert go through `os.Remove`, whose
own error the code drops; a failed copy returns at once. A failed statement may
have taken effect (the connection broke after the commit). The order in which
`router.Use` names the middlewares is the sequence `Registered`: gin runs what
follows `c.Next()` from the last to the first. `HandlerPanics` takes a request out
of any step of its handler. `shared`, `entitled`, `answered` and `mishap` are
history: `entitled` holds the pairs of a request and an upload that was public, by
its owner's wish, at some time while the request ran, which is all a check that
is followed by a download can promise.

What the code answers where the API description says otherwise is modelled as it
is: a bad file name, a content type that is not allowed and a body that is too
large are plain errors and answered with 500, although
`handler/upload_handler.go:64` announces 400 for failures.

### Session

`session[s]` is a WebSocket session: its two ends (`client`, `conn`), the
`handler`'s next step, the far side (`remote`, the shell or the output), the
handler's side of the stream, and the helpers: `pump` copies the output (a shell's
reader goroutine, a log's `StdCopy`), `ctx` is the context `CloseRead` cancels,
`watcher` the goroutine that waits for it. Every blocking call is a step of its
own; a write to a client that does not read fails after five seconds and closes
the connection, which is what the library does when the context of a write ends.
A session's slot is used again once everything in it has ended.

### Server

`main` is where `main()` is. Each repository constructor applies the migrations:
`OpenRepo` finds the schema current, or behind (it marks it dirty, and
`FinishMigration` clears the mark), or dirty, which is refused for ever after, as
golang-migrate does. `Dies` ends the process from any step; `Boot` starts it again
with whatever the database holds. Requests and their jobs follow `JobContract`:
`Submit` is its `Accept`, `Answer` may `Reject`, `Work` is `Start` and `Finish` with
as many running jobs as `JOB_WORKERS` allows. `Shutdown` of the HTTP server waits for
active requests but not for connections a session has taken over. Such a session may
still have its access check to make (`Opening`) and find the pool closed, though not
before the jobs are finished or given up: `WorkFindsDatabase` says so. `JOB_WORKERS` and
`JOB_QUEUE_SIZE` take values below one as well, since nothing checks them: a negative
queue size panics in `job.NewService`, and without workers queued jobs are dropped at
shutdown without a line in the log, the exception written into `DrainedOrLogged`.

Definitions marked "Faulty variant" are used by no action; each is a plausible
error in the definition that follows it, and the mutants in `PROJECT.json` put
it in that definition's place to see that a property notices.

## Runs

| Run | Instance | Shows |
|---|---|---|
| `jobqueue` | 3 submitters (one a create), 2 workers, queue of 1, `Close` at any time | `NoSendOnClosedChannel`, `AcceptedJobInOnePlace`, `AnswerMatchesRecord`, `DrainedOnReturn`, `RecordMovesForward` |
| `jobqueue_live` | the same with 1 worker, fair | `AcceptedJobFinishes`, `CloseTerminates`, `ImplementsContract` |
| `jobqueue_hang` | unbuffered channel, operations that may hang | `SubmitAnswers` |
| `containers` | 2 goroutines, 2 owners, 1 container, 2 faults | `OneLifecycleCallAtATime`, `OnlyOwnerControls`, `LiveContainerHasRow`, `DeletedStaysDeleted`, `SettledRowMatchesDocker`, `RowMovesForward` |
| `containers_live` | 2 goroutines, 1 owner, 1 fault, fair | `CallsReturn`, `PendingResolves` |
| `containers_failed` | | finding 1 |
| `containers_started` | | finding 2 |
| `applog` | 3 writes, 1 clear, queue of 1, 1 failed operation, 1 restart, no tail | `WriteNeverPanics`, `StoredInCallOrder`, `FileKeepsUp`, `ClearedStaysCleared`, `AcceptedIsStored` |
| `applog_live` | 2 writes, 1 clear, 1 tail with room for one entry, no failures, no restart, fair | `TailInCallOrder`, `UnregisteredIsSilent`, `WriteReturns`, `CloseReturns` |
| `uploads` | 2 requests at a time (any of four operations), 2 owners, 1 upload, 2 failures, panics or restarts | `RowHasFile`, `AnsweredUploadStays`, `NoOrphanWithoutMishap`, `StrangersSeeOnlyShared`, `LoggedStatusIsAnswered` |
| `server` | 1 request with its job, 1 session, 0 or 1 workers, any number of starts, fair | `WorkFindsDatabase`, `DrainedOrLogged`, `ShutdownEnds`, `HangUpEndsSession`, `HelpersEndToo` |
| `session_shell` | 1 session | finding 3 |

The runs of `JobQueue`, `ContainerService`, `AppLog` and `Server` check their `TypeOK`
besides; that of `Uploads` is proved (`TypeCorrect`) and no run repeats it. All
properties are stated, with the behaviour they are about, at the end of their module.

**Bounds.** The bounds are `QueueSize`, `BufferSize`, `MaxFaults`, `MaxRestarts`
and the sizes of the sets of calls. Three submitters over two workers and a
queue of one give a busy worker, a full buffer and a caller that finds it full
in one behaviour; a second buffered task adds only more of the same, and the
proofs do without the bound. Containers share nothing but goroutines, so one
container with two goroutines shows the races between two calls; a
failure during one call and a restart during another need two faults. Three
writes over a queue of one put an entry in hand, one in the queue and a caller
in the send; one fault followed by a restart is what it takes to glue two lines.
Tails are in a run of their own because they share only `handlersMu` and the
write loop with the rest, and that run has all of both. Uploads share nothing but
the requests, so one upload is enough for every race on it; two requests are a
Save or a change of visibility with a reader, and a slot is used again after its
answer; two faults are an insert that fails and a removal that fails after it, or
either with a restart. Sessions share nothing, so one is enough; with one job the
job drain, the http drain and the session overlap in every way, and the job
service's own races are JobQueue's. The number of starts has no bound.

**Fairness.** Weak fairness for goroutines that can take a step: the Go scheduler
runs them. Strong fairness where one goroutine may be passed over while others
take what it waits for, which Go's mutexes (starvation mode), RWMutexes and
channels (queues of waiters) rule out. `FairSpec` of JobQueue also assumes that
container operations return; `HangSpec` does not. ContainerService assumes the
daemon and the database answer, possibly with an error, and that some worker
takes a queued create. AppLog assumes that file operations return. Nobody is
assumed to make a call, to close a service or to read a WebSocket. Session
assumes that goroutines run, that calls of Docker and of the WebSocket library
return (a write within its five seconds), and that the program in the terminal goes
on reading: a handler inside `session.Write` to one that does not read
(`wsstream/containerexec.go:115`) would not notice that its client has gone. Server
assumes that main takes its next step and that its timers fire, nothing of
requests, which may never send their bodies (the `http.Server` has no timeouts), and
nothing of jobs, which may hang in Docker. Deadlock is
checked in every run; `Finished` marks the states of JobQueue and AppLog in which
nothing is left to do; in ContainerService another call can always be made, in
Uploads another request, in Server another start.

## Findings

Three runs are expected to end in a violation. Each checks what the repository
itself says against what its code does.

1. `containers_failed`: a container whose create failed cannot be deleted. Its row
   has no Docker ID, `DeleteContainer` asks Docker to remove the empty ID, gets
   an error and returns before it deletes the row
   (`service/container_service.go:309`). `domain/container.go:28` says the row is
   left so that "the owner can see it happened and delete it". A row whose container
   Docker has removed before the DELETE failed is stuck in the same way, since Docker
   has nothing to remove the second time; the run shows only the first case.
2. `containers_started`: `CreateContainer` runs without the container's mutex. A
   start between its two last statements succeeds, and the create then overwrites
   the status with "created" (`service/container_service.go:145`).
3. `session_shell`: "The session ends when either side closes it"
   (`wsstream/containerexec.go:64`). When the shell exits, its reader goroutine
   returns, and the handler stays in `conn.Read` (line 104) until the client sends
   something or hangs up.

Two observations no comment denies. An append to the log that stops
just before the newline leaves an entry that the next start loads, and the first
entry written after that start is joined to its line, so the start after that
skips both (`FileKeepsUp`). And `Manager.Close` closes the log file without `mu`
(`applog/manager.go:220`): a `ClearLogs` that the HTTP drain gave up may have truncated
the file and then fail to write back what it keeps.

## Proofs

All theorems hold for every value of the constants under the modules' named
assumptions. The proof modules contain no unproved step.

**JobQueueProofs** (assuming `JobQueueAssumption`). The properties are not
inductive by themselves, so the invariant is built in layers, each proved on top
of the former:

- `TypeInv`: `TypeOK`, and a worker that executes holds a job (`WorkerInv`).
- `LockInv`: `readers` are those between lock and unlock; the writer excludes
  them; once `closed` is set nobody is past the check of it. From this
  `NeverSendsOnClosedChannel`.
- `PlaceInv`: how a job's record, its submitter's position and its result fit
  together; tasks in the buffer are accepted and pending, tasks in hand are
  accepted and pending or running; no task is twice anywhere; no accepted
  unfinished job is nowhere. From this `AnswersAgree`, `AcceptedInOnePlace`
  (a cardinality, from the two halves) and the action property
  `RecordsMoveForward`.
- `ExitInv`: a worker that has left did so over a closed and empty channel, which
  stays so because nobody is past the check. From this `CloseDrains`, which needs
  `Workers # {}`: `JOB_WORKERS` is not validated, and without workers `Close`
  returns over a queue nobody has drained.
- `ImplementsContractSafely`: initial states map to initial states and every step
  to a step of `JobContract` or a stutter, for a finite, non-empty set of
  workers. The bound on running jobs follows because distinct running jobs are
  in the hands of distinct workers.

**ContainerServiceProofs** (assuming `ContainerServiceAssumption`).

- `TypeInv`: `TypeOK`, and which steps belong to which operation.
- `CreateInv`: a creation that has not reached Docker yet is the only one for its
  ID, nothing is in Docker and the ID is not queued; queued IDs have a row; IDs
  not issued have nothing; only what Docker has removed is erased. With these
  `LiveContainerHasRow` and `DeletedStaysDeleted` are inductive: `NoOrphans`,
  `DeletesAreFinal`.
- `SectionInv`: whoever is in a section holds its mutex. `LifecycleExclusion`
  follows.
- `OwnerInv`: whoever has passed the check of an owner's operation owns the row,
  and nobody is about to save a row with that ID. `OwnerControls` follows.

- `SettledInv`: as long as no fault and no restart has happened, what each step of
  each operation says of the row and of Docker's container (`TiedInv`: a start before
  its last update has a linked row and a container that runs or has exited, and so
  on), and what row and container say of each other while somebody is between two
  calls (`FitInv`: a row may say "stopped" of a running container only while a start
  is under way). It needs `MakerInv`: the request that saves a row, its queued job and
  the call that creates the container are one after the other, so a creation is in
  one hand at a time although it does not take the mutex. When nobody is at work
  `FitInv` is `Matches`: `RowsMatchDocker`.
- `RowInv`: the part of it that survives faults and restarts. The create's row is a
  placeholder until the link; a linked row has a container in Docker or had one; a
  start or stop that writes a status has seen the container. With it each step
  moves the row in one of seven ways (`Moves`), none of them backwards:
  `RowsMoveForward`.

A step of a goroutine is described once by what it can do to the row, to Docker
and to its call (`StepFacts`); the invariants are proved from those facts, with
the calls that begin and the few other actions treated one by one.

**AppLogProofs** (assuming `AppLogAssumption`), for any number of calls, tails, faults
and restarts and every size of the queue and the buffers.

- `PickFacts` says what `Pick` returns: exactly the kept members, in order, and the
  sequence itself when all are kept. Induction over data is out of the prover's
  reach as a theorem with an operator parameter, so the first length that goes
  wrong is shown not to exist: a non-empty set of numbers has a least member
  (`Least`, from the well-foundedness of < on Nat).
- `TypeInv`: `TypeOK`, and the write loop has an entry in hand exactly while it works
  (`RunInv`). From it `TypeCorrect`.
- `LockInv`: whoever is past `RLock` is among the readers, nobody sends once `closed` is
  set, and the loop has left only over a closed and empty queue. From it
  `NeverSendsOnClosedQueue` and, with `AcceptedInv`, `CloseLosesNothing`.
- `KnownInv` and `KeptInv`: an entry that is anywhere comes from a call that has sent
  it and will not send again; what a `ClearLogs` still has to write back is in memory.
- `OrderInv`: the queue, memory, the file and what is being rewritten are each in
  call order, and each before what is still on its way there. `StoredInCallOrder`
  speaks of memory alone and is not inductive without the other three: a restart
  makes memory out of the file. That loaded entries stand before later ones needs
  `KnownInv`, too: a call only counts as `earlier` once it can send nothing more. From
  both `StoresInCallOrder`.
- `TailInv`, the same for what a tail has sent and buffered: `TailsInCallOrder`.
- `ClearedInv`: what a running `ClearLogs` removes is no longer in memory or on its way,
  what it rewrites is, and what was cleared is nowhere: `RemovedStaysRemoved`.
- `AcceptedInv`: an accepted entry is on its way, in memory or was removed.
- `FiledInv` and `InStepInv`: memory's entries have been written, are about to be or are
  in `unwritten`; as long as nothing failed the file is exactly memory, but for the
  step being taken. From both `FileFollowsMemory`.
- `UnregisteredStaysSilent` is an action property and follows from `RunInv`: the loop
  calls only handlers of tails that are still on.

**UploadsProofs** (assuming `UploadsAssumption`), in layers again:

- `TypeInv`: `TypeOK`, and `Shape`: what a request's place says about its call (a
  step that works on an upload has an ID, one past a check has a row). Steps are
  described once, by where the request goes: `QuietMove` for those that store
  nothing, `WritingMove` for those of a Save and the UPDATE.
- `FileInv`: an ID not issued has nothing; each Save is alone with its ID, which has
  no row before the insert, is not answered and is complete at the insert; a row
  whose Save still has to remove the file is "unconfirmed". Without these the three
  properties about files and rows are not inductive. From it `RowsHaveFiles`,
  `AnsweredUploadsStay`, `OrphansHaveMishaps`.
- `ShareInv`: whatever a row calls public is in `shared`; every request in hand is
  entitled to all of `shared`; a request about to open the file may see it, and one
  about to update the row owns it. It rests on `FileInv`, for a row never changes
  its owner only because an insert finds none. From it `StrangersSeeShared`.
- `LogsTheAnswer` needs only the order of the middlewares, computed in `Nesting`.

**ServerProofs** (assuming `ServerAssumption`). `IInv` says what main's place means
for the rest: the listener is on only from "await", the schema is current from the
seed on, the pool is open until the last deferred call; before "await" nothing has
been asked of the process, by a request or a session; the pool is not closed before
`Close` has returned or its wait was given up; a job service that is closed has nothing left, unless it
has no workers; each drain main has passed is over or given up, and what was given
up is logged. That sessions keep their types is proved action by action.
`WorkHasDatabase` and `EndsDrainedOrLogged` follow, `ServerTypes` too.

**Only model-checked.** All liveness, and the liveness half of
`ImplementsContract`: fairness and ENABLED are out of the prover's reach. Every
invariant and every action property of the passing runs has a theorem.

## Not modelled

- The frontend (`src/web`): its poll loop and its overlapping refreshes would need a
  model of the browser's event loop; both are in the list of hazards. The embedded
  file server, the log and health endpoints and the generated API description
  keep no state.
- Binding and shapes of requests and responses, and the read-only container
  endpoints; ContainerService has the access check they make.
- golang-migrate itself: versions, its lock, the Postgres driver's own connection.
- Contents: names, images, commands, messages, the log filter, content types,
  sizes and paths. The 1 MiB limit on a line of the log file
  (`applog/manager.go:86`): entries have no length here.
- Timestamps and the order of lists, except the order of log entries.
- A second signal during the shutdown, which `signal.NotifyContext` swallows.

## Plan

What is left, in this order:

1. `JobPoll`: the frontend's poll and refresh over `JobContract` with restarts.
2. An abstract specification of the log, one sequence of entries to which accepted
   writes are appended and from which clears remove, and `AppLog` shown to
   implement it while no file operation fails.
3. `Session` has no safety property of its own: what `Server` checks of it is liveness.

## Running

    tlc -config jobqueue.cfg MCJobQueue
    tlc -config containers.cfg MCContainerService
    tlc -config applog.cfg MCAppLog
    tlc -config uploads.cfg MCUploads
    tlc -config server.cfg MCServer
    tlapm JobQueueProofs.tla
    tlapm ContainerServiceProofs.tla
    tlapm AppLogProofs.tla
    tlapm UploadsProofs.tla
    tlapm ServerProofs.tla

------------------------------ MODULE JobQueue ------------------------------
(***************************************************************************)
(* The background job service of container-api (internal/job/service.go):  *)
(* request handlers submit jobs to a bounded channel, a fixed pool of      *)
(* workers executes them against the container operator, and Close stops   *)
(* the service and waits for the workers.  Submitters and Close meet on    *)
(* a sync.RWMutex: submit holds the read lock from its check of `closed`   *)
(* to its send, Close takes the write lock before it closes the channel.   *)
(*                                                                         *)
(* One member of Jobs is one call of submit: the request goroutine, the    *)
(* job identifier newID gives it and the task it enqueues.  The container  *)
(* operator is abstract here (it accepts or refuses an owner, and each     *)
(* operation succeeds or fails); module ContainerService details it.       *)
(***************************************************************************)
EXTENDS Naturals, Sequences, FiniteSets

CONSTANTS Jobs,        \* calls of submit, and the jobs they save
          CreateJobs,  \* those whose op is OpCreateContainer
          Workers,     \* the goroutines NewService starts
          QueueSize,   \* capacity of the tasks channel
          NoJob        \* what a worker holds before its first task

ASSUME JobQueueAssumption ==
       /\ CreateJobs \subseteq Jobs
       /\ QueueSize \in Nat
       /\ NoJob \notin Jobs

VARIABLES pc,       \* submitter -> where its call of submit is
          result,   \* submitter -> what submit returns
          readers,  \* the submitters that hold stateMu for reading
          closed,   \* Service.closed
          tasks,    \* the buffered tasks of the channel, oldest first
          isClosed, \* the channel itself has been closed
          store,    \* MemoryStore: job -> its record
          wpc,      \* worker -> where its goroutine is
          wjob,     \* worker -> the task it received last
          cpc       \* where the one call of Close is

subVars   == <<pc, result, readers>>
chanVars  == <<tasks, isClosed>>
workVars  == <<wpc, wjob>>
vars == <<pc, result, readers, closed, tasks, isClosed, store, wpc, wjob, cpc>>

-----------------------------------------------------------------------------
(* The states of the goroutines and of the records. *)

SubmitPCs == {"init", "rlock", "check", "own", "save", "send", "full",
              "unlock", "end"}
Results   == {"none", "accepted", "queueFull", "closed", "refused"}
WorkerPCs == {"recv", "parked", "begin", "stage", "call", "succeeded",
              "errored", "log", "exited"}
ClosePCs  == {"idle", "drain", "locked", "marked", "unlock", "wait",
              "returned"}

Statuses  == {"absent", "pending", "running", "done", "failed"}
Terminal  == {"done", "failed"}
Stages    == {"none", "creating", "pulling"}
Errors    == {"none", "queue full", "operation"}

\* A record as the store holds it; "absent" is an identifier it does not hold.
JobRecord == [status : Statuses, stage : Stages, error : Errors]

NoRecord  == [status |-> "absent", stage |-> "none", error |-> "none"]
NewRecord == [NoRecord EXCEPT !.status = "pending"]

\* The jobs in the channel's buffer.
Queued == {tasks[i] : i \in 1..Len(tasks)}

\* A worker has a task in its hands up to the final UpdateStatus of execute.
Executing == {"begin", "stage", "call", "succeeded", "errored"}
Holds(w, j) == wpc[w] \in Executing /\ wjob[w] = j

-----------------------------------------------------------------------------
(* MemoryStore.  Each method runs under the store's own mutex, so a call   *)
(* is one atomic change; an update of an unknown identifier changes        *)
(* nothing (its error is discarded by every caller).                       *)

Save(j) == store' = [store EXCEPT ![j] = NewRecord]

Known(j) == store[j].status # "absent"

UpdateStatus(j, status, error) ==
    store' = IF Known(j)
             THEN [store EXCEPT ![j] = [@ EXCEPT !.status = status, !.error = error]]
             ELSE store

UpdateStage(j, stage) ==
    store' = IF Known(j)
             THEN [store EXCEPT ![j] = [@ EXCEPT !.stage = stage]]
             ELSE store

-----------------------------------------------------------------------------
(* stateMu, a sync.RWMutex: a writer that has announced itself (cpc        *)
(* "drain") keeps new readers out and waits for the present ones.          *)

WriterHolds == cpc \in {"locked", "marked", "unlock"}
WriterWaits == cpc = "drain"

-----------------------------------------------------------------------------
(* NewService, then Submit/SubmitCreate -> submit.                         *)

Init == /\ pc = [j \in Jobs |-> "init"]
        /\ result = [j \in Jobs |-> "none"]
        /\ readers = {}
        /\ closed = FALSE
        /\ tasks = <<>>
        /\ isClosed = FALSE
        /\ store = [j \in Jobs |-> NoRecord]
        /\ wpc = [w \in Workers |-> "recv"]
        /\ wjob = [w \in Workers |-> NoJob]
        /\ cpc = "idle"

SubmitGoto(j, from, to) ==
    pc[j] = from /\ pc' = [pc EXCEPT ![j] = to]

\* The step that decides what the call returns; the deferred RUnlock follows.
SubmitReturns(j, from, res) ==
    /\ SubmitGoto(j, from, "unlock")
    /\ result' = [result EXCEPT ![j] = res]

CallSubmit(j) ==
    /\ SubmitGoto(j, "init", "rlock")
    /\ UNCHANGED <<result, readers, closed, chanVars, store, workVars, cpc>>

SubmitRLock(j) ==
    /\ ~WriterHolds /\ ~WriterWaits
    /\ SubmitGoto(j, "rlock", "check")
    /\ readers' = readers \cup {j}
    /\ UNCHANGED <<result, closed, chanVars, store, workVars, cpc>>

SubmitCheckClosed(j) ==
    /\ IF closed
       THEN SubmitReturns(j, "check", "closed")
       ELSE SubmitGoto(j, "check", "own") /\ UNCHANGED result
    /\ UNCHANGED <<readers, closed, chanVars, store, workVars, cpc>>

\* MustOwnContainer, called under the read lock, answers either way.
SubmitCheckOwner(j) ==
    /\ \/ SubmitReturns(j, "own", "refused")
       \/ SubmitGoto(j, "own", "save") /\ UNCHANGED result
    /\ UNCHANGED <<readers, closed, chanVars, store, workVars, cpc>>

SubmitSave(j) ==
    /\ SubmitGoto(j, "save", "send")
    /\ Save(j)
    /\ UNCHANGED <<result, readers, closed, chanVars, workVars, cpc>>

\* A send succeeds at once when a worker is parked on the channel, which
\* then gets the task without buffering, or when the buffer has room.
CanSend == \/ \E w \in Workers : wpc[w] = "parked"
           \/ Len(tasks) < QueueSize

HandTo(w, j) == /\ wpc[w] = "parked"
                /\ wpc' = [wpc EXCEPT ![w] = "begin"]
                /\ wjob' = [wjob EXCEPT ![w] = j]
                /\ UNCHANGED tasks

\* Faulty variant: the buffer grows without bound.
EnqueueUnbounded(j) == /\ \A w \in Workers : wpc[w] # "parked"
                       /\ tasks' = Append(tasks, j)
                       /\ UNCHANGED workVars

Enqueue(j) == /\ \A w \in Workers : wpc[w] # "parked"
              /\ Len(tasks) < QueueSize
              /\ tasks' = Append(tasks, j)
              /\ UNCHANGED workVars

\* The send case of the select.  On a closed channel it would panic, which
\* NoSendOnClosedChannel rules out.
SubmitSend(j) ==
    /\ SubmitReturns(j, "send", "accepted")
    /\ Enqueue(j) \/ \E w \in Workers : HandTo(w, j)
    /\ UNCHANGED <<readers, closed, isClosed, store, cpc>>

\* The default case of the select, taken only when no send can proceed ...
SubmitDefault(j) ==
    /\ ~CanSend
    /\ SubmitGoto(j, "send", "full")
    /\ UNCHANGED <<result, readers, closed, chanVars, store, workVars, cpc>>

\* Faulty variant: the rejected job is left as it was saved.
SubmitForgetFull(j) ==
    /\ SubmitReturns(j, "full", "queueFull")
    /\ UNCHANGED <<readers, closed, chanVars, store, workVars, cpc>>

\* ... then marks the job it has already saved as failed.
SubmitMarkFull(j) ==
    /\ SubmitReturns(j, "full", "queueFull")
    /\ UpdateStatus(j, "failed", "queue full")
    /\ UNCHANGED <<readers, closed, chanVars, workVars, cpc>>

SubmitRUnlock(j) ==
    /\ SubmitGoto(j, "unlock", "end")
    /\ readers' = readers \ {j}
    /\ UNCHANGED <<result, closed, chanVars, store, workVars, cpc>>

\* Faulty variant: the task is sent before its record is saved.
SubmitSendFirst(j) ==
    \/ SubmitRLock(j) \/ SubmitCheckClosed(j) \/ SubmitRUnlock(j)
    \/ /\ SubmitGoto(j, "own", "send")
       /\ UNCHANGED <<result, readers, closed, chanVars, store, workVars, cpc>>
    \/ /\ SubmitGoto(j, "send", "save")
       /\ Enqueue(j) \/ \E w \in Workers : HandTo(w, j)
       /\ UNCHANGED <<result, readers, closed, isClosed, store, cpc>>
    \/ /\ SubmitReturns(j, "save", "accepted")
       /\ Save(j)
       /\ UNCHANGED <<readers, closed, chanVars, workVars, cpc>>

Submit(j) == \/ SubmitRLock(j) \/ SubmitCheckClosed(j) \/ SubmitCheckOwner(j)
             \/ SubmitSave(j) \/ SubmitSend(j) \/ SubmitDefault(j)
             \/ SubmitMarkFull(j) \/ SubmitRUnlock(j)

-----------------------------------------------------------------------------
(* worker: `for t := range s.tasks { s.execute(t) }`.                      *)

WorkerGoto(w, from, to) ==
    wpc[w] = from /\ wpc' = [wpc EXCEPT ![w] = to]

WorkerReceive(w) ==
    /\ tasks # <<>>
    /\ WorkerGoto(w, "recv", "begin")
    /\ wjob' = [wjob EXCEPT ![w] = Head(tasks)]
    /\ tasks' = Tail(tasks)
    /\ UNCHANGED <<subVars, closed, isClosed, store, cpc>>

WorkerPark(w) ==
    /\ tasks = <<>> /\ ~isClosed
    /\ WorkerGoto(w, "recv", "parked")
    /\ UNCHANGED <<subVars, closed, chanVars, store, wjob, cpc>>

\* Faulty variant: the worker leaves as soon as the channel is closed.
WorkerQuit(w) ==
    /\ isClosed
    /\ \/ WorkerGoto(w, "recv", "exited")
       \/ WorkerGoto(w, "parked", "exited")
    /\ UNCHANGED <<subVars, closed, chanVars, store, wjob, cpc>>

\* The range loop ends when the channel is closed and empty; closing wakes
\* the parked receivers.  wg.Done runs as the goroutine returns.
WorkerExit(w) ==
    /\ isClosed /\ tasks = <<>>
    /\ \/ WorkerGoto(w, "recv", "exited")
       \/ WorkerGoto(w, "parked", "exited")
    /\ UNCHANGED <<subVars, closed, chanVars, store, wjob, cpc>>

\* Faulty variant: the job is executed without being marked as running.
ExecuteUnmarked(w) ==
    /\ WorkerGoto(w, "begin", IF wjob[w] \in CreateJobs THEN "stage" ELSE "call")
    /\ UNCHANGED <<subVars, closed, chanVars, store, wjob, cpc>>

ExecuteBegin(w) ==
    /\ WorkerGoto(w, "begin", IF wjob[w] \in CreateJobs THEN "stage" ELSE "call")
    /\ UpdateStatus(wjob[w], "running", "none")
    /\ UNCHANGED <<subVars, closed, chanVars, wjob, cpc>>

ExecuteStage(w) ==
    /\ WorkerGoto(w, "stage", "call")
    /\ UpdateStage(wjob[w], "creating")
    /\ UNCHANGED <<subVars, closed, chanVars, wjob, cpc>>

\* The callback CreateContainer makes while it runs, before a pull.
ExecutePullStage(w) ==
    /\ wpc[w] = "call" /\ wjob[w] \in CreateJobs
    /\ store[wjob[w]].stage = "creating"
    /\ UpdateStage(wjob[w], "pulling")
    /\ UNCHANGED <<subVars, closed, chanVars, workVars, cpc>>

\* The operator's method returns, with or without an error.
OperationReturns(w) ==
    /\ WorkerGoto(w, "call", "succeeded") \/ WorkerGoto(w, "call", "errored")
    /\ UNCHANGED <<subVars, closed, chanVars, store, wjob, cpc>>

ExecuteDone(w) ==
    /\ WorkerGoto(w, "succeeded", "log")
    /\ UpdateStatus(wjob[w], "done", "none")
    /\ UNCHANGED <<subVars, closed, chanVars, wjob, cpc>>

\* Faulty variants: a failed task is put back for another try; a failure
\* ends the worker.
ExecuteRetry(w) ==
    /\ WorkerGoto(w, "errored", "log")
    /\ UpdateStatus(wjob[w], "failed", "operation")
    /\ tasks' = IF isClosed THEN tasks ELSE Append(tasks, wjob[w])
    /\ UNCHANGED <<subVars, closed, isClosed, wjob, cpc>>

ExecuteFatal(w) ==
    /\ WorkerGoto(w, "errored", "exited")
    /\ UpdateStatus(wjob[w], "failed", "operation")
    /\ UNCHANGED <<subVars, closed, chanVars, wjob, cpc>>

ExecuteFailed(w) ==
    /\ WorkerGoto(w, "errored", "log")
    /\ UpdateStatus(wjob[w], "failed", "operation")
    /\ UNCHANGED <<subVars, closed, chanVars, wjob, cpc>>

\* logger.WriteLog, then back to the range loop.
ExecuteLog(w) ==
    /\ WorkerGoto(w, "log", "recv")
    /\ UNCHANGED <<subVars, closed, chanVars, store, wjob, cpc>>

\* The steps of the service's own code, which never block for ever.
WorkerCode(w) == \/ WorkerReceive(w) \/ WorkerPark(w) \/ WorkerExit(w)
                 \/ ExecuteBegin(w) \/ ExecuteStage(w)
                 \/ ExecuteDone(w) \/ ExecuteFailed(w) \/ ExecuteLog(w)

Worker(w) == WorkerCode(w) \/ ExecutePullStage(w) \/ OperationReturns(w)

-----------------------------------------------------------------------------
(* Close, called once, by main.                                            *)

CloseGoto(from, to) == cpc = from /\ cpc' = to

CallClose ==
    /\ CloseGoto("idle", "drain")
    /\ UNCHANGED <<subVars, closed, chanVars, store, workVars>>

\* Faulty variant: Close does not wait for the readers.
CloseBarge ==
    /\ CloseGoto("drain", "locked")
    /\ UNCHANGED <<subVars, closed, chanVars, store, workVars>>

CloseLocked ==
    /\ readers = {}
    /\ CloseGoto("drain", "locked")
    /\ UNCHANGED <<subVars, closed, chanVars, store, workVars>>

CloseMark ==
    /\ CloseGoto("locked", "marked")
    /\ closed' = TRUE
    /\ UNCHANGED <<subVars, chanVars, store, workVars>>

\* Faulty variant: the channel is never closed.
CloseFlagOnly ==
    /\ CloseGoto("marked", "unlock")
    /\ UNCHANGED <<subVars, closed, chanVars, store, workVars>>

CloseChannel ==
    /\ CloseGoto("marked", "unlock")
    /\ isClosed' = TRUE
    /\ UNCHANGED <<subVars, closed, tasks, store, workVars>>

\* Faulty variant: Close waits for the workers before it unlocks.
CloseUnlockLate ==
    /\ \A w \in Workers : wpc[w] = "exited"
    /\ CloseGoto("unlock", "wait")
    /\ UNCHANGED <<subVars, closed, chanVars, store, workVars>>

CloseUnlock ==
    /\ CloseGoto("unlock", "wait")
    /\ UNCHANGED <<subVars, closed, chanVars, store, workVars>>

CloseReturn ==
    /\ \A w \in Workers : wpc[w] = "exited"
    /\ CloseGoto("wait", "returned")
    /\ UNCHANGED <<subVars, closed, chanVars, store, workVars>>

Close == \/ CloseLocked \/ CloseMark \/ CloseChannel
         \/ CloseUnlock \/ CloseReturn

-----------------------------------------------------------------------------
\* Everybody is through: the only state in which nothing is left to do.
Finished == /\ cpc = "returned"
            /\ \A j \in Jobs : pc[j] = "end"
            /\ UNCHANGED vars

Next == \/ \E j \in Jobs : CallSubmit(j) \/ Submit(j)
        \/ \E w \in Workers : Worker(w)
        \/ CallClose \/ Close
        \/ Finished

Spec == Init /\ [][Next]_vars

\* Goroutines that can run do run; nobody has to call Submit or Close.
CodeFairness == /\ \A j \in Jobs : WF_vars(Submit(j))
                /\ \A w \in Workers : WF_vars(WorkerCode(w))
                /\ WF_vars(Close)

\* Container operations return: true of the operator when the Docker daemon
\* and the database answer, and not otherwise (no call has a deadline).
OperatorFairness == \A w \in Workers : WF_vars(OperationReturns(w))

HangSpec == Spec /\ CodeFairness
FairSpec == HangSpec /\ OperatorFairness
-----------------------------------------------------------------------------
(* Properties.                                                             *)

\* The type invariant.
TypeOK == /\ pc \in [Jobs -> SubmitPCs]
          /\ result \in [Jobs -> Results]
          /\ readers \subseteq Jobs
          /\ closed \in BOOLEAN
          /\ tasks \in Seq(Jobs)
          /\ Len(tasks) <= QueueSize
          /\ isClosed \in BOOLEAN
          /\ store \in [Jobs -> JobRecord]
          /\ wpc \in [Workers -> WorkerPCs]
          /\ wjob \in [Workers -> Jobs \cup {NoJob}]
          /\ cpc \in ClosePCs

\* submit never reaches its send on a channel Close has closed, which would
\* panic: the promise of the comment on Service and of the one in Close.
NoSendOnClosedChannel == \A j \in Jobs : pc[j] \in {"send", "full"} => ~isClosed

\* The places a job's task is in: positions of the buffer and workers' hands.
Places(j) == {i \in 1..Len(tasks) : tasks[i] = j}
             \cup {w \in Workers : Holds(w, j)}

\* A job submit has accepted is neither lost nor duplicated: until it is done
\* or failed, its task is in exactly one place.  Every other job (refused,
\* rejected because the queue is full, or finished) is in none, so it is
\* never executed.
AcceptedJobInOnePlace ==
    \A j \in Jobs :
        IF result[j] = "accepted" /\ store[j].status \notin Terminal
        THEN Cardinality(Places(j)) = 1
        ELSE Places(j) = {}

\* What submit answers agrees with what a poll of the job shows from then on:
\* a call that returned ErrQueueFull has left a failed record that says so, an
\* accepted job has a record that never does, and a call that failed the
\* closed or the owner check has left none.
AnswerMatchesRecord ==
    \A j \in Jobs :
        /\ result[j] = "queueFull" => /\ store[j].status = "failed"
                                      /\ store[j].error = "queue full"
        /\ result[j] = "accepted" => /\ Known(j)
                                     /\ store[j].error # "queue full"
        /\ result[j] \in {"closed", "refused"} => ~Known(j)

\* Once Close has returned, no job is left pending or running: workers have
\* drained the queue and no submitter saved a job afterwards.  main closes
\* the logger and the Docker client on the strength of this.
DrainedOnReturn ==
    cpc = "returned" =>
        \A j \in Jobs : store[j].status \notin {"pending", "running"}

\* A polling client sees a job move forward only, and never again once it is
\* done or failed: not its status, its error or its stage.
NextStatuses(s) == CASE s = "absent"  -> {"pending"}
                     [] s = "pending" -> {"running", "failed"}
                     [] s = "running" -> {"done", "failed"}
                     [] OTHER         -> {}

RecordMovesForward ==
    [][\A j \in Jobs :
         /\ store[j].status # store'[j].status =>
                store'[j].status \in NextStatuses(store[j].status)
         /\ store[j].status \in Terminal => store'[j] = store[j]]_vars

\* Every accepted job is eventually done or failed, whether or not Close is
\* called, as long as container operations return.
AcceptedJobFinishes ==
    \A j \in Jobs :
        result[j] = "accepted" ~> store[j].status \in Terminal

\* Close, once called, returns.
CloseTerminates == cpc = "drain" ~> cpc = "returned"

\* submit is answered even while every worker hangs in a container operation
\* and Close waits for them: nothing is held across wg.Wait, and a full queue
\* is an error, not a wait.
SubmitAnswers == \A j \in Jobs : pc[j] = "rlock" ~> pc[j] = "end"

-----------------------------------------------------------------------------
(* The client's view of the service, and what the service promises in it.  *)

phase   == [j \in Jobs |-> store[j].status]
service == IF cpc = "returned" THEN "closed"
           ELSE IF isClosed THEN "closing" ELSE "open"

Contract == INSTANCE JobContract
            WITH MaxRunning <- Cardinality(Workers)

\* The job service implements its contract (module JobContract).
ImplementsContract == Contract!Spec
=============================================================================

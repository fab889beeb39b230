-------------------------- MODULE ContainerService --------------------------
(***************************************************************************)
(* Container lifecycle management (internal/service/container_service.go)  *)
(* between the containers table (internal/repository) and the Docker       *)
(* daemon (internal/container/docker.go, external).  Request goroutines    *)
(* and job workers call the service concurrently; start, stop, delete and  *)
(* set-visibility run under a mutex per container ID, create, exec and log *)
(* streaming do not.  Database and daemon calls may fail, and the process  *)
(* may be restarted at any point: rows and Docker containers survive, the  *)
(* in-memory job queue and the locks do not.                               *)
(***************************************************************************)
EXTENDS Naturals, FiniteSets

CONSTANTS Procs,       \* goroutines: request handlers and job workers
          Containers,  \* container IDs newID can hand out
          Owners,      \* API-key owners
          Free,        \* the holder of a free lock
          MaxFaults    \* bound on failed calls and restarts in a behaviour

ASSUME ContainerServiceAssumption ==
       /\ Free \notin Procs
       /\ MaxFaults \in Nat

VARIABLES row,        \* the containers table: ID -> its row
          issued,     \* IDs BeginCreateContainer has used
          dock,       \* Docker: state of the container created for an ID
          createJobs, \* IDs whose create job is queued
          lock,       \* lockRegistry: ID -> the goroutine that holds its mutex
          pc,         \* goroutine -> the next step of its call
          call,       \* goroutine -> its call: operation, caller and container
          seen,       \* goroutine -> the row it read had a DockerID
          outcome,    \* goroutine -> what its call returns
          deleted,    \* IDs for which DeleteContainer has succeeded
          faults      \* failures and restarts so far

vars == <<row, issued, dock, createJobs, lock, pc, call, seen, outcome,
          deleted, faults>>

-----------------------------------------------------------------------------
Locked  == {"start", "stop", "delete", "visibility"}  \* run under withLock
Control == Locked \cup {"exec"}                       \* for the owner only
Ops     == Control \cup {"stream", "request", "create"}

Statuses     == {"pending", "created", "running", "stopped", "exited", "failed"}
Visibilities == {"private", "public"}

\* A row of the table.  linked: its DockerID column names the container that
\* Docker created for this ID (each ID has at most one create job).
Rows  == [owner : Owners, status : Statuses, linked : BOOLEAN,
          visibility : Visibilities]
NoRow == [status |-> "absent"]

Calls  == [op : Ops, owner : Owners, id : Containers]
NoCall == [op |-> "none"]

DockerStates == {"none", "created", "running", "exited", "gone"}
Live         == {"created", "running", "exited"}

PCs == {"idle", "lock", "check", "docker", "inspect", "exited", "update",
        "erase", "attach", "pull", "retry", "link", "markFailed", "save",
        "submit", "return"}
Outcomes == {"none", "ok", "error", "notFound", "forbidden"}

Op(p) == call[p].op
Id(p) == call[p].id
Present(c) == row[c] # NoRow

-----------------------------------------------------------------------------
(* Steps of a call. *)

Goto(p, from, to) == pc[p] = from /\ pc' = [pc EXCEPT ![p] = to]

\* The call is decided; it returns next.
Ends(p, from, res) == /\ Goto(p, from, "return")
                      /\ outcome' = [outcome EXCEPT ![p] = res]

\* A failure of the database, of the daemon or of the process.
Fault   == faults < MaxFaults /\ faults' = faults + 1
NoFault == UNCHANGED faults

-----------------------------------------------------------------------------
(* Statements on the containers table.  An UPDATE or a DELETE of an ID     *)
(* that has no row affects nothing and is no error.                        *)

\* Faulty variant: a missing row is inserted again.
UpsertStatus(p, status) ==
    row' = [row EXCEPT ![Id(p)] =
              [owner |-> call[p].owner, status |-> status, linked |-> TRUE,
               visibility |-> "private"]]

UpdateStatus(p, status) ==
    row' = IF Present(Id(p)) THEN [row EXCEPT ![Id(p)].status = status] ELSE row

UpdateVisibility(p, visibility) ==
    row' = IF Present(Id(p))
           THEN [row EXCEPT ![Id(p)].visibility = visibility] ELSE row

SetDockerID(p) ==
    row' = IF Present(Id(p)) THEN [row EXCEPT ![Id(p)].linked = TRUE] ELSE row

DeleteRow(p) == row' = [row EXCEPT ![Id(p)] = NoRow]

\* The placeholder of a create request.
SaveRow(p, visibility) ==
    row' = [row EXCEPT ![Id(p)] =
              [owner |-> call[p].owner, status |-> "pending", linked |-> FALSE,
               visibility |-> visibility]]

\* The database fails and the call ends with an error.  When the connection
\* breaks, the statement may have taken effect all the same.
DatabaseFails(p, from, statement) ==
    Ends(p, from, "error") /\ (UNCHANGED row \/ statement) /\ Fault

-----------------------------------------------------------------------------
(* The Docker daemon.  A call with an empty or unknown container ID is an  *)
(* error; when the connection breaks, the caller gets an error whether or  *)
(* not the daemon carried the call out.                                    *)

\* Faulty variant: the daemon is asked for the container by its name.
ExistsByName(p) == dock[Id(p)] \in Live

Exists(p) == seen[p] /\ dock[Id(p)] \in Live

DockerDoes(p, state) == dock' = [dock EXCEPT ![Id(p)] = state]

\* The daemon refuses or does not know the container, or the call breaks off.
DockerFails(p, state) ==
    \/ ~Exists(p) /\ UNCHANGED dock /\ NoFault
    \/ UNCHANGED dock /\ Fault
    \/ Exists(p) /\ DockerDoes(p, state) /\ Fault

\* What a stop leaves behind: a container that never ran stays "created".
Halted(state) == IF state = "running" THEN "exited" ELSE state

\* A container's process ends by itself; no restart policy is ever set.
ProcessExits(c) ==
    /\ dock[c] = "running"
    /\ dock' = [dock EXCEPT ![c] = "exited"]
    /\ UNCHANGED <<row, issued, createJobs, lock, pc, call, seen, outcome,
                   deleted, faults>>

-----------------------------------------------------------------------------
Init == /\ row = [c \in Containers |-> NoRow]
        /\ issued = {}
        /\ dock = [c \in Containers |-> "none"]
        /\ createJobs = {}
        /\ lock = [c \in Containers |-> Free]
        /\ pc = [p \in Procs |-> "idle"]
        /\ call = [p \in Procs |-> NoCall]
        /\ seen = [p \in Procs |-> FALSE]
        /\ outcome = [p \in Procs |-> "none"]
        /\ deleted = {}
        /\ faults = 0

\* The first step of each operation: withLock, the ownership check of the
\* unlocked ones, or the placeholder of a create request.
FirstStep(op) == CASE op \in Locked             -> "lock"
                   [] op \in {"exec", "stream"} -> "check"
                   [] op = "request"            -> "save"
                   [] op = "create"             -> "docker"

Begin(p, op, o, c) ==
    /\ Goto(p, "idle", FirstStep(op))
    /\ call' = [call EXCEPT ![p] = [op |-> op, owner |-> o, id |-> c]]

\* A request on a container ID a client may know.
CallOp(p, op, o, c) ==
    /\ op \in Control \cup {"stream"}
    /\ c \in issued
    /\ Begin(p, op, o, c)
    /\ UNCHANGED <<row, issued, dock, createJobs, lock, seen, outcome, deleted,
                   faults>>

\* POST /containers: newID never hands out an ID twice.
CallRequest(p, o, c) ==
    /\ c \notin issued
    /\ Begin(p, "request", o, c)
    /\ issued' = issued \cup {c}
    /\ UNCHANGED <<row, dock, createJobs, lock, seen, outcome, deleted, faults>>

\* A worker takes a queued create job; its task carries the owner.
CallCreate(p, o, c) ==
    /\ c \in createJobs
    /\ Present(c) => row[c].owner = o
    /\ Begin(p, "create", o, c)
    /\ createJobs' = createJobs \ {c}
    /\ UNCHANGED <<row, issued, dock, lock, seen, outcome, deleted, faults>>

-----------------------------------------------------------------------------
(* BeginCreateContainer, then the handler's SubmitCreate.                  *)

\* What a client may ask for: nothing, a visibility, or something invalid.
Requested == Visibilities \cup {"", "invalid"}

\* Faulty variant: an empty visibility is stored as it is.
AsRequested(v) == v

OrPrivate(v) == IF v = "" THEN "private" ELSE v

RequestSave(p) ==
    /\ \E v \in Requested :
         IF v = "invalid"
         THEN Ends(p, "save", "error") /\ NoFault /\ UNCHANGED row
         ELSE \/ /\ Goto(p, "save", "submit") /\ SaveRow(p, OrPrivate(v))
                 /\ UNCHANGED outcome /\ NoFault
              \/ DatabaseFails(p, "save", SaveRow(p, OrPrivate(v)))
    /\ UNCHANGED <<issued, dock, createJobs, lock, call, seen, deleted>>

\* The job is queued, or the queue is full or closed and the placeholder stays.
RequestSubmit(p) ==
    /\ \/ Ends(p, "submit", "ok") /\ createJobs' = createJobs \cup {Id(p)}
       \/ Ends(p, "submit", "error") /\ UNCHANGED createJobs
    /\ UNCHANGED <<row, issued, dock, lock, call, seen, deleted, faults>>

-----------------------------------------------------------------------------
(* CreateContainer, run by a job worker without the container's lock.      *)

\* The daemon creates the container, or refuses (a name conflict, a bad
\* request), or the connection breaks once it has.
DockerCreates(p, from, others) ==
    /\ \/ Goto(p, from, "link") /\ DockerDoes(p, "created") /\ NoFault
       \/ Goto(p, from, "markFailed") /\ UNCHANGED dock /\ NoFault
       \/ Goto(p, from, "markFailed") /\ DockerDoes(p, "created") /\ Fault
       \/ others
    /\ UNCHANGED <<row, issued, createJobs, lock, call, seen, outcome, deleted>>

\* A missing image is pulled first ...
CreateDocker(p) ==
    /\ Op(p) = "create"
    /\ DockerCreates(p, "docker",
                     Goto(p, "docker", "pull") /\ UNCHANGED dock /\ NoFault)

CreatePull(p) ==
    /\ Goto(p, "pull", "retry") \/ Goto(p, "pull", "markFailed")
    /\ UNCHANGED <<row, issued, dock, createJobs, lock, call, seen, outcome,
                   deleted, faults>>

\* ... and the create is tried a second time.
CreateRetry(p) == DockerCreates(p, "retry", FALSE)

\* Faulty variant: a failed create leaves its placeholder as it is.
CreateJustFails(p) ==
    /\ Ends(p, "markFailed", "error")
    /\ UNCHANGED <<row, issued, dock, createJobs, lock, call, seen, deleted,
                   faults>>

\* The error of this UpdateStatus is discarded.
CreateMarkFailed(p) ==
    /\ \/ Ends(p, "markFailed", "error") /\ UpdateStatus(p, "failed") /\ NoFault
       \/ DatabaseFails(p, "markFailed", UpdateStatus(p, "failed"))
    /\ UNCHANGED <<issued, dock, createJobs, lock, call, seen, deleted>>

CreateLink(p) ==
    /\ \/ Goto(p, "link", "update") /\ SetDockerID(p) /\ NoFault /\ UNCHANGED outcome
       \/ DatabaseFails(p, "link", SetDockerID(p))
    /\ UNCHANGED <<issued, dock, createJobs, lock, call, seen, deleted>>

CreateUpdate(p) ==
    /\ Op(p) = "create"
    /\ \/ Ends(p, "update", "ok") /\ UpdateStatus(p, "created") /\ NoFault
       \/ DatabaseFails(p, "update", UpdateStatus(p, "created"))
    /\ UNCHANGED <<issued, dock, createJobs, lock, call, seen, deleted>>

-----------------------------------------------------------------------------
(* withLock and the access checks.                                         *)

\* Faulty variant: every caller gets a mutex of its own.
LockOwn(p) ==
    /\ Goto(p, "lock", "check")
    /\ lock' = [lock EXCEPT ![Id(p)] = p]
    /\ UNCHANGED <<row, issued, dock, createJobs, call, seen, outcome, deleted,
                   faults>>

Lock(p) ==
    /\ pc[p] = "lock" /\ lock[Id(p)] = Free
    /\ Goto(p, "lock", "check")
    /\ lock' = [lock EXCEPT ![Id(p)] = p]
    /\ UNCHANGED <<row, issued, dock, createJobs, call, seen, outcome, deleted,
                   faults>>

\* Faulty variant: GetContainer's check guards the owner's operations too.
MayRead(p) ==
    \/ row[Id(p)].owner = call[p].owner
    \/ row[Id(p)].visibility = "public"

\* mustOwnContainer for the owner's operations, GetContainer for log streams.
Allowed(p) ==
    \/ row[Id(p)].owner = call[p].owner
    \/ Op(p) = "stream" /\ row[Id(p)].visibility = "public"

AfterCheck(op) == CASE op \in {"start", "stop", "delete"} -> "docker"
                    [] op = "visibility"                  -> "update"
                    [] op \in {"exec", "stream"}          -> "attach"

Check(p) ==
    /\ pc[p] = "check"
    /\ \/ /\ ~Present(Id(p))
          /\ Ends(p, "check", "notFound")
          /\ NoFault /\ UNCHANGED seen
       \/ /\ Present(Id(p)) /\ ~Allowed(p)
          /\ Ends(p, "check", "forbidden")
          /\ NoFault /\ UNCHANGED seen
       \/ /\ Present(Id(p)) /\ Allowed(p)
          /\ Goto(p, "check", AfterCheck(Op(p)))
          /\ seen' = [seen EXCEPT ![p] = row[Id(p)].linked]
          /\ NoFault /\ UNCHANGED outcome
       \/ Ends(p, "check", "error") /\ Fault /\ UNCHANGED seen
    /\ UNCHANGED <<row, issued, dock, createJobs, lock, call, deleted>>

-----------------------------------------------------------------------------
(* StartContainer, StopContainer, DeleteContainer, SetVisibility; Exec and *)
(* StreamLogs.                                                             *)

\* The daemon starts the container, or refuses to (a command it cannot run).
StartDocker(p) ==
    /\ Op(p) = "start"
    /\ \/ /\ Exists(p) /\ Goto(p, "docker", "inspect")
          /\ DockerDoes(p, "running")
          /\ NoFault /\ UNCHANGED outcome
       \/ Ends(p, "docker", "error") /\ UNCHANGED dock /\ NoFault
       \/ Ends(p, "docker", "error") /\ DockerFails(p, "running")
    /\ UNCHANGED <<row, issued, createJobs, lock, call, seen, deleted>>

\* Faulty variant: a container that was started is taken to have stayed up
\* or to have exited, whatever Docker says.
StartAssume(p) ==
    /\ Goto(p, "inspect", "update") \/ Goto(p, "inspect", "exited")
    /\ UNCHANGED <<row, issued, dock, createJobs, lock, call, seen, outcome,
                   deleted, faults>>

\* IsRunning; when it fails the container is taken to be running.
StartInspect(p) ==
    /\ \/ Goto(p, "inspect", IF dock[Id(p)] = "running" THEN "update" ELSE "exited")
          /\ NoFault
       \/ Goto(p, "inspect", "update") /\ Fault
    /\ UNCHANGED <<row, issued, dock, createJobs, lock, call, seen, outcome,
                   deleted>>

StartUpdate(p) ==
    /\ Op(p) = "start"
    /\ \/ Ends(p, "update", "ok") /\ UpdateStatus(p, "running") /\ NoFault
       \/ Ends(p, "exited", "ok") /\ UpdateStatus(p, "exited") /\ NoFault
       \/ DatabaseFails(p, "update", UpdateStatus(p, "running"))
       \/ DatabaseFails(p, "exited", UpdateStatus(p, "exited"))
    /\ UNCHANGED <<issued, dock, createJobs, lock, call, seen, deleted>>

StopDocker(p) ==
    /\ Op(p) = "stop"
    /\ \/ /\ Exists(p) /\ Goto(p, "docker", "update")
          /\ DockerDoes(p, Halted(dock[Id(p)]))
          /\ NoFault /\ UNCHANGED outcome
       \/ Ends(p, "docker", "error") /\ DockerFails(p, Halted(dock[Id(p)]))
    /\ UNCHANGED <<row, issued, createJobs, lock, call, seen, deleted>>

StopUpdate(p) ==
    /\ Op(p) = "stop"
    /\ \/ Ends(p, "update", "ok") /\ UpdateStatus(p, "stopped") /\ NoFault
       \/ DatabaseFails(p, "update", UpdateStatus(p, "stopped"))
    /\ UNCHANGED <<issued, dock, createJobs, lock, call, seen, deleted>>

\* Faulty variant: a row without a DockerID counts as removed from Docker.
DeleteDockerLenient(p) ==
    /\ Op(p) = "delete"
    /\ \/ /\ Exists(p) /\ Goto(p, "docker", "erase")
          /\ DockerDoes(p, "gone")
          /\ NoFault /\ UNCHANGED outcome
       \/ /\ ~seen[p] /\ Goto(p, "docker", "erase")
          /\ NoFault /\ UNCHANGED <<dock, outcome>>
       \/ seen[p] /\ Ends(p, "docker", "error") /\ DockerFails(p, "gone")
    /\ UNCHANGED <<row, issued, createJobs, lock, call, seen, deleted>>

\* RemoveContainer forces the removal, running or not.
DeleteDocker(p) ==
    /\ Op(p) = "delete"
    /\ \/ /\ Exists(p) /\ Goto(p, "docker", "erase")
          /\ DockerDoes(p, "gone")
          /\ NoFault /\ UNCHANGED outcome
       \/ Ends(p, "docker", "error") /\ DockerFails(p, "gone")
    /\ UNCHANGED <<row, issued, createJobs, lock, call, seen, deleted>>

DeleteErase(p) ==
    /\ \/ /\ Ends(p, "erase", "ok") /\ DeleteRow(p) /\ NoFault
          /\ deleted' = deleted \cup {Id(p)}
       \/ DatabaseFails(p, "erase", DeleteRow(p)) /\ UNCHANGED deleted
    /\ UNCHANGED <<issued, dock, createJobs, lock, call, seen>>

\* An invalid visibility is refused before the mutex is taken, and changes
\* nothing: that call is not modelled.
VisibilityUpdate(p) ==
    /\ Op(p) = "visibility"
    /\ \E v \in Visibilities :
         \/ Ends(p, "update", "ok") /\ UpdateVisibility(p, v) /\ NoFault
         \/ DatabaseFails(p, "update", UpdateVisibility(p, v))
    /\ UNCHANGED <<issued, dock, createJobs, lock, call, seen, deleted>>

\* Docker attaches the session or answers with an error; neither changes it.
Attach(p) ==
    /\ \/ Ends(p, "attach", "ok") /\ Exists(p) /\ NoFault
       \/ Ends(p, "attach", "error") /\ ~Exists(p) /\ NoFault
       \/ Ends(p, "attach", "error") /\ Fault
    /\ UNCHANGED <<row, issued, dock, createJobs, lock, call, seen, deleted>>

\* Faulty variant: an error return skips the unlock.
ReturnLocked(p) ==
    /\ Goto(p, "return", "idle")
    /\ lock' = [c \in Containers |->
                  IF lock[c] = p /\ outcome[p] = "ok" THEN Free ELSE lock[c]]
    /\ call' = [call EXCEPT ![p] = NoCall]
    /\ seen' = [seen EXCEPT ![p] = FALSE]
    /\ outcome' = [outcome EXCEPT ![p] = "none"]
    /\ UNCHANGED <<row, issued, dock, createJobs, deleted, faults>>

\* Every call returns here; withLock's deferred Unlock runs.
Return(p) ==
    /\ Goto(p, "return", "idle")
    /\ lock' = [c \in Containers |-> IF lock[c] = p THEN Free ELSE lock[c]]
    /\ call' = [call EXCEPT ![p] = NoCall]
    /\ seen' = [seen EXCEPT ![p] = FALSE]
    /\ outcome' = [outcome EXCEPT ![p] = "none"]
    /\ UNCHANGED <<row, issued, dock, createJobs, deleted, faults>>

-----------------------------------------------------------------------------
\* The process ends at any point and is started again.
Restart ==
    /\ Fault
    /\ createJobs' = {}
    /\ lock' = [c \in Containers |-> Free]
    /\ pc' = [p \in Procs |-> "idle"]
    /\ call' = [p \in Procs |-> NoCall]
    /\ seen' = [p \in Procs |-> FALSE]
    /\ outcome' = [p \in Procs |-> "none"]
    /\ UNCHANGED <<row, issued, dock, deleted>>

\* What a goroutine does in a call, short of waiting for a lock.
Step(p) == \/ RequestSave(p) \/ RequestSubmit(p)
           \/ CreateDocker(p) \/ CreatePull(p) \/ CreateRetry(p)
           \/ CreateMarkFailed(p) \/ CreateLink(p) \/ CreateUpdate(p)
           \/ Check(p)
           \/ StartDocker(p) \/ StartInspect(p) \/ StartUpdate(p)
           \/ StopDocker(p) \/ StopUpdate(p)
           \/ DeleteDocker(p) \/ DeleteErase(p)
           \/ VisibilityUpdate(p) \/ Attach(p)
           \/ Return(p)

TakeCreateJob(p) == \E o \in Owners, c \in Containers : CallCreate(p, o, c)

Next == \/ \E p \in Procs : Lock(p) \/ Step(p) \/ TakeCreateJob(p)
        \/ \E p \in Procs, o \in Owners, c \in Containers :
              \/ CallRequest(p, o, c)
              \/ \E op \in Control \cup {"stream"} : CallOp(p, op, o, c)
        \/ \E c \in Containers : ProcessExits(c)
        \/ Restart

Spec == Init /\ [][Next]_vars

\* Calls go on and daemon and database answer (WF); a mutex is handed to a
\* goroutine that keeps asking for it (Go's starvation mode, SF); a queued
\* create job is taken by some worker (what JobQueue guarantees).
FairSpec == /\ Spec
            /\ \A p \in Procs : WF_vars(Step(p)) /\ SF_vars(Lock(p))
            /\ \A c \in Containers :
                 SF_vars(\E p \in Procs, o \in Owners : CallCreate(p, o, c))

-----------------------------------------------------------------------------
(* Properties.                                                             *)

\* The type invariant.
TypeOK == /\ row \in [Containers -> Rows \cup {NoRow}]
          /\ issued \subseteq Containers
          /\ dock \in [Containers -> DockerStates]
          /\ createJobs \subseteq Containers
          /\ lock \in [Containers -> Procs \cup {Free}]
          /\ pc \in [Procs -> PCs]
          /\ call \in [Procs -> Calls \cup {NoCall}]
          /\ seen \in [Procs -> BOOLEAN]
          /\ outcome \in [Procs -> Outcomes]
          /\ deleted \subseteq Containers
          /\ faults \in 0..MaxFaults

\* Two of start, stop, delete and set-visibility never work on the same
\* container at once: the promise of withLock's comment, on every return path
\* and across restarts.
InSection(p) == Op(p) \in Locked /\ pc[p] # "lock"

OneLifecycleCallAtATime ==
    \A p, q \in Procs :
        InSection(p) /\ InSection(q) /\ Id(p) = Id(q) => p = q

\* Whoever has got past the check of a start, stop, delete, visibility change
\* or shell owns the container, public or not, for as long as its row lasts.
OnlyOwnerControls ==
    \A p \in Procs :
        /\ Op(p) \in Control
        /\ pc[p] \notin {"lock", "check", "return"}
        /\ Present(Id(p))
        => row[Id(p)].owner = call[p].owner

\* A container that exists in Docker is never without its row, however
\* create, delete, failures and restarts interleave: it may be unlinked from
\* its row, but an owner always sees that something is there.
LiveContainerHasRow ==
    \A c \in Containers : dock[c] \in Live => Present(c)

\* A delete that reported success is final: Docker has removed the container,
\* and no late step of a create or of another call brings the row back.
DeletedStaysDeleted ==
    \A c \in deleted : ~Present(c) /\ dock[c] = "gone"

\* As long as nothing has failed, a container nobody is working on has a row
\* that matches Docker.  (Status "created" says only that it exists: a start
\* that overlaps the end of the create may be overwritten, see
\* StartedStatusSticks.)
Calm(c) == c \notin createJobs /\ \A p \in Procs : pc[p] # "idle" => Id(p) # c

Matches(r, d) ==
    CASE r = NoRow                            -> d \in {"none", "gone"}
      [] r.status \in {"pending", "failed"}   -> d = "none" /\ ~r.linked
      [] r.status = "created"                 -> d \in Live /\ r.linked
      [] r.status = "running"                 -> d \in {"running", "exited"} /\ r.linked
      [] r.status = "exited"                  -> d = "exited" /\ r.linked
      [] r.status = "stopped"                 -> d \in {"created", "exited"} /\ r.linked

SettledRowMatchesDocker ==
    \A c \in Containers : faults = 0 /\ Calm(c) => Matches(row[c], dock[c])

\* Whoever overlaps on a container, and whatever fails, its row only moves
\* forward: it starts as a placeholder, before Docker has anything for it, and
\* goes only once Docker has removed the container it names; in between its
\* owner stays, it is never unlinked from its container, a create that failed
\* stays failed, and what has left pending is not pending again.
Forward(c) ==
    /\ ~Present(c) /\ Present(c)' =>
         row'[c].status = "pending" /\ ~row'[c].linked /\ dock[c] = "none"
    /\ Present(c) /\ ~Present(c)' => row[c].linked /\ dock[c] = "gone"
    /\ Present(c) /\ Present(c)' =>
         /\ row'[c].owner = row[c].owner
         /\ row[c].linked => row'[c].linked
         /\ row[c].status = "failed" => row'[c].status = "failed"
         /\ row'[c].status = "pending" => row[c].status = "pending"

RowMovesForward == [][\A c \in Containers : Forward(c)]_vars

\* Every call returns, so that no container is locked for ever.
CallsReturn == \A p \in Procs : pc[p] # "idle" ~> pc[p] = "idle"

\* A container whose create job is queued does not stay "pending" for ever
\* unless something fails on the way.
PendingResolves ==
    \A c \in Containers :
        c \in createJobs ~> \/ ~Present(c)
                            \/ row[c].status # "pending"
                            \/ faults > 0

\* What the comment on StatusFailed says of a container whose create failed:
\* its owner can delete it.
FailedCanBeDeleted ==
    \A p \in Procs :
        ~ /\ pc[p] = "return" /\ Op(p) = "delete" /\ outcome[p] = "error"
          /\ faults = 0
          /\ Present(Id(p)) /\ row[Id(p)].status = "failed"

\* What the lifecycle test expects: after a start that succeeded the row says
\* that the container was started, not that it is merely created.
StartedStatusSticks ==
    \A c \in Containers :
        faults = 0 /\ Calm(c) /\ Present(c) /\ row[c].status = "created"
            => dock[c] = "created"
=============================================================================

----------------------- MODULE ContainerServiceProofs -----------------------
(***************************************************************************)
(* Proofs about ContainerService, for every set of goroutines, containers  *)
(* and owners and any number of failures and restarts.                     *)
(***************************************************************************)
EXTENDS ContainerService, TLAPS

USE DEF Statuses, Visibilities, Outcomes, DockerStates, Live, PCs, Locked, Control, Ops

-----------------------------------------------------------------------------
(* Types, and which step belongs to which operation. *)

\* What a goroutine's step says about the call it is in.
ShapeOf(p) ==
    /\ pc[p] = "idle" => call[p] = NoCall
    /\ pc[p] # "idle" => call[p] \in Calls /\ Id(p) \in issued
    /\ pc[p] \in {"save", "submit"} => Op(p) = "request"
    /\ pc[p] \in {"pull", "retry", "link", "markFailed"} => Op(p) = "create"
    /\ pc[p] = "docker" => Op(p) \in {"create", "start", "stop", "delete"}
    /\ pc[p] = "update" => Op(p) \in {"create", "start", "stop", "visibility"}
    /\ pc[p] \in {"inspect", "exited"} => Op(p) = "start"
    /\ pc[p] = "erase" => Op(p) = "delete"
    /\ pc[p] = "attach" => Op(p) \in {"exec", "stream"}
    /\ pc[p] = "lock" => Op(p) \in Locked
    /\ pc[p] = "check" => Op(p) \in Control \cup {"stream"}

Shape == \A p \in Procs : ShapeOf(p)

\* A call is a record with its three fields, or there is none.
LEMMA CallFacts ==
    ASSUME NEW x, x \in Calls
    PROVE  x.op \in Ops /\ x.owner \in Owners /\ x.id \in Containers /\ x # NoCall
  BY DEF Calls, NoCall

\* The placeholder of a create request.
Placeholder(o, v) == [owner |-> o, status |-> "pending", linked |-> FALSE,
                      visibility |-> OrPrivate(v)]

\* It is a row of the table, and its owner's.
LEMMA PlaceholderFacts ==
    ASSUME NEW o \in Owners, NEW v \in Requested, v # "invalid"
    PROVE  /\ Placeholder(o, v) \in Rows
           /\ Placeholder(o, v) # NoRow
           /\ Placeholder(o, v).owner = o
<1>1. OrPrivate(v) \in Visibilities
  BY DEF OrPrivate, Requested
<1>2. Placeholder(o, v).status = "pending" /\ NoRow.status = "absent"
  BY DEF Placeholder, NoRow
<1> QED
  BY <1>1, <1>2 DEF Placeholder, Rows

\* What the three UPDATEs do: no row comes or goes, and no owner changes.
UpdatesRow == /\ row' \in [Containers -> Rows \cup {NoRow}]
              /\ \A c \in Containers : row'[c] = NoRow <=> row[c] = NoRow
              /\ \A c \in Containers : row[c] # NoRow => row'[c].owner = row[c].owner

\* An UPDATE keeps the table typed, and every row with its owner.
LEMMA UpdateFacts ==
    ASSUME row \in [Containers -> Rows \cup {NoRow}], NEW p \in Procs, Id(p) \in Containers,
           NEW s \in Statuses, NEW v \in Visibilities,
           UpdateStatus(p, s) \/ UpdateVisibility(p, v) \/ SetDockerID(p)
    PROVE  UpdatesRow
<1>1. PICK c \in Containers : c = Id(p)
  OBVIOUS
<1>2. CASE row[c] = NoRow
  BY <1>1, <1>2 DEF UpdateStatus, UpdateVisibility, SetDockerID, Present, UpdatesRow
<1>3. CASE row[c] # NoRow
  <2>1. PICK r \in Rows : r = row[c]
    BY <1>3
  <2>2. /\ [r EXCEPT !.status = s] \in Rows
        /\ [r EXCEPT !.visibility = v] \in Rows
        /\ [r EXCEPT !.linked = TRUE] \in Rows
        /\ [r EXCEPT !.status = s].owner = r.owner
        /\ [r EXCEPT !.visibility = v].owner = r.owner
        /\ [r EXCEPT !.linked = TRUE].owner = r.owner
    BY DEF Rows
  <2>3. \A x \in Rows : x # NoRow
    BY DEF Rows, NoRow
  <2>4. PICK x \in Rows : row' = [row EXCEPT ![c] = x] /\ x.owner = r.owner
    <3>1. \/ row' = [row EXCEPT ![c] = [r EXCEPT !.status = s]]
          \/ row' = [row EXCEPT ![c] = [r EXCEPT !.visibility = v]]
          \/ row' = [row EXCEPT ![c] = [r EXCEPT !.linked = TRUE]]
      BY <1>1, <1>3, <2>1 DEF UpdateStatus, UpdateVisibility, SetDockerID, Present
    <3> QED
      BY <2>2, <3>1
  <2> QED
    BY <2>1, <2>3, <2>4 DEF UpdatesRow
<1> QED
  BY <1>2, <1>3

\* What one step of a goroutine does to the table ...
RowEffect(p) ==
    \/ UNCHANGED row
    \/ /\ pc[p] = "save" /\ pc'[p] \in {"submit", "return"}
       /\ \E r \in Rows : r.owner = call[p].owner /\ row' = [row EXCEPT ![Id(p)] = r]
    \/ pc[p] = "erase" /\ row' = [row EXCEPT ![Id(p)] = NoRow]
    \/ pc[p] \in {"markFailed", "link", "update", "exited"} /\ UpdatesRow

\* ... to Docker ...
DockEffect(p) ==
    \/ UNCHANGED dock
    \/ /\ Op(p) = "create" /\ pc[p] \in {"docker", "retry"}
       /\ pc'[p] \in {"link", "markFailed"}
       /\ dock' = [dock EXCEPT ![Id(p)] = "created"]
    \/ /\ Op(p) \in {"start", "stop", "delete"} /\ dock[Id(p)] \in Live
       /\ \E s \in Live \cup {"gone"} : dock' = [dock EXCEPT ![Id(p)] = s]

\* ... and to its own call, which moves on by one step.
CallEffect(p) ==
    /\ pc' \in [Procs -> PCs] /\ call' \in [Procs -> Calls \cup {NoCall}]
    /\ \A q \in Procs : q # p => pc'[q] = pc[q] /\ call'[q] = call[q]
    /\ pc[p] \notin {"idle", "lock"} /\ pc'[p] \notin {"save", "lock", "check"}
    /\ IF pc[p] = "return" THEN pc'[p] = "idle" /\ call'[p] = NoCall
                           ELSE pc'[p] # "idle" /\ call'[p] = call[p]
    /\ pc'[p] = "submit" => pc[p] = "save" /\ row'[Id(p)] # NoRow
    /\ pc'[p] \in {"pull", "retry"} => pc[p] \in {"docker", "pull"} /\ Op(p) = "create"
    /\ pc'[p] = "docker" => pc[p] = "check" /\ Op(p) \in {"start", "stop", "delete"}
    /\ pc'[p] = "erase" => pc[p] = "docker" /\ Op(p) = "delete" /\ dock'[Id(p)] = "gone"
    /\ pc[p] = "check" /\ pc'[p] # "return" => Present(Id(p)) /\ Allowed(p)

\* The steps that queue a create job, free a lock or complete a delete.
RestEffect(p) ==
    /\ UNCHANGED issued
    /\ \/ UNCHANGED createJobs
       \/ pc[p] = "submit" /\ pc'[p] = "return" /\ createJobs' = createJobs \cup {Id(p)}
    /\ \/ UNCHANGED lock
       \/ /\ pc[p] = "return"
          /\ lock' = [c \in Containers |-> IF lock[c] = p THEN Free ELSE lock[c]]
    /\ \/ UNCHANGED deleted
       \/ /\ pc[p] = "erase" /\ row' = [row EXCEPT ![Id(p)] = NoRow]
          /\ deleted' = deleted \cup {Id(p)}

TypeInv == TypeOK /\ Shape

\* A step of a goroutine keeps the types, and has just these effects.
LEMMA StepFacts ==
    ASSUME TypeInv, NEW p \in Procs, Step(p)
    PROVE  TypeOK' /\ ShapeOf(p)' /\ CallEffect(p) /\ RestEffect(p) /\ RowEffect(p) /\ DockEffect(p)
<1> USE DEF TypeInv, TypeOK, Shape, ShapeOf, CallEffect, RestEffect, Goto, Ends, DatabaseFails
<1>0. /\ faults + 1 \in Nat /\ faults \in Nat /\ MaxFaults \in Nat
      /\ call[p] # NoCall => /\ Op(p) \in Ops /\ Id(p) \in Containers
                             /\ call[p].owner \in Owners
  BY ContainerServiceAssumption, CallFacts DEF ContainerServiceAssumption, Op, Id
<1>1. CASE RequestSave(p)
  <2>1. CASE Ends(p, "save", "error") /\ UNCHANGED row
    BY <1>0, <1>1, <2>1 DEF RequestSave, RowEffect, DockEffect, Id, Op, Fault, NoFault
  <2>2. CASE ~(Ends(p, "save", "error") /\ UNCHANGED row)
    <3>1. PICK v \in Requested, at \in {"submit", "return"} :
            /\ v # "invalid" /\ pc[p] = "save" /\ pc' = [pc EXCEPT ![p] = at]
            /\ row' = [row EXCEPT ![Id(p)] = Placeholder(call[p].owner, v)]
            /\ outcome' \in [Procs -> Outcomes] /\ faults' \in 0..MaxFaults
            /\ UNCHANGED <<issued, dock, createJobs, lock, call, seen, deleted>>
      BY <1>0, <1>1, <2>2 DEF RequestSave, SaveRow, Fault, NoFault, Placeholder
    <3>2. PICK r \in Rows : /\ r # NoRow /\ r.owner = call[p].owner
                            /\ row' = [row EXCEPT ![Id(p)] = r]
      <4>1. call[p].owner \in Owners
        BY <3>1, CallFacts
      <4>2. PICK r : r = Placeholder(call[p].owner, v)
        OBVIOUS
      <4>3. r \in Rows /\ r # NoRow /\ r.owner = call[p].owner
        BY <3>1, <4>1, <4>2, PlaceholderFacts
      <4> QED
        BY <3>1, <4>2, <4>3
    <3>3. TypeOK' /\ ShapeOf(p)'
      BY <1>0, <3>1, <3>2 DEF Id, Op
    <3>4. CallEffect(p) /\ RestEffect(p) /\ DockEffect(p)
      BY <1>0, <3>1, <3>2 DEF DockEffect, Id, Op
    <3>5. RowEffect(p)
      BY <3>1, <3>2 DEF RowEffect
    <3> QED
      BY <3>3, <3>4, <3>5
  <2> QED
    BY <2>1, <2>2
<1>2. CASE RequestSubmit(p)
  BY <1>0, <1>2 DEF RequestSubmit, RowEffect, DockEffect, Id, Op
<1>3. CASE CreateDocker(p) \/ CreatePull(p) \/ CreateRetry(p)
  <2>1. CASE CreateDocker(p)
    BY <1>0, <2>1 DEF CreateDocker, DockerCreates, DockerDoes, RowEffect, DockEffect, Id, Op,
       Goto, Fault, NoFault
  <2>2. CASE CreatePull(p)
    BY <1>0, <2>2 DEF CreatePull, RowEffect, DockEffect, Id, Op, Goto
  <2>3. CASE CreateRetry(p)
    BY <1>0, <2>3 DEF CreateRetry, DockerCreates, DockerDoes, RowEffect, DockEffect, Id, Op,
       Goto, Fault, NoFault
  <2> QED
    BY <1>3, <2>1, <2>2, <2>3
<1>4. CASE CreateMarkFailed(p)
  BY <1>0, <1>4, UpdateFacts DEF CreateMarkFailed, RowEffect, DockEffect, Id, Op, Fault, NoFault, UpdatesRow
<1>5. CASE CreateLink(p)
  BY <1>0, <1>5, UpdateFacts DEF CreateLink, RowEffect, DockEffect, Id, Op, Fault, NoFault, UpdatesRow
<1>6. CASE CreateUpdate(p)
  BY <1>0, <1>6, UpdateFacts DEF CreateUpdate, RowEffect, DockEffect, Id, Op, Fault, NoFault, UpdatesRow
<1>7. CASE Check(p)
  <2>1. UNCHANGED <<row, issued, dock, createJobs, lock, call, deleted>>
    BY <1>7 DEF Check
  <2>2. /\ pc[p] = "check" /\ seen' \in [Procs -> BOOLEAN] /\ outcome' \in [Procs -> Outcomes]
        /\ faults' \in 0..MaxFaults
    BY <1>0, <1>7 DEF Check, Outcomes, Fault, NoFault, Present, Rows, NoRow
  <2>3. CASE Goto(p, "check", "return")
    BY <1>0, <2>1, <2>2, <2>3 DEF RowEffect, DockEffect, Id, Op
  <2>4. CASE ~Goto(p, "check", "return")
    <3>1. Present(Id(p)) /\ Allowed(p) /\ Goto(p, "check", AfterCheck(Op(p)))
      BY <1>7, <2>4 DEF Check
    <3>2. Op(p) \in Control \cup {"stream"}
      BY <2>2
    <3>3. \/ Op(p) \in {"start", "stop", "delete"} /\ pc' = [pc EXCEPT ![p] = "docker"]
          \/ Op(p) = "visibility" /\ pc' = [pc EXCEPT ![p] = "update"]
          \/ Op(p) \in {"exec", "stream"} /\ pc' = [pc EXCEPT ![p] = "attach"]
      BY <3>1, <3>2 DEF AfterCheck, Control, Locked
    <3> QED
      BY <1>0, <2>1, <2>2, <3>1, <3>3 DEF RowEffect, DockEffect, Id, Op
  <2> QED
    BY <2>3, <2>4
<1>8. CASE StartDocker(p)
  BY <1>0, <1>8 DEF StartDocker, DockerFails, DockerDoes, Exists, RowEffect, DockEffect, Id, Op, Fault, NoFault
<1>9. CASE StartInspect(p)
  BY <1>0, <1>9 DEF StartInspect, RowEffect, DockEffect, Id, Op, Fault, NoFault
<1>10. CASE StartUpdate(p)
  BY <1>0, <1>10, UpdateFacts DEF StartUpdate, RowEffect, DockEffect, Id, Op, Fault, NoFault, UpdatesRow
<1>11. CASE StopDocker(p)
  BY <1>0, <1>11 DEF StopDocker, DockerFails, DockerDoes, Halted, Exists, RowEffect, DockEffect, Id, Op, Fault, NoFault
<1>12. CASE StopUpdate(p)
  BY <1>0, <1>12, UpdateFacts DEF StopUpdate, RowEffect, DockEffect, Id, Op, Fault, NoFault, UpdatesRow
<1>13. CASE DeleteDocker(p)
  BY <1>0, <1>13 DEF DeleteDocker, DockerFails, DockerDoes, Exists, RowEffect, DockEffect, Id, Op, Fault, NoFault
<1>14. CASE DeleteErase(p)
  BY <1>0, <1>14 DEF DeleteErase, DeleteRow, RowEffect, DockEffect, Id, Op, Fault, NoFault
<1>15. CASE VisibilityUpdate(p)
  BY <1>0, <1>15, UpdateFacts DEF VisibilityUpdate, RowEffect, DockEffect, Id, Op, Fault, NoFault, UpdatesRow
<1>16. CASE Attach(p)
  BY <1>0, <1>16 DEF Attach, RowEffect, DockEffect, Id, Op, Fault, NoFault
<1>17. CASE Return(p)
  BY <1>0, <1>17 DEF Return, RowEffect, DockEffect, Id, Op
<1> QED
  BY <1>1, <1>2, <1>3, <1>4, <1>5, <1>6, <1>7, <1>8, <1>9, <1>10, <1>11, <1>12, <1>13,
     <1>14, <1>15, <1>16, <1>17 DEF Step

\* A call begins: a client's on an ID it may know, a create request on a new
\* ID, or a queued create job.
Starts(p, c) ==
    /\ pc[p] = "idle" /\ call'[p].id = c /\ call'[p] \in Calls
    /\ \A q \in Procs : q # p => pc'[q] = pc[q] /\ call'[q] = call[q]
    /\ UNCHANGED <<row, dock, lock, deleted>>
    /\ \/ /\ UNCHANGED <<issued, createJobs>> /\ c \in issued
          /\ \/ call'[p].op \in Locked /\ pc'[p] = "lock"
             \/ call'[p].op \in {"exec", "stream"} /\ pc'[p] = "check"
       \/ /\ UNCHANGED createJobs /\ c \notin issued /\ issued' = issued \cup {c}
          /\ call'[p].op = "request" /\ pc'[p] = "save"
       \/ /\ UNCHANGED issued /\ c \in createJobs /\ createJobs' = createJobs \ {c}
          /\ call'[p].op = "create" /\ pc'[p] = "docker"

\* A call that begins keeps the types.
LEMMA StartFacts ==
    ASSUME TypeInv, createJobs \subseteq issued,
           NEW p \in Procs, NEW o \in Owners, NEW c \in Containers,
           \/ \E op \in Control \cup {"stream"} : CallOp(p, op, o, c)
           \/ CallRequest(p, o, c) \/ CallCreate(p, o, c)
    PROVE  TypeOK' /\ Shape' /\ Starts(p, c)
<1> USE DEF TypeInv, TypeOK, Shape, ShapeOf, Goto, Begin, Op, Id
<1>1. PICK op \in Ops : /\ Begin(p, op, o, c)
                        /\ \/ op \in Control \cup {"stream"} /\ CallOp(p, op, o, c)
                           \/ op = "request" /\ CallRequest(p, o, c)
                           \/ op = "create" /\ CallCreate(p, o, c)
  BY DEF CallOp, CallRequest, CallCreate
<1>2. PICK x : x = [op |-> op, owner |-> o, id |-> c]
  OBVIOUS
<1>3. x \in Calls /\ x.op = op /\ x.id = c
  BY <1>2 DEF Calls
<1>4. call' = [call EXCEPT ![p] = x] /\ pc' = [pc EXCEPT ![p] = FirstStep(op)]
  BY <1>1, <1>2
<1>5. /\ op \in Locked => FirstStep(op) = "lock"
      /\ op \in {"exec", "stream"} => FirstStep(op) = "check"
      /\ op = "request" => FirstStep(op) = "save"
      /\ op = "create" => FirstStep(op) = "docker"
  BY DEF FirstStep
<1>6. Starts(p, c)
  <2>1. CASE op \in Control \cup {"stream"} /\ CallOp(p, op, o, c)
    BY <1>1, <1>3, <1>4, <1>5, <2>1 DEF Starts, CallOp
  <2>2. CASE op = "request" /\ CallRequest(p, o, c)
    BY <1>1, <1>3, <1>4, <1>5, <2>2 DEF Starts, CallRequest
  <2>3. CASE op = "create" /\ CallCreate(p, o, c)
    BY <1>1, <1>3, <1>4, <1>5, <2>3 DEF Starts, CallCreate
  <2> QED
    BY <1>1, <2>1, <2>2, <2>3
<1>7. TypeOK'
  <2>1. pc' \in [Procs -> PCs] /\ call' \in [Procs -> Calls \cup {NoCall}]
    BY <1>3, <1>4, <1>5
  <2>2. UNCHANGED <<seen, outcome, faults>>
    BY <1>1 DEF CallOp, CallRequest, CallCreate
  <2> QED
    BY <1>6, <2>1, <2>2 DEF Starts
<1>8. Shape'
  <2>1. ShapeOf(p)'
    BY <1>3, <1>4, <1>6 DEF Starts
  <2>2. ASSUME NEW q \in Procs, q # p PROVE ShapeOf(q)'
    BY <1>6, <2>2 DEF Starts
  <2> QED
    BY <2>1, <2>2
<1> QED
  BY <1>6, <1>7, <1>8

-----------------------------------------------------------------------------
(* One container is created at most once: the request that saves its row,  *)
(* its queued job and the call that asks Docker for it hand it on, and     *)
(* Docker has nothing for it until then.                                   *)

Early(p) == /\ Op(p) \in {"request", "create"}
            /\ pc[p] \in {"save", "submit", "docker", "pull", "retry"}

EarlyInv ==
    /\ \A p \in Procs : Early(p) =>
         /\ dock[Id(p)] = "none"
         /\ Id(p) \notin createJobs
         /\ pc[p] = "save" <=> row[Id(p)] = NoRow
    /\ \A p, q \in Procs : Early(p) /\ Early(q) /\ Id(p) = Id(q) => p = q

QueuedInv == \A c \in createJobs : dock[c] = "none" /\ row[c] # NoRow /\ c \in issued

UnissuedInv == \A c \in Containers : c \notin issued => dock[c] = "none" /\ row[c] = NoRow

\* Only what Docker has removed is erased from the table.
EraseInv == \A p \in Procs : pc[p] = "erase" => dock[Id(p)] = "gone"

CreateInv == /\ EarlyInv /\ QueuedInv /\ UnissuedInv /\ EraseInv
             /\ LiveContainerHasRow /\ DeletedStaysDeleted

\* A step of a goroutine creates no container twice and erases no live one.
LEMMA StepCreate ==
    ASSUME TypeInv, CreateInv, NEW p \in Procs, Step(p)
    PROVE  CreateInv'
<1> USE DEF TypeInv, TypeOK, Shape
<1>0. /\ ShapeOf(p) /\ CallEffect(p) /\ RestEffect(p) /\ RowEffect(p) /\ DockEffect(p)
      /\ ShapeOf(p)'
  BY StepFacts
<1>1. PICK c \in Containers : c = Id(p)
  BY <1>0, CallFacts DEF ShapeOf, CallEffect, Id
<1>2. UNCHANGED issued /\ c \in issued
  BY <1>0, <1>1 DEF ShapeOf, CallEffect, RestEffect
<1>3. \/ \A d \in Containers : row'[d] = NoRow <=> row[d] = NoRow
      \/ /\ pc[p] = "save" /\ row'[c] # NoRow
         /\ \A d \in Containers : d # c => row'[d] = row[d]
      \/ /\ pc[p] = "erase" /\ row'[c] = NoRow
         /\ \A d \in Containers : d # c => row'[d] = row[d]
  <2>1. \A r \in Rows : r # NoRow
    BY DEF Rows, NoRow
  <2> QED
    BY <1>0, <1>1, <2>1 DEF RowEffect, UpdatesRow
<1>4. \/ UNCHANGED dock
      \/ Early(p) /\ pc[p] \in {"docker", "retry"} /\ ~Early(p)' /\ dock' = [dock EXCEPT ![c] = "created"]
      \/ /\ dock[c] \in Live
         /\ \E s \in Live \cup {"gone"} : dock' = [dock EXCEPT ![c] = s]
  BY <1>0, <1>1 DEF DockEffect, Early
<1>5. \/ UNCHANGED createJobs
      \/ /\ Early(p) /\ pc[p] = "submit" /\ pc'[p] = "return"
         /\ createJobs' = createJobs \cup {c}
  BY <1>0, <1>1 DEF RestEffect, Early, ShapeOf
<1>6. \A q \in Procs : q # p => (Early(q)' <=> Early(q)) /\ Id(q)' = Id(q) /\ pc'[q] = pc[q]
  BY <1>0 DEF CallEffect, Early, Op, Id
<1>7. Early(p)' => /\ Early(p) /\ Id(p)' = c /\ row'[c] # NoRow /\ pc'[p] # "save"
                   /\ UNCHANGED <<dock, createJobs>>
  <2> SUFFICES ASSUME Early(p)'
               PROVE  /\ Early(p) /\ Id(p)' = c /\ row'[c] # NoRow /\ pc'[p] # "save"
                      /\ UNCHANGED <<dock, createJobs>>
    OBVIOUS
  <2>1. pc[p] # "return" /\ call'[p] = call[p] /\ Op(p) \in {"request", "create"}
    BY <1>0 DEF CallEffect, Early, Op, NoCall
  <2>2. /\ Id(p)' = c /\ pc'[p] \in {"submit", "pull", "retry"}
        /\ pc[p] \in {"save", "docker", "pull"} /\ Early(p)
    BY <1>0, <1>1, <2>1 DEF CallEffect, Early, Op, Id
  <2>3. UNCHANGED <<dock, createJobs>>
    BY <1>0, <2>1, <2>2 DEF DockEffect, RestEffect
  <2>4. row'[c] # NoRow
    BY <1>0, <1>1, <1>3, <2>2 DEF CallEffect, CreateInv, EarlyInv
  <2> QED
    BY <2>1, <2>2, <2>3, <2>4
<1>8. /\ Early(p) => dock[c] = "none" /\ c \notin createJobs
      /\ Early(p) /\ pc[p] # "save" => row[c] # NoRow
      /\ pc[p] \in {"save", "submit"} => Early(p)
      /\ pc[p] = "erase" => dock[c] = "gone"
      /\ \A q \in Procs : q # p /\ Early(p) /\ Early(q) => Id(q) # c
  BY <1>0, <1>1 DEF CreateInv, EarlyInv, EraseInv, Early, ShapeOf
<1>9. EarlyInv'
  <2>1. ASSUME NEW q \in Procs, Early(q)'
        PROVE  /\ dock'[Id(q)'] = "none" /\ Id(q)' \notin createJobs'
               /\ pc'[q] = "save" <=> row'[Id(q)'] = NoRow
    <3>1. CASE q = p
      BY <1>7, <1>8, <2>1, <3>1
    <3>2. CASE q # p
      <4>1. /\ Early(q) /\ Id(q)' = Id(q) /\ pc'[q] = pc[q]
            /\ dock[Id(q)] = "none" /\ Id(q) \notin createJobs
            /\ pc[q] = "save" <=> row[Id(q)] = NoRow
        BY <1>6, <2>1, <3>2 DEF CreateInv, EarlyInv
      <4>2. Id(q) \in Containers
        BY <4>1, CallFacts DEF Early, ShapeOf, Id
      <4>3. CASE Id(q) = c
        <5>1. ~Early(p)
          BY <1>8, <3>2, <4>1, <4>3
        <5>2. UNCHANGED <<dock, createJobs>> /\ (row'[c] = NoRow <=> row[c] = NoRow)
          BY <1>1, <1>3, <1>4, <1>5, <1>8, <4>1, <4>3, <5>1
        <5> QED
          BY <4>1, <4>3, <5>2
      <4>4. CASE Id(q) # c
        BY <1>3, <1>4, <1>5, <4>1, <4>2, <4>4
      <4> QED
        BY <4>3, <4>4
    <3> QED
      BY <3>1, <3>2
  <2>2. ASSUME NEW q \in Procs, NEW r \in Procs, Early(q)', Early(r)', Id(q)' = Id(r)'
        PROVE  q = r
    BY <1>1, <1>6, <1>7, <2>2 DEF CreateInv, EarlyInv
  <2> QED
    BY <2>1, <2>2 DEF EarlyInv
<1>10. QueuedInv'
  <2> SUFFICES ASSUME NEW d \in createJobs' PROVE dock'[d] = "none" /\ row'[d] # NoRow /\ d \in issued'
    BY DEF QueuedInv
  <2>1. CASE d \in createJobs
    <3>1. dock[d] = "none" /\ row[d] # NoRow /\ d \in issued /\ d \in Containers
      BY <2>1 DEF CreateInv, QueuedInv
    <3> QED
      BY <1>2, <1>3, <1>4, <1>8, <2>1, <3>1
  <2>2. CASE d \notin createJobs
    <3>1. d = c /\ Early(p) /\ pc[p] = "submit"
      BY <1>5, <2>2
    <3> QED
      BY <1>2, <1>3, <1>4, <1>8, <3>1
  <2> QED
    BY <2>1, <2>2
<1>11. UnissuedInv'
  BY <1>2, <1>3, <1>4 DEF CreateInv, UnissuedInv
<1>12. EraseInv'
  <2> SUFFICES ASSUME NEW q \in Procs, pc'[q] = "erase" PROVE dock'[Id(q)'] = "gone"
    BY DEF EraseInv
  <2>1. CASE q = p
    BY <1>0, <2>1 DEF CallEffect, Id
  <2>2. CASE q # p
    <3>1. dock[Id(q)] = "gone" /\ Id(q)' = Id(q)
      BY <1>6, <2>2 DEF CreateInv, EraseInv
    <3>2. Id(q) \in Containers
      BY <1>6, <2>2, CallFacts DEF ShapeOf, Id
    <3> QED
      BY <1>4, <1>8, <3>1, <3>2
  <2> QED
    BY <2>1, <2>2
<1>13. LiveContainerHasRow'
  <2> SUFFICES ASSUME NEW d \in Containers, dock'[d] \in Live PROVE row'[d] # NoRow
    BY DEF LiveContainerHasRow, Present
  <2>1. CASE d = c
    <3>1. dock[c] \in Live => row[c] # NoRow
      BY <1>1 DEF CreateInv, LiveContainerHasRow, Present
    <3> QED
      BY <1>1, <1>3, <1>4, <1>8, <2>1, <3>1
  <2>2. CASE d # c
    BY <1>3, <1>4, <2>2 DEF CreateInv, LiveContainerHasRow, Present
  <2> QED
    BY <2>1, <2>2
<1>14. DeletedStaysDeleted'
  <2> SUFFICES ASSUME NEW d \in deleted' PROVE row'[d] = NoRow /\ dock'[d] = "gone"
    BY DEF DeletedStaysDeleted, Present
  <2>1. CASE d \in deleted
    <3>1. row[d] = NoRow /\ dock[d] = "gone" /\ d \in Containers
      BY <2>1 DEF CreateInv, DeletedStaysDeleted, Present
    <3> QED
      BY <1>1, <1>3, <1>4, <1>8, <3>1
  <2>2. CASE d \notin deleted
    <3>1. d = c /\ pc[p] = "erase" /\ row' = [row EXCEPT ![c] = NoRow]
      BY <1>0, <1>1, <2>2 DEF RestEffect
    <3>2. ~Early(p)
      BY <3>1 DEF Early
    <3> QED
      BY <1>1, <1>4, <1>8, <3>1, <3>2
  <2> QED
    BY <2>1, <2>2
<1> QED
  BY <1>9, <1>10, <1>11, <1>12, <1>13, <1>14 DEF CreateInv

\* A call that begins takes its turn in the creation of a container, if it has
\* one.
LEMMA StartCreate ==
    ASSUME TypeInv, CreateInv, NEW p \in Procs, NEW c \in Containers, Starts(p, c)
    PROVE  CreateInv'
<1> USE DEF TypeInv, TypeOK, Shape
<1>1. \A q \in Procs : q # p => (Early(q)' <=> Early(q)) /\ Id(q)' = Id(q) /\ pc'[q] = pc[q]
  BY DEF Starts, Early, Op, Id
<1>2. /\ Id(p)' = c /\ pc'[p] # "erase"
      /\ Early(p)' => \/ pc'[p] = "save" /\ c \notin issued /\ UNCHANGED createJobs
                      \/ pc'[p] = "docker" /\ c \in createJobs /\ createJobs' = createJobs \ {c}
  BY DEF Starts, Early, Op, Id
<1>3. /\ UNCHANGED <<row, dock, deleted>> /\ createJobs' \subseteq createJobs
      /\ issued \subseteq issued' /\ issued' \subseteq issued \cup {c}
  BY DEF Starts
<1>4. ASSUME NEW q \in Procs, Early(q) PROVE Id(q) \in issued
  BY <1>4, CallFacts DEF Early, ShapeOf
<1>5. EarlyInv'
  <2>1. ASSUME NEW q \in Procs, Early(q)'
        PROVE  /\ dock'[Id(q)'] = "none" /\ Id(q)' \notin createJobs'
               /\ pc'[q] = "save" <=> row'[Id(q)'] = NoRow
    BY <1>1, <1>2, <1>3, <2>1 DEF CreateInv, EarlyInv, QueuedInv, UnissuedInv
  <2>2. ASSUME NEW q \in Procs, Early(q)', Early(p)', q # p PROVE Id(q)' # Id(p)'
    BY <1>1, <1>2, <1>4, <2>2 DEF CreateInv, EarlyInv
  <2>3. ASSUME NEW q \in Procs, NEW r \in Procs, Early(q)', Early(r)', Id(q)' = Id(r)'
        PROVE  q = r
    BY <1>1, <2>2, <2>3 DEF CreateInv, EarlyInv
  <2> QED
    BY <2>1, <2>3 DEF EarlyInv
<1>6. QueuedInv' /\ UnissuedInv'
  BY <1>3 DEF CreateInv, QueuedInv, UnissuedInv
<1>7. EraseInv'
  BY <1>1, <1>2, <1>3 DEF CreateInv, EraseInv
<1>8. LiveContainerHasRow' /\ DeletedStaysDeleted'
  BY <1>3 DEF CreateInv, LiveContainerHasRow, DeletedStaysDeleted, Present
<1> QED
  BY <1>5, <1>6, <1>7, <1>8 DEF CreateInv

\* A process that exits, a lock that is taken and a restart leave the creation
\* of containers as it is.
LEMMA RestCreate ==
    ASSUME TypeInv, CreateInv,
           \/ UNCHANGED vars \/ Restart
           \/ \E p \in Procs : Lock(p)
           \/ \E c \in Containers : ProcessExits(c)
    PROVE  CreateInv'
<1> USE DEF TypeInv, TypeOK
<1>1. CASE \E c \in Containers : ProcessExits(c)
  <2>1. PICK c \in Containers : ProcessExits(c)
    BY <1>1
  <2>2. /\ UNCHANGED <<row, issued, createJobs, pc, call, deleted>>
        /\ dock[c] = "running" /\ dock' = [dock EXCEPT ![c] = "exited"]
    BY <2>1 DEF ProcessExits
  <2>3. \A d \in Containers : /\ dock[d] \in {"none", "gone"} => dock'[d] = dock[d]
                              /\ dock'[d] \in Live => dock[d] \in Live
    BY <2>2
  <2>4. ASSUME NEW p \in Procs, Early(p) \/ pc[p] = "erase" PROVE Id(p) \in Containers
    BY <2>4, CallFacts DEF Early, Shape, ShapeOf, Id
  <2>5. EarlyInv'
    BY <2>2, <2>3, <2>4 DEF CreateInv, EarlyInv, Early, Op, Id
  <2>6. EraseInv'
    BY <2>2, <2>3, <2>4 DEF CreateInv, EraseInv, Id
  <2>7. QueuedInv' /\ UnissuedInv' /\ LiveContainerHasRow' /\ DeletedStaysDeleted'
    BY <2>2, <2>3 DEF CreateInv, QueuedInv, UnissuedInv, LiveContainerHasRow,
                      DeletedStaysDeleted, Present
  <2> QED
    BY <2>5, <2>6, <2>7 DEF CreateInv
<1>2. CASE Restart
  BY <1>2 DEF Restart, CreateInv, EarlyInv, QueuedInv, UnissuedInv, EraseInv,
              LiveContainerHasRow, DeletedStaysDeleted, Early, Present
<1>3. ASSUME NEW p \in Procs, Lock(p) PROVE CreateInv'
  <2>1. /\ UNCHANGED <<row, issued, dock, createJobs, call, deleted>>
        /\ pc[p] = "lock" /\ pc' = [pc EXCEPT ![p] = "check"]
    BY <1>3 DEF Lock, Goto
  <2> QED
    BY <2>1 DEF CreateInv, EarlyInv, QueuedInv, UnissuedInv, EraseInv,
                LiveContainerHasRow, DeletedStaysDeleted, Early, Present, Op, Id
<1>4. CASE UNCHANGED vars
  BY <1>4 DEF vars, CreateInv, EarlyInv, QueuedInv, UnissuedInv, EraseInv,
              LiveContainerHasRow, DeletedStaysDeleted, Early, Present, Op, Id
<1> QED
  BY <1>1, <1>2, <1>3, <1>4

-----------------------------------------------------------------------------
(* The mutex of a container is held by whoever is in its section, and an   *)
(* operation of the owner's that has passed its check keeps its owner: no  *)
(* row of that ID is still to be saved, and no statement changes an owner. *)

SectionInv == \A p \in Procs : InSection(p) => lock[Id(p)] = p

Past(p) == Op(p) \in Control /\ pc[p] \notin {"idle", "lock", "check", "return"}

OwnerInv == \A p \in Procs : Past(p) =>
               /\ row[Id(p)] # NoRow => row[Id(p)].owner = call[p].owner
               /\ \A q \in Procs : pc[q] = "save" => Id(q) # Id(p)

\* A step of a goroutine respects locks and owners.
LEMMA StepControl ==
    ASSUME TypeInv, CreateInv, SectionInv, OwnerInv, NEW p \in Procs, Step(p)
    PROVE  SectionInv' /\ OwnerInv'
<1> USE DEF TypeInv, TypeOK, Shape
<1>0. /\ ShapeOf(p) /\ CallEffect(p) /\ RestEffect(p) /\ RowEffect(p) /\ ShapeOf(p)'
  BY StepFacts
<1>1. PICK c \in Containers : c = Id(p)
  BY <1>0, CallFacts DEF ShapeOf, CallEffect, Id
<1>2. \A q \in Procs : q # p => /\ Id(q)' = Id(q) /\ Op(q)' = Op(q) /\ pc'[q] = pc[q]
                                /\ call'[q] = call[q]
  BY <1>0 DEF CallEffect, Op, Id
<1>3. /\ pc'[p] # "idle" => Id(p)' = c /\ Op(p)' = Op(p) /\ call'[p] = call[p]
      /\ pc'[p] = "idle" => Op(p)' = "none"
      /\ pc[p] = "return" => pc'[p] = "idle"
  BY <1>0, <1>1 DEF CallEffect, Op, Id, NoCall
<1>4. SectionInv'
  <2> SUFFICES ASSUME NEW q \in Procs, InSection(q)' PROVE lock'[Id(q)'] = q
    BY DEF SectionInv
  <2>1. CASE q = p
    <3>1. pc'[p] # "idle" /\ InSection(p) /\ Id(p)' = Id(p)
      BY <1>0, <1>1, <1>3, <2>1 DEF InSection, CallEffect
    <3> QED
      BY <1>0, <1>3, <2>1, <3>1 DEF SectionInv, RestEffect
  <2>2. CASE q # p
    <3>1. InSection(q) /\ Id(q)' = Id(q) /\ lock[Id(q)] = q
      BY <1>2, <2>2 DEF InSection, SectionInv
    <3>2. Id(q) \in Containers
      <4>1. call[q] \in Calls
        BY <3>1 DEF InSection, Op, NoCall
      <4> QED
        BY <4>1, CallFacts DEF Id
    <3> QED
      BY <1>0, <2>2, <3>1, <3>2 DEF RestEffect
  <2> QED
    BY <2>1, <2>2
<1>5. ASSUME NEW d \in Containers
      PROVE  \/ row'[d] # NoRow => row[d] # NoRow /\ row'[d].owner = row[d].owner
             \/ d = c /\ pc[p] = "save"
  BY <1>0, <1>1 DEF RowEffect, UpdatesRow
<1>6. ASSUME NEW q \in Procs, Past(q)' PROVE /\ row'[Id(q)'] # NoRow => row'[Id(q)'].owner = call'[q].owner
                                             /\ \A r \in Procs : pc'[r] = "save" => Id(r)' # Id(q)'
  <2>1. \A r \in Procs : pc'[r] = "save" => r # p /\ pc[r] = "save" /\ Id(r)' = Id(r)
    BY <1>0, <1>2 DEF CallEffect
  <2>2. CASE Past(q) /\ Id(q)' = Id(q) /\ call'[q] = call[q]
    <3>1. Id(q) \in Containers
      BY <2>2, CallFacts DEF Past, ShapeOf, Id
    <3>2. ~(pc[p] = "save" /\ c = Id(q))
      BY <1>1, <2>2 DEF OwnerInv
    <3> QED
      BY <1>5, <2>1, <2>2, <3>1, <3>2 DEF OwnerInv
  <2>3. CASE q = p /\ pc[p] = "check"
    <3>1. pc'[p] \notin {"return", "idle"} /\ Op(p) \in Control /\ call'[p] = call[p] /\ Id(p)' = c
      BY <1>0, <1>3, <1>6, <2>3 DEF Past
    <3>2. row[c] # NoRow /\ row[c].owner = call[p].owner
      BY <1>0, <1>1, <2>3, <3>1 DEF CallEffect, Present, Allowed
    <3>3. UNCHANGED row
      BY <1>0, <2>3 DEF RowEffect
    <3>4. \A r \in Procs : pc[r] = "save" => Id(r) # c
      BY <3>2 DEF CreateInv, EarlyInv, Early, ShapeOf
    <3> QED
      BY <2>1, <2>3, <3>1, <3>2, <3>3, <3>4
  <2>4. (Past(q) /\ Id(q)' = Id(q) /\ call'[q] = call[q]) \/ (q = p /\ pc[p] = "check")
    <3>1. CASE q # p
      BY <1>2, <1>6, <3>1 DEF Past
    <3>2. CASE q = p
      BY <1>0, <1>1, <1>3, <1>6, <3>2 DEF Past, CallEffect
    <3> QED
      BY <3>1, <3>2
  <2> QED
    BY <2>2, <2>3, <2>4
<1>7. OwnerInv'
  BY <1>6 DEF OwnerInv
<1> QED
  BY <1>4, <1>7

\* So does a call that begins ...
LEMMA StartControl ==
    ASSUME TypeInv, CreateInv, SectionInv, OwnerInv, NEW p \in Procs, NEW c \in Containers,
           Starts(p, c)
    PROVE  SectionInv' /\ OwnerInv'
<1> USE DEF TypeInv, TypeOK, Shape
<1>1. /\ UNCHANGED <<row, lock>> /\ ~InSection(p)' /\ ~Past(p)'
      /\ pc'[p] = "save" => Id(p)' = c /\ c \notin issued
  BY DEF Starts, InSection, Past, Op, Id
<1>2. \A q \in Procs : q # p => /\ Id(q)' = Id(q) /\ Op(q)' = Op(q) /\ pc'[q] = pc[q]
                                /\ call'[q] = call[q]
  BY DEF Starts, Op, Id
<1>3. SectionInv'
  BY <1>1, <1>2 DEF SectionInv, InSection
<1>4. ASSUME NEW q \in Procs, Past(q)'
      PROVE  q # p /\ Past(q) /\ Id(q) \in issued
  <2>1. q # p /\ Past(q)
    BY <1>1, <1>2, <1>4 DEF Past
  <2> QED
    BY <2>1 DEF Past, ShapeOf
<1>5. OwnerInv'
  BY <1>1, <1>2, <1>4 DEF OwnerInv
<1> QED
  BY <1>3, <1>5

\* ... a lock that is taken, a process that exits and a restart.
LEMMA RestControl ==
    ASSUME TypeInv, SectionInv, OwnerInv,
           \/ UNCHANGED vars \/ Restart
           \/ \E p \in Procs : Lock(p)
           \/ \E c \in Containers : ProcessExits(c)
    PROVE  TypeInv' /\ SectionInv' /\ OwnerInv'
<1> USE DEF TypeInv, TypeOK
<1>1. CASE \E c \in Containers : ProcessExits(c)
  BY <1>1 DEF ProcessExits, Shape, ShapeOf, SectionInv, OwnerInv, InSection, Past, Op, Id
<1>2. CASE Restart
  <2>1. /\ faults' \in 0..MaxFaults
        /\ \A p \in Procs : pc'[p] = "idle" /\ call'[p] = NoCall
    BY <1>2, ContainerServiceAssumption DEF Restart, Fault, ContainerServiceAssumption
  <2>2. TypeOK'
    BY <1>2, <2>1 DEF Restart
  <2>3. Shape'
    BY <2>1 DEF Shape, ShapeOf
  <2>4. SectionInv' /\ OwnerInv'
    BY <2>1 DEF SectionInv, OwnerInv, InSection, Past, Op, NoCall
  <2> QED
    BY <2>2, <2>3, <2>4
<1>3. ASSUME NEW p \in Procs, Lock(p) PROVE TypeInv' /\ SectionInv' /\ OwnerInv'
  <2>1. /\ UNCHANGED <<row, issued, dock, createJobs, call, seen, outcome, deleted, faults>>
        /\ pc[p] = "lock" /\ pc' = [pc EXCEPT ![p] = "check"]
        /\ lock[Id(p)] = Free /\ lock' = [lock EXCEPT ![Id(p)] = p]
    BY <1>3 DEF Lock, Goto
  <2>2. Id(p) \in Containers /\ Op(p) \in Locked
    BY <2>1, CallFacts DEF Shape, ShapeOf, Id
  <2>3. TypeOK'
    BY <2>1, <2>2
  <2>4. Shape'
    BY <2>1, <2>2 DEF Shape, ShapeOf, Op, Id
  <2>5. ASSUME NEW q \in Procs, InSection(q)' PROVE lock'[Id(q)'] = q
    <3>1. CASE q = p
      BY <2>1, <2>2, <3>1 DEF Id
    <3>2. CASE q # p
      <4>1. InSection(q) /\ Id(q)' = Id(q)
        BY <2>1, <2>5, <3>2 DEF InSection, Op, Id
      <4>2. Id(q) # Id(p)
        BY <2>1, <4>1, ContainerServiceAssumption DEF SectionInv, ContainerServiceAssumption
      <4> QED
        BY <2>1, <4>1, <4>2 DEF SectionInv
    <3> QED
      BY <3>1, <3>2
  <2>6. OwnerInv'
    BY <2>1 DEF OwnerInv, Past, Op, Id
  <2> QED
    BY <2>3, <2>4, <2>5, <2>6 DEF SectionInv
<1>4. CASE UNCHANGED vars
  BY <1>4 DEF vars, Shape, ShapeOf, SectionInv, OwnerInv, InSection, Past, Op, Id
<1> QED
  BY <1>1, <1>2, <1>3, <1>4

-----------------------------------------------------------------------------
(* The row and Docker, as long as nothing has failed.                      *)

\* The request that saves the row and the call that creates the container, to
\* its last update, are one per container, and its job is queued in between.
Making(p) == /\ Op(p) \in {"request", "create"}
             /\ pc[p] \notin {"idle", "return"}

MakerInv ==
    /\ \A p \in Procs : Making(p) => Id(p) \notin createJobs
    /\ \A p, q \in Procs : Making(p) /\ Making(q) /\ Id(p) = Id(q) => p = q

\* A row as the create request has saved it.
Placeheld(r) == r # NoRow /\ r.status = "pending" /\ ~r.linked

\* A row that names its Docker container.
Linked(r) == r # NoRow /\ r.linked

\* The steps of a create before Docker has created the container.
Waits(p) == \/ pc[p] = "submit"
            \/ Op(p) = "create" /\ pc[p] \in {"docker", "pull", "retry", "markFailed"}

\* The steps of an operation whose status is still to be written.
Created(p) == Op(p) = "create" /\ pc[p] = "update"
Started(p) == Op(p) = "start" /\ pc[p] \in {"inspect", "update", "exited"}
Stopped(p) == Op(p) = "stop" /\ pc[p] = "update"

\* What a goroutine's step says of the row and of the container it is working on.
TiesTo(p, r, d) ==
    /\ Waits(p) => Placeheld(r) /\ d = "none"
    /\ pc[p] = "link" => Placeheld(r) /\ d = "created"
    /\ Created(p) => d # "none" /\ (r # NoRow => r.linked)
    /\ Started(p) => Linked(r) /\ d \in {"running", "exited"}
    /\ pc[p] = "exited" => d = "exited"
    /\ Stopped(p) => Linked(r) /\ d \in {"created", "exited"}
    /\ pc[p] = "erase" => Linked(r)
    /\ seen[p] => pc[p] # "idle" /\ d # "none" /\ (r # NoRow => r.linked)

TiedInv == faults = 0 => \A p \in Procs : TiesTo(p, row[Id(p)], dock[Id(p)])

\* What the table and Docker say of a container that some are working on.
LinkedFits(c, r, d) ==
    /\ d # "none" /\ r.status # "failed"
    /\ r.status = "pending" => \E p \in Procs : Created(p) /\ Id(p) = c
    /\ d = "gone" => \E p \in Procs : pc[p] = "erase" /\ Id(p) = c
    /\ r.status = "running" => d # "created"
    /\ r.status = "exited" => d \in {"exited", "gone"} \/ \E p \in Procs : Started(p) /\ Id(p) = c
    /\ r.status = "stopped" => d # "running" \/ \E p \in Procs : Started(p) /\ Id(p) = c

UnlinkedFits(c, r, d) ==
    /\ r.status \in {"pending", "failed"}
    /\ d = "none" \/ \E p \in Procs : pc[p] = "link" /\ Id(p) = c

Fits(c, r, d) == /\ c \in createJobs => Placeheld(r)
                 /\ Linked(r) => LinkedFits(c, r, d)
                 /\ r # NoRow /\ ~r.linked => UnlinkedFits(c, r, d)

FitInv == faults = 0 => \A c \in Containers : Fits(c, row[c], dock[c])

SettledInv == MakerInv /\ TiedInv /\ FitInv

\* A step of a goroutine leaves the calls of the others alone.
Alone(p) == \A q \in Procs : q # p => /\ pc'[q] = pc[q] /\ call'[q] = call[q]
                                      /\ seen'[q] = seen[q]

\* A step of one goroutine leaves the calls of the others where they are.
LEMMA StepAlone ==
    ASSUME TypeInv, NEW p \in Procs, Step(p)
    PROVE  /\ Alone(p) /\ pc[p] \notin {"idle", "lock"}
           /\ pc'[p] # "idle" => call'[p] = call[p]
           /\ ~ (pc[p] # "check" /\ pc[p] # "return") \/ UNCHANGED seen
<1>1. CallEffect(p)
  BY StepFacts
<1>2. /\ \A q \in Procs : q # p => seen'[q] = seen[q]
      /\ ~ (pc[p] # "check" /\ pc[p] # "return") \/ UNCHANGED seen
  BY DEF Step, RequestSave, RequestSubmit, CreateDocker, CreatePull, CreateRetry,
         DockerCreates, CreateMarkFailed, CreateLink, CreateUpdate, Check, StartDocker,
         StartInspect, StartUpdate, StopDocker, StopUpdate, DeleteDocker, DeleteErase,
         VisibilityUpdate, Attach, Return, Ends, Goto, TypeInv, TypeOK
<1> QED
  BY <1>1, <1>2 DEF Alone, CallEffect

\* Creation is in one hand at a time.
LEMMA StepMaker ==
    ASSUME TypeInv, MakerInv, NEW p \in Procs, Step(p) PROVE MakerInv'
<1>1. Shape /\ Alone(p) /\ CallEffect(p) /\ RestEffect(p)
  BY StepFacts, StepAlone DEF TypeInv
<1>2. \A q \in Procs : q # p => (Making(q)' <=> Making(q)) /\ Id(q)' = Id(q)
  BY <1>1 DEF Alone, Making, Op, Id
<1>3. Making(p)' => Making(p) /\ Id(p)' = Id(p) /\ UNCHANGED createJobs
  <2> SUFFICES ASSUME Making(p)' PROVE Making(p) /\ Id(p)' = Id(p) /\ UNCHANGED createJobs
    OBVIOUS
  <2>1. pc'[p] \notin {"idle", "return"} /\ pc[p] \notin {"idle", "return"} /\ call'[p] = call[p]
    BY <1>1 DEF Making, CallEffect
  <2> QED
    BY <1>1, <2>1 DEF Making, RestEffect, Op, Id
<1>4. \/ UNCHANGED createJobs
      \/ /\ Making(p) /\ pc'[p] = "return" /\ createJobs' = createJobs \cup {Id(p)}
  <2>1. pc[p] = "submit" => Making(p)
    BY <1>1 DEF Shape, ShapeOf, Making
  <2> QED
    BY <1>1, <2>1 DEF RestEffect
<1>5. ASSUME NEW q \in Procs, Making(q)' PROVE Id(q)' \notin createJobs'
  <2>1. CASE q = p
    BY <1>3, <1>5, <2>1 DEF MakerInv
  <2>2. CASE q # p
    BY <1>2, <1>4, <1>5, <2>2 DEF MakerInv
  <2> QED
    BY <2>1, <2>2
<1>6. ASSUME NEW q \in Procs, NEW s \in Procs, Making(q)', Making(s)', Id(q)' = Id(s)'
      PROVE  q = s
  <2>1. Making(q) /\ Making(s) /\ Id(q) = Id(s)
    BY <1>2, <1>3, <1>6
  <2> QED
    BY <2>1 DEF MakerInv
<1> QED
  BY <1>5, <1>6 DEF MakerInv

\* A call that begins takes up a creation only for a new or a queued ID, and unqueues it.
LEMMA StartMaker ==
    ASSUME TypeInv, CreateInv, MakerInv, NEW p \in Procs, NEW c \in Containers, Starts(p, c)
    PROVE  MakerInv'
<1>1. /\ \A q \in Procs : q # p => (Making(q)' <=> Making(q)) /\ Id(q)' = Id(q)
      /\ Id(p)' = c
      /\ Making(p)' => \/ c \notin issued /\ UNCHANGED createJobs
                       \/ c \in createJobs /\ createJobs' = createJobs \ {c}
      /\ createJobs' \subseteq createJobs
  BY DEF Starts, Making, Op, Id
<1>2. \A q \in Procs : Making(q) => Id(q) \in issued /\ Id(q) \notin createJobs
  BY DEF TypeInv, Shape, ShapeOf, Making, MakerInv
<1>3. createJobs \subseteq issued
  BY DEF CreateInv, QueuedInv
<1>4. ASSUME NEW q \in Procs, Making(q)' PROVE Id(q)' \notin createJobs'
  BY <1>1, <1>2, <1>3, <1>4
<1>5. ASSUME NEW q \in Procs, q # p, Making(q)', Making(p)' PROVE Id(q)' # Id(p)'
  BY <1>1, <1>2, <1>5
<1>6. ASSUME NEW q \in Procs, NEW s \in Procs, Making(q)', Making(s)', Id(q)' = Id(s)'
      PROVE  q = s
  BY <1>1, <1>5, <1>6 DEF MakerInv
<1> QED
  BY <1>4, <1>6 DEF MakerInv

\* No creation is in two hands after a lock is taken, a container exits or the process restarts.
LEMMA RestMaker ==
    ASSUME TypeInv, MakerInv,
           \/ UNCHANGED vars \/ Restart
           \/ \E p \in Procs : Lock(p)
           \/ \E c \in Containers : ProcessExits(c)
    PROVE  MakerInv'
<1>1. CASE \E c \in Containers : ProcessExits(c)
  BY <1>1 DEF ProcessExits, MakerInv, Making, Op, Id
<1>2. CASE Restart
  BY <1>2 DEF Restart, MakerInv, Making
<1>3. ASSUME NEW p \in Procs, Lock(p) PROVE MakerInv'
  <2>1. UNCHANGED <<createJobs, call>> /\ pc[p] = "lock" /\ pc' = [pc EXCEPT ![p] = "check"]
    BY <1>3 DEF Lock, Goto
  <2>2. \A q \in Procs : (Making(q)' <=> Making(q)) /\ Id(q)' = Id(q)
    BY <2>1 DEF Making, Op, Id, TypeInv, TypeOK
  <2> QED
    BY <2>1, <2>2 DEF MakerInv
<1>4. CASE UNCHANGED vars
  BY <1>4 DEF vars, MakerInv, Making, Op, Id
<1> QED
  BY <1>1, <1>2, <1>3, <1>4

\* Nobody else is creating the container ...
LEMMA MakerAlone ==
    ASSUME TypeInv, MakerInv, NEW p \in Procs, Making(p)
    PROVE  /\ Id(p) \notin createJobs
           /\ \A q \in Procs : q # p /\ pc[q] # "idle" /\ Id(q) = Id(p)
                => ~Waits(q) /\ pc[q] # "link" /\ ~Created(q)
  BY DEF MakerInv, Making, Waits, Created, TypeInv, Shape, ShapeOf

\* ... or holds its lock.
LEMMA HolderAlone ==
    ASSUME TypeInv, SectionInv, NEW p \in Procs, InSection(p)
    PROVE  \A q \in Procs : q # p /\ pc[q] # "idle" /\ Id(q) = Id(p)
                => ~Started(q) /\ pc[q] # "exited" /\ ~Stopped(q) /\ pc[q] # "erase"
  BY DEF SectionInv, InSection, Started, Stopped, TypeInv, Shape, ShapeOf

\* A step on container c keeps what holds of the others.
LEMMA OneMoves ==
    ASSUME TypeInv, TiedInv, FitInv, faults = 0,
           NEW p \in Procs, NEW c \in Containers, Alone(p),
           pc[p] # "idle" => Id(p) = c,
           pc'[p] # "idle" => Id(p)' = c,
           \A d \in Containers : d # c => /\ row'[d] = row[d] /\ dock'[d] = dock[d]
                                          /\ d \in createJobs' => d \in createJobs,
           TiesTo(p, row[c], dock[c])',
           \A q \in Procs : q # p /\ pc[q] # "idle" /\ Id(q) = c => TiesTo(q, row'[c], dock'[c]),
           Fits(c, row[c], dock[c])'
    PROVE  TiedInv' /\ FitInv'
<1>1. \A q \in Procs : q # p => /\ Waits(q)' <=> Waits(q)
                                /\ Created(q)' <=> Created(q)
                                /\ Started(q)' <=> Started(q)
                                /\ Stopped(q)' <=> Stopped(q)
                                /\ pc'[q] = pc[q] /\ seen'[q] = seen[q] /\ Id(q)' = Id(q)
  BY DEF Alone, Waits, Created, Started, Stopped, Op, Id
<1>2. ASSUME NEW q \in Procs PROVE TiesTo(q, row[Id(q)], dock[Id(q)])'
  <2>1. CASE q = p
    <3>1. CASE pc'[p] = "idle"
      BY <2>1, <3>1 DEF TiesTo, Waits, Created, Started, Stopped
    <3>2. CASE pc'[p] # "idle"
      BY <2>1, <3>2
    <3> QED
      BY <3>1, <3>2
  <2>2. CASE q # p
    <3>1. TiesTo(q, row[Id(q)], dock[Id(q)])
      BY DEF TiedInv
    <3>2. CASE pc[q] = "idle"
      BY <1>1, <2>2, <3>1, <3>2 DEF TiesTo, Waits, Created, Started, Stopped
    <3>3. CASE pc[q] # "idle" /\ Id(q) = c
      <4>1. TiesTo(q, row'[c], dock'[c])
        BY <2>2, <3>3
      <4> QED
        BY <1>1, <2>2, <3>3, <4>1 DEF TiesTo
    <3>4. CASE pc[q] # "idle" /\ Id(q) # c
      <4>1. Id(q) \in Containers
        BY <3>4, CallFacts DEF TypeInv, Shape, ShapeOf, Id
      <4>2. row'[Id(q)] = row[Id(q)] /\ dock'[Id(q)] = dock[Id(q)]
        BY <3>4, <4>1
      <4> QED
        BY <1>1, <2>2, <3>1, <4>2 DEF TiesTo
    <3> QED
      BY <3>2, <3>3, <3>4
  <2> QED
    BY <2>1, <2>2
<1>3. ASSUME NEW d \in Containers PROVE Fits(d, row[d], dock[d])'
  <2>1. CASE d = c
    BY <2>1
  <2>2. CASE d # c
    <3>1. Fits(d, row[d], dock[d])
      BY DEF FitInv
    <3>2. row'[d] = row[d] /\ dock'[d] = dock[d] /\ (d \in createJobs' => d \in createJobs)
      BY <2>2
    <3>3. \A q \in Procs : Id(q) = d /\ pc[q] # "idle" => q # p
      BY <2>2
    <3>4. \A q \in Procs : Created(q) \/ Started(q) \/ pc[q] \in {"erase", "link"} => pc[q] # "idle"
      BY DEF Created, Started
    <3>5. /\ (\E q \in Procs : Created(q) /\ Id(q) = d) => \E q \in Procs : Created(q)' /\ Id(q)' = d
          /\ (\E q \in Procs : Started(q) /\ Id(q) = d) => \E q \in Procs : Started(q)' /\ Id(q)' = d
          /\ (\E q \in Procs : pc[q] = "erase" /\ Id(q) = d)
               => \E q \in Procs : pc'[q] = "erase" /\ Id(q)' = d
          /\ (\E q \in Procs : pc[q] = "link" /\ Id(q) = d)
               => \E q \in Procs : pc'[q] = "link" /\ Id(q)' = d
      BY <1>1, <3>3, <3>4
    <3>6. CASE row[d] # NoRow /\ ~row[d].linked
      BY <3>1, <3>2, <3>5, <3>6 DEF Fits, Linked, UnlinkedFits
    <3>7. CASE Linked(row[d])
      BY <3>1, <3>2, <3>5, <3>7 DEF Fits, Linked, LinkedFits, Placeheld
    <3>8. CASE row[d] = NoRow
      BY <3>1, <3>2, <3>8 DEF Fits, Linked, Placeheld
    <3> QED
      BY <3>6, <3>7, <3>8 DEF Linked
  <2> QED
    BY <2>1, <2>2
<1> QED
  BY <1>2, <1>3 DEF TiedInv, FitInv

\* A step that leaves the row and the container as they are.
LEMMA NothingMoves ==
    ASSUME TypeInv, TiedInv, FitInv, faults = 0,
           NEW p \in Procs, NEW c \in Containers, Alone(p),
           pc[p] # "idle" => Id(p) = c,
           pc'[p] # "idle" => Id(p)' = c,
           UNCHANGED <<row, dock>>, createJobs' \subseteq createJobs,
           ~Created(p), Started(p) => Started(p)', pc[p] \notin {"erase", "link"},
           TiesTo(p, row[c], dock[c])'
    PROVE  TiedInv' /\ FitInv'
<1>1. ASSUME NEW q \in Procs, q # p, pc[q] # "idle", Id(q) = c PROVE TiesTo(q, row'[c], dock'[c])
  BY <1>1 DEF TiedInv
<1>2. Fits(c, row[c], dock[c])'
  <2>1. Fits(c, row[c], dock[c])
    BY DEF FitInv
  <2>2. \A q \in Procs : q # p => /\ Created(q)' <=> Created(q)
                                  /\ Started(q)' <=> Started(q)
                                  /\ pc'[q] = pc[q] /\ Id(q)' = Id(q)
    BY DEF Alone, Created, Started, Op, Id
  <2>3. Started(p) /\ Id(p) = c => Started(p)' /\ Id(p)' = c
    BY DEF Started
  <2>4. /\ (\E q \in Procs : Created(q) /\ Id(q) = c) => \E q \in Procs : Created(q)' /\ Id(q)' = c
        /\ (\E q \in Procs : Started(q) /\ Id(q) = c) => \E q \in Procs : Started(q)' /\ Id(q)' = c
        /\ (\E q \in Procs : pc[q] = "erase" /\ Id(q) = c)
             => \E q \in Procs : pc'[q] = "erase" /\ Id(q)' = c
        /\ (\E q \in Procs : pc[q] = "link" /\ Id(q) = c)
             => \E q \in Procs : pc'[q] = "link" /\ Id(q)' = c
    BY <2>2, <2>3
  <2> QED
    BY <2>1, <2>4 DEF Fits, LinkedFits, UnlinkedFits
<1> QED
  BY <1>1, <1>2, OneMoves

-----------------------------------------------------------------------------
(* What the statements and calls do to one row and one container. *)

\* Only the row of c changes, to r.
RowTo(c, r) == row'[c] = r /\ \A d \in Containers : d # c => row'[d] = row[d]

\* Only the container of c changes.
DockTo(c, s) == dock'[c] = s /\ \A d \in Containers : d # c => dock'[d] = dock[d]

\* An UPDATE of the status of a row, or of no row.
LEMMA StatusSet ==
    ASSUME TypeInv, NEW p \in Procs, Id(p) \in Containers, NEW s \in Statuses, UpdateStatus(p, s)
    PROVE  \E r : /\ RowTo(Id(p), r)
                  /\ r = NoRow <=> row[Id(p)] = NoRow
                  /\ r # NoRow => r.status = s /\ r.linked = row[Id(p)].linked
<1>1. CASE row[Id(p)] = NoRow
  BY <1>1 DEF UpdateStatus, Present, RowTo
<1>2. CASE row[Id(p)] # NoRow
  <2>1. PICK r \in Rows : r = row[Id(p)]
    BY <1>2 DEF TypeInv, TypeOK
  <2>2. PICK x : x = [r EXCEPT !.status = s]
    OBVIOUS
  <2>3. x.status = s /\ x.linked = r.linked /\ x # NoRow
    BY <2>2 DEF Rows, NoRow
  <2>4. row' = [row EXCEPT ![Id(p)] = x]
    BY <1>2, <2>1, <2>2 DEF UpdateStatus, Present
  <2>5. RowTo(Id(p), x)
    BY <2>4 DEF RowTo, TypeInv, TypeOK
  <2> QED
    BY <1>2, <2>1, <2>3, <2>5
<1> QED
  BY <1>1, <1>2

\* An UPDATE of its visibility.
LEMMA VisibilitySet ==
    ASSUME TypeInv, NEW p \in Procs, Id(p) \in Containers, NEW v \in Visibilities,
           UpdateVisibility(p, v)
    PROVE  \E r : /\ RowTo(Id(p), r)
                  /\ r = NoRow <=> row[Id(p)] = NoRow
                  /\ r # NoRow => r.status = row[Id(p)].status /\ r.linked = row[Id(p)].linked
<1>1. CASE row[Id(p)] = NoRow
  BY <1>1 DEF UpdateVisibility, Present, RowTo
<1>2. CASE row[Id(p)] # NoRow
  <2>1. PICK r \in Rows : r = row[Id(p)]
    BY <1>2 DEF TypeInv, TypeOK
  <2>2. PICK x : x = [r EXCEPT !.visibility = v]
    OBVIOUS
  <2>3. x.status = r.status /\ x.linked = r.linked /\ x # NoRow
    BY <2>2 DEF Rows, NoRow
  <2>4. row' = [row EXCEPT ![Id(p)] = x]
    BY <1>2, <2>1, <2>2 DEF UpdateVisibility, Present
  <2>5. RowTo(Id(p), x)
    BY <2>4 DEF RowTo, TypeInv, TypeOK
  <2> QED
    BY <1>2, <2>1, <2>3, <2>5
<1> QED
  BY <1>1, <1>2

\* SetDockerID on a row that is there.
LEMMA LinkSet ==
    ASSUME TypeInv, NEW p \in Procs, Id(p) \in Containers, row[Id(p)] # NoRow, SetDockerID(p)
    PROVE  \E r : RowTo(Id(p), r) /\ r # NoRow /\ r.status = row[Id(p)].status /\ r.linked
<1>1. PICK r \in Rows : r = row[Id(p)]
  BY DEF TypeInv, TypeOK
<1>2. PICK x : x = [r EXCEPT !.linked = TRUE]
  OBVIOUS
<1>3. x.status = r.status /\ x.linked = TRUE /\ x # NoRow
  BY <1>2 DEF Rows, NoRow
<1>4. row' = [row EXCEPT ![Id(p)] = x]
  BY <1>1, <1>2 DEF SetDockerID, Present
<1>5. RowTo(Id(p), x)
  BY <1>4 DEF RowTo, TypeInv, TypeOK
<1> QED
  BY <1>1, <1>3, <1>5

\* What Docker does to a container.
LEMMA DockSet ==
    ASSUME TypeInv, NEW p \in Procs, Id(p) \in Containers, NEW s, DockerDoes(p, s)
    PROVE  DockTo(Id(p), s)
  BY DEF DockerDoes, DockTo, TypeInv, TypeOK

\* A step that does not fail: what it does, without the failures.
LEMMA StepCalm ==
    ASSUME TypeInv, NEW p \in Procs, Step(p), faults' = 0 PROVE faults = 0 /\ ~Fault
<1>1. ~Fault
  BY DEF Fault, TypeInv, TypeOK
<1>2. Fault \/ UNCHANGED faults
  BY DEF Step, RequestSave, RequestSubmit, CreateDocker, CreatePull, CreateRetry,
         DockerCreates, CreateMarkFailed, CreateLink, CreateUpdate, Check, StartDocker,
         StartInspect, StartUpdate, StopDocker, StopUpdate, DeleteDocker, DeleteErase,
         VisibilityUpdate, Attach, Return, DatabaseFails, DockerFails, NoFault
<1> QED
  BY <1>1, <1>2

\* The steps of the others stay what they are.
LEMMA OthersStay ==
    ASSUME NEW p \in Procs, Alone(p)
    PROVE  \A q \in Procs : q # p =>
              /\ Created(q)' <=> Created(q)
              /\ Started(q)' <=> Started(q)
              /\ pc'[q] = pc[q] /\ Id(q)' = Id(q)
  BY DEF Alone, Created, Started, Op, Id

\* A step of a call moves one row and one container.
LEMMA OneCalls ==
    ASSUME TypeInv, TiedInv, FitInv, faults = 0, NEW p \in Procs, Step(p),
           NEW c \in Containers, c = Id(p), NEW r, NEW s, RowTo(c, r), DockTo(c, s),
           createJobs' \subseteq createJobs \cup {c},
           TiesTo(p, r, s)',
           \A q \in Procs : q # p /\ pc[q] # "idle" /\ Id(q) = c
                               /\ TiesTo(q, row[c], dock[c]) => TiesTo(q, r, s),
           Fits(c, r, s)'
    PROVE  TiedInv' /\ FitInv'
<1>1. Alone(p) /\ pc[p] # "idle" /\ (pc'[p] # "idle" => call'[p] = call[p])
  BY StepAlone
<1>3. (pc[p] # "idle" => Id(p) = c) /\ (pc'[p] # "idle" => Id(p)' = c)
  BY <1>1 DEF Id
<1>4. \A d \in Containers : d # c => /\ row'[d] = row[d] /\ dock'[d] = dock[d]
                                     /\ d \in createJobs' => d \in createJobs
  BY DEF RowTo, DockTo
<1>5. row'[c] = r /\ dock'[c] = s
  BY DEF RowTo, DockTo
<1>6. TiesTo(p, row[c], dock[c])'
  BY <1>5 DEF TiesTo
<1>7. Fits(c, row[c], dock[c])'
  BY <1>5 DEF Fits, Linked, LinkedFits, UnlinkedFits, Placeheld
<1>8. ASSUME NEW q \in Procs, q # p, pc[q] # "idle", Id(q) = c PROVE TiesTo(q, row'[c], dock'[c])
  <2>1. TiesTo(q, row[c], dock[c])
    BY <1>8 DEF TiedInv
  <2> QED
    BY <1>5, <1>8, <2>1
<1> QED
  BY <1>1, <1>3, <1>4, <1>6, <1>7, <1>8, OneMoves

\* The steps of the request that saves the row and of the call that creates the
\* container.
LEMMA MakerSettles ==
    ASSUME TypeInv, CreateInv, MakerInv, TiedInv, FitInv, faults = 0, faults' = 0,
           NEW p \in Procs, Step(p),
           \/ RequestSave(p) \/ RequestSubmit(p)
           \/ CreateDocker(p) \/ CreatePull(p) \/ CreateRetry(p)
           \/ CreateMarkFailed(p) \/ CreateLink(p) \/ CreateUpdate(p)
    PROVE  TiedInv' /\ FitInv'
<1>0. /\ ~Fault /\ Alone(p) /\ pc[p] # "idle" /\ ShapeOf(p)
      /\ pc'[p] # "idle" => call'[p] = call[p]
  BY StepCalm, StepAlone DEF TypeInv, Shape
<1>1. PICK c \in Containers : c = Id(p)
  BY <1>0, CallFacts DEF ShapeOf, Id
<1>2. pc'[p] # "idle" => Id(p)' = c /\ Op(p)' = Op(p)
  BY <1>0, <1>1 DEF Id, Op
<1>3. TiesTo(p, row[c], dock[c]) /\ Fits(c, row[c], dock[c])
  BY <1>1 DEF TiedInv, FitInv
<1>4. pc[p] \in PCs /\ pc \in [Procs -> PCs] /\ seen \in [Procs -> BOOLEAN]
  BY DEF TypeInv, TypeOK
<1>5. \A q \in Procs : q # p => /\ Created(q)' <=> Created(q)
                                /\ Started(q)' <=> Started(q)
                                /\ pc'[q] = pc[q] /\ Id(q)' = Id(q)
  BY <1>0, OthersStay
<1>6. Making(p)
  BY <1>0 DEF Making, ShapeOf, RequestSave, RequestSubmit, CreateDocker, CreatePull, CreateRetry,
        DockerCreates, CreateMarkFailed, CreateLink, CreateUpdate, Goto, Ends, DatabaseFails
<1>7. /\ c \notin createJobs
      /\ \A q \in Procs : q # p /\ pc[q] # "idle" /\ Id(q) = c
           => ~Waits(q) /\ pc[q] # "link" /\ ~Created(q)
  BY <1>1, <1>6, MakerAlone
<1>8. ASSUME UNCHANGED <<row, dock, createJobs>>, ~Created(p), pc[p] # "link",
             TiesTo(p, row[c], dock[c])'
      PROVE  TiedInv' /\ FitInv'
  <2>1. ~Started(p) /\ pc[p] # "erase"
    BY <1>0, <1>6 DEF Started, ShapeOf, Making
  <2> QED
    BY <1>0, <1>1, <1>2, <1>8, <2>1, NothingMoves
<1>9. CASE RequestSave(p)
  <2>1. CASE pc'[p] = "return" /\ UNCHANGED <<row, seen>>
    <3>1. TiesTo(p, row[c], dock[c])'
      BY <1>3, <1>9, <2>1 DEF TiesTo, Waits, Created, Started, Stopped, RequestSave, Ends
    <3>2. UNCHANGED <<dock, createJobs>>
      BY <1>9 DEF RequestSave
    <3>3. pc[p] = "save"
      BY <1>9 DEF RequestSave, DatabaseFails, Ends, Goto
    <3> QED
      BY <1>8, <2>1, <3>1, <3>2, <3>3 DEF Created
  <2>2. CASE ~(pc'[p] = "return" /\ UNCHANGED <<row, seen>>)
    <3>1. PICK v \in Requested :
            /\ v # "invalid" /\ Goto(p, "save", "submit")
            /\ row' = [row EXCEPT ![Id(p)] = Placeholder(call[p].owner, v)]
            /\ UNCHANGED <<createJobs, dock, seen>>
      <4>1. UNCHANGED <<createJobs, dock, seen>>
        BY <1>9 DEF RequestSave
      <4>2. ~(Ends(p, "save", "error") /\ UNCHANGED row)
        BY <1>4, <2>2, <4>1 DEF Ends, Goto
      <4> QED
        BY <1>0, <1>9, <4>1, <4>2 DEF RequestSave, SaveRow, DatabaseFails, Placeholder
    <3>2. PICK r : r = Placeholder(call[p].owner, v)
      OBVIOUS
    <3>3. Placeheld(r)
      BY <3>2 DEF Placeheld, Placeholder, NoRow
    <3>4. dock[c] = "none" /\ row[c] = NoRow
      BY <1>0, <1>1, <3>1 DEF CreateInv, EarlyInv, Early, ShapeOf, Goto
    <3>5. RowTo(c, r) /\ DockTo(c, "none")
      BY <1>1, <3>1, <3>2, <3>4 DEF RowTo, DockTo, TypeInv, TypeOK
    <3>6. pc'[p] = "submit" /\ Op(p)' = "request" /\ seen'[p] = FALSE
      BY <1>0, <1>2, <1>3, <1>4, <3>1, <3>4 DEF Goto, ShapeOf, TiesTo
    <3>7. TiesTo(p, r, "none")'
      BY <3>3, <3>6 DEF TiesTo, Waits, Created, Started, Stopped
    <3>8. \A q \in Procs : TiesTo(q, row[c], dock[c]) => TiesTo(q, r, "none")
      BY <3>3, <3>4 DEF TiesTo, Placeheld, Linked
    <3>9. Fits(c, r, "none")'
      BY <3>3 DEF Fits, UnlinkedFits, Placeheld, Linked
    <3> QED
      BY <1>1, <3>1, <3>5, <3>7, <3>8, <3>9, OneCalls
  <2> QED
    BY <2>1, <2>2
<1>10. CASE RequestSubmit(p)
  <2>1. /\ UNCHANGED <<row, dock, seen>> /\ createJobs' \subseteq createJobs \cup {c}
        /\ pc[p] = "submit" /\ pc'[p] = "return"
    BY <1>1, <1>4, <1>10 DEF RequestSubmit, Ends, Goto
  <2>2. PICK r : r = row[c]
    OBVIOUS
  <2>3. Placeheld(r) /\ dock[c] = "none"
    BY <1>3, <2>1, <2>2 DEF TiesTo, Waits
  <2>4. RowTo(c, r) /\ DockTo(c, "none")
    BY <2>1, <2>2, <2>3 DEF RowTo, DockTo
  <2>5. TiesTo(p, r, "none")'
    BY <1>3, <2>1, <2>2, <2>3 DEF TiesTo, Waits, Created, Started, Stopped
  <2>6. Fits(c, r, "none")'
    BY <2>3 DEF Fits, UnlinkedFits, Placeheld, Linked
  <2> QED
    BY <1>1, <2>1, <2>2, <2>3, <2>4, <2>5, <2>6, OneCalls
<1>11. ASSUME Op(p) = "create", pc[p] \in {"docker", "retry"}, pc'[p] = "link",
              DockerDoes(p, "created"), UNCHANGED <<row, createJobs, seen>>
       PROVE  TiedInv' /\ FitInv'
  <2>1. PICK r : r = row[c]
    OBVIOUS
  <2>2. Placeheld(r) /\ dock[c] = "none" /\ ~seen'[p]
    BY <1>3, <1>11, <2>1 DEF TiesTo, Waits
  <2>3. RowTo(c, r) /\ DockTo(c, "created")
    BY <1>1, <1>11, <2>1, DockSet DEF RowTo
  <2>4. TiesTo(p, r, "created")'
    BY <1>2, <1>11, <2>2 DEF TiesTo, Waits, Created, Started, Stopped
  <2>5. \A q \in Procs : q # p /\ pc[q] # "idle" /\ Id(q) = c /\ TiesTo(q, row[c], dock[c])
          => TiesTo(q, r, "created")
    BY <1>7, <2>1, <2>2 DEF TiesTo, Placeheld, Linked
  <2>6. pc'[p] = "link" /\ Id(p)' = c
    BY <1>2, <1>11
  <2>7. Fits(c, r, "created")'
    BY <2>2, <2>6 DEF Fits, UnlinkedFits, Placeheld, Linked
  <2> QED
    BY <1>1, <1>11, <2>3, <2>4, <2>5, <2>7, OneCalls
<1>12. ASSUME Op(p) = "create", pc[p] \in {"docker", "retry", "pull"},
              pc'[p] \in {"pull", "retry", "markFailed"},
              UNCHANGED <<row, dock, createJobs, seen>>
       PROVE  TiedInv' /\ FitInv'
  <2>1. TiesTo(p, row[c], dock[c])'
    BY <1>2, <1>3, <1>12 DEF TiesTo, Waits, Created, Started, Stopped
  <2> QED
    BY <1>8, <1>12, <2>1 DEF Created
<1>13. CASE CreateDocker(p)
  BY <1>0, <1>4, <1>11, <1>12, <1>13 DEF CreateDocker, DockerCreates, Goto
<1>14. CASE CreatePull(p)
  BY <1>0, <1>4, <1>12, <1>14 DEF CreatePull, Goto, ShapeOf
<1>15. CASE CreateRetry(p)
  BY <1>0, <1>4, <1>11, <1>12, <1>15 DEF CreateRetry, DockerCreates, Goto, ShapeOf
<1>16. CASE CreateMarkFailed(p)
  <2>1. /\ UpdateStatus(p, "failed") /\ UNCHANGED <<dock, createJobs, seen>>
        /\ pc[p] = "markFailed" /\ pc'[p] = "return" /\ Op(p) = "create"
    BY <1>0, <1>4, <1>16 DEF CreateMarkFailed, DatabaseFails, Ends, Goto, ShapeOf
  <2>2. PICK r : /\ RowTo(c, r)
                 /\ r = NoRow <=> row[c] = NoRow
                 /\ r # NoRow => r.status = "failed" /\ r.linked = row[c].linked
    BY <1>1, <2>1, StatusSet
  <2>3. Placeheld(row[c]) /\ dock[c] = "none" /\ ~seen'[p]
    BY <1>3, <2>1 DEF TiesTo, Waits
  <2>4. DockTo(c, "none") /\ r # NoRow /\ r.status = "failed" /\ ~r.linked
    BY <2>1, <2>2, <2>3 DEF DockTo, Placeheld
  <2>5. TiesTo(p, r, "none")'
    BY <2>1, <2>3 DEF TiesTo, Waits, Created, Started, Stopped
  <2>6. \A q \in Procs : q # p /\ pc[q] # "idle" /\ Id(q) = c /\ TiesTo(q, row[c], dock[c])
          => TiesTo(q, r, "none")
    BY <1>7, <2>3 DEF TiesTo, Placeheld, Linked
  <2>7. Fits(c, r, "none")'
    BY <1>7, <2>1, <2>4 DEF Fits, UnlinkedFits, Linked
  <2> QED
    BY <1>1, <2>1, <2>2, <2>4, <2>5, <2>6, <2>7, OneCalls
<1>17. CASE CreateLink(p)
  <2>1. /\ SetDockerID(p) /\ UNCHANGED <<dock, createJobs, seen>>
        /\ pc[p] = "link" /\ pc'[p] = "update" /\ Op(p) = "create"
    BY <1>0, <1>4, <1>17 DEF CreateLink, DatabaseFails, Ends, Goto, ShapeOf
  <2>2. Placeheld(row[c]) /\ dock[c] = "created"
    BY <1>3, <2>1 DEF TiesTo
  <2>3. PICK r : RowTo(c, r) /\ r # NoRow /\ r.status = "pending" /\ r.linked
    BY <1>1, <2>1, <2>2, LinkSet DEF Placeheld
  <2>4. DockTo(c, "created") /\ Created(p)' /\ Id(p)' = c
    BY <1>2, <2>1, <2>2 DEF DockTo, Created
  <2>5. TiesTo(p, r, "created")'
    BY <1>2, <2>1, <2>3 DEF TiesTo, Waits, Created, Started, Stopped
  <2>6. \A q \in Procs : q # p /\ pc[q] # "idle" /\ Id(q) = c /\ TiesTo(q, row[c], dock[c])
          => TiesTo(q, r, "created")
    BY <1>7, <2>2, <2>3 DEF TiesTo, Placeheld, Linked
  <2>7. Fits(c, r, "created")'
    BY <1>7, <2>1, <2>3, <2>4 DEF Fits, LinkedFits, Linked
  <2> QED
    BY <1>1, <2>1, <2>3, <2>4, <2>5, <2>6, <2>7, OneCalls
<1>18. CASE CreateUpdate(p)
  <2>1. /\ UpdateStatus(p, "created") /\ UNCHANGED <<dock, createJobs, seen>>
        /\ pc[p] = "update" /\ pc'[p] = "return" /\ Op(p) = "create"
    BY <1>0, <1>4, <1>18 DEF CreateUpdate, DatabaseFails, Ends, Goto
  <2>2. PICK r : /\ RowTo(c, r)
                 /\ r = NoRow <=> row[c] = NoRow
                 /\ r # NoRow => r.status = "created" /\ r.linked = row[c].linked
    BY <1>1, <2>1, StatusSet
  <2>3. PICK s : s = dock[c]
    OBVIOUS
  <2>4. s # "none" /\ (row[c] # NoRow => row[c].linked) /\ DockTo(c, s)
    BY <1>3, <2>1, <2>3 DEF TiesTo, Created, DockTo
  <2>5. TiesTo(p, r, s)'
    BY <1>3, <2>1, <2>2, <2>4 DEF TiesTo, Waits, Created, Started, Stopped
  <2>6. \A q \in Procs : q # p /\ pc[q] # "idle" /\ Id(q) = c /\ TiesTo(q, row[c], dock[c])
          => TiesTo(q, r, s)
    BY <1>7, <2>2, <2>3, <2>4 DEF TiesTo, Placeheld, Linked
  <2>7. Fits(c, r, s)'
    <3>1. s = "gone" /\ row[c] # NoRow => \E q \in Procs : pc'[q] = "erase" /\ Id(q)' = c
      BY <1>3, <1>5, <2>1, <2>3, <2>4 DEF Fits, LinkedFits, Linked
    <3> QED
      BY <1>7, <2>1, <2>2, <2>4, <3>1 DEF Fits, LinkedFits, Linked
  <2> QED
    BY <1>1, <2>1, <2>2, <2>4, <2>5, <2>6, <2>7, OneCalls
<1> QED
  BY <1>9, <1>10, <1>13, <1>14, <1>15, <1>16, <1>17, <1>18

\* The steps of start, stop, delete and set-visibility behind their check.
LEMMA HolderSettles ==
    ASSUME TypeInv, CreateInv, SectionInv, TiedInv, FitInv, faults = 0, faults' = 0,
           NEW p \in Procs, Step(p),
           \/ StartDocker(p) \/ StartInspect(p) \/ StartUpdate(p)
           \/ StopDocker(p) \/ StopUpdate(p)
           \/ DeleteDocker(p) \/ DeleteErase(p)
           \/ VisibilityUpdate(p)
    PROVE  TiedInv' /\ FitInv'
<1>0. /\ ~Fault /\ Alone(p) /\ pc[p] # "idle" /\ ShapeOf(p)
      /\ pc'[p] # "idle" => call'[p] = call[p]
  BY StepCalm, StepAlone DEF TypeInv, Shape
<1>1. PICK c \in Containers : c = Id(p)
  BY <1>0, CallFacts DEF ShapeOf, Id
<1>2. pc'[p] # "idle" => Id(p)' = c /\ Op(p)' = Op(p)
  BY <1>0, <1>1 DEF Id, Op
<1>3. TiesTo(p, row[c], dock[c]) /\ Fits(c, row[c], dock[c])
  BY <1>1 DEF TiedInv, FitInv
<1>4. pc[p] \in PCs /\ pc \in [Procs -> PCs] /\ seen \in [Procs -> BOOLEAN]
  BY DEF TypeInv, TypeOK
<1>5. \A q \in Procs : q # p => /\ Created(q)' <=> Created(q)
                                /\ Started(q)' <=> Started(q)
                                /\ pc'[q] = pc[q] /\ Id(q)' = Id(q)
  BY <1>0, OthersStay
<1>6. Op(p) \in Locked /\ pc[p] # "lock"
  BY <1>0, <1>4 DEF ShapeOf, StartDocker, StartInspect, StartUpdate, StopDocker, StopUpdate,
        DeleteDocker, DeleteErase, VisibilityUpdate, Goto, Ends, DatabaseFails
<1>7. \A q \in Procs : q # p /\ pc[q] # "idle" /\ Id(q) = c
        => ~Started(q) /\ pc[q] # "exited" /\ ~Stopped(q) /\ pc[q] # "erase"
  BY <1>1, <1>6, HolderAlone DEF InSection
<1>8. ~Created(p) /\ pc[p] # "link" /\ ~Waits(p) /\ ~Created(p)' /\ ~Waits(p)'
  <2>1. pc[p] # "link" /\ pc[p] # "submit" /\ pc'[p] # "submit"
    BY <1>0, <1>6, StepFacts DEF ShapeOf, CallEffect
  <2>2. Op(p)' # "create" \/ pc'[p] = "idle"
    BY <1>2, <1>6
  <2> QED
    BY <1>6, <2>1, <2>2 DEF Created, Waits
<1>9. /\ (\E q \in Procs : Created(q) /\ Id(q) = c) => \E q \in Procs : Created(q)' /\ Id(q)' = c
      /\ (\E q \in Procs : pc[q] = "link" /\ Id(q) = c)
           => \E q \in Procs : pc'[q] = "link" /\ Id(q)' = c
  BY <1>5, <1>8
<1>10. ASSUME UNCHANGED <<row, dock, createJobs, seen>>, pc'[p] = "return",
              ~Started(p), pc[p] # "erase"
       PROVE  TiedInv' /\ FitInv'
  <2>1. TiesTo(p, row[c], dock[c])'
    BY <1>3, <1>8, <1>10 DEF TiesTo, Started, Stopped
  <2> QED
    BY <1>0, <1>1, <1>2, <1>8, <1>10, <2>1, NothingMoves
\* A call to Docker that does what it is asked to.
<1>11. ASSUME Exists(p), NEW s \in Live \cup {"gone"}, DockerDoes(p, s), pc[p] = "docker",
              UNCHANGED <<row, createJobs, seen>>,
              \/ Op(p) = "start" /\ s = "running" /\ pc'[p] = "inspect"
              \/ Op(p) = "stop" /\ s = Halted(dock[c]) /\ pc'[p] = "update"
              \/ Op(p) = "delete" /\ s = "gone" /\ pc'[p] = "erase"
       PROVE  TiedInv' /\ FitInv'
  <2>1. PICK r : r = row[c]
    OBVIOUS
  <2>2. dock[c] \in Live /\ seen[p]
    BY <1>1, <1>11 DEF Exists
  <2>3. r # NoRow /\ r.linked /\ Linked(r)
    BY <1>3, <2>1, <2>2 DEF CreateInv, LiveContainerHasRow, Present, TiesTo, Linked
  <2>4. RowTo(c, r) /\ DockTo(c, s)
    BY <1>1, <1>11, <2>1, DockSet DEF RowTo
  <2>5. /\ Op(p) = "start" => Started(p)' /\ s = "running"
        /\ Op(p) = "stop" => Stopped(p)' /\ s \in {"created", "exited"}
        /\ Op(p) = "delete" => s = "gone"
    BY <1>2, <1>11, <2>2 DEF Started, Stopped, Halted
  <2>6. TiesTo(p, r, s)'
    BY <1>2, <1>6, <1>8, <1>11, <2>3, <2>5 DEF TiesTo, Started, Stopped
  <2>7. \A q \in Procs : q # p /\ pc[q] # "idle" /\ Id(q) = c /\ TiesTo(q, row[c], dock[c])
          => TiesTo(q, r, s)
    BY <1>7, <1>11, <2>1, <2>3 DEF TiesTo, Placeheld
  <2>8. LinkedFits(c, r, s)'
    <3>1. LinkedFits(c, r, dock[c])
      BY <1>3, <2>1, <2>3 DEF Fits
    <3>2. ~(\E q \in Procs : Started(q) /\ Id(q) = c)
      BY <1>7, <1>11 DEF Started
    <3>3. CASE Op(p) = "start"
      BY <1>2, <1>9, <1>11, <2>5, <3>1, <3>3 DEF LinkedFits
    <3>4. CASE Op(p) = "stop"
      BY <1>9, <1>11, <2>2, <2>5, <3>1, <3>2, <3>4 DEF LinkedFits, Halted
    <3>5. CASE Op(p) = "delete"
      BY <1>2, <1>9, <1>11, <2>5, <3>1, <3>5 DEF LinkedFits
    <3> QED
      BY <1>11, <3>3, <3>4, <3>5
  <2>9. Fits(c, r, s)'
    BY <1>3, <1>11, <2>1, <2>3, <2>8 DEF Fits, Placeheld
  <2> QED
    BY <1>1, <1>11, <2>4, <2>6, <2>7, <2>9, OneCalls
\* The write of the status that a start or a stop has come to.
<1>12. ASSUME NEW t \in {"running", "exited", "stopped"}, UpdateStatus(p, t),
              UNCHANGED <<dock, createJobs, seen>>, pc'[p] = "return", pc[p] # "erase",
              t = "running" => Started(p),
              t = "exited" => Started(p) /\ pc[p] = "exited",
              t = "stopped" => Stopped(p)
       PROVE  TiedInv' /\ FitInv'
  <2>1. PICK r : /\ RowTo(c, r)
                 /\ r = NoRow <=> row[c] = NoRow
                 /\ r # NoRow => r.status = t /\ r.linked = row[c].linked
    BY <1>1, <1>12, StatusSet
  <2>2. PICK s : s = dock[c]
    OBVIOUS
  <2>3. /\ Linked(row[c]) /\ DockTo(c, s) /\ r # NoRow /\ r.status = t /\ r.linked
        /\ t = "running" => s \in {"running", "exited"}
        /\ t = "exited" => s = "exited"
        /\ t = "stopped" => s \in {"created", "exited"}
    BY <1>3, <1>12, <2>1, <2>2 DEF TiesTo, DockTo, Linked
  <2>4. TiesTo(p, r, s)'
    BY <1>3, <1>8, <1>12, <2>2, <2>3 DEF TiesTo, Started, Stopped
  <2>5. \A q \in Procs : q # p /\ pc[q] # "idle" /\ Id(q) = c /\ TiesTo(q, row[c], dock[c])
          => TiesTo(q, r, s)
    BY <1>7, <2>2, <2>3 DEF TiesTo, Placeheld, Linked
  <2>6. Fits(c, r, s)'
    BY <1>3, <1>12, <2>3 DEF Fits, LinkedFits, Placeheld, Linked
  <2> QED
    BY <1>1, <1>12, <2>1, <2>3, <2>4, <2>5, <2>6, OneCalls
<1>13. CASE StartDocker(p)
  BY <1>0, <1>1, <1>4, <1>10, <1>11, <1>13 DEF StartDocker, DockerFails, Goto, Ends, Started
<1>14. CASE StartInspect(p)
  <2>1. /\ UNCHANGED <<row, dock, createJobs, seen>> /\ Op(p) = "start" /\ pc[p] = "inspect"
        /\ \/ pc'[p] = "update"
           \/ pc'[p] = "exited" /\ dock[c] # "running"
    BY <1>0, <1>1, <1>4, <1>14 DEF StartInspect, Goto, ShapeOf
  <2>2. Started(p) /\ Started(p)'
    BY <1>2, <2>1 DEF Started
  <2>3. TiesTo(p, row[c], dock[c])'
    BY <1>2, <1>3, <1>8, <2>1, <2>2 DEF TiesTo, Stopped
  <2> QED
    BY <1>0, <1>1, <1>2, <1>8, <2>1, <2>2, <2>3, NothingMoves
<1>15. CASE StartUpdate(p)
  BY <1>0, <1>4, <1>12, <1>15 DEF StartUpdate, DatabaseFails, Goto, Ends, Started
<1>16. CASE StopDocker(p)
  BY <1>0, <1>1, <1>4, <1>10, <1>11, <1>16 DEF StopDocker, DockerFails, Exists, Halted,
       Goto, Ends, Started
<1>17. CASE StopUpdate(p)
  BY <1>0, <1>4, <1>12, <1>17 DEF StopUpdate, DatabaseFails, Goto, Ends, Stopped
<1>18. CASE DeleteDocker(p)
  BY <1>0, <1>1, <1>4, <1>10, <1>11, <1>18 DEF DeleteDocker, DockerFails, Goto, Ends, Started
<1>19. CASE DeleteErase(p)
  <2>1. /\ DeleteRow(p) /\ UNCHANGED <<dock, createJobs, seen>>
        /\ pc[p] = "erase" /\ pc'[p] = "return" /\ Op(p) = "delete"
    BY <1>0, <1>4, <1>19 DEF DeleteErase, DatabaseFails, Goto, Ends, ShapeOf
  <2>2. PICK s : s = dock[c]
    OBVIOUS
  <2>3. Linked(row[c]) /\ RowTo(c, NoRow) /\ DockTo(c, s)
    BY <1>1, <1>3, <2>1, <2>2 DEF TiesTo, RowTo, DockTo, DeleteRow, TypeInv, TypeOK
  <2>4. TiesTo(p, NoRow, s)'
    BY <1>3, <1>8, <2>1, <2>2 DEF TiesTo, Started, Stopped
  <2>5. \A q \in Procs : q # p /\ pc[q] # "idle" /\ Id(q) = c /\ TiesTo(q, row[c], dock[c])
          => TiesTo(q, NoRow, s)
    BY <1>7, <2>2, <2>3 DEF TiesTo, Placeheld, Linked
  <2>6. Fits(c, NoRow, s)'
    BY <1>3, <2>1, <2>3 DEF Fits, Placeheld, Linked
  <2> QED
    BY <1>1, <2>1, <2>3, <2>4, <2>5, <2>6, OneCalls
<1>20. CASE VisibilityUpdate(p)
  <2>1. PICK v \in Visibilities :
           /\ UpdateVisibility(p, v) /\ UNCHANGED <<dock, createJobs, seen>>
           /\ pc[p] = "update" /\ pc'[p] = "return" /\ Op(p) = "visibility"
    BY <1>0, <1>4, <1>20 DEF VisibilityUpdate, DatabaseFails, Goto, Ends
  <2>2. PICK r : /\ RowTo(c, r)
                 /\ r = NoRow <=> row[c] = NoRow
                 /\ r # NoRow => r.status = row[c].status /\ r.linked = row[c].linked
    BY <1>1, <2>1, VisibilitySet
  <2>3. PICK s : s = dock[c]
    OBVIOUS
  <2>4. DockTo(c, s)
    BY <2>1, <2>3 DEF DockTo
  <2>5. TiesTo(p, r, s)'
    BY <1>3, <1>8, <2>1, <2>2, <2>3 DEF TiesTo, Started, Stopped
  <2>6. \A q \in Procs : q # p /\ pc[q] # "idle" /\ Id(q) = c /\ TiesTo(q, row[c], dock[c])
          => TiesTo(q, r, s)
    BY <2>2, <2>3 DEF TiesTo, Placeheld, Linked
  <2>7. Fits(c, r, s)'
    <3>1. ~(\E q \in Procs : Started(q) /\ Id(q) = c) /\ ~(\E q \in Procs : pc[q] = "erase" /\ Id(q) = c)
      BY <1>7, <2>1 DEF Started
    <3> QED
      BY <1>3, <1>9, <2>1, <2>2, <2>3, <3>1 DEF Fits, LinkedFits, UnlinkedFits, Placeheld, Linked
  <2> QED
    BY <1>1, <2>1, <2>2, <2>4, <2>5, <2>6, <2>7, OneCalls
<1> QED
  BY <1>13, <1>14, <1>15, <1>16, <1>17, <1>18, <1>19, <1>20

\* The check of a call, an attached session and the return.
LEMMA PassingSettles ==
    ASSUME TypeInv, TiedInv, FitInv, faults = 0, faults' = 0, NEW p \in Procs, Step(p),
           Check(p) \/ Attach(p) \/ Return(p)
    PROVE  TiedInv' /\ FitInv'
<1>0. /\ ~Fault /\ Alone(p) /\ pc[p] # "idle" /\ ShapeOf(p) /\ CallEffect(p)
      /\ pc'[p] # "idle" => call'[p] = call[p]
  BY StepCalm, StepAlone, StepFacts DEF TypeInv, Shape
<1>1. PICK c \in Containers : c = Id(p)
  BY <1>0, CallFacts DEF ShapeOf, Id
<1>2. /\ pc'[p] # "idle" => Id(p)' = c /\ Op(p)' = Op(p)
      /\ UNCHANGED <<row, dock, createJobs>> /\ pc[p] \in {"check", "attach", "return"}
  BY <1>0, <1>1 DEF Id, Op, Check, Attach, Return, Goto, Ends
<1>3. TiesTo(p, row[c], dock[c]) /\ Fits(c, row[c], dock[c])
  BY <1>1 DEF TiedInv, FitInv
<1>4. pc \in [Procs -> PCs] /\ seen \in [Procs -> BOOLEAN] /\ row[c] \in Rows \cup {NoRow}
  BY DEF TypeInv, TypeOK
<1>5. ~Created(p) /\ ~Started(p) /\ ~Waits(p)
  BY <1>2 DEF Created, Started, Waits
<1>6. ~Created(p)' /\ ~Started(p)' /\ ~Stopped(p)' /\ ~Waits(p)' /\ pc'[p] \notin {"link", "exited", "erase"}
  <2>1. CASE pc'[p] \in {"idle", "return"}
    BY <2>1 DEF Created, Started, Stopped, Waits
  <2>2. CASE pc'[p] \notin {"idle", "return"}
    <3>1. Check(p) /\ Goto(p, "check", AfterCheck(Op(p)))
      BY <1>0, <1>4, <2>2 DEF Check, Attach, Return, Goto, Ends
    <3>2. Op(p) \in Control \cup {"stream"}
      BY <1>0, <3>1 DEF Goto, ShapeOf
    <3>3. \/ Op(p) \in {"start", "stop", "delete"} /\ pc'[p] = "docker"
          \/ Op(p) = "visibility" /\ pc'[p] = "update"
          \/ Op(p) \in {"exec", "stream"} /\ pc'[p] = "attach"
      BY <1>4, <3>1, <3>2 DEF AfterCheck, Goto
    <3> QED
      BY <1>2, <3>3 DEF Created, Started, Stopped, Waits
  <2> QED
    BY <2>1, <2>2
<1>7. seen'[p] => /\ pc'[p] # "idle" /\ dock[c] # "none"
                  /\ row[c] # NoRow => row[c].linked
  <2>1. CASE UNCHANGED seen /\ pc'[p] # "idle"
    BY <1>3, <2>1 DEF TiesTo
  <2>2. CASE seen' = [seen EXCEPT ![p] = FALSE]
    BY <1>4, <2>2
  <2>3. CASE seen' = [seen EXCEPT ![p] = row[c].linked] /\ pc'[p] # "idle" /\ row[c] # NoRow
    BY <1>3, <1>4, <2>3 DEF Fits, Linked, LinkedFits
  <2>4. CASE Check(p)
    <3>1. pc'[p] # "idle"
      BY <1>0, <2>4 DEF Check, CallEffect
    <3> QED
      BY <1>1, <2>1, <2>3, <2>4, <3>1 DEF Check, Present
  <2>5. CASE Attach(p)
    BY <1>0, <2>1, <2>5 DEF Attach, Ends, Goto, CallEffect
  <2>6. CASE Return(p)
    BY <2>2, <2>6 DEF Return
  <2> QED
    BY <2>4, <2>5, <2>6
<1>8. TiesTo(p, row[c], dock[c])'
  BY <1>2, <1>6, <1>7 DEF TiesTo
<1> QED
  BY <1>0, <1>1, <1>2, <1>5, <1>8, NothingMoves

\* Every step of a goroutine ...
LEMMA StepSettles ==
    ASSUME TypeInv, CreateInv, SectionInv, SettledInv, NEW p \in Procs, Step(p)
    PROVE  SettledInv'
<1>1. MakerInv'
  BY StepMaker DEF SettledInv
<1>2. CASE faults' = 0
  <2>1. faults = 0
    BY <1>2, StepCalm
  <2> QED
    BY <1>1, <1>2, <2>1, MakerSettles, HolderSettles, PassingSettles DEF SettledInv, Step
<1>3. CASE faults' # 0
  BY <1>1, <1>3 DEF SettledInv, TiedInv, FitInv
<1> QED
  BY <1>2, <1>3

\* ... every call that begins ...
LEMMA StartSettles ==
    ASSUME TypeInv, CreateInv, SettledInv, NEW p \in Procs, NEW c \in Containers, Starts(p, c),
           UNCHANGED <<seen, faults>>
    PROVE  SettledInv'
<1>1. MakerInv'
  BY StartMaker DEF SettledInv
<1>2. CASE faults = 0
  <2>1. /\ Alone(p) /\ pc[p] = "idle" /\ Id(p)' = c /\ Op(p)' # "none"
        /\ UNCHANGED <<row, dock>> /\ createJobs' \subseteq createJobs
        /\ pc'[p] \in {"lock", "check", "save", "docker"}
        /\ Op(p)' = "create" => c \in createJobs
    BY CallFacts DEF Starts, Alone, Id, Op
  <2>2. ~Created(p) /\ ~Started(p)
    BY <2>1 DEF Created, Started
  <2>3. ~seen[p]
    BY <1>2, <2>1 DEF SettledInv, TiedInv, TiesTo
  <2>4. Op(p)' = "create" => Placeheld(row[c]) /\ dock[c] = "none"
    BY <1>2, <2>1 DEF SettledInv, FitInv, Fits, CreateInv, QueuedInv
  <2>5. TiesTo(p, row[c], dock[c])'
    BY <2>1, <2>3, <2>4 DEF TiesTo, Waits, Created, Started, Stopped, Placeheld
  <2> QED
    BY <1>1, <1>2, <2>1, <2>2, <2>5, NothingMoves DEF SettledInv
<1>3. CASE faults # 0
  BY <1>1, <1>3 DEF SettledInv, TiedInv, FitInv
<1> QED
  BY <1>2, <1>3

\* ... and the rest keep what is settled.
LEMMA RestSettles ==
    ASSUME TypeInv, SettledInv,
           \/ UNCHANGED vars \/ Restart
           \/ \E p \in Procs : Lock(p)
           \/ \E c \in Containers : ProcessExits(c)
    PROVE  SettledInv'
<1>1. MakerInv'
  BY RestMaker DEF SettledInv
<1>2. CASE faults' # 0
  BY <1>1, <1>2 DEF SettledInv, TiedInv, FitInv
<1>3. CASE Restart
  BY <1>2, <1>3 DEF Restart, Fault, TypeInv, TypeOK
<1>4. ASSUME faults' = 0, NEW p \in Procs, Lock(p) PROVE SettledInv'
  <2>1. /\ UNCHANGED <<row, dock, createJobs, call, seen, faults>>
        /\ pc[p] = "lock" /\ pc' = [pc EXCEPT ![p] = "check"]
    BY <1>4 DEF Lock, Goto
  <2>2. pc'[p] = "check" /\ Alone(p)
    BY <2>1 DEF Alone, TypeInv, TypeOK
  <2>3. PICK c \in Containers : c = Id(p)
    BY <2>1, CallFacts DEF TypeInv, Shape, ShapeOf, Id
  <2>4. TiesTo(p, row[c], dock[c])
    BY <1>4, <2>1, <2>3 DEF SettledInv, TiedInv
  <2>5. TiesTo(p, row[c], dock[c])' /\ Id(p)' = c
    BY <2>1, <2>2, <2>3, <2>4 DEF TiesTo, Waits, Created, Started, Stopped, Id
  <2>6. ~Created(p) /\ ~Started(p)
    BY <2>1 DEF Created, Started
  <2> QED
    BY <1>1, <1>4, <2>1, <2>2, <2>3, <2>5, <2>6, NothingMoves DEF SettledInv
<1>5. ASSUME faults' = 0, NEW c \in Containers, ProcessExits(c) PROVE SettledInv'
  <2>1. /\ UNCHANGED <<row, createJobs, pc, call, seen, faults>> /\ faults = 0
        /\ dock[c] = "running" /\ dock'[c] = "exited"
        /\ \A d \in Containers : d # c => dock'[d] = dock[d]
    BY <1>5 DEF ProcessExits, TypeInv, TypeOK
  <2>2. \A q \in Procs : /\ Waits(q)' <=> Waits(q)
                         /\ Created(q)' <=> Created(q)
                         /\ Started(q)' <=> Started(q)
                         /\ Stopped(q)' <=> Stopped(q)
                         /\ pc'[q] = pc[q] /\ seen'[q] = seen[q] /\ Id(q)' = Id(q)
    BY <2>1 DEF Waits, Created, Started, Stopped, Op, Id
  <2>3. ASSUME NEW q \in Procs PROVE TiesTo(q, row[Id(q)], dock[Id(q)])'
    <3>1. TiesTo(q, row[Id(q)], dock[Id(q)])
      BY <2>1 DEF SettledInv, TiedInv
    <3>2. CASE pc[q] = "idle"
      BY <2>2, <3>1, <3>2 DEF TiesTo, Waits, Created, Started, Stopped
    <3>3. CASE pc[q] # "idle"
      <4>1. Id(q) \in Containers
        BY <3>3, CallFacts DEF TypeInv, Shape, ShapeOf, Id
      <4>2. CASE Id(q) = c
        BY <2>1, <2>2, <3>1, <4>2 DEF TiesTo
      <4>3. CASE Id(q) # c
        BY <2>1, <2>2, <3>1, <4>1, <4>3 DEF TiesTo
      <4> QED
        BY <4>2, <4>3
    <3> QED
      BY <3>2, <3>3
  <2>4. ASSUME NEW d \in Containers PROVE Fits(d, row[d], dock[d])'
    <3>1. Fits(d, row[d], dock[d])
      BY <2>1 DEF SettledInv, FitInv
    <3>2. /\ (\E q \in Procs : Created(q) /\ Id(q) = d) => \E q \in Procs : Created(q)' /\ Id(q)' = d
          /\ (\E q \in Procs : Started(q) /\ Id(q) = d) => \E q \in Procs : Started(q)' /\ Id(q)' = d
          /\ (\E q \in Procs : pc[q] = "erase" /\ Id(q) = d)
               => \E q \in Procs : pc'[q] = "erase" /\ Id(q)' = d
          /\ (\E q \in Procs : pc[q] = "link" /\ Id(q) = d)
               => \E q \in Procs : pc'[q] = "link" /\ Id(q)' = d
      BY <2>2
    <3>3. CASE d # c
      BY <2>1, <3>1, <3>2, <3>3 DEF Fits, Linked, LinkedFits, UnlinkedFits, Placeheld
    <3>4. CASE d = c
      <4>1. row[d] # NoRow /\ ~row[d].linked => \E q \in Procs : pc[q] = "link" /\ Id(q) = d
        BY <2>1, <3>1, <3>4 DEF Fits, UnlinkedFits
      <4> QED
        BY <2>1, <3>1, <3>2, <3>4, <4>1 DEF Fits, Linked, LinkedFits, UnlinkedFits, Placeheld
    <3> QED
      BY <3>3, <3>4
  <2> QED
    BY <1>1, <2>3, <2>4 DEF SettledInv, TiedInv, FitInv
<1>6. CASE UNCHANGED vars
  <2>1. UNCHANGED <<row, dock, createJobs, call, seen, faults, pc>>
    BY <1>6 DEF vars
  <2>2. TiedInv'
    BY <2>1 DEF SettledInv, TiedInv, TiesTo, Linked, Placeheld, Waits, Created, Started, Stopped, Op, Id
  <2>3. FitInv'
    BY <2>1 DEF SettledInv, FitInv, Fits, LinkedFits, UnlinkedFits, Linked, Placeheld, Created,
       Started, Op, Id
  <2> QED
    BY <1>1, <2>2, <2>3 DEF SettledInv
<1> QED
  BY <1>2, <1>3, <1>4, <1>5, <1>6

-----------------------------------------------------------------------------
(* The row moves forward, whatever fails. *)

\* What a goroutine's step says of the row, also after failures and restarts.
RowTies(p, r, d) ==
    /\ Waits(p) \/ pc[p] = "link" => Placeheld(r)
    /\ Created(p) => (r # NoRow => r.linked)
    /\ pc[p] = "link" \/ Created(p) => d # "none"
    /\ Started(p) \/ Stopped(p) => seen[p]
    /\ pc[p] = "erase" => Linked(r)
    /\ seen[p] => pc[p] # "idle" /\ d # "none" /\ (r # NoRow => r.linked)

\* What the table says of a container.
RowFits(c, r, d) ==
    /\ c \in createJobs => Placeheld(r)
    /\ Linked(r) => r.status # "failed" /\ d # "none"
    /\ r # NoRow /\ ~r.linked => r.status \in {"pending", "failed"}

RowInv == /\ \A p \in Procs : RowTies(p, row[Id(p)], dock[Id(p)])
          /\ \A c \in Containers : RowFits(c, row[c], dock[c])

\* What a step of a goroutine does to the row it works on.
Moves(p, old, new) ==
    \/ new = old
    \/ pc[p] = "save" /\ old = NoRow /\ Placeheld(new)
    \/ pc[p] = "erase" /\ Linked(old) /\ new = NoRow
    \/ pc[p] = "markFailed" /\ Placeheld(old) /\ new # NoRow /\ ~new.linked /\ new.status = "failed"
    \/ pc[p] = "link" /\ Placeheld(old) /\ Linked(new) /\ new.status = "pending"
    \/ /\ pc[p] \in {"update", "exited"} /\ Linked(old) /\ Linked(new)
       /\ new.status \in {"created", "running", "exited", "stopped"}
    \/ /\ pc[p] = "update" /\ old # NoRow /\ new # NoRow
       /\ new.status = old.status /\ new.linked = old.linked

\* Each step moves the row in one of these ways, and knows it.
LEMMA StepRow ==
    ASSUME TypeInv, CreateInv, MakerInv, RowInv, NEW p \in Procs, Step(p),
           NEW c \in Containers, c = Id(p)
    PROVE  \E r, d : /\ RowTo(c, r) /\ DockTo(c, d) /\ Moves(p, row[c], r)
                     /\ dock[c] # "none" => d # "none"
                     /\ RowTies(p, r, d)' /\ RowFits(c, r, d)'
<1> DEFINE Goal == \E r, d : /\ RowTo(c, r) /\ DockTo(c, d) /\ Moves(p, row[c], r)
                             /\ dock[c] # "none" => d # "none"
                             /\ RowTies(p, r, d)' /\ RowFits(c, r, d)'
<1> SUFFICES Goal
  OBVIOUS
<1> HIDE DEF Goal
<1>0. Alone(p) /\ pc[p] # "idle" /\ ShapeOf(p) /\ (pc'[p] # "idle" => Op(p)' = Op(p))
  BY StepAlone DEF TypeInv, Shape, Op
<1>1. /\ RowTies(p, row[c], dock[c]) /\ RowFits(c, row[c], dock[c])
      /\ Making(p) => c \notin createJobs
  BY DEF RowInv, MakerInv
<1>2. pc \in [Procs -> PCs] /\ pc[p] \in PCs /\ seen \in [Procs -> BOOLEAN]
      /\ dock \in [Containers -> DockerStates] /\ row[c] \in Rows \cup {NoRow}
  BY DEF TypeInv, TypeOK
<1>3. ASSUME NEW r, NEW d, RowTo(c, r), DockTo(c, d), Moves(p, row[c], r),
             dock[c] # "none" => d # "none", RowTies(p, r, d)', RowFits(c, r, d)'
      PROVE  Goal
  BY <1>3 DEF Goal
\* The table is left alone.
<1>4. ASSUME UNCHANGED <<row, createJobs>>, NEW d, DockTo(c, d), dock[c] # "none" => d # "none",
             NEW r, r = row[c], RowTies(p, r, d)'
      PROVE  Goal
  <2>1. RowTo(c, r) /\ Moves(p, row[c], r)
    BY <1>4 DEF RowTo, Moves
  <2>2. RowFits(c, r, d)'
    BY <1>1, <1>4 DEF RowFits, Linked, Placeheld
  <2> QED
    BY <1>3, <1>4, <2>1, <2>2
<1>5. ASSUME pc'[p] = "return"
      PROVE  /\ ~Waits(p)' /\ ~Created(p)' /\ ~Started(p)' /\ ~Stopped(p)'
             /\ pc'[p] \notin {"link", "erase", "idle"}
  BY <1>5 DEF Waits, Created, Started, Stopped
\* The call ends without having touched the table.
<1>6. ASSUME UNCHANGED <<row, createJobs, seen>>, NEW d, DockTo(c, d),
             dock[c] # "none" => d # "none", pc'[p] = "return"
      PROVE  Goal
  <2>1. PICK r : r = row[c]
    OBVIOUS
  <2>2. RowTies(p, r, d)'
    BY <1>1, <1>5, <1>6, <2>1 DEF RowTies
  <2> QED
    BY <1>4, <1>6, <2>1, <2>2
<1>7. ASSUME UNCHANGED <<row, createJobs, seen, dock>>, pc'[p] = "return" PROVE Goal
  BY <1>6, <1>7 DEF DockTo
<1>8. CASE RequestSave(p)
  <2>1. CASE pc'[p] = "return" /\ UNCHANGED row
    BY <1>7, <1>8, <2>1 DEF RequestSave
  <2>2. CASE ~(pc'[p] = "return" /\ UNCHANGED row)
    <3>1. PICK v \in Requested, at \in {"submit", "return"} :
            /\ v # "invalid" /\ Goto(p, "save", at)
            /\ row' = [row EXCEPT ![Id(p)] = Placeholder(call[p].owner, v)]
            /\ UNCHANGED <<createJobs, dock, seen>>
      <4>1. UNCHANGED <<createJobs, dock, seen>>
        BY <1>8 DEF RequestSave
      <4>2. ~(Ends(p, "save", "error") /\ UNCHANGED row)
        BY <1>2, <2>2 DEF Ends, Goto
      <4> QED
        BY <1>8, <4>1, <4>2 DEF RequestSave, SaveRow, DatabaseFails, Ends, Placeholder
    <3>2. PICK r : r = Placeholder(call[p].owner, v)
      OBVIOUS
    <3>3. Placeheld(r)
      BY <3>2 DEF Placeheld, Placeholder, NoRow
    <3>4. dock[c] = "none" /\ row[c] = NoRow
      BY <1>0, <3>1 DEF CreateInv, EarlyInv, Early, ShapeOf, Goto
    <3>5. RowTo(c, r) /\ DockTo(c, "none")
      BY <3>1, <3>2, <3>4 DEF RowTo, DockTo, TypeInv, TypeOK
    <3>6. pc[p] = "save" /\ pc'[p] \in {"submit", "return"} /\ ~seen'[p]
      BY <1>1, <1>2, <3>1, <3>4 DEF Goto, RowTies
    <3>7. RowTies(p, r, "none")'
      BY <3>3, <3>6 DEF RowTies, Waits, Created, Started, Stopped
    <3>8. RowFits(c, r, "none")' /\ Moves(p, row[c], r)
      BY <3>3, <3>4, <3>6 DEF RowFits, Moves, Placeheld, Linked
    <3> QED
      BY <1>3, <3>4, <3>5, <3>7, <3>8
  <2> QED
    BY <2>1, <2>2
<1>9. CASE RequestSubmit(p)
  <2>1. /\ UNCHANGED <<row, dock, seen>> /\ createJobs' \subseteq createJobs \cup {c}
        /\ pc[p] = "submit" /\ pc'[p] = "return"
    BY <1>2, <1>9 DEF RequestSubmit, Ends, Goto
  <2>2. PICK r, d : r = row[c] /\ d = dock[c]
    OBVIOUS
  <2>3. Placeheld(r)
    BY <1>1, <2>1, <2>2 DEF RowTies, Waits
  <2>4. RowTo(c, r) /\ DockTo(c, d) /\ Moves(p, row[c], r)
    BY <2>1, <2>2 DEF RowTo, DockTo, Moves
  <2>5. RowTies(p, r, d)'
    BY <1>1, <1>5, <2>1, <2>2 DEF RowTies
  <2>6. RowFits(c, r, d)'
    BY <2>3 DEF RowFits, Placeheld, Linked
  <2> QED
    BY <1>3, <2>2, <2>4, <2>5, <2>6
<1>10. ASSUME Op(p) = "create", pc[p] \in {"docker", "retry", "pull"}, NEW d, DockTo(c, d),
              UNCHANGED <<row, createJobs, seen>>,
              \/ pc'[p] = "link" /\ d = "created"
              \/ pc'[p] \in {"pull", "retry", "markFailed"} /\ d \in {dock[c], "created"}
       PROVE  Goal
  <2>1. PICK r : r = row[c]
    OBVIOUS
  <2>2. Placeheld(r) /\ ~seen'[p]
    BY <1>1, <1>10, <2>1 DEF RowTies, Waits, Placeheld
  <2>3. RowTies(p, r, d)'
    BY <1>0, <1>10, <2>2 DEF RowTies, Waits, Created, Started, Stopped
  <2> QED
    BY <1>4, <1>10, <2>1, <2>3
<1>11. CASE CreateDocker(p) \/ CreatePull(p) \/ CreateRetry(p)
  <2>1. /\ Op(p) = "create" /\ pc[p] \in {"docker", "retry", "pull"}
        /\ UNCHANGED <<row, createJobs, seen>>
        /\ \/ pc'[p] = "link" /\ DockerDoes(p, "created")
           \/ /\ pc'[p] \in {"pull", "retry", "markFailed"}
              /\ UNCHANGED dock \/ DockerDoes(p, "created")
    BY <1>0, <1>2, <1>11 DEF CreateDocker, CreatePull, CreateRetry, DockerCreates, Goto, ShapeOf
  <2>2. CASE UNCHANGED dock
    BY <1>2, <1>10, <2>1, <2>2 DEF DockTo, DockerDoes
  <2>3. CASE DockerDoes(p, "created")
    <3>1. DockTo(c, "created")
      BY <2>3, DockSet
    <3> QED
      BY <1>10, <2>1, <3>1
  <2> QED
    BY <2>1, <2>2, <2>3
<1>12. CASE CreateMarkFailed(p)
  <2>1. /\ UNCHANGED <<dock, createJobs, seen>> /\ pc[p] = "markFailed" /\ pc'[p] = "return"
        /\ Op(p) = "create"
        /\ UpdateStatus(p, "failed") \/ UNCHANGED row
    BY <1>0, <1>2, <1>12 DEF CreateMarkFailed, DatabaseFails, Ends, Goto, ShapeOf
  <2>2. CASE UNCHANGED row
    BY <1>7, <2>1, <2>2
  <2>3. CASE UpdateStatus(p, "failed")
    <3>1. PICK r : /\ RowTo(c, r)
                   /\ r = NoRow <=> row[c] = NoRow
                   /\ r # NoRow => r.status = "failed" /\ r.linked = row[c].linked
      BY <2>3, StatusSet
    <3>2. PICK d : d = dock[c]
      OBVIOUS
    <3>3. Placeheld(row[c]) /\ ~seen'[p] /\ Making(p)
      BY <1>0, <1>1, <2>1 DEF RowTies, Waits, Placeheld, Making, ShapeOf
    <3>4. DockTo(c, d) /\ r # NoRow /\ r.status = "failed" /\ ~r.linked
      BY <2>1, <3>1, <3>2, <3>3 DEF DockTo, Placeheld
    <3>5. RowTies(p, r, d)' /\ Moves(p, row[c], r)
      BY <1>5, <2>1, <3>3, <3>4 DEF RowTies, Moves
    <3>6. RowFits(c, r, d)'
      BY <1>1, <2>1, <3>3, <3>4 DEF RowFits, Linked
    <3> QED
      BY <1>3, <3>1, <3>2, <3>4, <3>5, <3>6
  <2> QED
    BY <2>1, <2>2, <2>3
<1>13. CASE CreateLink(p)
  <2>1. CASE pc'[p] = "return" /\ UNCHANGED row
    BY <1>7, <1>13, <2>1 DEF CreateLink
  <2>2. CASE ~(pc'[p] = "return" /\ UNCHANGED row)
    <3>1. /\ SetDockerID(p) /\ UNCHANGED <<dock, createJobs, seen>>
          /\ pc[p] = "link" /\ pc'[p] \in {"update", "return"} /\ Op(p) = "create"
      BY <1>0, <1>2, <1>13, <2>2 DEF CreateLink, DatabaseFails, Ends, Goto, ShapeOf
    <3>2. PICK d : d = dock[c]
      OBVIOUS
    <3>3. Placeheld(row[c]) /\ d # "none" /\ Making(p) /\ DockTo(c, d)
      BY <1>0, <1>1, <3>1, <3>2 DEF RowTies, Making, ShapeOf, DockTo
    <3>4. PICK r : RowTo(c, r) /\ r # NoRow /\ r.status = "pending" /\ r.linked
      BY <3>1, <3>3, LinkSet DEF Placeheld
    <3>5. RowTies(p, r, d)' /\ Moves(p, row[c], r)
      BY <1>0, <1>1, <3>1, <3>3, <3>4 DEF RowTies, Moves, Linked, Waits, Started, Stopped
    <3>6. RowFits(c, r, d)'
      BY <1>1, <3>1, <3>3, <3>4 DEF RowFits, Linked
    <3> QED
      BY <1>3, <3>2, <3>3, <3>4, <3>5, <3>6
  <2> QED
    BY <2>1, <2>2
\* The status an operation has come to, for a row it knows to be linked, if there is one.
<1>14. ASSUME NEW t \in {"created", "running", "exited", "stopped"}, UpdateStatus(p, t),
              UNCHANGED <<dock, createJobs, seen>>, pc[p] \in {"update", "exited"},
              pc'[p] = "return", Created(p) \/ Started(p) \/ Stopped(p)
       PROVE  Goal
  <2>1. PICK r : /\ RowTo(c, r)
                 /\ r = NoRow <=> row[c] = NoRow
                 /\ r # NoRow => r.status = t /\ r.linked = row[c].linked
    BY <1>14, StatusSet
  <2>2. PICK d : d = dock[c]
    OBVIOUS
  <2>3. (row[c] # NoRow => row[c].linked) /\ DockTo(c, d) /\ d # "none"
    BY <1>1, <1>14, <2>2 DEF RowTies, DockTo
  <2>4. RowTies(p, r, d)'
    BY <1>1, <1>5, <1>14, <2>1, <2>2 DEF RowTies
  <2>5. Moves(p, row[c], r)
    BY <1>14, <2>1, <2>3 DEF Moves, Linked
  <2>6. RowFits(c, r, d)'
    BY <1>1, <1>14, <2>1, <2>3 DEF RowFits, Linked, Placeheld
  <2> QED
    BY <1>3, <2>1, <2>2, <2>3, <2>4, <2>5, <2>6
<1>15. CASE CreateUpdate(p) \/ StartUpdate(p) \/ StopUpdate(p)
  <2>1. CASE UNCHANGED row
    BY <1>2, <1>7, <1>15, <2>1 DEF CreateUpdate, StartUpdate, StopUpdate, DatabaseFails, Ends, Goto
  <2>2. CASE ~UNCHANGED row
    BY <1>2, <1>14, <1>15, <2>2 DEF CreateUpdate, StartUpdate, StopUpdate, DatabaseFails, Ends,
       Goto, Created, Started, Stopped
  <2> QED
    BY <2>1, <2>2
<1>16. CASE Check(p) \/ Attach(p) \/ Return(p)
  <2>1. /\ UNCHANGED <<row, dock, createJobs>> /\ pc[p] \in {"check", "attach", "return"}
        /\ pc'[p] # "return" => Check(p) \/ Return(p)
    BY <1>2, <1>16 DEF Check, Attach, Return, Goto, Ends
  <2>2. CASE pc'[p] = "return" /\ UNCHANGED seen
    BY <1>7, <2>1, <2>2
  <2>3. CASE ~(pc'[p] = "return" /\ UNCHANGED seen)
    <3>1. \/ Return(p)
          \/ Check(p) /\ Goto(p, "check", AfterCheck(Op(p))) /\ Present(c)
                      /\ seen' = [seen EXCEPT ![p] = row[c].linked]
      BY <1>2, <1>16, <2>3 DEF Check, Attach, Ends, Goto
    <3>2. PICK r, d : r = row[c] /\ d = dock[c]
      OBVIOUS
    <3>3. CASE Return(p)
      <4>1. pc'[p] = "idle" /\ ~seen'[p]
        BY <1>2, <3>3 DEF Return, Goto
      <4>2. RowTies(p, r, d)'
        <5>1. ~Waits(p)' /\ ~Created(p)' /\ ~Started(p)' /\ ~Stopped(p)'
          BY <4>1 DEF Waits, Created, Started, Stopped
        <5> QED
          BY <4>1, <5>1 DEF RowTies
      <4> QED
        BY <1>4, <2>1, <3>2, <4>2 DEF DockTo
    <3>4. CASE Check(p) /\ ~Return(p)
      <4>1. Op(p) \in Control \cup {"stream"}
        BY <1>0, <3>1, <3>4 DEF Goto, ShapeOf
      <4>2. \/ Op(p) \in {"start", "stop", "delete"} /\ pc'[p] = "docker"
            \/ Op(p) = "visibility" /\ pc'[p] = "update"
            \/ Op(p) \in {"exec", "stream"} /\ pc'[p] = "attach"
        BY <1>2, <3>1, <3>4, <4>1 DEF AfterCheck, Goto
      <4>3. seen'[p] = row[c].linked /\ row[c] # NoRow
        BY <1>2, <3>1, <3>4 DEF Present
      <4>4. RowTies(p, r, d)'
        BY <1>0, <1>1, <3>2, <4>2, <4>3 DEF RowTies, RowFits, Linked, Waits, Created, Started, Stopped
      <4> QED
        BY <1>4, <2>1, <3>2, <4>4 DEF DockTo
    <3> QED
      BY <3>1, <3>3, <3>4
  <2> QED
    BY <2>2, <2>3
\* A call to Docker, done or failed.
<1>17. CASE StartDocker(p) \/ StopDocker(p) \/ DeleteDocker(p)
  <2>1. /\ UNCHANGED <<row, createJobs, seen>> /\ pc[p] = "docker"
        /\ UNCHANGED dock \/ (Exists(p) /\ \E d \in Live \cup {"gone"} : DockerDoes(p, d))
        /\ Op(p) \in {"start", "stop", "delete"}
        /\ \/ pc'[p] = "return"
           \/ Exists(p) /\ Op(p) = "start" /\ pc'[p] = "inspect"
           \/ Exists(p) /\ Op(p) = "stop" /\ pc'[p] = "update"
           \/ Exists(p) /\ Op(p) = "delete" /\ pc'[p] = "erase"
    BY <1>2, <1>17 DEF StartDocker, StopDocker, DeleteDocker, DockerFails, Exists, Halted,
       Goto, Ends
  <2>2. PICK d : DockTo(c, d) /\ (dock[c] # "none" => d # "none")
    <3>1. CASE UNCHANGED dock
      BY <3>1 DEF DockTo
    <3>2. CASE \E d \in Live \cup {"gone"} : DockerDoes(p, d)
      <4>1. PICK d \in Live \cup {"gone"} : DockerDoes(p, d)
        BY <3>2
      <4>2. DockTo(c, d)
        BY <4>1, DockSet
      <4> QED
        BY <4>1, <4>2
    <3> QED
      BY <2>1, <3>1, <3>2
  <2>3. CASE pc'[p] = "return"
    BY <1>6, <2>1, <2>2, <2>3
  <2>4. CASE pc'[p] # "return"
    <3>1. PICK r : r = row[c]
      OBVIOUS
    <3>2. seen[p] /\ seen'[p] /\ dock[c] \in Live /\ Linked(r)
      BY <1>1, <2>1, <2>4, <3>1 DEF Exists, RowTies, CreateInv, LiveContainerHasRow, Present, Linked
    <3>3. RowTies(p, r, d)'
      BY <1>0, <1>1, <2>1, <2>2, <2>4, <3>1, <3>2 DEF RowTies, Linked, Waits, Created
    <3> QED
      BY <1>4, <2>1, <2>2, <3>1, <3>3
  <2> QED
    BY <2>3, <2>4
<1>18. CASE StartInspect(p)
  <2>1. /\ UNCHANGED <<row, dock, createJobs, seen>> /\ Op(p) = "start" /\ pc[p] = "inspect"
        /\ pc'[p] \in {"update", "exited"}
    BY <1>0, <1>2, <1>18 DEF StartInspect, Goto, ShapeOf
  <2>2. PICK r, d : r = row[c] /\ d = dock[c]
    OBVIOUS
  <2>3. seen[p]
    BY <1>1, <2>1 DEF RowTies, Started
  <2>4. RowTies(p, r, d)'
    BY <1>0, <1>1, <2>1, <2>2, <2>3 DEF RowTies, Waits, Created
  <2> QED
    BY <1>4, <2>1, <2>2, <2>4 DEF DockTo
<1>19. CASE DeleteErase(p)
  <2>1. CASE UNCHANGED row
    BY <1>2, <1>7, <1>19, <2>1 DEF DeleteErase, DatabaseFails, Ends, Goto
  <2>2. CASE ~UNCHANGED row
    <3>1. /\ DeleteRow(p) /\ UNCHANGED <<dock, createJobs, seen>>
          /\ pc[p] = "erase" /\ pc'[p] = "return"
      BY <1>2, <1>19, <2>2 DEF DeleteErase, DatabaseFails, Ends, Goto
    <3>2. PICK d : d = dock[c]
      OBVIOUS
    <3>3. Linked(row[c]) /\ RowTo(c, NoRow) /\ DockTo(c, d)
      BY <1>1, <3>1, <3>2 DEF RowTies, RowTo, DockTo, DeleteRow, TypeInv, TypeOK
    <3>4. RowTies(p, NoRow, d)' /\ Moves(p, row[c], NoRow)
      BY <1>1, <1>5, <3>1, <3>2, <3>3 DEF RowTies, Moves
    <3>5. RowFits(c, NoRow, d)'
      BY <1>1, <3>1, <3>3 DEF RowFits, Placeheld, Linked
    <3> QED
      BY <1>3, <3>2, <3>3, <3>4, <3>5
  <2> QED
    BY <2>1, <2>2
<1>20. CASE VisibilityUpdate(p)
  <2>1. CASE UNCHANGED row
    BY <1>2, <1>7, <1>20, <2>1 DEF VisibilityUpdate, DatabaseFails, Ends, Goto
  <2>2. CASE ~UNCHANGED row
    <3>1. PICK v \in Visibilities :
             /\ UpdateVisibility(p, v) /\ UNCHANGED <<dock, createJobs, seen>>
             /\ pc[p] = "update" /\ pc'[p] = "return"
      BY <1>2, <1>20, <2>2 DEF VisibilityUpdate, DatabaseFails, Ends, Goto
    <3>2. PICK r : /\ RowTo(c, r)
                   /\ r = NoRow <=> row[c] = NoRow
                   /\ r # NoRow => r.status = row[c].status /\ r.linked = row[c].linked
      BY <3>1, VisibilitySet
    <3>3. PICK d : d = dock[c]
      OBVIOUS
    <3>4. DockTo(c, d) /\ Moves(p, row[c], r)
      BY <3>1, <3>2, <3>3 DEF DockTo, Moves
    <3>5. RowTies(p, r, d)'
      BY <1>1, <1>5, <3>1, <3>2, <3>3 DEF RowTies
    <3>6. RowFits(c, r, d)'
      BY <1>1, <3>1, <3>2, <3>3 DEF RowFits, Placeheld, Linked
    <3> QED
      BY <1>3, <3>2, <3>3, <3>4, <3>5, <3>6
  <2> QED
    BY <2>1, <2>2
<1> QED
  BY <1>8, <1>9, <1>11, <1>12, <1>13, <1>15, <1>16, <1>17, <1>18, <1>19, <1>20 DEF Step

\* A step of a goroutine keeps what is known of the rows.
LEMMA StepForward ==
    ASSUME TypeInv, CreateInv, MakerInv, SectionInv, RowInv, NEW p \in Procs, Step(p)
    PROVE  RowInv'
<1>0. /\ Alone(p) /\ pc[p] # "idle" /\ ShapeOf(p) /\ RestEffect(p)
      /\ pc'[p] # "idle" => call'[p] = call[p]
  BY StepAlone, StepFacts DEF TypeInv, Shape
<1>1. PICK c \in Containers : c = Id(p)
  BY <1>0, CallFacts DEF ShapeOf, Id
<1>2. PICK r, d : /\ RowTo(c, r) /\ DockTo(c, d) /\ Moves(p, row[c], r)
                  /\ dock[c] # "none" => d # "none"
                  /\ RowTies(p, r, d)' /\ RowFits(c, r, d)'
  BY <1>1, StepRow
<1>3. \A q \in Procs : q # p => /\ Waits(q)' <=> Waits(q)
                                /\ Created(q)' <=> Created(q)
                                /\ Started(q)' <=> Started(q)
                                /\ Stopped(q)' <=> Stopped(q)
                                /\ pc'[q] = pc[q] /\ seen'[q] = seen[q] /\ Id(q)' = Id(q)
  BY <1>0 DEF Alone, Waits, Created, Started, Stopped, Op, Id
<1>4. pc[p] = "save" => dock[c] = "none"
  BY <1>0, <1>1 DEF CreateInv, EarlyInv, Early, ShapeOf
<1>5. ASSUME NEW q \in Procs, q # p, pc[q] # "idle", Id(q) = c
      PROVE  RowTies(q, r, d)
  <2>1. RowTies(q, row[c], dock[c])
    BY <1>5 DEF RowInv
  <2>2. CASE pc[p] \in {"save", "markFailed", "link"}
    <3>1. Making(p)
      BY <1>0, <2>2 DEF Making, ShapeOf
    <3>2. ~Waits(q) /\ pc[q] # "link" /\ ~Created(q)
      BY <1>1, <1>5, <3>1, MakerAlone
    <3> QED
      BY <1>2, <1>4, <2>1, <2>2, <3>2 DEF Moves, RowTies, Placeheld, Linked
  <2>3. CASE pc[p] = "erase"
    <3>1. InSection(p)
      BY <1>0, <2>3 DEF InSection, ShapeOf
    <3>2. pc[q] # "erase"
      BY <1>1, <1>5, <3>1, HolderAlone
    <3> QED
      BY <1>2, <2>1, <2>3, <3>2 DEF Moves, RowTies, Placeheld, Linked
  <2>4. CASE pc[p] \notin {"save", "markFailed", "link", "erase"}
    BY <1>2, <2>1, <2>4 DEF Moves, RowTies, Placeheld, Linked
  <2> QED
    BY <2>2, <2>3, <2>4
<1>6. row'[c] = r /\ dock'[c] = d
  BY <1>2 DEF RowTo, DockTo
<1>7. ASSUME NEW q \in Procs PROVE RowTies(q, row[Id(q)], dock[Id(q)])'
  <2>1. CASE q = p
    <3>1. CASE pc'[p] = "idle"
      <4>1. ~seen'[p]
        BY <1>2, <3>1 DEF RowTies
      <4> QED
        BY <2>1, <3>1, <4>1 DEF RowTies, Waits, Created, Started, Stopped
    <3>2. CASE pc'[p] # "idle"
      <4>1. Id(p)' = c
        BY <1>0, <1>1, <3>2 DEF Id
      <4> QED
        BY <1>2, <1>6, <2>1, <4>1 DEF RowTies
    <3> QED
      BY <3>1, <3>2
  <2>2. CASE q # p
    <3>1. RowTies(q, row[Id(q)], dock[Id(q)])
      BY DEF RowInv
    <3>2. CASE pc[q] = "idle"
      BY <1>3, <2>2, <3>1, <3>2 DEF RowTies, Waits, Created, Started, Stopped
    <3>3. CASE pc[q] # "idle" /\ Id(q) = c
      <4>1. RowTies(q, r, d)
        BY <1>5, <2>2, <3>3
      <4> QED
        BY <1>3, <1>6, <2>2, <3>3, <4>1 DEF RowTies
    <3>4. CASE pc[q] # "idle" /\ Id(q) # c
      <4>1. Id(q) \in Containers
        BY <3>4, CallFacts DEF TypeInv, Shape, ShapeOf, Id
      <4>2. row'[Id(q)] = row[Id(q)] /\ dock'[Id(q)] = dock[Id(q)]
        BY <1>2, <3>4, <4>1 DEF RowTo, DockTo
      <4> QED
        BY <1>3, <2>2, <3>1, <4>2 DEF RowTies
    <3> QED
      BY <3>2, <3>3, <3>4
  <2> QED
    BY <2>1, <2>2
<1>8. ASSUME NEW e \in Containers PROVE RowFits(e, row[e], dock[e])'
  <2>1. CASE e = c
    BY <1>2, <1>6, <2>1 DEF RowFits, Linked, Placeheld
  <2>2. CASE e # c
    <3>1. /\ row'[e] = row[e] /\ dock'[e] = dock[e] /\ (e \in createJobs' => e \in createJobs)
          /\ RowFits(e, row[e], dock[e])
      BY <1>0, <1>1, <1>2, <2>2 DEF RowTo, DockTo, RestEffect, RowInv
    <3> QED
      BY <3>1 DEF RowFits, Linked, Placeheld
  <2> QED
    BY <2>1, <2>2
<1> QED
  BY <1>7, <1>8 DEF RowInv

\* So does a call that begins ...
LEMMA StartForward ==
    ASSUME TypeInv, RowInv, CreateInv, NEW p \in Procs, NEW c \in Containers, Starts(p, c),
           UNCHANGED seen
    PROVE  RowInv'
<1>1. /\ pc[p] = "idle" /\ Id(p)' = c /\ pc'[p] \in {"lock", "check", "save", "docker"}
      /\ UNCHANGED <<row, dock>> /\ createJobs' \subseteq createJobs
      /\ Op(p)' = "create" => c \in createJobs
      /\ \A q \in Procs : q # p => pc'[q] = pc[q] /\ call'[q] = call[q]
  BY DEF Starts, Id, Op
<1>2. ~seen[p]
  BY <1>1 DEF RowInv, RowTies
<1>3. RowTies(p, row[Id(p)], dock[Id(p)])'
  <2>1. Op(p)' = "create" => Placeheld(row[c])
    BY <1>1 DEF RowInv, RowFits
  <2> QED
    BY <1>1, <1>2, <2>1 DEF RowTies, Waits, Created, Started, Stopped, Placeheld
<1>4. ASSUME NEW q \in Procs, q # p PROVE RowTies(q, row[Id(q)], dock[Id(q)])'
  <2>1. RowTies(q, row[Id(q)], dock[Id(q)])
    BY DEF RowInv
  <2> QED
    BY <1>1, <1>4, <2>1 DEF RowTies, Waits, Created, Started, Stopped, Linked, Placeheld, Op, Id
<1>5. ASSUME NEW e \in Containers PROVE RowFits(e, row[e], dock[e])'
  <2>1. RowFits(e, row[e], dock[e])
    BY DEF RowInv
  <2> QED
    BY <1>1, <2>1 DEF RowFits, Linked, Placeheld
<1> QED
  BY <1>3, <1>4, <1>5 DEF RowInv

\* ... and the rest.
LEMMA RestForward ==
    ASSUME TypeInv, RowInv,
           \/ UNCHANGED vars \/ Restart
           \/ \E p \in Procs : Lock(p)
           \/ \E c \in Containers : ProcessExits(c)
    PROVE  RowInv'
<1>1. ASSUME NEW e \in Containers PROVE RowFits(e, row[e], dock[e])'
  <2>1. RowFits(e, row[e], dock[e])
    BY DEF RowInv
  <2>2. UNCHANGED row /\ createJobs' \subseteq createJobs /\ (dock[e] # "none" => dock'[e] # "none")
    BY DEF vars, Restart, Lock, ProcessExits, TypeInv, TypeOK
  <2> QED
    BY <2>1, <2>2 DEF RowFits, Linked, Placeheld
<1>2. CASE Restart
  <2>1. \A p \in Procs : pc'[p] = "idle" /\ ~seen'[p]
    BY <1>2 DEF Restart
  <2> QED
    BY <1>1, <2>1 DEF RowInv, RowTies, Waits, Created, Started, Stopped
<1>3. CASE UNCHANGED vars
  BY <1>1, <1>3 DEF vars, RowInv, RowTies, Waits, Created, Started, Stopped, Linked, Placeheld, Op, Id
<1>4. ASSUME NEW p \in Procs, Lock(p) PROVE RowInv'
  <2>1. /\ UNCHANGED <<row, dock, call, seen>> /\ pc[p] = "lock" /\ pc' = [pc EXCEPT ![p] = "check"]
    BY <1>4 DEF Lock, Goto
  <2>2. pc'[p] = "check" /\ \A q \in Procs : q # p => pc'[q] = pc[q]
    BY <2>1 DEF TypeInv, TypeOK
  <2>3. ASSUME NEW q \in Procs PROVE RowTies(q, row[Id(q)], dock[Id(q)])'
    <3>1. RowTies(q, row[Id(q)], dock[Id(q)])
      BY DEF RowInv
    <3> QED
      BY <2>1, <2>2, <3>1 DEF RowTies, Waits, Created, Started, Stopped, Linked, Placeheld, Op, Id
  <2> QED
    BY <1>1, <2>3 DEF RowInv
<1>5. ASSUME NEW c \in Containers, ProcessExits(c) PROVE RowInv'
  <2>1. /\ UNCHANGED <<row, pc, call, seen>>
        /\ \A e \in Containers : dock[e] # "none" => dock'[e] # "none"
    BY <1>5 DEF ProcessExits, TypeInv, TypeOK
  <2>2. ASSUME NEW q \in Procs PROVE RowTies(q, row[Id(q)], dock[Id(q)])'
    <3>1. RowTies(q, row[Id(q)], dock[Id(q)])
      BY DEF RowInv
    <3>2. CASE pc[q] = "idle"
      BY <2>1, <3>1, <3>2 DEF RowTies, Waits, Created, Started, Stopped
    <3>3. CASE pc[q] # "idle"
      <4>1. Id(q) \in Containers
        BY <3>3, CallFacts DEF TypeInv, Shape, ShapeOf, Id
      <4>2. dock[Id(q)] # "none" => dock'[Id(q)] # "none"
        BY <2>1, <4>1
      <4> QED
        BY <2>1, <3>1, <4>2 DEF RowTies, Waits, Created, Started, Stopped, Linked, Placeheld, Op, Id
    <3> QED
      BY <3>2, <3>3
  <2> QED
    BY <1>1, <2>2 DEF RowInv
<1> QED
  BY <1>2, <1>3, <1>4, <1>5

-----------------------------------------------------------------------------
(* The invariant as a whole, and what follows from it. *)

IInv == TypeInv /\ CreateInv /\ SectionInv /\ OwnerInv /\ SettledInv /\ RowInv

\* The service starts with an empty table and an empty daemon.
LEMMA InitInv == Init => IInv
<1> SUFFICES ASSUME Init PROVE IInv
  OBVIOUS
<1>1. TypeInv
  BY ContainerServiceAssumption
     DEF ContainerServiceAssumption, Init, TypeInv, TypeOK, Shape, ShapeOf
<1>2. \A p \in Procs : Op(p) = "none" /\ pc[p] = "idle"
  BY DEF Init, Op, NoCall
<1>3. CreateInv
  BY <1>2 DEF Init, CreateInv, EarlyInv, QueuedInv, UnissuedInv, EraseInv, Early,
              LiveContainerHasRow, DeletedStaysDeleted
<1>4. SectionInv /\ OwnerInv
  BY <1>2 DEF SectionInv, OwnerInv, InSection, Past
<1>5. SettledInv
  <2>1. MakerInv
    BY <1>2 DEF MakerInv, Making
  <2>2. TiedInv
    BY <1>2 DEF Init, TiedInv, TiesTo, Waits, Created, Started, Stopped
  <2>3. FitInv
    BY DEF Init, FitInv, Fits, Linked
  <2> QED
    BY <2>1, <2>2, <2>3 DEF SettledInv
<1>6. RowInv
  BY <1>2 DEF Init, RowInv, RowTies, RowFits, Waits, Created, Started, Stopped, Linked
<1> QED
  BY <1>1, <1>3, <1>4, <1>5, <1>6 DEF IInv

\* Every step keeps it.
LEMMA NextInv == IInv /\ [Next]_vars => IInv'
<1> SUFFICES ASSUME IInv, [Next]_vars PROVE IInv'
  OBVIOUS
<1>0. /\ TypeInv /\ CreateInv /\ SectionInv /\ OwnerInv /\ SettledInv /\ MakerInv /\ RowInv
      /\ createJobs \subseteq issued
  BY DEF IInv, CreateInv, QueuedInv, SettledInv
<1>1. ASSUME NEW p \in Procs, Step(p) PROVE IInv'
  <2>1. CreateInv' /\ SectionInv' /\ OwnerInv' /\ SettledInv' /\ RowInv'
    BY <1>0, <1>1, StepCreate, StepControl, StepSettles, StepForward
  <2>2. TypeOK' /\ ShapeOf(p)' /\ CallEffect(p) /\ UNCHANGED issued
    BY <1>0, <1>1, StepFacts DEF RestEffect
  <2>3. ASSUME NEW q \in Procs, q # p PROVE ShapeOf(q)'
    BY <1>0, <2>2, <2>3 DEF CallEffect, TypeInv, Shape, ShapeOf, Op, Id
  <2> QED
    BY <2>1, <2>2, <2>3 DEF IInv, TypeInv, Shape
<1>2. ASSUME NEW p \in Procs, NEW o \in Owners, NEW c \in Containers,
             \/ \E op \in Control \cup {"stream"} : CallOp(p, op, o, c)
             \/ CallRequest(p, o, c) \/ CallCreate(p, o, c)
      PROVE  IInv'
  <2>1. TypeInv' /\ Starts(p, c)
    BY <1>0, <1>2, StartFacts DEF TypeInv
  <2>2. UNCHANGED <<seen, faults>>
    BY <1>2 DEF CallOp, CallRequest, CallCreate
  <2> QED
    BY <1>0, <2>1, <2>2, StartCreate, StartControl, StartSettles, StartForward DEF IInv
<1>3. CASE \/ UNCHANGED vars \/ Restart
           \/ \E p \in Procs : Lock(p)
           \/ \E c \in Containers : ProcessExits(c)
  BY <1>0, <1>3, RestCreate, RestControl, RestSettles, RestForward DEF IInv
<1> QED
  BY <1>1, <1>2, <1>3 DEF Next, TakeCreateJob

\* The inductive invariant of the container service holds in every reachable
\* state.
THEOREM Invariance == Spec => []IInv
  BY InitInv, NextInv, PTL DEF Spec

\* The container service is well typed in every reachable state.
THEOREM TypeCorrect == Spec => []TypeOK
<1>1. IInv => TypeOK
  BY DEF IInv, TypeInv
<1> QED
  BY <1>1, Invariance, PTL

\* Start, stop, delete and set-visibility of one container exclude each other,
\* on every return path and across restarts.
THEOREM LifecycleExclusion == Spec => []OneLifecycleCallAtATime
<1>1. IInv => OneLifecycleCallAtATime
  BY DEF IInv, SectionInv, OneLifecycleCallAtATime
<1> QED
  BY <1>1, Invariance, PTL

\* Nobody but its owner gets past the check of an operation that controls a
\* container, and it stays the owner's for as long as the row lasts.
THEOREM OwnerControls == Spec => []OnlyOwnerControls
<1>1. IInv => OnlyOwnerControls
  <2> SUFFICES ASSUME IInv, NEW p \in Procs, Op(p) \in Control,
                      pc[p] \notin {"lock", "check", "return"}, Present(Id(p))
               PROVE  row[Id(p)].owner = call[p].owner
    BY DEF OnlyOwnerControls
  <2>1. pc[p] # "idle"
    BY DEF IInv, TypeInv, Shape, ShapeOf, Op, NoCall
  <2> QED
    BY <2>1 DEF IInv, OwnerInv, Past, Present
<1> QED
  BY <1>1, Invariance, PTL

\* No interleaving of creates, deletes, failures and restarts leaves a Docker
\* container without its row.
THEOREM NoOrphans == Spec => []LiveContainerHasRow
<1>1. IInv => LiveContainerHasRow
  BY DEF IInv, CreateInv
<1> QED
  BY <1>1, Invariance, PTL

\* No late step of a create or of another call brings a deleted container back.
THEOREM DeletesAreFinal == Spec => []DeletedStaysDeleted
<1>1. IInv => DeletedStaysDeleted
  BY DEF IInv, CreateInv
<1> QED
  BY <1>1, Invariance, PTL

\* As long as nothing has failed, the row of a container that nobody is working
\* on tells the truth about Docker, whatever calls have overlapped on it.
THEOREM RowsMatchDocker == Spec => []SettledRowMatchesDocker
<1>1. IInv => SettledRowMatchesDocker
  <2> SUFFICES ASSUME IInv, NEW c \in Containers, faults = 0, Calm(c)
               PROVE  Matches(row[c], dock[c])
    BY DEF SettledRowMatchesDocker
  <2>1. Fits(c, row[c], dock[c]) /\ (dock[c] \in Live => row[c] # NoRow)
    BY DEF IInv, SettledInv, FitInv, CreateInv, LiveContainerHasRow, Present
  <2>2. /\ ~(\E p \in Procs : Created(p) /\ Id(p) = c)
        /\ ~(\E p \in Procs : Started(p) /\ Id(p) = c)
        /\ ~(\E p \in Procs : pc[p] = "erase" /\ Id(p) = c)
        /\ ~(\E p \in Procs : pc[p] = "link" /\ Id(p) = c)
    BY DEF Calm, Created, Started
  <2>3. dock[c] \in DockerStates /\ row[c] \in Rows \cup {NoRow}
    BY DEF IInv, TypeInv, TypeOK
  <2>4. CASE row[c] = NoRow
    <3>1. dock[c] \in {"none", "gone"}
      BY <2>1, <2>3, <2>4
    <3>2. row[c].status = "absent"
      BY <2>4 DEF NoRow
    <3> QED
      BY <2>4, <3>1, <3>2 DEF Matches
  <2>5. CASE row[c] # NoRow /\ row[c].linked
    <3>1. PICK r \in Rows : r = row[c]
      BY <2>3, <2>5
    <3>2. /\ r # NoRow /\ r.linked /\ dock[c] \in Live
          /\ r.status \in {"created", "running", "exited", "stopped"}
          /\ r.status = "running" => dock[c] # "created"
          /\ r.status = "exited" => dock[c] = "exited"
          /\ r.status = "stopped" => dock[c] # "running"
      BY <2>1, <2>2, <2>3, <2>5, <3>1 DEF Fits, Linked, LinkedFits, Rows
    <3> QED
      BY <3>1, <3>2 DEF Matches
  <2>6. CASE row[c] # NoRow /\ ~row[c].linked
    <3>1. row[c].status \in {"pending", "failed"} /\ dock[c] = "none"
      BY <2>1, <2>2, <2>6 DEF Fits, UnlinkedFits
    <3> QED
      BY <2>6, <3>1 DEF Matches
  <2> QED
    BY <2>4, <2>5, <2>6
<1> QED
  BY <1>1, Invariance, PTL

\* A step of a goroutine moves the rows forward.
LEMMA StepMovesForward ==
    ASSUME IInv, NEW p \in Procs, Step(p), NEW c \in Containers PROVE Forward(c)
<1>0. TypeInv /\ CreateInv /\ MakerInv /\ RowInv /\ ShapeOf(p) /\ pc[p] # "idle" /\ RowEffect(p)
  BY StepAlone, StepFacts DEF IInv, SettledInv, TypeInv, Shape
<1>1. PICK i \in Containers : i = Id(p)
  BY <1>0, CallFacts DEF ShapeOf, Id
<1>2. PICK r, d : RowTo(i, r) /\ Moves(p, row[i], r)
  BY <1>0, <1>1, StepRow
<1>3. CASE c # i
  BY <1>2, <1>3 DEF RowTo, Forward, Present
<1>4. CASE c = i
  <2>1. row'[c] = r /\ Moves(p, row[c], r) /\ RowFits(c, row[c], dock[c])
    BY <1>0, <1>2, <1>4 DEF RowTo, RowInv
  <2>2. row[c] # NoRow /\ row'[c] # NoRow => row'[c].owner = row[c].owner
    <3>1. CASE pc[p] = "save"
      BY <1>0, <1>1, <1>4, <3>1 DEF CreateInv, EarlyInv, Early, ShapeOf
    <3>2. CASE pc[p] = "erase"
      BY <2>1, <3>2 DEF Moves
    <3>3. CASE pc[p] \notin {"save", "erase"}
      BY <1>0, <3>3 DEF RowEffect, UpdatesRow
    <3> QED
      BY <3>1, <3>2, <3>3
  <2>3. pc[p] = "save" => dock[c] = "none"
    BY <1>0, <1>1, <1>4 DEF CreateInv, EarlyInv, Early, ShapeOf
  <2>4. pc[p] = "erase" => dock[c] = "gone"
    BY <1>0, <1>1, <1>4 DEF CreateInv, EraseInv
  <2>5. row[c] = NoRow => \/ r = NoRow
                          \/ Placeheld(r) /\ dock[c] = "none"
    BY <2>1, <2>3 DEF Moves, Placeheld, Linked
  <2>6. row[c] # NoRow /\ r = NoRow => Linked(row[c]) /\ dock[c] = "gone"
    BY <2>1, <2>4 DEF Moves, Placeheld, Linked
  <2>7. row[c] # NoRow /\ r # NoRow =>
          /\ row[c].linked => r.linked
          /\ row[c].status = "failed" => r.status = "failed"
          /\ r.status = "pending" => row[c].status = "pending"
    BY <2>1 DEF Moves, Placeheld, Linked, RowFits
  <2> QED
    BY <2>1, <2>2, <2>5, <2>6, <2>7 DEF Forward, Present, Placeheld, Linked
<1> QED
  BY <1>3, <1>4

\* Rows only move forward, whatever overlaps on a container and whatever fails.
THEOREM RowsMoveForward == Spec => RowMovesForward
<1>1. IInv /\ [Next]_vars => [\A c \in Containers : Forward(c)]_vars
  <2> SUFFICES ASSUME IInv, Next, NEW c \in Containers PROVE Forward(c)
    OBVIOUS
  <2>1. ASSUME UNCHANGED row PROVE Forward(c)
    BY <2>1 DEF Forward, Present
  <2>2. ASSUME NEW p \in Procs, Step(p) PROVE Forward(c)
    BY <2>2, StepMovesForward
  <2>3. ASSUME NEW p \in Procs, NEW o \in Owners, NEW i \in Containers,
               \/ \E op \in Control \cup {"stream"} : CallOp(p, op, o, i)
               \/ CallRequest(p, o, i) \/ CallCreate(p, o, i)
        PROVE  Forward(c)
    BY <2>1, <2>3 DEF CallOp, CallRequest, CallCreate
  <2>4. CASE \/ Restart
             \/ \E p \in Procs : Lock(p)
             \/ \E i \in Containers : ProcessExits(i)
    BY <2>1, <2>4 DEF Restart, Lock, ProcessExits
  <2> QED
    BY <2>2, <2>3, <2>4 DEF Next, TakeCreateJob
<1> QED
  BY <1>1, Invariance, PTL DEF Spec, RowMovesForward
=============================================================================

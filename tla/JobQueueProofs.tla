--------------------------- MODULE JobQueueProofs ---------------------------
(***************************************************************************)
(* The safety properties of JobQueue hold for every set of submitters and  *)
(* workers and every queue size.                                           *)
(***************************************************************************)
EXTENDS JobQueue, TLAPS, FiniteSetTheorems

-----------------------------------------------------------------------------
(* Sequences as the channel uses them. *)

\* What a send adds to the buffer: the new task at the end, nothing else.
LEMMA AppendFacts ==
    ASSUME NEW S, NEW s \in Seq(S), NEW x \in S
    PROVE  /\ Append(s, x) \in Seq(S)
           /\ Len(Append(s, x)) = Len(s) + 1
           /\ \A i \in 1..Len(s) : Append(s, x)[i] = s[i]
           /\ Append(s, x)[Len(s) + 1] = x
  OBVIOUS

\* What a receive leaves in the buffer: the rest, one place further up.
LEMMA TailFacts ==
    ASSUME NEW S, NEW s \in Seq(S), s # <<>>
    PROVE  /\ Head(s) \in S
           /\ Head(s) = s[1]
           /\ Tail(s) \in Seq(S)
           /\ Len(s) \in Nat \ {0}
           /\ Len(Tail(s)) = Len(s) - 1
           /\ \A i \in 1..Len(Tail(s)) : Tail(s)[i] = s[i + 1]
  OBVIOUS

-----------------------------------------------------------------------------
(* Types. *)

USE DEF SubmitPCs, Results, WorkerPCs, ClosePCs

\* What an UpdateStatus does to the store: one record changes, its stage stays.
LEMMA UpdateStatusFacts ==
    ASSUME store \in [Jobs -> JobRecord], NEW j \in Jobs,
           NEW st \in Statuses, NEW e \in Errors, UpdateStatus(j, st, e)
    PROVE  /\ store' \in [Jobs -> JobRecord]
           /\ \A k \in Jobs : k # j => store'[k] = store[k]
           /\ ~Known(j) => store'[j] = store[j]
           /\ Known(j) => /\ store'[j].status = st
                          /\ store'[j].error = e
                          /\ store'[j].stage = store[j].stage
<1>1. CASE Known(j)
  <2> DEFINE r == [store[j] EXCEPT !.status = st, !.error = e]
  <2>1. r \in JobRecord /\ r.status = st /\ r.error = e /\ r.stage = store[j].stage
    BY DEF JobRecord
  <2>2. store' = [store EXCEPT ![j] = r]
    BY <1>1 DEF UpdateStatus
  <2> HIDE DEF r
  <2> QED
    BY <1>1, <2>1, <2>2
<1>2. CASE ~Known(j)
  BY <1>2 DEF UpdateStatus
<1> QED
  BY <1>1, <1>2

\* What an UpdateStage does to the store: a stage changes, never a status.
LEMMA UpdateStageFacts ==
    ASSUME store \in [Jobs -> JobRecord], NEW j \in Jobs,
           NEW g \in Stages, UpdateStage(j, g)
    PROVE  /\ store' \in [Jobs -> JobRecord]
           /\ \A k \in Jobs : k # j => store'[k] = store[k]
           /\ store'[j].status = store[j].status
           /\ store'[j].error = store[j].error
<1>1. CASE Known(j)
  <2> DEFINE r == [store[j] EXCEPT !.stage = g]
  <2>1. r \in JobRecord /\ r.status = store[j].status /\ r.error = store[j].error
    BY DEF JobRecord
  <2>2. store' = [store EXCEPT ![j] = r]
    BY <1>1 DEF UpdateStage
  <2> HIDE DEF r
  <2> QED
    BY <2>1, <2>2
<1>2. CASE ~Known(j)
  BY <1>2 DEF UpdateStage
<1> QED
  BY <1>1, <1>2

\* What a Save does to the store: a pending record without an error.
LEMMA SaveFacts ==
    ASSUME store \in [Jobs -> JobRecord], NEW j \in Jobs, Save(j)
    PROVE  /\ store' \in [Jobs -> JobRecord]
           /\ \A k \in Jobs : k # j => store'[k] = store[k]
           /\ store'[j].status = "pending"
           /\ store'[j].error = "none"
<1>1. NewRecord = [status |-> "pending", stage |-> "none", error |-> "none"]
  BY DEF NewRecord, NoRecord
<1> QED
  BY <1>1 DEF Save, JobRecord, Statuses, Stages, Errors

\* What the first task of a worker, and every later one, is.
WorkerInv == \A w \in Workers : wpc[w] \in Executing => wjob[w] \in Jobs

TypeInv == TypeOK /\ WorkerInv

\* NewService starts from a well-typed state.
LEMMA InitType == Init => TypeInv
<1> SUFFICES ASSUME Init PROVE TypeInv
  OBVIOUS
<1>1. tasks \in Seq(Jobs) /\ Len(tasks) <= QueueSize
  BY JobQueueAssumption DEF JobQueueAssumption, Init
<1>2. store \in [Jobs -> JobRecord]
  BY DEF Init, NoRecord, JobRecord, Statuses, Stages, Errors
<1> QED
  BY <1>1, <1>2 DEF Init, TypeInv, TypeOK, WorkerInv, Executing

\* Every step keeps the types, and puts a job into the hands of a worker it starts.
LEMMA NextType == TypeInv /\ [Next]_vars => TypeInv'
<1> SUFFICES ASSUME TypeInv, [Next]_vars PROVE TypeInv'
  OBVIOUS
<1> USE DEF TypeInv, TypeOK, WorkerInv, chanVars, subVars, workVars, Executing
<1>1. ASSUME NEW j \in Jobs, CallSubmit(j) \/ Submit(j) PROVE TypeInv'
  <2>1. CASE CallSubmit(j)
    BY <2>1 DEF CallSubmit, SubmitGoto
  <2>2. CASE SubmitRLock(j)
    BY <2>2 DEF SubmitRLock, SubmitGoto
  <2>3. CASE SubmitCheckClosed(j)
    BY <2>3 DEF SubmitCheckClosed, SubmitReturns, SubmitGoto
  <2>4. CASE SubmitCheckOwner(j)
    BY <2>4 DEF SubmitCheckOwner, SubmitReturns, SubmitGoto
  <2>5. CASE SubmitSave(j)
    BY <2>5, SaveFacts DEF SubmitSave, SubmitGoto
  <2>6. CASE SubmitSend(j)
    <3>1. /\ pc' = [pc EXCEPT ![j] = "unlock"]
          /\ result' = [result EXCEPT ![j] = "accepted"]
          /\ UNCHANGED <<readers, closed, isClosed, store, cpc>>
      BY <2>6 DEF SubmitSend, SubmitReturns, SubmitGoto
    <3>2. CASE Enqueue(j)
      <4>1. /\ tasks' = Append(tasks, j) /\ Len(tasks) < QueueSize
            /\ UNCHANGED <<wpc, wjob>>
        BY <3>2 DEF Enqueue
      <4>2. tasks' \in Seq(Jobs) /\ Len(tasks') <= QueueSize
        BY <4>1, AppendFacts, JobQueueAssumption DEF JobQueueAssumption
      <4> QED
        BY <3>1, <4>1, <4>2
    <3>3. CASE \E w \in Workers : HandTo(w, j)
      BY <3>1, <3>3 DEF HandTo
    <3> QED
      BY <2>6, <3>2, <3>3 DEF SubmitSend
  <2>7. CASE SubmitDefault(j)
    BY <2>7 DEF SubmitDefault, SubmitGoto
  <2>8. CASE SubmitMarkFull(j)
    BY <2>8, UpdateStatusFacts
       DEF SubmitMarkFull, SubmitReturns, SubmitGoto, Statuses, Errors
  <2>9. CASE SubmitRUnlock(j)
    BY <2>9 DEF SubmitRUnlock, SubmitGoto
  <2> QED
    BY <1>1, <2>1, <2>2, <2>3, <2>4, <2>5, <2>6, <2>7, <2>8, <2>9 DEF Submit
<1>2. ASSUME NEW w \in Workers, Worker(w) PROVE TypeInv'
  <2>0. wpc[w] \in Executing => wjob[w] \in Jobs
    OBVIOUS
  <2>1. CASE WorkerReceive(w)
    BY <2>1, TailFacts, JobQueueAssumption DEF WorkerReceive, WorkerGoto
  <2>2. CASE WorkerPark(w)
    BY <2>2 DEF WorkerPark, WorkerGoto
  <2>3. CASE WorkerExit(w)
    BY <2>3 DEF WorkerExit, WorkerGoto
  <2>4. CASE ExecuteBegin(w)
    BY <2>4, <2>0, UpdateStatusFacts DEF ExecuteBegin, WorkerGoto, Statuses, Errors
  <2>5. CASE ExecuteStage(w)
    BY <2>5, <2>0, UpdateStageFacts DEF ExecuteStage, WorkerGoto, Stages
  <2>6. CASE ExecutePullStage(w)
    BY <2>6, <2>0, UpdateStageFacts DEF ExecutePullStage, Stages
  <2>7. CASE OperationReturns(w)
    BY <2>7 DEF OperationReturns, WorkerGoto
  <2>8. CASE ExecuteDone(w)
    BY <2>8, <2>0, UpdateStatusFacts DEF ExecuteDone, WorkerGoto, Statuses, Errors
  <2>9. CASE ExecuteFailed(w)
    BY <2>9, <2>0, UpdateStatusFacts DEF ExecuteFailed, WorkerGoto, Statuses, Errors
  <2>10. CASE ExecuteLog(w)
    BY <2>10 DEF ExecuteLog, WorkerGoto
  <2> QED
    BY <1>2, <2>1, <2>2, <2>3, <2>4, <2>5, <2>6, <2>7, <2>8, <2>9, <2>10
       DEF Worker, WorkerCode
<1>3. ASSUME CallClose \/ Close \/ Finished \/ UNCHANGED vars PROVE TypeInv'
  BY <1>3 DEF CallClose, Close, CloseLocked, CloseMark, CloseChannel, CloseUnlock,
              CloseReturn, CloseGoto, Finished, vars
<1> QED
  BY <1>1, <1>2, <1>3 DEF Next

\* JobQueue is well typed in every reachable state.
THEOREM TypeCorrect == Spec => []TypeOK
<1>1. TypeInv => TypeOK
  BY DEF TypeInv
<1> QED
  BY InitType, NextType, <1>1, PTL DEF Spec

-----------------------------------------------------------------------------
(* The lock: who reads is known from where it is, a writer reads alone, and *)
(* once `closed` is set no submitter is past its check of it.               *)

Reading   == {"check", "own", "save", "send", "full", "unlock"}
PastCheck == {"own", "save", "send", "full"}

ReadersInv == \A j \in Jobs : j \in readers <=> pc[j] \in Reading
WriterInv  == WriterHolds => readers = {}
ClosedInv  == /\ closed <=> cpc \in {"marked", "unlock", "wait", "returned"}
              /\ isClosed <=> cpc \in {"unlock", "wait", "returned"}
              /\ closed => \A j \in Jobs : pc[j] \notin PastCheck

LockInv == ReadersInv /\ WriterInv /\ ClosedInv

\* NewService starts with the lock free and the channel open.
LEMMA InitLock == Init => LockInv
  BY DEF Init, LockInv, ReadersInv, WriterInv, ClosedInv, WriterHolds, Reading, PastCheck

\* Every step keeps to the lock: readers and the writer exclude each other, and
\* nobody is past the check of `closed` once it is set.
LEMMA NextLock == TypeInv /\ LockInv /\ [Next]_vars => LockInv'
<1> SUFFICES ASSUME TypeOK, LockInv, [Next]_vars PROVE LockInv'
  BY DEF TypeInv
<1> USE DEF TypeOK, LockInv, ReadersInv, WriterInv, ClosedInv, WriterHolds, WriterWaits,
            Reading, PastCheck, chanVars, subVars, workVars
<1>1. ASSUME NEW j \in Jobs, CallSubmit(j) \/ Submit(j) PROVE LockInv'
  <2>1. CASE CallSubmit(j)
    BY <2>1 DEF CallSubmit, SubmitGoto
  <2>2. CASE SubmitRLock(j)
    BY <2>2 DEF SubmitRLock, SubmitGoto
  <2>3. CASE SubmitCheckClosed(j)
    BY <2>3 DEF SubmitCheckClosed, SubmitReturns, SubmitGoto
  <2>4. CASE SubmitCheckOwner(j)
    BY <2>4 DEF SubmitCheckOwner, SubmitReturns, SubmitGoto
  <2>5. CASE SubmitSave(j)
    BY <2>5 DEF SubmitSave, SubmitGoto
  <2>6. CASE SubmitSend(j)
    BY <2>6 DEF SubmitSend, SubmitReturns, SubmitGoto
  <2>7. CASE SubmitDefault(j)
    BY <2>7 DEF SubmitDefault, SubmitGoto
  <2>8. CASE SubmitMarkFull(j)
    BY <2>8 DEF SubmitMarkFull, SubmitReturns, SubmitGoto
  <2>9. CASE SubmitRUnlock(j)
    BY <2>9 DEF SubmitRUnlock, SubmitGoto
  <2> QED
    BY <1>1, <2>1, <2>2, <2>3, <2>4, <2>5, <2>6, <2>7, <2>8, <2>9 DEF Submit
<1>2. ASSUME NEW w \in Workers, Worker(w) PROVE LockInv'
  <2>1. UNCHANGED <<pc, readers, closed, isClosed, cpc>>
    BY <1>2 DEF Worker, WorkerCode, WorkerReceive, WorkerPark, WorkerExit, ExecuteBegin,
                ExecuteStage, ExecutePullStage, OperationReturns, ExecuteDone,
                ExecuteFailed, ExecuteLog
  <2> QED
    BY <2>1
<1>3. CASE CallClose \/ CloseUnlock \/ CloseReturn \/ Finished \/ UNCHANGED vars
  BY <1>3 DEF CallClose, CloseUnlock, CloseReturn, CloseGoto, Finished, vars
<1>4. CASE CloseLocked
  BY <1>4 DEF CloseLocked, CloseGoto
<1>5. CASE CloseMark
  BY <1>5 DEF CloseMark, CloseGoto
<1>6. CASE CloseChannel
  BY <1>6 DEF CloseChannel, CloseGoto
<1> QED
  BY <1>1, <1>2, <1>3, <1>4, <1>5, <1>6 DEF Next, Close

\* submit never sends on the channel Close has closed: the read lock that
\* spans its check and its send, and the write lock around close(tasks),
\* exclude it for every number of submitters.
THEOREM NeverSendsOnClosedChannel == Spec => []NoSendOnClosedChannel
<1>1. LockInv => NoSendOnClosedChannel
  BY DEF LockInv, ClosedInv, PastCheck, NoSendOnClosedChannel
<1> QED
  BY InitType, NextType, InitLock, NextLock, <1>1, PTL DEF Spec

-----------------------------------------------------------------------------
(* Answers and records.  Until it decides, a call has no answer; a job has *)
(* a record from the save on; a worker's job is pending until it is begun  *)
(* and running until its outcome is recorded.                              *)

Unsaved  == {"init", "rlock", "check", "own", "save"}
Unbegun  == {"begin"}
Underway == {"stage", "call", "succeeded", "errored"}

StageInv(j) ==
    /\ result[j] # "none" <=> pc[j] \in {"unlock", "end"}
    /\ pc[j] \in Unsaved => store[j].status = "absent"
    /\ pc[j] \in {"send", "full"} => store[j].status = "pending"
    /\ result[j] = "queueFull" => store[j].status = "failed" /\ store[j].error = "queue full"
    /\ result[j] = "accepted" => store[j].status # "absent" /\ store[j].error # "queue full"
    /\ result[j] \in {"closed", "refused"} => store[j].status = "absent"
    /\ pc[j] \in {"send", "full"} => store[j].error # "queue full"

HandInv(w) ==
    /\ wpc[w] \in Executing => result[wjob[w]] = "accepted"
    /\ wpc[w] \in Unbegun => store[wjob[w]].status = "pending"
    /\ wpc[w] \in Underway => store[wjob[w]].status = "running"

QueueInv == \A i \in 1..Len(tasks) : /\ result[tasks[i]] = "accepted"
                                     /\ store[tasks[i]].status = "pending"

NoTwice == /\ \A i, k \in 1..Len(tasks) : tasks[i] = tasks[k] => i = k
           /\ \A v, w \in Workers : wpc[v] \in Executing /\ wpc[w] \in Executing
                                    /\ wjob[v] = wjob[w] => v = w
           /\ \A w \in Workers, i \in 1..Len(tasks) :
                 wpc[w] \in Executing => tasks[i] # wjob[w]

Somewhere(j) == \/ \E i \in 1..Len(tasks) : tasks[i] = j
                \/ \E w \in Workers : Holds(w, j)

NotLost == \A j \in Jobs :
              result[j] = "accepted" /\ store[j].status \notin Terminal => Somewhere(j)

PlaceInv == /\ \A j \in Jobs : StageInv(j)
            /\ \A w \in Workers : HandInv(w)
            /\ QueueInv
            /\ NoTwice
            /\ NotLost

\* NewService starts without jobs.
LEMMA InitPlace == Init => PlaceInv
  BY DEF Init, PlaceInv, StageInv, HandInv, QueueInv, NoTwice, NotLost, Unsaved, Unbegun,
         Underway, Executing, NoRecord

\* The parts of the two invariants as the proofs below cite them.
LEMMA PlaceParts ==
    ASSUME TypeInv, PlaceInv
    PROVE  /\ \A j \in Jobs : StageInv(j)
           /\ \A w \in Workers : HandInv(w)
           /\ QueueInv /\ NoTwice /\ NotLost
           /\ \A w \in Workers : wpc[w] \in Executing => wjob[w] \in Jobs
           /\ tasks \in Seq(Jobs) /\ Len(tasks) \in Nat
           /\ \A i \in 1..Len(tasks) : tasks[i] \in Jobs
  BY DEF TypeInv, TypeOK, WorkerInv, PlaceInv

\* A job whose record, call and answer stay as they are keeps fitting together.
LEMMA StageStays ==
    ASSUME PlaceInv, NEW k \in Jobs,
           store'[k] = store[k], pc'[k] = pc[k], result'[k] = result[k]
    PROVE  StageInv(k)'
<1>1. StageInv(k)
  BY DEF PlaceInv
<1> QED
  BY <1>1 DEF StageInv

\* A submitter's own steps before it sends leave the rest as it is.
LEMMA PlaceSubmit ==
    ASSUME TypeInv, PlaceInv, NEW j \in Jobs,
           \/ CallSubmit(j) \/ SubmitRLock(j) \/ SubmitCheckClosed(j)
           \/ SubmitCheckOwner(j) \/ SubmitDefault(j) \/ SubmitRUnlock(j)
    PROVE  PlaceInv'
<1> USE DEF TypeInv, TypeOK, WorkerInv
<1>1. /\ UNCHANGED <<tasks, store, wpc, wjob>>
      /\ \A k \in Jobs : k # j => pc'[k] = pc[k] /\ result'[k] = result[k]
      /\ result[j] = "accepted" <=> result'[j] = "accepted"
  BY DEF CallSubmit, SubmitRLock, SubmitCheckClosed, SubmitCheckOwner, SubmitDefault,
         SubmitRUnlock, SubmitGoto, SubmitReturns, chanVars, workVars, PlaceInv, StageInv
<1>2. StageInv(j)'
  <2>0. StageInv(j)
    BY DEF PlaceInv
  <2>1. CASE CallSubmit(j) \/ SubmitRLock(j)
    BY <2>0, <2>1, <1>1 DEF CallSubmit, SubmitRLock, SubmitGoto, StageInv, Unsaved
  <2>2. CASE SubmitCheckClosed(j) \/ SubmitCheckOwner(j)
    BY <2>0, <2>2, <1>1
       DEF SubmitCheckClosed, SubmitCheckOwner, SubmitGoto, SubmitReturns, StageInv, Unsaved
  <2>3. CASE SubmitDefault(j) \/ SubmitRUnlock(j)
    BY <2>0, <2>3, <1>1 DEF SubmitDefault, SubmitRUnlock, SubmitGoto, StageInv, Unsaved
  <2> QED
    BY <2>1, <2>2, <2>3
<1>3. \A k \in Jobs : StageInv(k)'
  <2>1. ASSUME NEW k \in Jobs, k # j PROVE StageInv(k)'
    BY <1>1, <2>1, StageStays
  <2> QED
    BY <1>2, <2>1
<1>4. \A w \in Workers : HandInv(w)'
  BY <1>1 DEF PlaceInv, HandInv, Executing, Unbegun, Underway
<1>5. QueueInv'
  BY <1>1 DEF PlaceInv, QueueInv
<1>6. NoTwice'
  BY <1>1 DEF PlaceInv, NoTwice
<1>7. NotLost'
  BY <1>1 DEF PlaceInv, NotLost, Somewhere, Holds
<1> QED
  BY <1>3, <1>4, <1>5, <1>6, <1>7 DEF PlaceInv

\* The save concerns a job that is nowhere yet; so does the mark of a job that
\* the full queue has turned away.
LEMMA PlaceSave ==
    ASSUME TypeInv, PlaceInv, NEW j \in Jobs, SubmitSave(j) \/ SubmitMarkFull(j)
    PROVE  PlaceInv'
<1> USE DEF TypeInv, TypeOK, WorkerInv
<1>1. /\ pc[j] \in {"save", "full"} /\ result[j] = "none"
      /\ UNCHANGED <<tasks, wpc, wjob>>
      /\ \A k \in Jobs : k # j => pc'[k] = pc[k] /\ result'[k] = result[k]
      /\ result'[j] # "accepted"
  BY DEF SubmitSave, SubmitMarkFull, SubmitGoto, SubmitReturns, chanVars, workVars,
         PlaceInv, StageInv
<1>2. /\ \A k \in Jobs : k # j => store'[k] = store[k]
      /\ StageInv(j)'
  <2>1. CASE SubmitSave(j)
    BY <2>1, SaveFacts DEF SubmitSave, SubmitGoto, PlaceInv, StageInv, Unsaved
  <2>2. CASE SubmitMarkFull(j)
    <3>1. Known(j)
      BY <1>1, <2>2 DEF SubmitMarkFull, SubmitGoto, SubmitReturns, PlaceInv, StageInv, Known
    <3>2. UpdateStatus(j, "failed", "queue full")
      BY <2>2 DEF SubmitMarkFull
    <3>3. /\ \A k \in Jobs : k # j => store'[k] = store[k]
          /\ store'[j].status = "failed" /\ store'[j].error = "queue full"
      BY <3>1, <3>2, UpdateStatusFacts DEF Statuses, Errors
    <3> QED
      BY <2>2, <3>3
         DEF SubmitMarkFull, SubmitGoto, SubmitReturns, PlaceInv, StageInv, Unsaved
  <2> QED
    BY <2>1, <2>2
<1>3. \A k \in Jobs : StageInv(k)'
  <2>1. ASSUME NEW k \in Jobs, k # j PROVE StageInv(k)'
    BY <1>1, <1>2, <2>1, StageStays
  <2> QED
    BY <1>2, <2>1
<1>4. \A w \in Workers : wpc[w] \in Executing => wjob[w] # j
  BY <1>1 DEF PlaceInv, HandInv
<1>5. \A w \in Workers : HandInv(w)'
  BY <1>1, <1>2, <1>4 DEF PlaceInv, HandInv, Executing, Unbegun, Underway
<1>6. \A i \in 1..Len(tasks) : tasks[i] \in Jobs /\ tasks[i] # j
  BY <1>1 DEF PlaceInv, QueueInv
<1>7. QueueInv'
  BY <1>1, <1>2, <1>6 DEF PlaceInv, QueueInv
<1>8. NoTwice'
  BY <1>1 DEF PlaceInv, NoTwice
<1>9. NotLost'
  BY <1>1, <1>2 DEF PlaceInv, NotLost, Somewhere, Holds
<1> QED
  BY <1>3, <1>5, <1>7, <1>8, <1>9 DEF PlaceInv

\* The send puts a job that is nowhere in exactly one place.
LEMMA PlaceSend ==
    ASSUME TypeInv, PlaceInv, NEW j \in Jobs, SubmitSend(j)
    PROVE  PlaceInv'
<1>1. /\ pc[j] = "send" /\ result[j] = "none" /\ result'[j] = "accepted"
      /\ store[j].status = "pending" /\ store[j].error # "queue full"
      /\ pc'[j] = "unlock"
      /\ UNCHANGED store
      /\ \A k \in Jobs : k # j => pc'[k] = pc[k] /\ result'[k] = result[k]
  BY PlaceParts DEF TypeInv, TypeOK, SubmitSend, SubmitGoto, SubmitReturns, StageInv
<1>2. \A k \in Jobs : StageInv(k)'
  <2>1. StageInv(j)'
    BY <1>1 DEF StageInv, Unsaved
  <2>2. ASSUME NEW k \in Jobs, k # j PROVE StageInv(k)'
    BY <1>1, <2>2, StageStays
  <2> QED
    BY <2>1, <2>2
<1>3. \A w \in Workers : wpc[w] \in Executing => wjob[w] # j
  BY <1>1, PlaceParts DEF HandInv
<1>4. \A i \in 1..Len(tasks) : tasks[i] \in Jobs /\ tasks[i] # j
  BY <1>1, PlaceParts DEF QueueInv
<1>5. CASE Enqueue(j)
  <2>1. UNCHANGED <<wpc, wjob>> /\ tasks' = Append(tasks, j)
    BY <1>5 DEF Enqueue, workVars
  <2>2. /\ Len(tasks) \in Nat
        /\ Len(tasks') = Len(tasks) + 1
        /\ \A i \in 1..Len(tasks) : tasks'[i] = tasks[i]
        /\ tasks'[Len(tasks) + 1] = j
    BY <2>1, AppendFacts, PlaceParts
  <2>3. \A w \in Workers : HandInv(w)'
    <3> SUFFICES ASSUME NEW w \in Workers PROVE HandInv(w)'
      OBVIOUS
    <3>1. HandInv(w) /\ (wpc[w] \in Executing => wjob[w] \in Jobs)
      BY PlaceParts
    <3> QED
      BY <1>1, <1>3, <2>1, <3>1 DEF HandInv, Executing, Unbegun, Underway
  <2>4. QueueInv'
    <3> SUFFICES ASSUME NEW i \in 1..Len(tasks')
                 PROVE  result'[tasks'[i]] = "accepted" /\ store'[tasks'[i]].status = "pending"
      BY DEF QueueInv
    <3>1. CASE i \in 1..Len(tasks)
      BY <1>1, <1>4, <2>2, <3>1, PlaceParts DEF QueueInv
    <3>2. CASE i = Len(tasks) + 1
      BY <1>1, <2>2, <3>2
    <3> QED
      BY <2>2, <3>1, <3>2
  <2>5. NoTwice'
    <3>1. \A i, k \in 1..Len(tasks') : tasks'[i] = tasks'[k] => i = k
      BY <1>4, <2>2, PlaceParts DEF NoTwice
    <3>2. \A w \in Workers, i \in 1..Len(tasks') :
             wpc'[w] \in Executing => tasks'[i] # wjob'[w]
      BY <1>3, <2>1, <2>2, PlaceParts DEF NoTwice
    <3> QED
      BY <2>1, <3>1, <3>2, PlaceParts DEF NoTwice
  <2>6. NotLost'
    <3> SUFFICES ASSUME NEW k \in Jobs, result'[k] = "accepted", store'[k].status \notin Terminal
                 PROVE  Somewhere(k)'
      BY DEF NotLost
    <3>1. CASE k = j
      BY <2>2, <3>1 DEF Somewhere
    <3>2. CASE k # j
      <4>1. Somewhere(k)
        BY <1>1, <3>2, PlaceParts DEF NotLost
      <4> QED
        BY <2>1, <2>2, <4>1 DEF Somewhere, Holds
    <3> QED
      BY <3>1, <3>2
  <2> QED
    BY <1>2, <2>3, <2>4, <2>5, <2>6 DEF PlaceInv
<1>6. ASSUME NEW w \in Workers, HandTo(w, j) PROVE PlaceInv'
  <2>1. /\ wpc[w] = "parked" /\ wpc'[w] = "begin" /\ wjob'[w] = j
        /\ \A v \in Workers : v # w => wpc'[v] = wpc[v] /\ wjob'[v] = wjob[v]
        /\ UNCHANGED tasks
    BY <1>6 DEF HandTo, TypeInv, TypeOK
  <2>2. \A v \in Workers : HandInv(v)'
    <3> SUFFICES ASSUME NEW v \in Workers PROVE HandInv(v)'
      OBVIOUS
    <3>1. HandInv(v) /\ (wpc[v] \in Executing => wjob[v] \in Jobs)
      BY PlaceParts
    <3> QED
      BY <1>1, <1>3, <2>1, <3>1 DEF HandInv, Executing, Unbegun, Underway
  <2>3. QueueInv'
    BY <1>1, <1>4, <2>1, PlaceParts DEF QueueInv
  <2>4. NoTwice'
    BY <1>3, <1>4, <2>1, PlaceParts DEF NoTwice
  <2>5. \A k \in Jobs : Somewhere(k) => Somewhere(k)'
    BY <2>1 DEF Somewhere, Holds, Executing
  <2>6. Somewhere(j)'
    BY <2>1 DEF Somewhere, Holds, Executing
  <2>7. NotLost'
    BY <1>1, <2>5, <2>6, PlaceParts DEF NotLost
  <2> QED
    BY <1>2, <2>2, <2>3, <2>4, <2>7 DEF PlaceInv
<1> QED
  BY <1>5, <1>6 DEF SubmitSend

\* A receive moves the oldest task from the buffer into the worker's hand.
LEMMA PlaceReceive ==
    ASSUME TypeInv, PlaceInv, NEW w \in Workers, WorkerReceive(w)
    PROVE  PlaceInv'
<1> DEFINE j == Head(tasks)
<1>1. /\ wpc[w] = "recv" /\ wpc'[w] = "begin" /\ wjob'[w] = j
      /\ \A v \in Workers : v # w => wpc'[v] = wpc[v] /\ wjob'[v] = wjob[v]
      /\ UNCHANGED <<pc, result, store>>
      /\ tasks # <<>> /\ tasks' = Tail(tasks)
  BY DEF WorkerReceive, WorkerGoto, subVars, TypeInv, TypeOK
<1>2. /\ j \in Jobs /\ j = tasks[1]
      /\ Len(tasks) \in Nat \ {0}
      /\ Len(tasks') = Len(tasks) - 1
      /\ \A i \in 1..Len(tasks') : tasks'[i] = tasks[i + 1]
  BY <1>1, TailFacts, PlaceParts
<1> HIDE DEF j
<1>3. \A k \in Jobs : StageInv(k)'
  BY <1>1, PlaceParts DEF StageInv
<1>4. result[j] = "accepted" /\ store[j].status = "pending"
  BY <1>2, PlaceParts DEF QueueInv
<1>5. \A v \in Workers : HandInv(v)'
  BY <1>1, <1>4, PlaceParts DEF HandInv, Executing, Unbegun, Underway
<1>6. QueueInv'
  BY <1>1, <1>2, PlaceParts DEF QueueInv
<1>7. NoTwice'
  <2>1. \A i, k \in 1..Len(tasks') : tasks'[i] = tasks'[k] => i = k
    <3> TAKE i, k \in 1..Len(tasks')
    <3>1. i + 1 \in 1..Len(tasks) /\ k + 1 \in 1..Len(tasks)
      BY <1>2
    <3>2. tasks[i + 1] = tasks[k + 1] => i + 1 = k + 1
      BY <3>1, PlaceParts DEF NoTwice
    <3> QED
      BY <1>2, <3>2
  <2>2. \A v \in Workers : v # w /\ wpc[v] \in Executing => wjob[v] # j
    BY <1>2, PlaceParts DEF NoTwice
  <2>3. \A i \in 1..Len(tasks') : tasks'[i] # j
    <3> TAKE i \in 1..Len(tasks')
    <3>1. i + 1 \in 1..Len(tasks) /\ 1 \in 1..Len(tasks) /\ i + 1 # 1
      BY <1>2
    <3>2. tasks[i + 1] # tasks[1]
      BY <3>1, PlaceParts DEF NoTwice
    <3> QED
      BY <1>2, <3>2
  <2>4. \A v \in Workers, i \in 1..Len(tasks') :
           v # w /\ wpc[v] \in Executing => tasks'[i] # wjob[v]
    <3> TAKE v \in Workers, i \in 1..Len(tasks')
    <3>1. i + 1 \in 1..Len(tasks)
      BY <1>2
    <3> QED
      BY <1>2, <3>1, PlaceParts DEF NoTwice
  <2> QED
    BY <1>1, <2>1, <2>2, <2>3, <2>4, PlaceParts DEF NoTwice
<1>8. NotLost'
  <2> SUFFICES ASSUME NEW k \in Jobs, result[k] = "accepted", store[k].status \notin Terminal
               PROVE  Somewhere(k)'
    BY <1>1 DEF NotLost
  <2>1. Somewhere(k)
    BY PlaceParts DEF NotLost
  <2>2. CASE k = j
    BY <1>1, <2>2 DEF Somewhere, Holds, Executing
  <2>3. ASSUME NEW i \in 1..Len(tasks), tasks[i] = k, k # j PROVE Somewhere(k)'
    <3>1. i # 1
      BY <1>2, <2>3
    <3>2. i - 1 \in 1..Len(tasks') /\ tasks'[i - 1] = k
      BY <1>2, <2>3, <3>1
    <3> QED
      BY <3>2 DEF Somewhere
  <2>4. ASSUME NEW v \in Workers, Holds(v, k) PROVE Somewhere(k)'
    BY <1>1, <2>4 DEF Somewhere, Holds, Executing
  <2> QED
    BY <2>1, <2>2, <2>3, <2>4 DEF Somewhere
<1> QED
  BY <1>3, <1>5, <1>6, <1>7, <1>8 DEF PlaceInv

\* A worker that parks, leaves, logs or comes back from an operation keeps in
\* its hand what it had.
LEMMA PlaceWorkerMoves ==
    ASSUME TypeInv, PlaceInv, NEW w \in Workers,
           WorkerPark(w) \/ WorkerExit(w) \/ ExecuteLog(w) \/ OperationReturns(w)
    PROVE  PlaceInv'
<1>1. /\ UNCHANGED <<pc, result, store, tasks, wjob>>
      /\ \A v \in Workers : /\ wpc'[v] \in Executing <=> wpc[v] \in Executing
                            /\ wpc'[v] \in Unbegun <=> wpc[v] \in Unbegun
                            /\ wpc'[v] \in Underway <=> wpc[v] \in Underway
  BY DEF WorkerPark, WorkerExit, ExecuteLog, OperationReturns, WorkerGoto, subVars, chanVars,
         TypeInv, TypeOK, Executing, Unbegun, Underway
<1>2. (\A k \in Jobs : StageInv(k)') /\ QueueInv'
  BY <1>1, PlaceParts DEF StageInv, QueueInv
<1>3. \A v \in Workers : HandInv(v)'
  BY <1>1, PlaceParts DEF HandInv
<1>4. NoTwice'
  BY <1>1, PlaceParts DEF NoTwice
<1>5. NotLost'
  BY <1>1, PlaceParts DEF NotLost, Somewhere, Holds
<1> QED
  BY <1>2, <1>3, <1>4, <1>5 DEF PlaceInv

\* The steps of execute on the record of the job in hand.
LEMMA PlaceExecute ==
    ASSUME TypeInv, PlaceInv, NEW w \in Workers,
           \/ ExecuteBegin(w) \/ ExecuteStage(w) \/ ExecutePullStage(w)
           \/ ExecuteDone(w) \/ ExecuteFailed(w)
    PROVE  PlaceInv'
<1>1. /\ UNCHANGED <<pc, result, tasks, wjob>>
      /\ wpc[w] \in Executing
      /\ \A v \in Workers : v # w => wpc'[v] = wpc[v]
  BY DEF ExecuteBegin, ExecuteStage, ExecutePullStage, ExecuteDone, ExecuteFailed,
         WorkerGoto, subVars, chanVars, workVars, TypeInv, TypeOK, Executing
<1>0. PICK j \in Jobs : j = wjob[w]
  BY <1>1, PlaceParts
<1>2. result[j] = "accepted" /\ Known(j)
  BY <1>0, <1>1, PlaceParts DEF HandInv, StageInv, Known
<1>3. /\ \A k \in Jobs : k # j => store'[k] = store[k]
      /\ store'[j].error # "queue full"
      /\ \/ wpc'[w] \in Underway /\ store'[j].status = "running"
         \/ wpc'[w] = "log" /\ store'[j].status \in Terminal
  <2> USE DEF TypeInv, TypeOK
  <2>0. store[j].error # "queue full"
    BY <1>2, PlaceParts DEF StageInv
  <2>1. CASE ExecuteBegin(w)
    <3>1. UpdateStatus(j, "running", "none")
      BY <1>0, <2>1 DEF ExecuteBegin
    <3>2. wpc'[w] \in Underway
      BY <2>1 DEF ExecuteBegin, WorkerGoto, Underway
    <3> QED
      BY <1>2, <3>1, <3>2, UpdateStatusFacts DEF Statuses, Errors, Terminal
  <2>2. CASE ExecuteStage(w)
    <3>1. store[j].status = "running"
      BY <1>0, <2>2, PlaceParts DEF ExecuteStage, WorkerGoto, HandInv, Underway
    <3>2. UpdateStage(j, "creating") /\ wpc'[w] \in Underway
      BY <1>0, <2>2 DEF ExecuteStage, WorkerGoto, Underway
    <3> QED
      BY <1>2, <2>0, <3>1, <3>2, UpdateStageFacts DEF Stages
  <2>3. CASE ExecutePullStage(w)
    <3>1. store[j].status = "running"
      BY <1>0, <2>3, PlaceParts DEF ExecutePullStage, HandInv, Underway
    <3>2. UpdateStage(j, "pulling") /\ wpc'[w] \in Underway
      BY <1>0, <2>3 DEF ExecutePullStage, workVars, Underway
    <3> QED
      BY <1>2, <2>0, <3>1, <3>2, UpdateStageFacts DEF Stages
  <2>4. CASE ExecuteDone(w)
    <3>1. UpdateStatus(j, "done", "none")
      BY <1>0, <2>4 DEF ExecuteDone
    <3>2. wpc'[w] = "log"
      BY <2>4 DEF ExecuteDone, WorkerGoto
    <3> QED
      BY <1>2, <3>1, <3>2, UpdateStatusFacts DEF Statuses, Errors, Terminal
  <2>5. CASE ExecuteFailed(w)
    <3>1. UpdateStatus(j, "failed", "operation")
      BY <1>0, <2>5 DEF ExecuteFailed
    <3>2. wpc'[w] = "log"
      BY <2>5 DEF ExecuteFailed, WorkerGoto
    <3> QED
      BY <1>2, <3>1, <3>2, UpdateStatusFacts DEF Statuses, Errors, Terminal
  <2> QED
    BY <2>1, <2>2, <2>3, <2>4, <2>5
<1>4. store'[j].status # "absent"
  BY <1>3 DEF Terminal
<1>5. \A k \in Jobs : StageInv(k)'
  <2>1. StageInv(j)'
    <3>1. result[j] = "accepted" /\ pc[j] \in {"unlock", "end"}
      BY <1>2, PlaceParts DEF StageInv
    <3>2. /\ result'[j] = "accepted" /\ pc'[j] \in {"unlock", "end"}
          /\ store'[j].error # "queue full"
      BY <1>1, <1>3, <3>1
    <3> QED
      BY <1>4, <3>2 DEF StageInv, Unsaved
  <2>2. ASSUME NEW k \in Jobs, k # j PROVE StageInv(k)'
    <3>1. store'[k] = store[k] /\ pc'[k] = pc[k] /\ result'[k] = result[k]
      BY <1>1, <1>3, <2>2
    <3> QED
      BY <3>1, StageStays
  <2> QED
    BY <2>1, <2>2
<1>6. \A v \in Workers : v # w /\ wpc[v] \in Executing => wjob[v] # j
  BY <1>0, <1>1, PlaceParts DEF NoTwice
<1>7. \A v \in Workers : HandInv(v)'
  <2>1. HandInv(w)'
    BY <1>0, <1>1, <1>2, <1>3 DEF HandInv, Executing, Unbegun, Underway
  <2>2. ASSUME NEW v \in Workers, v # w PROVE HandInv(v)'
    <3>1. wpc[v] \in Executing => store'[wjob[v]] = store[wjob[v]]
      BY <1>3, <1>6, <2>2, PlaceParts
    <3> QED
      BY <1>1, <2>2, <3>1, PlaceParts DEF HandInv, Executing, Unbegun, Underway
  <2> QED
    BY <2>1, <2>2
<1>8. QueueInv'
  <2>1. \A i \in 1..Len(tasks) : tasks[i] # j
    BY <1>0, <1>1, PlaceParts DEF NoTwice
  <2> QED
    BY <1>1, <1>3, <2>1, PlaceParts DEF QueueInv
<1>9. NoTwice'
  <2>1. \A v \in Workers : wpc'[v] \in Executing => wpc[v] \in Executing
    BY <1>1
  <2> QED
    BY <1>1, <2>1, PlaceParts DEF NoTwice
<1>10. NotLost'
  <2> SUFFICES ASSUME NEW k \in Jobs, result[k] = "accepted", store'[k].status \notin Terminal
               PROVE  Somewhere(k)'
    BY <1>1 DEF NotLost
  <2>1. CASE k = j
    BY <1>0, <1>1, <1>3, <2>1 DEF Somewhere, Holds, Executing, Underway
  <2>2. CASE k # j
    <3>1. Somewhere(k)
      BY <1>3, <2>2, PlaceParts DEF NotLost
    <3> QED
      BY <1>0, <1>1, <2>2, <3>1 DEF Somewhere, Holds
  <2> QED
    BY <2>1, <2>2
<1> QED
  BY <1>5, <1>7, <1>8, <1>9, <1>10 DEF PlaceInv

\* Every step keeps answers, records and places in agreement.
LEMMA NextPlace == TypeInv /\ PlaceInv /\ [Next]_vars => PlaceInv'
<1> SUFFICES ASSUME TypeInv, PlaceInv, [Next]_vars PROVE PlaceInv'
  OBVIOUS
<1>1. CASE CallClose \/ Close \/ Finished \/ UNCHANGED vars
  <2>1. UNCHANGED <<pc, result, store, tasks, wpc, wjob>>
    BY <1>1 DEF CallClose, Close, CloseLocked, CloseMark, CloseChannel, CloseUnlock,
                CloseReturn, Finished, vars, subVars, chanVars, workVars
  <2>2. (\A j \in Jobs : StageInv(j)') /\ (\A w \in Workers : HandInv(w)') /\ QueueInv'
    BY <2>1, PlaceParts DEF StageInv, HandInv, QueueInv
  <2>3. NoTwice' /\ NotLost'
    BY <2>1, PlaceParts DEF NoTwice, NotLost, Somewhere, Holds
  <2> QED
    BY <2>2, <2>3 DEF PlaceInv
<1>2. ASSUME NEW j \in Jobs, CallSubmit(j) \/ Submit(j) PROVE PlaceInv'
  BY <1>2, PlaceSubmit, PlaceSave, PlaceSend DEF Submit
<1>3. ASSUME NEW w \in Workers, Worker(w) PROVE PlaceInv'
  BY <1>3, PlaceReceive, PlaceWorkerMoves, PlaceExecute DEF Worker, WorkerCode
<1> QED
  BY <1>1, <1>2, <1>3 DEF Next

-----------------------------------------------------------------------------
(* A worker that has left did so over a closed and empty channel, which    *)
(* stays empty because no submitter is past its check any more.            *)

ExitInv == /\ \A w \in Workers : wpc[w] = "exited" => isClosed /\ tasks = <<>>
           /\ cpc = "returned" => \A w \in Workers : wpc[w] = "exited"

\* NewService starts with all workers in their loop.
LEMMA InitExit == Init => ExitInv
  BY DEF Init, ExitInv

\* A worker leaves only over a closed and empty channel, and it stays empty.
LEMMA NextExit == TypeInv /\ LockInv /\ ExitInv /\ [Next]_vars => ExitInv'
<1> SUFFICES ASSUME TypeInv, LockInv, ExitInv, [Next]_vars PROVE ExitInv'
  OBVIOUS
<1> USE DEF ExitInv, subVars, chanVars, workVars
<1>1. CASE CallClose \/ CloseLocked \/ CloseMark \/ CloseUnlock \/ CloseReturn
           \/ Finished \/ UNCHANGED vars
  BY <1>1 DEF CallClose, CloseLocked, CloseMark, CloseUnlock, CloseReturn, CloseGoto,
              Finished, vars
<1>2. CASE CloseChannel
  BY <1>2 DEF CloseChannel, CloseGoto
<1>3. ASSUME NEW j \in Jobs, CallSubmit(j) \/ Submit(j) PROVE ExitInv'
  <2>1. CASE SubmitSend(j)
    <3>1. \A w \in Workers : wpc[w] # "exited"
      BY <2>1 DEF SubmitSend, SubmitReturns, SubmitGoto, LockInv, ClosedInv, PastCheck
    <3>2. \A w \in Workers : wpc'[w] # "exited"
      BY <2>1, <3>1 DEF SubmitSend, Enqueue, HandTo, TypeInv, TypeOK
    <3>3. CASE Workers = {}
      BY <3>3
    <3>4. CASE Workers # {}
      BY <2>1, <3>1, <3>2, <3>4 DEF SubmitSend
    <3> QED
      BY <3>3, <3>4
  <2>2. CASE ~SubmitSend(j)
    <3>1. UNCHANGED <<tasks, isClosed, wpc, cpc>>
      BY <1>3, <2>2 DEF CallSubmit, Submit, SubmitRLock, SubmitCheckClosed, SubmitCheckOwner,
                        SubmitSave, SubmitDefault, SubmitMarkFull, SubmitRUnlock
    <3> QED
      BY <3>1
  <2> QED
    BY <2>1, <2>2
<1>4. ASSUME NEW w \in Workers, Worker(w) PROVE ExitInv'
  <2> USE DEF TypeInv, TypeOK
  <2>1. CASE WorkerReceive(w)
    BY <2>1 DEF WorkerReceive, WorkerGoto
  <2>2. CASE WorkerExit(w)
    BY <2>2 DEF WorkerExit, WorkerGoto
  <2>3. CASE ~WorkerReceive(w) /\ ~WorkerExit(w)
    <3>1. /\ UNCHANGED <<tasks, isClosed, cpc>>
          /\ wpc[w] # "exited" /\ wpc'[w] # "exited"
          /\ \A v \in Workers : v # w => wpc'[v] = wpc[v]
      BY <1>4, <2>3 DEF Worker, WorkerCode, WorkerPark, ExecuteBegin, ExecuteStage,
                        ExecutePullStage, OperationReturns, ExecuteDone, ExecuteFailed,
                        ExecuteLog, WorkerGoto
    <3> QED
      BY <3>1
  <2> QED
    BY <2>1, <2>2, <2>3
<1> QED
  BY <1>1, <1>2, <1>3, <1>4 DEF Next, Close

-----------------------------------------------------------------------------
(* The invariant as a whole, and what follows from it. *)

IInv == TypeInv /\ LockInv /\ PlaceInv /\ ExitInv

\* The inductive invariant of the job service holds in every reachable state.
THEOREM Invariance == Spec => []IInv
<1>1. Init => IInv
  BY InitType, InitLock, InitPlace, InitExit DEF IInv
<1>2. IInv /\ [Next]_vars => IInv'
  BY NextType, NextLock, NextPlace, NextExit DEF IInv
<1> QED
  BY <1>1, <1>2, PTL DEF Spec

\* What submit has answered agrees with the record of the job for ever after.
THEOREM AnswersAgree == Spec => []AnswerMatchesRecord
<1>1. IInv => AnswerMatchesRecord
  BY DEF IInv, PlaceInv, StageInv, AnswerMatchesRecord, Known
<1> QED
  BY <1>1, Invariance, PTL

\* An accepted job is neither lost nor duplicated before it ends, and no other
\* job is ever in the hands of the service.
THEOREM AcceptedInOnePlace == Spec => []AcceptedJobInOnePlace
<1>1. ASSUME IInv PROVE AcceptedJobInOnePlace
  <2> USE <1>1
  <2>0. TypeInv /\ PlaceInv
    BY DEF IInv
  <2>1. ASSUME NEW j \in Jobs, Somewhere(j)
        PROVE  /\ result[j] = "accepted" /\ store[j].status \notin Terminal
               /\ Cardinality(Places(j)) = 1
    <3>1. CASE \E i \in 1..Len(tasks) : tasks[i] = j
      <4>1. PICK i \in 1..Len(tasks) : tasks[i] = j
        BY <3>1
      <4>2. Places(j) = {i}
        BY <2>0, <4>1, PlaceParts DEF Places, Holds, NoTwice
      <4> QED
        BY <2>0, <4>1, <4>2, PlaceParts, FS_Singleton DEF QueueInv, Terminal
    <3>2. CASE \E w \in Workers : Holds(w, j)
      <4>1. PICK w \in Workers : Holds(w, j)
        BY <3>2
      <4>2. Places(j) = {w}
        BY <2>0, <4>1, PlaceParts DEF Places, Holds, NoTwice
      <4>3. result[j] = "accepted" /\ store[j].status \notin Terminal
        BY <2>0, <4>1, PlaceParts
           DEF Holds, HandInv, Executing, Unbegun, Underway, Terminal
      <4> QED
        BY <4>2, <4>3, FS_Singleton
    <3> QED
      BY <2>1, <3>1, <3>2 DEF Somewhere
  <2>2. ASSUME NEW j \in Jobs, ~Somewhere(j) PROVE Places(j) = {}
    BY <2>2 DEF Places, Somewhere
  <2>3. \A j \in Jobs : result[j] = "accepted" /\ store[j].status \notin Terminal
                         => Somewhere(j)
    BY <2>0, PlaceParts DEF NotLost
  <2> QED
    BY <2>1, <2>2, <2>3 DEF AcceptedJobInOnePlace
<1> QED
  BY <1>1, Invariance, PTL

\* When all workers have left, nothing is pending or running.
LEMMA NothingLeft ==
    ASSUME IInv, Workers # {}, \A w \in Workers : wpc[w] = "exited", NEW j \in Jobs
    PROVE  store[j].status \notin {"pending", "running"}
<1> SUFFICES ASSUME store[j].status \in {"pending", "running"} PROVE FALSE
  OBVIOUS
<1>0. TypeInv /\ PlaceInv
  BY DEF IInv
<1>1. tasks = <<>> /\ isClosed
  BY DEF IInv, ExitInv
<1>2. ~Somewhere(j)
  BY <1>1 DEF Somewhere, Holds, Executing
<1>3. result[j] # "accepted"
  BY <1>0, <1>2, PlaceParts DEF NotLost, Terminal
<1>4. pc[j] \notin {"send", "full"}
  BY <1>1 DEF IInv, LockInv, ClosedInv, PastCheck
<1>5. pc[j] \in SubmitPCs /\ result[j] \in Results
  BY <1>0 DEF TypeInv, TypeOK
<1> QED
  BY <1>0, <1>3, <1>4, <1>5, PlaceParts DEF StageInv, Unsaved

\* When Close returns, nothing is pending or running, provided that there is a
\* worker at all (nothing in the configuration demands one).
THEOREM CloseDrains == ASSUME Workers # {} PROVE Spec => []DrainedOnReturn
<1>1. ASSUME IInv PROVE DrainedOnReturn
  BY <1>1, NothingLeft DEF DrainedOnReturn, IInv, ExitInv
<1> QED
  BY <1>1, Invariance, PTL

-----------------------------------------------------------------------------
(* What a step does to the records, and the contract a client sees.        *)

\* One step changes the status of at most one job: it is submitted or rejected,
\* begun or ended.  No step changes a record that has ended.
RecordStep(j) ==
    /\ \A k \in Jobs : k # j => store'[k] = store[k]
    /\ \/ store[j].status = "absent" /\ pc[j] = "save" /\ store'[j].status = "pending"
       \/ store[j].status = "pending" /\ pc[j] = "full" /\ store'[j].status = "failed"
       \/ /\ store[j].status = "pending" /\ store'[j].status = "running"
          /\ \E w \in Workers : wpc[w] = "begin" /\ wjob[w] = j
       \/ store[j].status = "running" /\ store'[j].status \in {"running", "done", "failed"}

\* Every step leaves the records alone or is one of these.
LEMMA RecordSteps ==
    ASSUME TypeInv, PlaceInv, [Next]_vars
    PROVE  UNCHANGED store \/ (UNCHANGED cpc /\ UNCHANGED isClosed /\ \E j \in Jobs : RecordStep(j))
<1> USE DEF TypeInv, TypeOK, subVars, chanVars, workVars
<1>1. CASE CallClose \/ Close \/ Finished \/ UNCHANGED vars
  BY <1>1 DEF CallClose, Close, CloseLocked, CloseMark, CloseChannel, CloseUnlock,
              CloseReturn, Finished, vars
<1>2. ASSUME NEW j \in Jobs, CallSubmit(j) \/ Submit(j)
      PROVE  UNCHANGED store \/ (UNCHANGED cpc /\ UNCHANGED isClosed /\ RecordStep(j))
  <2>1. CASE SubmitSave(j)
    <3>1. pc[j] = "save" /\ store[j].status = "absent"
      BY <2>1, PlaceParts DEF SubmitSave, SubmitGoto, StageInv, Unsaved
    <3> QED
      BY <2>1, <3>1, SaveFacts DEF SubmitSave, RecordStep
  <2>2. CASE SubmitMarkFull(j)
    <3>1. pc[j] = "full" /\ store[j].status = "pending"
      BY <2>2, PlaceParts DEF SubmitMarkFull, SubmitReturns, SubmitGoto, StageInv
    <3>2. UpdateStatus(j, "failed", "queue full") /\ UNCHANGED <<cpc, isClosed>>
      BY <2>2 DEF SubmitMarkFull
    <3>3. Known(j)
      BY <3>1 DEF Known
    <3> QED
      BY <3>1, <3>2, <3>3, UpdateStatusFacts DEF RecordStep, Statuses, Errors
  <2>3. CASE ~SubmitSave(j) /\ ~SubmitMarkFull(j)
    BY <1>2, <2>3 DEF CallSubmit, Submit, SubmitRLock, SubmitCheckClosed, SubmitCheckOwner,
                      SubmitSend, SubmitDefault, SubmitRUnlock
  <2> QED
    BY <2>1, <2>2, <2>3
<1>3. ASSUME NEW w \in Workers, Worker(w)
      PROVE  UNCHANGED store
             \/ (UNCHANGED cpc /\ UNCHANGED isClosed /\ \E j \in Jobs : RecordStep(j))
  <2>1. CASE WorkerReceive(w) \/ WorkerPark(w) \/ WorkerExit(w) \/ OperationReturns(w)
             \/ ExecuteLog(w)
    BY <2>1 DEF WorkerReceive, WorkerPark, WorkerExit, OperationReturns, ExecuteLog
  <2>2. CASE ExecuteBegin(w) \/ ExecuteStage(w) \/ ExecutePullStage(w)
             \/ ExecuteDone(w) \/ ExecuteFailed(w)
    <3>1. UNCHANGED <<cpc, isClosed>> /\ wpc[w] \in Executing
      BY <2>2 DEF ExecuteBegin, ExecuteStage, ExecutePullStage, ExecuteDone, ExecuteFailed,
                  WorkerGoto, Executing
    <3>2. PICK j \in Jobs : j = wjob[w]
      BY <3>1, PlaceParts
    <3>3. CASE ExecuteBegin(w)
      <4>1. wpc[w] = "begin" /\ store[j].status = "pending"
        BY <3>2, <3>3, PlaceParts DEF ExecuteBegin, WorkerGoto, HandInv, Unbegun
      <4>2. RecordStep(j)
        BY <3>2, <3>3, <4>1, UpdateStatusFacts
           DEF ExecuteBegin, RecordStep, Known, Statuses, Errors
      <4> QED
        BY <3>1, <4>2
    <3>4. CASE ~ExecuteBegin(w)
      <4>1. store[j].status = "running"
        BY <2>2, <3>2, <3>4, PlaceParts
           DEF ExecuteStage, ExecutePullStage, ExecuteDone, ExecuteFailed, WorkerGoto,
               HandInv, Underway
      <4>2. CASE ExecuteStage(w) \/ ExecutePullStage(w)
        BY <3>1, <3>2, <4>1, <4>2, UpdateStageFacts
           DEF ExecuteStage, ExecutePullStage, RecordStep, Stages
      <4>3. CASE ExecuteDone(w) \/ ExecuteFailed(w)
        BY <3>1, <3>2, <4>1, <4>3, UpdateStatusFacts
           DEF ExecuteDone, ExecuteFailed, RecordStep, Known, Statuses, Errors
      <4> QED
        BY <2>2, <3>4, <4>2, <4>3
    <3> QED
      BY <3>3, <3>4
  <2> QED
    BY <1>3, <2>1, <2>2 DEF Worker, WorkerCode
<1> QED
  BY <1>1, <1>2, <1>3 DEF Next

\* A polling client sees a job move forward only, and nothing once it has ended.
THEOREM RecordsMoveForward == Spec => RecordMovesForward
<1> DEFINE Forward ==
      \A j \in Jobs :
         /\ store[j].status # store'[j].status =>
                store'[j].status \in NextStatuses(store[j].status)
         /\ store[j].status \in Terminal => store'[j] = store[j]
<1>1. ASSUME IInv, [Next]_vars PROVE Forward
  <2>1. UNCHANGED store \/ \E j \in Jobs : RecordStep(j)
    BY <1>1, RecordSteps DEF IInv
  <2>2. ASSUME NEW j \in Jobs, RecordStep(j) PROVE Forward
    BY <2>2 DEF RecordStep, NextStatuses, Terminal
  <2> QED
    BY <2>1, <2>2
<1>2. ASSUME IInv, [Next]_vars PROVE [Forward]_vars
  BY <1>1, <1>2
<1> QED
  BY <1>2, Invariance, PTL DEF Spec, RecordMovesForward

\* A running job is in the hands of a worker; two are in different hands.
LEMMA RunningInHand ==
    ASSUME TypeInv, PlaceInv, NEW j \in Jobs, store[j].status = "running"
    PROVE  \E w \in Workers : wpc[w] \in Underway /\ wjob[w] = j
<1>1. result[j] = "accepted"
  BY PlaceParts DEF StageInv, Unsaved, TypeInv, TypeOK
<1>2. Somewhere(j)
  BY <1>1, PlaceParts DEF NotLost, Terminal
<1>3. \A i \in 1..Len(tasks) : tasks[i] # j
  BY PlaceParts DEF QueueInv
<1>4. PICK w \in Workers : Holds(w, j)
  BY <1>2, <1>3 DEF Somewhere
<1>5. wpc[w] \in Underway
  BY <1>4, PlaceParts DEF Holds, HandInv, Executing, Unbegun, Underway
<1> QED
  BY <1>4, <1>5 DEF Holds

\* A worker that begins a job leaves room for it: fewer jobs are running than
\* there are workers.
LEMMA RoomToRun ==
    ASSUME TypeInv, PlaceInv, IsFiniteSet(Workers),
           NEW w \in Workers, wpc[w] = "begin"
    PROVE  Cardinality(Contract!Running) < Cardinality(Workers)
<1> DEFINE Others == Workers \ {w}
           Hands  == {wjob[v] : v \in Others}
<1>1. /\ IsFiniteSet(Others)
      /\ Cardinality(Others) = Cardinality(Workers) - 1
      /\ Cardinality(Workers) \in Nat
  BY FS_RemoveElement, FS_CardinalityType
<1>2. IsFiniteSet(Hands) /\ Cardinality(Hands) <= Cardinality(Others)
  <2>1. [v \in Others |-> wjob[v]] \in Surjection(Others, Hands)
    BY DEF Surjection
  <2> QED
    BY <1>1, <2>1, FS_Surjection
<1>3. Contract!Running \subseteq Hands
  BY RunningInHand DEF Contract!Running, phase, Underway
<1>4. /\ Cardinality(Contract!Running) <= Cardinality(Hands)
      /\ IsFiniteSet(Contract!Running)
  BY <1>2, <1>3, FS_Subset
<1>5. Cardinality(Contract!Running) \in Nat /\ Cardinality(Hands) \in Nat
      /\ Cardinality(Others) \in Nat
  BY <1>1, <1>2, <1>4, FS_CardinalityType
<1> HIDE DEF Others, Hands
<1> QED
  BY <1>1, <1>2, <1>4, <1>5

\* Every step of the service is a step of its contract, or none the client sees.
LEMMA ContractStep ==
    ASSUME IInv, [Next]_vars, IsFiniteSet(Workers), Workers # {}
    PROVE  [Contract!Next]_<<phase, service>>
<1>0. TypeInv /\ LockInv /\ PlaceInv /\ ExitInv
  BY DEF IInv
<1>1. CASE UNCHANGED <<store, cpc, isClosed>>
  BY <1>1 DEF phase, service
<1>2. ASSUME NEW j \in Jobs, RecordStep(j), UNCHANGED <<cpc, isClosed>>
      PROVE  [Contract!Next]_<<phase, service>>
  <2>1. /\ UNCHANGED service
        /\ phase' = [phase EXCEPT ![j] = store'[j].status]
        /\ phase[j] = store[j].status
    BY <1>2 DEF service, phase, RecordStep
  <2>2. pc[j] \in {"save", "full"} => service = "open"
    BY <1>0 DEF LockInv, ClosedInv, PastCheck, service
  <2>3. CASE store[j].status = "absent" /\ pc[j] = "save" /\ store'[j].status = "pending"
    BY <2>1, <2>2, <2>3 DEF Contract!Next, Contract!Accept, Contract!Move
  <2>4. CASE store[j].status = "pending" /\ pc[j] = "full" /\ store'[j].status = "failed"
    BY <2>1, <2>2, <2>4 DEF Contract!Next, Contract!Reject, Contract!Move
  <2>5. CASE /\ store[j].status = "pending" /\ store'[j].status = "running"
             /\ \E w \in Workers : wpc[w] = "begin" /\ wjob[w] = j
    <3>1. Cardinality(Contract!Running) < Cardinality(Workers)
      BY <1>0, <2>5, RoomToRun
    <3>2. Contract!Cardinality(Contract!Running) = Cardinality(Contract!Running)
      BY DEF Contract!Cardinality, Cardinality
    <3> QED
      BY <2>1, <2>5, <3>1, <3>2 DEF Contract!Next, Contract!Start, Contract!Move
  <2>6. CASE store[j].status = "running" /\ store'[j].status = "running"
    BY <2>1, <2>6 DEF phase
  <2>7. CASE store[j].status = "running" /\ store'[j].status \in {"done", "failed"}
    BY <2>1, <2>7 DEF Contract!Next, Contract!Finish, Contract!Move
  <2> QED
    BY <1>2, <2>3, <2>4, <2>5, <2>6, <2>7 DEF RecordStep
<1>3. CASE CloseChannel
  <2>1. UNCHANGED store /\ service = "open" /\ service' = "closing"
    BY <1>0, <1>3 DEF CloseChannel, CloseGoto, service, LockInv, ClosedInv
  <2> QED
    BY <2>1 DEF Contract!Next, Contract!BeginClose, phase
<1>4. CASE CloseReturn
  <2>1. UNCHANGED store /\ service = "closing" /\ service' = "closed"
    BY <1>0, <1>4 DEF CloseReturn, CloseGoto, service, LockInv, ClosedInv
  <2>2. \A j \in Jobs : store[j].status \notin {"pending", "running"}
    BY <1>4, NothingLeft DEF CloseReturn
  <2>3. Contract!Unfinished = {}
    BY <2>2 DEF Contract!Unfinished, phase
  <2> QED
    BY <2>1, <2>3 DEF Contract!Next, Contract!EndClose, phase
<1>5. CASE UNCHANGED store /\ ~CloseChannel /\ ~CloseReturn
  <2>1. UNCHANGED service
    <3>1. CASE CallClose \/ CloseLocked \/ CloseMark \/ CloseUnlock
      BY <1>0, <3>1 DEF CallClose, CloseLocked, CloseMark, CloseUnlock, CloseGoto, service,
                        chanVars
    <3>2. CASE ~(CallClose \/ CloseLocked \/ CloseMark \/ CloseUnlock)
      <4>1. UNCHANGED <<cpc, isClosed>>
        BY <1>5, <3>2
           DEF Next, Close, Finished, vars, chanVars, workVars, subVars,
               CallSubmit, Submit, SubmitRLock, SubmitCheckClosed, SubmitCheckOwner,
               SubmitSave, SubmitSend, SubmitDefault, SubmitMarkFull, SubmitRUnlock,
               Worker, WorkerCode, WorkerReceive, WorkerPark, WorkerExit, ExecuteBegin,
               ExecuteStage, ExecutePullStage, OperationReturns, ExecuteDone,
               ExecuteFailed, ExecuteLog
      <4> QED
        BY <4>1 DEF service
    <3> QED
      BY <3>1, <3>2
  <2> QED
    BY <1>5, <2>1 DEF phase
<1> QED
  BY <1>0, <1>2, <1>3, <1>4, <1>5, RecordSteps

\* For a finite pool of at least one worker the job service implements the
\* safety part of its contract: no job is taken on while it is closing, no more
\* run than there are workers, and it is closed only with nothing left to do.
THEOREM ImplementsContractSafely ==
    ASSUME IsFiniteSet(Workers), Workers # {}
    PROVE  Spec => Contract!SafetySpec
<1>1. Init => Contract!Init
  BY DEF Init, Contract!Init, phase, service, NoRecord
<1>2. IInv /\ [Next]_vars => [Contract!Next]_<<phase, service>>
  BY ContractStep
<1> QED
  BY <1>1, <1>2, Invariance, PTL DEF Spec, Contract!SafetySpec, Contract!cvars
=============================================================================

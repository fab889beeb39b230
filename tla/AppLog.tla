------------------------------- MODULE AppLog -------------------------------
(***************************************************************************)
(* The operational log of container-api (internal/applog) and the clients  *)
(* that tail it over a WebSocket (internal/wsstream/applogs.go).  WriteLog *)
(* queues an entry; one goroutine stores the queued entries in memory,     *)
(* appends them to a JSON-lines file and hands them to the registered      *)
(* tails; ClearLogs rewrites the file; Close drains the queue.  The file   *)
(* outlives the process, which may be killed and started again at any      *)
(* point, and a write to it may fail or stop short.                        *)
(*                                                                         *)
(* One member of Writes is one call of WriteLog and the entry it makes;    *)
(* one member of Clears is one call of ClearLogs.                          *)
(***************************************************************************)
EXTENDS Naturals, Sequences, FiniteSets

CONSTANTS Writes,       \* calls of WriteLog, and the entries they make
          Clears,       \* calls of ClearLogs
          Tails,        \* WebSocket connections that tail the log
          QueueSize,    \* capacity of the queue
          BufferSize,   \* capacity of a tail's buffer (clientBufferSize)
          MaxFaults,    \* bound on failed file operations
          MaxRestarts   \* bound on restarts of the process

ASSUME AppLogAssumption ==
       /\ QueueSize \in Nat \ {0} /\ BufferSize \in Nat \ {0}
       /\ MaxFaults \in Nat /\ MaxRestarts \in Nat
       /\ {"free", "run"} \cap Clears = {}

VARIABLES wpc,       \* call of WriteLog -> where it is
          result,    \* call of WriteLog -> what it returned in this process
          stamped,   \* the entries in the order of their timestamps
          readers,   \* the calls that hold stateMu for reading
          closed,    \* Manager.closed; the queue is closed with it
          queue,     \* the queued entries, oldest first
          run,       \* where the write loop is
          current,   \* the entries the write loop has in hand: at most one
          todo,      \* tails the write loop has yet to call for it
          mu,        \* who holds mu: "free", "run" or a call of ClearLogs
          entries,   \* Manager.entries
          file,      \* what has been written to the file, write by write
          cpc,       \* call of ClearLogs -> where it is
          kept,      \* call of ClearLogs -> what it still has to rewrite
          older,     \* call of ClearLogs -> what it has removed
          tpc,       \* tail -> "out", "on" (registered) or "gone"
          buffer,    \* tail -> entries it has yet to send
          sent,      \* tail -> entries it has sent to its client
          close,     \* where the call of Close is
          earlier,   \* call of WriteLog -> the calls that had ended when it was made
          cleared,   \* entries removed by a ClearLogs that succeeded
          unwritten, \* entries a failed file operation was to write
          faults, restarts

writeVars == <<wpc, result, stamped, readers, earlier>>
runVars   == <<run, current, todo>>
clearVars == <<cpc, kept, older, cleared>>
tailVars  == <<tpc, buffer, sent>>
diskVars  == <<file, unwritten, faults>>

vars == <<writeVars, closed, queue, runVars, mu, entries, clearVars, tailVars,
          diskVars, close, restarts>>

-----------------------------------------------------------------------------
WritePCs == {"idle", "rlock", "check", "send", "unlock", "end", "killed"}
Results  == {"none", "ok", "closed"}
RunPCs   == {"recv", "lock", "write", "handlers", "handle", "exited"}
ClearPCs == {"idle", "lock", "truncate", "rewrite", "ok", "error", "killed"}
ClosePCs == {"idle", "lock", "wait", "returned"}
Cuts     == {"none", "newline", "part"}

\* One write to the file: a whole line, a line without its newline, or less.
Chunk(e, cut) == [entry |-> e, cut |-> cut]

Elements(s) == {s[i] : i \in 1..Len(s)}

\* What is left of s when only the places in keep stay.
Pick(s, keep) ==
    LET upTo[i \in 0..Len(s)] ==
          IF i = 0 THEN <<>>
          ELSE IF i \in keep THEN Append(upTo[i - 1], s[i]) ELSE upTo[i - 1]
    IN  upTo[Len(s)]

\* A failure of the file system.
Fault == faults < MaxFaults /\ faults' = faults + 1

-----------------------------------------------------------------------------
(* loadEntries: a line is whatever stands between two newlines.  It is     *)
(* skipped unless it is one JSON value; the last one needs no newline.     *)

StartsLine(f, i) == i = 1 \/ f[i - 1].cut = "none"

Readable(f, i) == /\ StartsLine(f, i)
                  /\ \/ f[i].cut = "none"
                     \/ f[i].cut = "newline" /\ i = Len(f)

\* The entries of the writes to a file, one by one.
Written(f) == [i \in 1..Len(f) |-> f[i].entry]

\* Faulty variant: loading ends at the first line that cannot be read.
LoadToFirstError(f) ==
    Pick(Written(f), {i \in 1..Len(f) : \A k \in 1..i : Readable(f, k)})

Load(f) == Pick(Written(f), {i \in 1..Len(f) : Readable(f, i)})

-----------------------------------------------------------------------------
\* NewManager on a new file.
Init == /\ wpc = [w \in Writes |-> "idle"]
        /\ result = [w \in Writes |-> "none"]
        /\ stamped = <<>> /\ readers = {} /\ closed = FALSE /\ queue = <<>>
        /\ run = "recv" /\ current = {} /\ todo = {} /\ mu = "free"
        /\ entries = <<>> /\ file = <<>>
        /\ cpc = [c \in Clears |-> "idle"]
        /\ kept = [c \in Clears |-> <<>>]
        /\ older = [c \in Clears |-> {}]
        /\ tpc = [t \in Tails |-> "out"]
        /\ buffer = [t \in Tails |-> <<>>]
        /\ sent = [t \in Tails |-> <<>>]
        /\ close = "idle"
        /\ earlier = [w \in Writes |-> {}]
        /\ cleared = {} /\ unwritten = {} /\ faults = 0 /\ restarts = 0

-----------------------------------------------------------------------------
(* WriteLog.                                                               *)

WriteGoto(w, from, to) == wpc[w] = from /\ wpc' = [wpc EXCEPT ![w] = to]

CallWrite(w) ==
    /\ WriteGoto(w, "idle", "rlock")
    /\ earlier' = [earlier EXCEPT ![w] = {v \in Writes : wpc[v] \in {"end", "killed"}}]
    /\ UNCHANGED <<result, stamped, readers, closed, queue, runVars, mu, entries,
                   clearVars, tailVars, diskVars, close, restarts>>

\* A Close that waits for the lock keeps new readers out.
WriteRLock(w) ==
    /\ close # "lock"
    /\ WriteGoto(w, "rlock", "check")
    /\ readers' = readers \cup {w}
    /\ UNCHANGED <<result, stamped, earlier, closed, queue, runVars, mu, entries,
                   clearVars, tailVars, diskVars, close, restarts>>

\* newEntry takes the time as the argument of the send is evaluated.
WriteCheck(w) ==
    /\ IF closed
       THEN /\ WriteGoto(w, "check", "unlock")
            /\ result' = [result EXCEPT ![w] = "closed"]
            /\ UNCHANGED stamped
       ELSE /\ WriteGoto(w, "check", "send")
            /\ stamped' = Append(stamped, w)
            /\ UNCHANGED result
    /\ UNCHANGED <<readers, earlier, closed, queue, runVars, mu, entries,
                   clearVars, tailVars, diskVars, close, restarts>>

\* The send waits while the queue is full, under the read lock.
WriteSend(w) ==
    /\ Len(queue) < QueueSize
    /\ WriteGoto(w, "send", "unlock")
    /\ queue' = Append(queue, w)
    /\ result' = [result EXCEPT ![w] = "ok"]
    /\ UNCHANGED <<stamped, readers, earlier, closed, runVars, mu, entries,
                   clearVars, tailVars, diskVars, close, restarts>>

\* Faulty variant: the call returns without giving the read lock up.
WriteEndLocked(w) ==
    /\ WriteGoto(w, "unlock", "end")
    /\ UNCHANGED <<result, stamped, readers, earlier, closed, queue, runVars, mu,
                   entries, clearVars, tailVars, diskVars, close, restarts>>

WriteRUnlock(w) ==
    /\ WriteGoto(w, "unlock", "end")
    /\ readers' = readers \ {w}
    /\ UNCHANGED <<result, stamped, earlier, closed, queue, runVars, mu, entries,
                   clearVars, tailVars, diskVars, close, restarts>>

Write(w) == WriteRLock(w) \/ WriteCheck(w) \/ WriteSend(w) \/ WriteRUnlock(w)

-----------------------------------------------------------------------------
(* The write loop.                                                         *)

RunGoto(from, to) == run = from /\ run' = to

\* Faulty variant: the entry stays in the queue until it has been handled.
RunReceivePeek ==
    /\ queue # <<>>
    /\ RunGoto("recv", "lock")
    /\ current' = {Head(queue)}
    /\ UNCHANGED <<writeVars, closed, queue, todo, mu, entries, clearVars, tailVars,
                   diskVars, close, restarts>>

RunReceive ==
    /\ queue # <<>>
    /\ RunGoto("recv", "lock")
    /\ current' = {Head(queue)}
    /\ queue' = Tail(queue)
    /\ UNCHANGED <<writeVars, closed, todo, mu, entries, clearVars, tailVars,
                   diskVars, close, restarts>>

\* Faulty variant: the loop ends as soon as the queue is closed.
RunQuit ==
    /\ closed
    /\ RunGoto("recv", "exited")
    /\ UNCHANGED <<writeVars, closed, queue, current, todo, mu, entries,
                   clearVars, tailVars, diskVars, close, restarts>>

RunExit ==
    /\ closed /\ queue = <<>>
    /\ RunGoto("recv", "exited")
    /\ UNCHANGED <<writeVars, closed, queue, current, todo, mu, entries,
                   clearVars, tailVars, diskVars, close, restarts>>

\* Faulty variant: the entry is stored without mu.
RunStoreUnlocked ==
    /\ RunGoto("lock", "write")
    /\ \E e \in current : entries' = Append(entries, e)
    /\ UNCHANGED <<writeVars, closed, queue, current, todo, mu, clearVars,
                   tailVars, diskVars, close, restarts>>

RunStore ==
    /\ mu = "free" /\ mu' = "run"
    /\ RunGoto("lock", "write")
    /\ \E e \in current : entries' = Append(entries, e)
    /\ UNCHANGED <<writeVars, closed, queue, current, todo, clearVars,
                   tailVars, diskVars, close, restarts>>

\* The error of this Write is discarded, and so is how far it got.
RunWrite ==
    /\ RunGoto("write", "handlers")
    /\ mu' = "free"
    /\ \E e \in current :
         \/ file' = Append(file, Chunk(e, "none")) /\ UNCHANGED <<unwritten, faults>>
         \/ /\ Fault
            /\ unwritten' = unwritten \cup {e}
            /\ \/ UNCHANGED file
               \/ \E cut \in Cuts \ {"none"} : file' = Append(file, Chunk(e, cut))
    /\ UNCHANGED <<writeVars, closed, queue, current, todo, entries, clearVars,
                   tailVars, close, restarts>>

\* handlersMu is held for reading while todo is worked through.
RunHandlers ==
    /\ RunGoto("handlers", "handle")
    /\ todo' = {t \in Tails : tpc[t] = "on"}
    /\ UNCHANGED <<writeVars, closed, queue, current, mu, entries, clearVars,
                   tailVars, diskVars, close, restarts>>

\* Faulty variant: the handler waits for room in its buffer.
RunHandleWaiting(t) ==
    /\ run = "handle" /\ t \in todo
    /\ todo' = todo \ {t}
    /\ Len(buffer[t]) < BufferSize
    /\ \E e \in current : buffer' = [buffer EXCEPT ![t] = Append(@, e)]
    /\ UNCHANGED <<writeVars, closed, queue, run, current, mu, entries, clearVars,
                   tpc, sent, diskVars, close, restarts>>

\* The handler ServeAppLogs registers drops what its buffer has no room for.
RunHandle(t) ==
    /\ run = "handle" /\ t \in todo
    /\ todo' = todo \ {t}
    /\ \E e \in current :
         buffer' = IF Len(buffer[t]) < BufferSize
                   THEN [buffer EXCEPT ![t] = Append(@, e)] ELSE buffer
    /\ UNCHANGED <<writeVars, closed, queue, run, current, mu, entries, clearVars,
                   tpc, sent, diskVars, close, restarts>>

RunNext ==
    /\ todo = {}
    /\ RunGoto("handle", "recv")
    /\ current' = {}
    /\ UNCHANGED <<writeVars, closed, queue, todo, mu, entries, clearVars,
                   tailVars, diskVars, close, restarts>>

Run == \/ RunReceive \/ RunExit \/ RunStore \/ RunWrite \/ RunHandlers
       \/ (\E t \in Tails : RunHandle(t)) \/ RunNext

-----------------------------------------------------------------------------
(* ClearLogs.                                                              *)

ClearGoto(c, from, to) == cpc[c] = from /\ cpc' = [cpc EXCEPT ![c] = to]

CallClear(c) ==
    /\ ClearGoto(c, "idle", "lock")
    /\ UNCHANGED <<writeVars, closed, queue, runVars, mu, entries, kept, older,
                   cleared, tailVars, diskVars, close, restarts>>

\* Strictly before the given time are some of the entries made so far.
Before(k) == {stamped[i] : i \in 1..k}

ClearFilter(c) ==
    /\ mu = "free" /\ mu' = c
    /\ ClearGoto(c, "lock", "truncate")
    /\ \E k \in 0..Len(stamped) :
         LET stays == {i \in 1..Len(entries) : entries[i] \notin Before(k)}
         IN  /\ entries' = Pick(entries, stays)
             /\ kept' = [kept EXCEPT ![c] = Pick(entries, stays)]
             /\ older' = [older EXCEPT ![c] = Elements(entries) \cap Before(k)]
    /\ UNCHANGED <<writeVars, closed, queue, runVars, cleared, tailVars,
                   diskVars, close, restarts>>

\* The call returns an error: what it was still to write is not in the file.
ClearFails(c, from) ==
    /\ ClearGoto(c, from, "error")
    /\ mu' = "free"
    /\ unwritten' = unwritten \cup Elements(kept[c])
    /\ UNCHANGED <<kept, older, cleared>>

FileOpen == close # "returned"

\* Truncate and Seek.  When the former fails, the file is as it was.
ClearTruncate(c) ==
    /\ \/ /\ FileOpen
          /\ ClearGoto(c, "truncate", "rewrite")
          /\ file' = <<>>
          /\ UNCHANGED <<unwritten, faults, mu, kept, older, cleared>>
       \/ ClearFails(c, "truncate") /\ FileOpen /\ Fault /\ file' \in {file, <<>>}
       \/ ClearFails(c, "truncate") /\ ~FileOpen /\ UNCHANGED <<file, faults>>
    /\ UNCHANGED <<writeVars, closed, queue, runVars, entries, tailVars, close,
                   restarts>>

\* Faulty variant: the removed entries are written back as well.
ClearRewriteAll(c) ==
    /\ kept[c] # <<>>
    /\ ClearGoto(c, "rewrite", "rewrite")
    /\ file' = [i \in 1..Len(stamped) |-> Chunk(stamped[i], "none")]
    /\ kept' = [kept EXCEPT ![c] = <<>>]
    /\ UNCHANGED <<writeVars, closed, queue, runVars, entries, tailVars, close,
                   restarts, unwritten, faults, mu, older, cleared>>

\* Faulty variant: the newest entry is written back first.
ClearRewriteBackwards(c) ==
    /\ kept[c] # <<>>
    /\ ClearGoto(c, "rewrite", "rewrite")
    /\ file' = Append(file, Chunk(kept[c][Len(kept[c])], "none"))
    /\ kept' = [kept EXCEPT ![c] = SubSeq(@, 1, Len(@) - 1)]
    /\ UNCHANGED <<writeVars, closed, queue, runVars, entries, tailVars, close,
                   restarts, unwritten, faults, mu, older, cleared>>

ClearRewrite(c) ==
    /\ kept[c] # <<>>
    /\ \/ /\ FileOpen
          /\ ClearGoto(c, "rewrite", "rewrite")
          /\ file' = Append(file, Chunk(Head(kept[c]), "none"))
          /\ kept' = [kept EXCEPT ![c] = Tail(@)]
          /\ UNCHANGED <<unwritten, faults, mu, older, cleared>>
       \/ /\ ClearFails(c, "rewrite") /\ FileOpen /\ Fault
          /\ \/ UNCHANGED file
             \/ \E cut \in Cuts \ {"none"} :
                  file' = Append(file, Chunk(Head(kept[c]), cut))
       \/ ClearFails(c, "rewrite") /\ ~FileOpen /\ UNCHANGED <<file, faults>>
    /\ UNCHANGED <<writeVars, closed, queue, runVars, entries, tailVars, close,
                   restarts>>

\* The file has been rewritten from the start: nothing is missing any more.
ClearReturn(c) ==
    /\ kept[c] = <<>>
    /\ ClearGoto(c, "rewrite", "ok")
    /\ mu' = "free"
    /\ cleared' = cleared \cup older[c]
    /\ unwritten' = {}
    /\ UNCHANGED <<writeVars, closed, queue, runVars, entries, kept, older,
                   tailVars, file, faults, close, restarts>>

Clear(c) == ClearFilter(c) \/ ClearTruncate(c) \/ ClearRewrite(c) \/ ClearReturn(c)

-----------------------------------------------------------------------------
(* ServeAppLogs: a connection registers its handler, sends what the        *)
(* handler has buffered, and unregisters when the client goes.             *)

\* RegisterLogHandler and unregister take handlersMu, which the write loop
\* holds for reading while it calls the handlers.
HandlersFree == run # "handle"

Register(t) ==
    /\ HandlersFree /\ tpc[t] = "out"
    /\ tpc' = [tpc EXCEPT ![t] = "on"]
    /\ UNCHANGED <<writeVars, closed, queue, runVars, mu, entries, clearVars,
                   buffer, sent, diskVars, close, restarts>>

TailSend(t) ==
    /\ tpc[t] = "on" /\ buffer[t] # <<>>
    /\ sent' = [sent EXCEPT ![t] = Append(@, Head(buffer[t]))]
    /\ buffer' = [buffer EXCEPT ![t] = Tail(@)]
    /\ UNCHANGED <<writeVars, closed, queue, runVars, mu, entries, clearVars,
                   tpc, diskVars, close, restarts>>

\* Faulty variant: unregister does not wait for the write loop.
UnregisterUnlocked(t) ==
    /\ tpc[t] = "on"
    /\ tpc' = [tpc EXCEPT ![t] = "gone"]
    /\ UNCHANGED <<writeVars, closed, queue, runVars, mu, entries, clearVars,
                   buffer, sent, diskVars, close, restarts>>

Unregister(t) ==
    /\ HandlersFree /\ tpc[t] = "on"
    /\ tpc' = [tpc EXCEPT ![t] = "gone"]
    /\ UNCHANGED <<writeVars, closed, queue, runVars, mu, entries, clearVars,
                   buffer, sent, diskVars, close, restarts>>

-----------------------------------------------------------------------------
(* Close, called once, by main: the queue is closed under stateMu, the     *)
(* file without mu.                                                        *)

CloseGoto(from, to) == close = from /\ close' = to

CallClose ==
    /\ CloseGoto("idle", "lock")
    /\ UNCHANGED <<writeVars, closed, queue, runVars, mu, entries, clearVars,
                   tailVars, diskVars, restarts>>

\* Faulty variant: Close does not wait for the calls that hold the read lock.
CloseBarge ==
    /\ CloseGoto("lock", "wait")
    /\ closed' = TRUE
    /\ UNCHANGED <<writeVars, queue, runVars, mu, entries, clearVars, tailVars,
                   diskVars, restarts>>

CloseQueue ==
    /\ readers = {}
    /\ CloseGoto("lock", "wait")
    /\ closed' = TRUE
    /\ UNCHANGED <<writeVars, queue, runVars, mu, entries, clearVars, tailVars,
                   diskVars, restarts>>

CloseFile ==
    /\ run = "exited"
    /\ CloseGoto("wait", "returned")
    /\ UNCHANGED <<writeVars, closed, queue, runVars, mu, entries, clearVars,
                   tailVars, diskVars, restarts>>

Close == CloseQueue \/ CloseFile

-----------------------------------------------------------------------------
\* The process ends, at any point, and NewManager opens the file again.
Restart ==
    /\ restarts < MaxRestarts /\ restarts' = restarts + 1
    /\ entries' = Load(file)
    /\ wpc' = [w \in Writes |-> IF wpc[w] \in {"idle", "end"} THEN wpc[w] ELSE "killed"]
    /\ result' = [w \in Writes |-> "none"]
    /\ readers' = {} /\ closed' = FALSE /\ queue' = <<>>
    /\ run' = "recv" /\ current' = {} /\ todo' = {} /\ mu' = "free"
    /\ cpc' = [c \in Clears |-> IF cpc[c] \in {"idle", "ok", "error"} THEN cpc[c] ELSE "killed"]
    /\ kept' = [c \in Clears |-> <<>>]
    /\ tpc' = [t \in Tails |-> IF tpc[t] = "on" THEN "gone" ELSE tpc[t]]
    /\ close' = "idle"
    /\ unwritten' = {}
    /\ UNCHANGED <<stamped, earlier, older, cleared, buffer, sent, file, faults>>

\* Every call has returned; only a process that has closed its log ends.
Finished == /\ \A w \in Writes : wpc[w] \in {"end", "killed"}
            /\ \A c \in Clears : cpc[c] \in {"ok", "error", "killed"}
            /\ \A t \in Tails : tpc[t] = "gone"
            /\ close = "returned"
            /\ UNCHANGED vars

Next == \/ \E w \in Writes : CallWrite(w) \/ Write(w)
        \/ Run
        \/ \E c \in Clears : CallClear(c) \/ Clear(c)
        \/ \E t \in Tails : Register(t) \/ TailSend(t) \/ Unregister(t)
        \/ CallClose \/ Close
        \/ Restart
        \/ Finished

Spec == Init /\ [][Next]_vars

\* Goroutines that can run do run, locks and channels serve those that wait,
\* and the file system answers.  Nobody has to call WriteLog, ClearLogs or
\* Close, and a client need not take what is sent to it.
FairSpec == /\ Spec
            /\ \A w \in Writes : WF_vars(WriteRLock(w) \/ WriteCheck(w) \/ WriteRUnlock(w))
            /\ \A w \in Writes : SF_vars(WriteSend(w))
            /\ SF_vars(RunStore) /\ WF_vars(Run)
            /\ \A c \in Clears : SF_vars(ClearFilter(c)) /\ WF_vars(Clear(c))
            /\ WF_vars(Close)

-----------------------------------------------------------------------------
(* Properties.                                                             *)

\* The stored entries and the control state are of their types, and mu is
\* held by the write loop or the ClearLogs that is working on the file.
TypeOK ==
    /\ wpc \in [Writes -> WritePCs] /\ result \in [Writes -> Results]
    /\ stamped \in Seq(Writes) /\ readers \subseteq Writes
    /\ closed \in BOOLEAN /\ queue \in Seq(Writes) /\ Len(queue) <= QueueSize
    /\ run \in RunPCs /\ current \subseteq Writes /\ Cardinality(current) <= 1
    /\ todo \subseteq Tails
    /\ mu \in {"free", "run"} \cup Clears
    /\ mu = "run" <=> run = "write"
    /\ \A c \in Clears : mu = c <=> cpc[c] \in {"truncate", "rewrite"}
    /\ entries \in Seq(Writes)
    /\ file \in Seq([entry : Writes, cut : Cuts])
    /\ cpc \in [Clears -> ClearPCs] /\ kept \in [Clears -> Seq(Writes)]
    /\ older \in [Clears -> SUBSET Writes]
    /\ tpc \in [Tails -> {"out", "on", "gone"}]
    /\ buffer \in [Tails -> Seq(Writes)] /\ \A t \in Tails : Len(buffer[t]) <= BufferSize
    /\ sent \in [Tails -> Seq(Writes)]
    /\ close \in ClosePCs
    /\ earlier \in [Writes -> SUBSET Writes]
    /\ cleared \subseteq Writes /\ unwritten \subseteq Writes
    /\ faults \in 0..MaxFaults /\ restarts \in 0..MaxRestarts

\* The entries of s are distinct, and none comes before that of a call which had
\* ended, by its return or with its process, when the entry's own call was made.
InCallOrder(s) == \A i, j \in 1..Len(s) :
                     i < j => s[i] # s[j] /\ s[j] \notin earlier[s[i]]

\* No WriteLog that found the log open sends on a queue that Close has closed
\* meanwhile: Close waits for every call that holds the read lock.
WriteNeverPanics == \A w \in Writes : wpc[w] = "send" => ~closed

\* ReadLogs finds every entry once, and an entry after those of the calls that
\* had ended when it was written: also when the log was cleared meanwhile, and
\* what was loaded from the file before what this process has written.
StoredInCallOrder == InCallOrder(entries)

\* A tail gets every entry at most once, in that order too, whatever it drops.
TailInCallOrder == \A t \in Tails : InCallOrder(sent[t] \o buffer[t])

\* While mu is free the file holds what memory holds.  A file operation that
\* fails costs the entries it was to write, what it left on an unfinished line,
\* and the one entry that is appended to that line, even if a restart has loaded
\* the former: nothing else in memory is missing from the file.
Torn(e) == \E i \in 1..Len(file) :
              /\ file[i].entry = e
              /\ file[i].cut # "none" \/ ~StartsLine(file, i)

FileKeepsUp ==
    mu = "free" =>
      /\ faults = 0 /\ (\A c \in Clears : cpc[c] # "error") => Load(file) = entries
      /\ \A e \in Elements(entries) \ Elements(Load(file)) : e \in unwritten \/ Torn(e)

\* What a successful ClearLogs has removed never comes back, neither in memory
\* nor from the file after a restart.
ClearedStaysCleared == cleared \cap (Elements(entries) \cup Elements(Load(file))) = {}

\* When Close has returned, every entry WriteLog accepted in this process has
\* been stored; it is still there unless a ClearLogs removed it.
AcceptedIsStored ==
    close = "returned" =>
      \A w \in Writes : result[w] = "ok" =>
         w \in Elements(entries) \cup UNION {older[c] : c \in Clears}

\* Once unregister has returned, the handler is not called again.
UnregisteredIsSilent == [][\A t \in Tails : tpc[t] = "gone" => buffer'[t] = buffer[t]]_vars

\* WriteLog returns, or its process ends, even though the queue is bounded and
\* no client takes what is sent to it.
WriteReturns == \A w \in Writes : wpc[w] = "rlock" ~> wpc[w] \in {"end", "killed"}

\* Close returns, or the process ends: the queue drains and nobody keeps the
\* write lock from Close.
CloseReturns == close = "lock" ~> close \in {"returned", "idle"}
=============================================================================

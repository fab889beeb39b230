------------------------------- MODULE Uploads -------------------------------
(***************************************************************************)
(* File uploads: the four endpoints under /uploads (internal/handler,      *)
(* upload_handler.go), the upload service (internal/upload), its table     *)
(* (internal/repository) and its directory, and the middlewares every      *)
(* request passes (internal/middleware).  A Save writes the file first and *)
(* its row second; each of the two may fail, the clean-up may fail, and    *)
(* the process may be restarted at any point.  Files and rows survive.     *)
(***************************************************************************)
EXTENDS Naturals, Sequences, FiniteSets

CONSTANTS Requests,  \* requests the server can have in hand
          Uploads,   \* upload IDs newID can hand out
          Owners,    \* API-key owners
          NoUpload,  \* the ID of a request that has none yet
          MaxFaults  \* bound on failed calls, panics and restarts

ASSUME UploadsAssumption == /\ NoUpload \notin Uploads
                            /\ MaxFaults \in Nat

VARIABLES row,       \* the uploads table: ID -> its row
          file,      \* the upload directory: ID -> its file
          issued,    \* IDs that newID has handed out
          request,   \* request -> where it is and what it knows
          faults,    \* failures and restarts so far
          \* What has happened, for the properties:
          shared,    \* uploads that are public because their owner asked for it
          entitled,  \* <<request, upload>> shared at some time during the request
          answered,  \* uploads answered with 201
          mishap     \* upload -> how its Save was broken, if it was

store   == <<row, file, issued>>
history == <<shared, entitled, answered, mishap>>
vars == <<store, request, faults, history>>

-----------------------------------------------------------------------------
Visibilities == {"private", "public"}
Requested    == Visibilities \cup {"", "invalid"}  \* what a client may ask for
Ops          == {"upload", "list", "download", "visibility"}

NoRow == [visibility |-> "none"]
Rows  == [owner : Owners, visibility : Visibilities]

FileStates == {"none", "partial", "complete"}

Calls  == [op : Ops, owner : Owners, id : Uploads \cup {NoUpload},
           vis : Requested]
NoCall == [op |-> "none"]

Errors   == {"none", "notFound", "forbidden", "invalid", "other"}
Statuses == {200, 201, 400, 401, 403, 404, 500}

HandlerSteps == {"auth", "receive", "write", "insert", "remove", "query",
                 "find", "serve", "check", "update", "reread"}
Places       == HandlerSteps \cup {"idle", "error", "logging", "sent"}

RequestStates ==
    [at       : Places,
     call     : Calls \cup {NoCall},
     status   : Statuses,         \* the status the response carries
     err      : Errors,           \* what the handler attached with c.Error
     logged   : Statuses,         \* the status in the "request end" log line
     revealed : SUBSET Uploads]   \* uploads whose data goes to the client

Idle == [at |-> "idle", call |-> NoCall, status |-> 200, err |-> "none",
         logged |-> 200, revealed |-> {}]

At(r, p) == request[r].at = p
Call(r)  == request[r].call
Id(r)    == request[r].call.id

\* A request that has created a file and not yet settled its fate.
Saving(r) == request[r].at \in {"write", "insert", "remove"}

\* Faulty variant: whoever knows the ID reads the upload.
MayReadAny(o, u) == row[u] # NoRow

\* The owner of an upload, and everybody if it is public, may read it.
MayRead(o, u) == row[u] # NoRow /\ (row[u].owner = o \/ row[u].visibility = "public")

-----------------------------------------------------------------------------
(* Steps of a request. *)

\* Faulty variant: Error is registered first and wraps Logging.
RegisteredErrorFirst == <<"error", "logging">>

\* The middlewares in the order router.Use names them: each wraps the next.
\* Auth comes inside both, and does nothing once its handler is done.
Registered == <<"logging", "error">>

\* The code of the innermost middleware after c.Next() runs first.
Innermost == Registered[Len(Registered)]

\* What runs when middleware m is done.
Outer(m) == LET i == CHOOSE i \in DOMAIN Registered : Registered[i] = m
            IN  IF i = 1 THEN "sent" ELSE Registered[i - 1]

Goes(r, from, to) ==
    At(r, from) /\ request' = [request EXCEPT ![r].at = to]

\* The handler is done, having set status s and attached error e.
Returns(r, from, s, e) ==
    /\ At(r, from)
    /\ request' = [request EXCEPT ![r].at = Innermost, ![r].status = s,
                                  ![r].err = e]

Answers(r, from, s) == Returns(r, from, s, "none")

\* A handler that attaches an error sets no status: gin's 200 stands.
Fails(r, from, e) == Returns(r, from, 200, e)

\* The handler answers with the data of the uploads us.
Reveals(r, from, us) ==
    /\ At(r, from)
    /\ request' = [request EXCEPT ![r].at = Innermost, ![r].status = 200,
                                  ![r].revealed = us]

Fault   == faults < MaxFaults /\ faults' = faults + 1
NoFault == UNCHANGED faults

\* The owner of u makes it public: from now on whoever is asking may see it.
Shares(u) ==
    /\ shared' = shared \cup {u}
    /\ entitled' = entitled \cup
                     {<<r, u>> : r \in {r \in Requests : ~At(r, "idle")}}

\* The Save of u has gone wrong in way m; the first mishap counts.
Mishap(u, m) ==
    mishap' = IF mishap[u] = "none" THEN [mishap EXCEPT ![u] = m] ELSE mishap

-----------------------------------------------------------------------------
Init == /\ row = [u \in Uploads |-> NoRow]
        /\ file = [u \in Uploads |-> "none"]
        /\ issued = {}
        /\ request = [r \in Requests |-> Idle]
        /\ faults = 0
        /\ shared = {}
        /\ entitled = {}
        /\ answered = {}
        /\ mishap = [u \in Uploads |-> "none"]

\* A request arrives: what it asks for depends on its operation.
Arrives(r, c) ==
    /\ At(r, "idle")
    /\ c.op \in {"upload", "list"} <=> c.id = NoUpload
    /\ c.op \in {"list", "download"} => c.vis = ""
    /\ request' = [request EXCEPT ![r] = [Idle EXCEPT !.at = "auth", !.call = c]]
    /\ entitled' = entitled \cup {<<r, u>> : u \in shared}
    /\ UNCHANGED <<store, faults, shared, answered, mishap>>

FirstStep(op) == CASE op = "upload"     -> "receive"
                   [] op = "list"       -> "query"
                   [] op = "download"   -> "find"
                   [] op = "visibility" -> "check"

\* Auth: the key stands for the owner of the call; a missing or unknown key, and a lookup
\* that fails, are refused.
Authenticate(r) ==
    /\ \/ Goes(r, "auth", FirstStep(Call(r).op))
       \/ Answers(r, "auth", 401)
    /\ UNCHANGED <<store, faults, history>>

-----------------------------------------------------------------------------
(* POST /uploads. *)

\* Everything that may be wrong before a file exists: no "file" field, an
\* invalid visibility, a file name with a path in it, a content type that is
\* not allowed, a directory or a file that cannot be created.
RefuseUpload(r) ==
    /\ At(r, "receive")
    /\ \/ Answers(r, "receive", 400)
       \/ Call(r).vis = "invalid" /\ Fails(r, "receive", "invalid")
       \/ Call(r).vis # "invalid" /\ Fails(r, "receive", "other")
    /\ UNCHANGED <<store, faults, history>>

CreateFile(r, u) ==
    /\ At(r, "receive") /\ Call(r).vis # "invalid"
    /\ u \notin issued
    /\ issued' = issued \cup {u}
    /\ request' = [request EXCEPT ![r].at = "write", ![r].call.id = u]
    /\ file' = [file EXCEPT ![u] = "partial"]
    /\ UNCHANGED <<row, faults, history>>

\* Faulty variant: the error of io.Copy is dropped.
WriteUnchecked(r) ==
    /\ Goes(r, "write", "insert")
    /\ \E f \in {"partial", "complete"} : file' = [file EXCEPT ![Id(r)] = f]
    /\ UNCHANGED <<row, issued, faults, history>>

\* The rest of the body is copied; it may be larger than MaxUploadBytes, and
\* a write that fails returns at once, over a file that stays.
WriteFile(r) ==
    /\ \/ /\ Goes(r, "write", "insert")
          /\ file' = [file EXCEPT ![Id(r)] = "complete"]
          /\ NoFault /\ UNCHANGED mishap
       \/ /\ Goes(r, "write", "remove")
          /\ NoFault /\ UNCHANGED <<file, mishap>>
       \/ /\ Fails(r, "write", "other")
          /\ Fault /\ Mishap(Id(r), "abandoned") /\ UNCHANGED file
    /\ UNCHANGED <<row, issued, shared, entitled, answered>>

OrPrivate(v) == IF v = "" THEN "private" ELSE v

AddRow(r) ==
    LET v == OrPrivate(Call(r).vis)
    IN  /\ row' = [row EXCEPT ![Id(r)] = [owner |-> Call(r).owner, visibility |-> v]]
        /\ IF v = "public" THEN Shares(Id(r)) ELSE UNCHANGED <<shared, entitled>>

\* Faulty variant: the error of repo.Save is dropped.
InsertUnchecked(r) ==
    /\ Answers(r, "insert", 201)
    /\ answered' = answered \cup {Id(r)}
    /\ \/ AddRow(r) /\ NoFault
       \/ UNCHANGED <<row, shared, entitled>> /\ Fault
    /\ UNCHANGED <<file, issued, mishap>>

\* The row is inserted, or the insert reports an error; when the connection
\* breaks it may do so although the row is there.
InsertRow(r) ==
    /\ \/ /\ Answers(r, "insert", 201)
          /\ AddRow(r)
          /\ answered' = answered \cup {Id(r)}
          /\ NoFault /\ UNCHANGED mishap
       \/ /\ Goes(r, "insert", "remove") /\ Fault
          /\ \/ AddRow(r) /\ Mishap(Id(r), "unconfirmed")
             \/ UNCHANGED <<row, shared, entitled, mishap>>
          /\ UNCHANGED answered
    /\ UNCHANGED <<file, issued>>

\* Faulty variant: the error is returned over a file that stays.
KeepFile(r) ==
    /\ Fails(r, "remove", "other")
    /\ UNCHANGED <<store, faults, history>>

\* os.Remove(destPath), whose own error is dropped.
RemoveFile(r) ==
    /\ Fails(r, "remove", "other")
    /\ \/ /\ file' = [file EXCEPT ![Id(r)] = "none"]
          /\ NoFault /\ UNCHANGED mishap
       \/ UNCHANGED file /\ Fault /\ Mishap(Id(r), "abandoned")
    /\ UNCHANGED <<row, issued, shared, entitled, answered>>

-----------------------------------------------------------------------------
(* GET /uploads and GET /uploads/{id}. *)

ListUploads(r) ==
    /\ \/ /\ Reveals(r, "query", {u \in Uploads : MayRead(Call(r).owner, u)})
          /\ NoFault
       \/ Fails(r, "query", "other") /\ Fault
    /\ UNCHANGED <<store, history>>

\* Service.Get, as a step to "to": the row is read, then access is checked.
Get(r, from, to) ==
    /\ At(r, from)
    /\ \/ row[Id(r)] = NoRow /\ Fails(r, from, "notFound") /\ NoFault
       \/ /\ row[Id(r)] # NoRow /\ ~MayRead(Call(r).owner, Id(r))
          /\ Fails(r, from, "forbidden") /\ NoFault
       \/ /\ MayRead(Call(r).owner, Id(r))
          /\ IF to = "done" THEN Answers(r, from, 200) ELSE Goes(r, from, to)
          /\ NoFault
       \/ Fails(r, from, "other") /\ Fault

FindUpload(r) ==
    /\ Get(r, "find", "serve")
    /\ UNCHANGED <<store, history>>

\* c.FileAttachment: the file is opened only now, and may be missing.
ServeFile(r) ==
    /\ At(r, "serve")
    /\ IF file[Id(r)] = "none"
       THEN Answers(r, "serve", 404)
       ELSE Reveals(r, "serve", {Id(r)})
    /\ UNCHANGED <<store, faults, history>>

-----------------------------------------------------------------------------
(* PUT /uploads/{id}/visibility. *)

\* A body that does not parse, then the checks of Service.SetVisibility.
CheckOwner(r) ==
    /\ At(r, "check")
    /\ \/ Answers(r, "check", 400) /\ NoFault
       \/ /\ Call(r).vis \notin Visibilities
          /\ Fails(r, "check", "invalid") /\ NoFault
       \/ /\ Call(r).vis \in Visibilities
          /\ \/ row[Id(r)] = NoRow /\ Fails(r, "check", "notFound") /\ NoFault
             \/ /\ row[Id(r)] # NoRow /\ row[Id(r)].owner # Call(r).owner
                /\ Fails(r, "check", "forbidden") /\ NoFault
             \/ /\ row[Id(r)] # NoRow /\ row[Id(r)].owner = Call(r).owner
                /\ Goes(r, "check", "update") /\ NoFault
             \/ Fails(r, "check", "other") /\ Fault
    /\ UNCHANGED <<store, history>>

\* The UPDATE, and what it means for who may read the upload from now on.
StoreVisibility(r) ==
    /\ row' = [row EXCEPT ![Id(r)].visibility = Call(r).vis]
    /\ IF Call(r).owner # row[Id(r)].owner
       THEN UNCHANGED <<shared, entitled>>
       ELSE IF Call(r).vis = "public"
            THEN Shares(Id(r))
            ELSE shared' = shared \ {Id(r)} /\ UNCHANGED entitled

UpdateVisibility(r) ==
    /\ \/ Goes(r, "update", "reread") /\ StoreVisibility(r) /\ NoFault
       \/ /\ Fails(r, "update", "other") /\ Fault
          /\ StoreVisibility(r) \/ UNCHANGED <<row, shared, entitled>>
    /\ UNCHANGED <<file, issued, answered, mishap>>

\* The handler answers with the row as it is by then.
Reread(r) ==
    /\ Get(r, "reread", "done")
    /\ UNCHANGED <<store, history>>

-----------------------------------------------------------------------------
(* After the handler: the middlewares, from the inside out. *)

StatusFor(e) == CASE e = "notFound"  -> 404
                  [] e = "forbidden" -> 403
                  [] e = "invalid"   -> 400
                  [] e = "other"     -> 500

ErrorMiddleware(r) ==
    /\ At(r, "error")
    /\ request' = [request EXCEPT ![r].at = Outer("error"),
                     ![r].status = IF request[r].err = "none" THEN @
                                   ELSE StatusFor(request[r].err)]
    /\ UNCHANGED <<store, faults, history>>

LoggingMiddleware(r) ==
    /\ At(r, "logging")
    /\ request' = [request EXCEPT ![r].at = Outer("logging"),
                                  ![r].logged = request[r].status]
    /\ UNCHANGED <<store, faults, history>>

\* Auth or a handler panics: Error recovers, and its code after c.Next() is
\* skipped.  What a Save had written stays.
HandlerPanics(r) ==
    /\ request[r].at \in HandlerSteps
    /\ Fault
    /\ request' = [request EXCEPT ![r].at = Outer("error"), ![r].status = 500]
    /\ IF Saving(r) THEN Mishap(Id(r), "abandoned") ELSE UNCHANGED mishap
    /\ UNCHANGED <<store, shared, entitled, answered>>

\* The client has its response.
Done(r) ==
    /\ At(r, "sent")
    /\ request' = [request EXCEPT ![r] = Idle]
    /\ entitled' = {e \in entitled : e[1] # r}
    /\ UNCHANGED <<store, faults, shared, answered, mishap>>

\* The process ends and is started again: requests are gone, the rest stays.
Restart ==
    /\ Fault
    /\ request' = [r \in Requests |-> Idle]
    /\ entitled' = {}
    /\ mishap' = [u \in Uploads |->
                    IF mishap[u] = "none" /\ \E r \in Requests : Saving(r) /\ Id(r) = u
                    THEN "abandoned" ELSE mishap[u]]
    /\ UNCHANGED <<store, shared, answered>>

-----------------------------------------------------------------------------
HandleUpload(r) == \/ RefuseUpload(r)
                   \/ \E u \in Uploads : CreateFile(r, u)
                   \/ WriteFile(r)
                   \/ InsertRow(r)
                   \/ RemoveFile(r)

HandleRead(r) == ListUploads(r) \/ FindUpload(r) \/ ServeFile(r)

HandleVisibility(r) == CheckOwner(r) \/ UpdateVisibility(r) \/ Reread(r)

Middleware(r) == \/ Authenticate(r)
                 \/ ErrorMiddleware(r)
                 \/ LoggingMiddleware(r)
                 \/ HandlerPanics(r)

Next == \/ \E r \in Requests :
             \/ \E c \in Calls : Arrives(r, c)
             \/ HandleUpload(r) \/ HandleRead(r) \/ HandleVisibility(r)
             \/ Middleware(r)
             \/ Done(r)
        \/ Restart

Spec == Init /\ [][Next]_vars

-----------------------------------------------------------------------------
(* Properties. *)

TypeOK ==
    /\ row \in [Uploads -> Rows \cup {NoRow}]
    /\ file \in [Uploads -> FileStates]
    /\ issued \subseteq Uploads
    /\ request \in [Requests -> RequestStates]
    /\ faults \in 0 .. MaxFaults
    /\ shared \subseteq Uploads
    /\ entitled \subseteq Requests \X Uploads
    /\ answered \subseteq Uploads
    /\ mishap \in [Uploads -> {"none", "abandoned", "unconfirmed"}]

\* A row of the table names a complete file, unless its insert reported an
\* error and Save removed the file again.
RowHasFile ==
    \A u \in Uploads :
      row[u] # NoRow => file[u] = "complete" \/ mishap[u] = "unconfirmed"

\* What a client has been told is stored stays stored, file and row, whatever
\* fails or restarts later.
AnsweredUploadStays ==
    \A u \in answered : row[u] # NoRow /\ file[u] = "complete"

\* A file without a row belongs to a Save that is still at work, or to one
\* that was cut off: by a failed write, a failed removal, a panic or a restart.
\* A body that is too large and an insert that fails leave nothing behind.
NoOrphanWithoutMishap ==
    \A u \in Uploads :
      file[u] # "none" /\ row[u] = NoRow =>
        \/ mishap[u] = "abandoned"
        \/ \E r \in Requests : Saving(r) /\ Id(r) = u

\* Somebody else's upload is listed or downloaded only if its owner had it
\* public at some time between the request and its answer.
StrangersSeeOnlyShared ==
    \A r \in Requests : \A u \in request[r].revealed :
      row[u].owner = Call(r).owner \/ <<r, u>> \in entitled

\* The status in the log is the status of the response.
LoggedStatusIsAnswered ==
    \A r \in Requests : At(r, "sent") => request[r].logged = request[r].status
=============================================================================

---------------------------- MODULE UploadsProofs ----------------------------
(***************************************************************************)
(* Proofs about Uploads, for every set of requests, uploads and owners and *)
(* any number of failures, panics and restarts.                            *)
(***************************************************************************)
EXTENDS Uploads, TLAPS

-----------------------------------------------------------------------------
(* The middlewares' order, rows and calls. *)

\* gin comes out of the handler through Error and then through Logging.
LEMMA Nesting == Innermost = "error" /\ Outer("error") = "logging" /\ Outer("logging") = "sent"
<1>1. Len(Registered) = 2 /\ Registered[1] = "logging" /\ Registered[2] = "error"
  BY DEF Registered
<1>2. DOMAIN Registered = {1, 2}
  BY DEF Registered
<1>3. (CHOOSE i \in DOMAIN Registered : Registered[i] = "error") = 2
  BY <1>1, <1>2
<1>4. (CHOOSE i \in DOMAIN Registered : Registered[i] = "logging") = 1
  BY <1>1, <1>2
<1> QED
  BY <1>1, <1>3, <1>4 DEF Innermost, Outer

\* A row can be told from the absence of one, and keeps its owner in an UPDATE.
LEMMA RowFacts ==
    ASSUME NEW x \in Rows, NEW v \in Visibilities
    PROVE  /\ x # NoRow /\ x.owner \in Owners /\ x.visibility \in Visibilities
           /\ [x EXCEPT !.visibility = v] \in Rows
           /\ [x EXCEPT !.visibility = v].owner = x.owner
           /\ [x EXCEPT !.visibility = v].visibility = v
  BY DEF Rows, NoRow, Visibilities

\* A call has its four fields; CreateFile sets one of them.
LEMMA CallFacts ==
    ASSUME NEW c \in Calls
    PROVE  /\ c.op \in Ops /\ c.owner \in Owners /\ c.vis \in Requested
           /\ c.id \in Uploads \cup {NoUpload}
           /\ c # NoCall
  BY DEF Calls, NoCall, Ops

\* A Save that gets its ID keeps the rest of its call.
LEMMA IssuedCall ==
    ASSUME NEW c \in Calls, NEW u \in Uploads
    PROVE  LET d == [c EXCEPT !.id = u]
           IN  d \in Calls /\ d.id = u /\ d.vis = c.vis /\ d.owner = c.owner
  BY DEF Calls

-----------------------------------------------------------------------------
(* Types, and what a request's place says about its call. *)

RequestsOK == request \in [Requests -> RequestStates]

\* Steps that work on an upload, and those of a Save that has its file.
WithUpload == {"write", "insert", "remove", "find", "serve", "check", "update", "reread"}
Saves      == {"write", "insert", "remove"}

ShapeOf(r) ==
    /\ ~At(r, "idle") => Call(r) \in Calls
    /\ At(r, "auth") => (Call(r).op \in {"upload", "list"} <=> Id(r) = NoUpload)
    /\ request[r].at \in WithUpload => Id(r) \in Uploads
    /\ request[r].at \in {"write", "insert"} => Call(r).vis # "invalid"
    /\ At(r, "update") => Call(r).vis \in Visibilities
    /\ request[r].at \in {"serve", "update", "reread"} => row[Id(r)] # NoRow

Shape   == \A r \in Requests : ShapeOf(r)
TypeInv == TypeOK /\ Shape

\* Request r, and no other, goes on to another place with the same call.
Moved(r, from, to) ==
    /\ RequestsOK'
    /\ \A q \in Requests : q # r => request'[q] = request[q]
    /\ request[r].at = from /\ request'[r].at = to
    /\ request'[r].call = request[r].call

\* A request that goes on moves to a place of a handler.
LEMMA GoesFacts ==
    ASSUME RequestsOK, NEW r \in Requests, NEW from, NEW to \in Places,
           Goes(r, from, to)
    PROVE  Moved(r, from, to) /\ request'[r].revealed = request[r].revealed
  BY DEF RequestsOK, Moved, Goes, At, RequestStates

\* A handler that returns leaves its request to the error middleware.
LEMMA ReturnsFacts ==
    ASSUME RequestsOK, NEW r \in Requests, NEW from, NEW s \in Statuses,
           NEW e \in Errors, Returns(r, from, s, e)
    PROVE  Moved(r, from, "error") /\ request'[r].revealed = request[r].revealed
<1> DEFINE x == [request[r] EXCEPT !.at = "error", !.status = s, !.err = e]
<1>1. request[r] \in RequestStates /\ "error" \in Places
  BY DEF RequestsOK, Places
<1>2. /\ x \in RequestStates /\ x.at = "error" /\ x.call = request[r].call
      /\ x.revealed = request[r].revealed
  BY <1>1 DEF RequestStates
<1>3. At(r, from) /\ request' = [request EXCEPT ![r] = x]
  BY Nesting DEF Returns
<1> HIDE DEF x
<1> QED
  BY <1>2, <1>3 DEF RequestsOK, Moved, At

\* A response with data reveals exactly the uploads it carries.
LEMMA RevealsFacts ==
    ASSUME RequestsOK, NEW r \in Requests, NEW from, NEW us \in SUBSET Uploads,
           Reveals(r, from, us)
    PROVE  Moved(r, from, "error") /\ request'[r].revealed = us
<1> DEFINE x == [request[r] EXCEPT !.at = "error", !.status = 200, !.revealed = us]
<1>1. request[r] \in RequestStates /\ "error" \in Places /\ 200 \in Statuses
  BY DEF RequestsOK, Places, Statuses
<1>2. x \in RequestStates
  BY <1>1 DEF RequestStates
<1>3. x.at = "error" /\ x.call = request[r].call
  BY <1>1 DEF RequestStates
<1>4. x.revealed = us
  BY <1>1 DEF RequestStates
<1>5. At(r, from)
  BY DEF Reveals
<1>6. request' = [request EXCEPT ![r] = x]
  <2>1. request' = [request EXCEPT ![r].at = "error", ![r].status = 200, ![r].revealed = us]
    BY Nesting, Zenon DEF Reveals
  <2> QED
    BY <2>1
<1> HIDE DEF x
<1> QED
  BY <1>2, <1>3, <1>4, <1>5, <1>6 DEF RequestsOK, Moved, At

\* A request that goes on with another status.
LEMMA StatusFacts ==
    ASSUME RequestsOK, NEW r \in Requests, NEW p \in Places, NEW s \in Statuses,
           request' = [request EXCEPT ![r].at = p, ![r].status = s]
    PROVE  Moved(r, request[r].at, p) /\ request'[r].revealed = request[r].revealed
<1> DEFINE x == [request[r] EXCEPT !.at = p, !.status = s]
<1>1. request[r] \in RequestStates
  BY DEF RequestsOK
<1>2. x \in RequestStates
  BY <1>1 DEF RequestStates
<1>3. x.at = p /\ x.call = request[r].call
  BY <1>1 DEF RequestStates
<1>4. x.revealed = request[r].revealed
  BY <1>1 DEF RequestStates
<1>5. request' = [request EXCEPT ![r] = x]
  OBVIOUS
<1> HIDE DEF x
<1> QED
  BY <1>2, <1>3, <1>4, <1>5 DEF RequestsOK, Moved

\* A panic takes the request to the logging middleware.
LEMMA PanicFacts ==
    ASSUME RequestsOK, NEW r \in Requests, HandlerPanics(r)
    PROVE  /\ Moved(r, request[r].at, "logging")
           /\ request'[r].revealed = request[r].revealed
<1>1. PICK p \in Places, s \in Statuses : p = Outer("error") /\ s = 500
  BY Nesting DEF Places, Statuses
<1>2. request' = [request EXCEPT ![r].at = p, ![r].status = s]
  BY <1>1 DEF HandlerPanics
<1> QED
  BY <1>1, <1>2, Nesting, StatusFacts

\* Where a handler may go with the call it has.
Fits(r, to) ==
    /\ to \in Places \ {"idle", "auth"}
    /\ to \in WithUpload => Id(r) \in Uploads
    /\ to \in {"write", "insert"} => Call(r).vis # "invalid"
    /\ to = "update" => Call(r).vis \in Visibilities
    /\ to \in {"serve", "update", "reread"} => row[Id(r)] # NoRow

\* No row is ever deleted.
RowsStay == \A u \in Uploads : row[u] # NoRow => row'[u] # NoRow

\* A request that moves to a place its call fits keeps the shape of all.
LEMMA MovedShape ==
    ASSUME RequestsOK, Shape, RowsStay, NEW r \in Requests, ~At(r, "idle"), NEW from, NEW to,
           Fits(r, to), Moved(r, from, to)
    PROVE  Shape'
  BY DEF Shape, ShapeOf, Moved, Fits, At, Call, Id, RequestsOK, RowsStay, WithUpload

\* "error" fits every call.
LEMMA ErrorFits == ASSUME NEW r \in Requests PROVE Fits(r, "error")
  BY DEF Fits, Places, WithUpload

\* What the steps do to files, rows and history, as far as types go.
StoreOK == /\ row \in [Uploads -> Rows \cup {NoRow}]
           /\ file \in [Uploads -> FileStates]
           /\ issued \subseteq Uploads
           /\ faults \in 0 .. MaxFaults
           /\ shared \subseteq Uploads
           /\ entitled \subseteq Requests \X Uploads
           /\ answered \subseteq Uploads
           /\ mishap \in [Uploads -> {"none", "abandoned", "unconfirmed"}]

\* The type invariant, in the two parts the proofs use.
LEMMA Types == TypeOK <=> RequestsOK /\ StoreOK
  BY DEF TypeOK, RequestsOK, StoreOK

\* The count of failures stays within its bound.
LEMMA FaultFacts ==
    ASSUME faults \in 0 .. MaxFaults, Fault \/ NoFault PROVE faults' \in 0 .. MaxFaults
  BY UploadsAssumption DEF Fault, NoFault

\* A mishap is recorded once and not overwritten.
LEMMA MishapFacts ==
    ASSUME StoreOK, NEW u \in Uploads, NEW m \in {"abandoned", "unconfirmed"}, Mishap(u, m)
    PROVE  /\ mishap' \in [Uploads -> {"none", "abandoned", "unconfirmed"}]
           /\ \A v \in Uploads : mishap[v] # "none" \/ v # u => mishap'[v] = mishap[v]
           /\ mishap[u] = "none" => mishap'[u] = m
  BY DEF StoreOK, Mishap

\* A row that becomes public entitles every request in hand.
LEMMA SharesFacts ==
    ASSUME StoreOK, NEW u \in Uploads, Shares(u)
    PROVE  /\ shared' = shared \cup {u} /\ shared' \subseteq Uploads
           /\ entitled' \subseteq Requests \X Uploads
           /\ entitled \subseteq entitled'
           /\ \A r \in Requests : ~At(r, "idle") => <<r, u>> \in entitled'
  BY DEF StoreOK, Shares

\* AddRow puts a row of the caller's there, with the visibility asked for.
LEMMA AddRowFacts ==
    ASSUME StoreOK, NEW r \in Requests, ShapeOf(r), At(r, "insert"), AddRow(r)
    PROVE  /\ shared' \subseteq Uploads /\ entitled' \subseteq Requests \X Uploads
           /\ \E x \in Rows : row' = [row EXCEPT ![Id(r)] = x]
           /\ row'[Id(r)] \in Rows /\ row'[Id(r)].owner = Call(r).owner
           /\ \A u \in Uploads : u # Id(r) => row'[u] = row[u]
           /\ \/ row'[Id(r)].visibility = "public" /\ Shares(Id(r))
              \/ row'[Id(r)].visibility = "private" /\ UNCHANGED <<shared, entitled>>
<1> DEFINE v == OrPrivate(Call(r).vis)
           x == [owner |-> Call(r).owner, visibility |-> v]
<1>1. Id(r) \in Uploads /\ Call(r).owner \in Owners /\ Call(r).vis \in Requested
  BY CallFacts DEF ShapeOf, At, WithUpload
<1>2. v \in {"private", "public"}
  BY <1>1 DEF OrPrivate, ShapeOf, Requested, Visibilities, At
<1>3. x \in Rows /\ x.owner = Call(r).owner /\ x.visibility = v
  BY <1>1, <1>2 DEF Rows, Visibilities
<1>4. /\ row' = [row EXCEPT ![Id(r)] = x]
      /\ IF v = "public" THEN Shares(Id(r)) ELSE UNCHANGED <<shared, entitled>>
  BY DEF AddRow
<1> HIDE DEF v, x
<1>5. row'[Id(r)] = x /\ \A u \in Uploads : u # Id(r) => row'[u] = row[u]
  BY <1>1, <1>4 DEF StoreOK
<1>6. shared' \subseteq Uploads /\ entitled' \subseteq Requests \X Uploads
  BY <1>1, <1>4, SharesFacts DEF StoreOK
<1> QED
  BY <1>2, <1>3, <1>4, <1>5, <1>6

\* An UPDATE by a row's owner changes its visibility and nothing else.
LEMMA StoreVisibilityFacts ==
    ASSUME StoreOK, NEW r \in Requests, ShapeOf(r), At(r, "update"), StoreVisibility(r)
    PROVE  /\ row' \in [Uploads -> Rows \cup {NoRow}]
           /\ shared' \subseteq Uploads /\ entitled' \subseteq Requests \X Uploads
           /\ \A u \in Uploads : u # Id(r) => row'[u] = row[u]
           /\ row'[Id(r)] # NoRow /\ row'[Id(r)].owner = row[Id(r)].owner
           /\ row'[Id(r)].visibility = Call(r).vis
<1>1. Id(r) \in Uploads /\ Call(r).vis \in Visibilities /\ row[Id(r)] # NoRow
  BY DEF ShapeOf, At, WithUpload
<1>2. PICK u \in Uploads : u = Id(r)
  BY <1>1
<1>3. row' = [row EXCEPT ![u] = [row[u] EXCEPT !.visibility = Call(r).vis]]
  BY <1>2 DEF StoreVisibility, StoreOK
<1>4. shared' \subseteq Uploads /\ entitled' \subseteq Requests \X Uploads
  BY <1>1, SharesFacts DEF StoreVisibility, StoreOK
<1> QED
  BY <1>1, <1>2, <1>3, <1>4, RowFacts DEF StoreOK

\* What a step shows to the client, what later steps rely on, what the log says.
Careful(r, from, to) ==
    /\ \A u \in request'[r].revealed : \/ u \in request[r].revealed
                                       \/ MayRead(Call(r).owner, u)
                                       \/ from = "serve" /\ u = Id(r)
    /\ to = "serve" => MayRead(Call(r).owner, Id(r))
    /\ to = "update" => row[Id(r)].owner = Call(r).owner
    /\ to = "sent" => request'[r].logged = request'[r].status

\* A step that neither begins, continues nor ends a Save, and stores nothing.
QuietMove(r) ==
    /\ \E from \in Places \ ({"idle"} \cup Saves), to \in Places \ Saves :
         Moved(r, from, to) /\ Fits(r, to) /\ Careful(r, from, to)
    /\ faults' \in 0 .. MaxFaults
    /\ UNCHANGED <<store, history>>

\* A handler that returns without storing anything makes a quiet move.
LEMMA ReturnsQuietly ==
    ASSUME RequestsOK, NEW r \in Requests, NEW from \in Places \ ({"idle"} \cup Saves),
           NEW s \in Statuses, NEW e \in Errors, Returns(r, from, s, e),
           faults' \in 0 .. MaxFaults, UNCHANGED <<store, history>>
    PROVE  QuietMove(r)
<1>1. /\ Moved(r, from, "error") /\ Fits(r, "error") /\ "error" \in Places \ Saves
      /\ Careful(r, from, "error")
  BY ReturnsFacts, ErrorFits DEF Places, Saves, Careful
<1> QED
  BY <1>1 DEF QuietMove

\* Of the steps of Get, one goes on, and then there is a row.
LEMMA GetIsQuiet ==
    ASSUME TypeInv, NEW r \in Requests, NEW from \in {"find", "reread"},
           NEW to \in {"serve", "done"}, Get(r, from, to), UNCHANGED <<store, history>>
    PROVE  QuietMove(r)
<1>1. RequestsOK /\ StoreOK /\ faults' \in 0 .. MaxFaults
  BY Types, FaultFacts DEF TypeInv, Get, StoreOK
<1>2. /\ from \in Places \ ({"idle"} \cup Saves)
      /\ 200 \in Statuses
      /\ {"none", "notFound", "forbidden", "other"} \subseteq Errors
  BY DEF Places, HandlerSteps, Saves, Statuses, Errors
<1>3. \/ \E e \in {"none", "notFound", "forbidden", "other"} : Returns(r, from, 200, e)
      \/ to = "serve" /\ Goes(r, from, to) /\ MayRead(Call(r).owner, Id(r))
  BY DEF Get, Fails, Answers, MayRead
<1>4. CASE \E e \in {"none", "notFound", "forbidden", "other"} : Returns(r, from, 200, e)
  BY <1>1, <1>2, <1>4, ReturnsQuietly
<1>5. CASE to = "serve" /\ Goes(r, from, to) /\ MayRead(Call(r).owner, Id(r))
  <2>1. "serve" \in Places \ Saves /\ Id(r) \in Uploads
    BY <1>5 DEF Places, HandlerSteps, Saves, TypeInv, Shape, ShapeOf, Goes, At, WithUpload
  <2>2. Moved(r, from, "serve") /\ Careful(r, from, "serve")
    BY <1>1, <1>5, <2>1, GoesFacts DEF Careful
  <2>3. Fits(r, "serve")
    BY <1>5, <2>1 DEF Fits, Saves, MayRead
  <2> QED
    BY <1>1, <1>2, <2>1, <2>2, <2>3 DEF QuietMove
<1> QED
  BY <1>3, <1>4, <1>5

\* The steps that neither belong to a Save nor write to the table.
Quiet(r) == \/ Authenticate(r) \/ RefuseUpload(r) \/ HandleRead(r)
            \/ CheckOwner(r) \/ Reread(r)
            \/ ErrorMiddleware(r) \/ LoggingMiddleware(r)
            \/ HandlerPanics(r) /\ ~Saving(r)

\* Every quiet step of a request is a quiet move.
LEMMA QuietSteps ==
    ASSUME TypeInv, NEW r \in Requests, Quiet(r)
    PROVE  QuietMove(r)
<1>1. RequestsOK /\ StoreOK /\ (Fault \/ NoFault => faults' \in 0 .. MaxFaults)
  BY Types, FaultFacts DEF TypeInv, StoreOK
<1>2. UNCHANGED faults => faults' \in 0 .. MaxFaults
  BY <1>1 DEF StoreOK
<1>3. /\ {200, 400, 401, 404, 500} \subseteq Statuses
      /\ {"none", "notFound", "forbidden", "invalid", "other"} \subseteq Errors
      /\ HandlerSteps \cup {"error", "logging"} \subseteq Places
      /\ {"auth", "receive", "query", "find", "serve", "check", "reread", "error",
          "logging"} \subseteq Places \ ({"idle"} \cup Saves)
  BY DEF Statuses, Errors, Places, HandlerSteps, Saves
<1>4. CASE Authenticate(r)
  <2>1. CASE Answers(r, "auth", 401)
    BY <1>1, <1>2, <1>3, <1>4, <2>1, ReturnsQuietly DEF Answers, Authenticate
  <2>2. CASE Goes(r, "auth", FirstStep(Call(r).op))
    <3>1. At(r, "auth") /\ Call(r) \in Calls /\ ShapeOf(r)
      BY <2>2 DEF Goes, At, TypeInv, Shape, ShapeOf
    <3>2. Call(r).op \in {"upload", "list"} \/ Id(r) \in Uploads
      BY <3>1, CallFacts DEF ShapeOf, Call, Id
    <3>3. /\ FirstStep(Call(r).op) \in {"receive", "query", "find", "check"}
          /\ FirstStep(Call(r).op) \in {"find", "check"} => Id(r) \in Uploads
      BY <3>1, <3>2, CallFacts DEF FirstStep, Ops
    <3>4. PICK to \in {"receive", "query", "find", "check"} :
             Goes(r, "auth", to) /\ (to \in {"find", "check"} => Id(r) \in Uploads)
      BY <2>2, <3>3
    <3>5. Fits(r, to) /\ to \in Places \ Saves
      BY <1>3, <3>4 DEF Fits, WithUpload, Saves
    <3>6. Moved(r, "auth", to) /\ Careful(r, "auth", to)
      BY <1>1, <3>4, <3>5, GoesFacts DEF Careful
    <3> QED
      BY <1>2, <1>3, <1>4, <3>5, <3>6 DEF QuietMove, Authenticate
  <2> QED
    BY <1>4, <2>1, <2>2 DEF Authenticate
<1>5. CASE RefuseUpload(r)
  BY <1>1, <1>2, <1>3, <1>5, ReturnsQuietly DEF RefuseUpload, Answers, Fails
<1>6. CASE ListUploads(r)
  <2>1. CASE Fails(r, "query", "other")
    BY <1>1, <1>3, <1>6, <2>1, ReturnsQuietly DEF ListUploads, Fails
  <2>2. CASE Reveals(r, "query", {u \in Uploads : MayRead(Call(r).owner, u)})
    <3>1. Moved(r, "query", "error") /\ Careful(r, "query", "error")
      BY <1>1, <2>2, RevealsFacts DEF Careful
    <3> QED
      BY <1>1, <1>3, <1>6, <2>2, <3>1, ErrorFits DEF ListUploads, QuietMove, Saves
  <2> QED
    BY <1>6, <2>1, <2>2 DEF ListUploads
<1>7. CASE FindUpload(r)
  BY <1>7, GetIsQuiet DEF FindUpload
<1>8. CASE ServeFile(r)
  <2>1. CASE Answers(r, "serve", 404)
    BY <1>1, <1>2, <1>3, <1>8, <2>1, ReturnsQuietly DEF ServeFile, Answers
  <2>2. CASE Reveals(r, "serve", {Id(r)})
    <3>1. Id(r) \in Uploads
      BY <1>8 DEF ServeFile, At, TypeInv, Shape, ShapeOf, WithUpload
    <3>2. Moved(r, "serve", "error") /\ Careful(r, "serve", "error")
      BY <1>1, <2>2, <3>1, RevealsFacts DEF Careful
    <3> QED
      BY <1>1, <1>2, <1>3, <1>8, <2>2, <3>2, ErrorFits DEF ServeFile, QuietMove, Saves
  <2> QED
    BY <1>8, <2>1, <2>2 DEF ServeFile
<1>9. CASE CheckOwner(r)
  <2>1. CASE \E s \in {200, 400}, e \in Errors : Returns(r, "check", s, e)
    BY <1>1, <1>3, <1>9, <2>1, ReturnsQuietly DEF CheckOwner
  <2>2. CASE /\ Goes(r, "check", "update") /\ Call(r).vis \in Visibilities
             /\ row[Id(r)] # NoRow /\ row[Id(r)].owner = Call(r).owner
    <3>1. Id(r) \in Uploads
      BY <1>9 DEF CheckOwner, At, TypeInv, Shape, ShapeOf, WithUpload
    <3>2. "update" \in Places \ Saves
      BY DEF Places, HandlerSteps, Saves
    <3>3. Moved(r, "check", "update") /\ Careful(r, "check", "update")
      BY <1>1, <2>2, <3>2, GoesFacts DEF Careful
    <3>4. Fits(r, "update")
      BY <2>2, <3>1, <3>2 DEF Fits
    <3> QED
      BY <1>1, <1>3, <1>9, <3>2, <3>3, <3>4 DEF CheckOwner, QuietMove
  <2> QED
    BY <1>3, <1>9, <2>1, <2>2 DEF CheckOwner, Answers, Fails
<1>10. CASE Reread(r)
  BY <1>10, GetIsQuiet DEF Reread
<1>11. CASE ErrorMiddleware(r)
  <2>1. PICK p \in Places, s \in Statuses :
          /\ p = Outer("error")
          /\ s = IF request[r].err = "none" THEN request[r].status
                                            ELSE StatusFor(request[r].err)
    <3>1. request[r].err \in Errors /\ request[r].status \in Statuses
      BY <1>1 DEF RequestsOK, RequestStates
    <3>2. request[r].err # "none" => StatusFor(request[r].err) \in Statuses
      BY <3>1 DEF Errors, Statuses, StatusFor
    <3> QED
      BY <1>3, <3>1, <3>2, Nesting
  <2>2. At(r, "error") /\ request' = [request EXCEPT ![r].at = p, ![r].status = s]
    BY <1>11, <2>1 DEF ErrorMiddleware
  <2>3. Moved(r, "error", "logging") /\ Careful(r, "error", "logging")
    BY <1>1, <2>1, <2>2, Nesting, StatusFacts DEF At, Careful
  <2>4. Fits(r, "logging") /\ "logging" \in Places \ Saves
    BY <1>3 DEF Fits, WithUpload, Saves
  <2> QED
    BY <1>2, <1>3, <1>11, <2>3, <2>4 DEF QuietMove, ErrorMiddleware
<1>12. CASE LoggingMiddleware(r)
  <2> DEFINE x == [request[r] EXCEPT !.at = "sent", !.logged = request[r].status]
  <2>1. request[r] \in RequestStates /\ "sent" \in Places \ Saves
    BY <1>1 DEF RequestsOK, Places, Saves
  <2>2. At(r, "logging") /\ request' = [request EXCEPT ![r] = x]
    BY <1>12, Nesting DEF LoggingMiddleware
  <2>3. x \in RequestStates /\ x.at = "sent" /\ x.call = request[r].call
    BY <2>1 DEF RequestStates
  <2>4. x.revealed = request[r].revealed /\ x.logged = x.status
    BY <2>1 DEF RequestStates
  <2> HIDE DEF x
  <2>5. Moved(r, "logging", "sent") /\ Fits(r, "sent")
    BY <1>1, <2>1, <2>2, <2>3 DEF Moved, RequestsOK, At, Fits, WithUpload
  <2>6. Careful(r, "logging", "sent")
    BY <1>1, <2>2, <2>4 DEF Careful, RequestsOK
  <2> QED
    BY <1>2, <1>3, <1>12, <2>1, <2>5, <2>6 DEF QuietMove, LoggingMiddleware
<1>13. CASE HandlerPanics(r) /\ ~Saving(r)
  <2>1. PICK from \in HandlerSteps \ Saves : request[r].at = from
    BY <1>13 DEF HandlerPanics, Saving, Saves
  <2>2. /\ Moved(r, from, "logging") /\ Fits(r, "logging")
        /\ Careful(r, from, "logging")
    BY <1>1, <1>13, <2>1, PanicFacts DEF Fits, WithUpload, Places, Careful
  <2>3. from \in Places \ ({"idle"} \cup Saves) /\ "logging" \in Places \ Saves
    BY <2>1 DEF Places, HandlerSteps, Saves
  <2> QED
    BY <1>1, <1>13, <2>2, <2>3 DEF QuietMove, HandlerPanics, store, history
<1> QED
  BY <1>4, <1>5, <1>6, <1>7, <1>8, <1>9, <1>10, <1>11, <1>12, <1>13 DEF Quiet, HandleRead

-----------------------------------------------------------------------------
(* The other steps of a request. *)

\* CreateFile gives the call an ID that nobody had.
LEMMA CreateFileFacts ==
    ASSUME TypeInv, NEW r \in Requests, NEW u \in Uploads, CreateFile(r, u)
    PROVE  /\ RequestsOK'
           /\ \A q \in Requests : q # r => request'[q] = request[q]
           /\ request[r].at = "receive" /\ request'[r].at = "write"
           /\ request'[r].call \in Calls /\ request'[r].call.id = u
           /\ request'[r].call.vis # "invalid"
           /\ request'[r].call.owner = Call(r).owner
           /\ request'[r].revealed = request[r].revealed
<1> DEFINE d == [request[r].call EXCEPT !.id = u]
           x == [request[r] EXCEPT !.at = "write", !.call = d]
<1>1. /\ request[r] \in RequestStates /\ "write" \in Places /\ request[r].at = "receive"
      /\ request[r].call \in Calls /\ request[r].call.vis # "invalid"
  BY DEF TypeInv, TypeOK, Shape, ShapeOf, CreateFile, At, Call, Places, HandlerSteps
<1>2. d \in Calls /\ d.id = u /\ d.vis # "invalid" /\ d.owner = request[r].call.owner
  BY <1>1, IssuedCall
<1>3. request' = [request EXCEPT ![r] = x]
  BY <1>1 DEF CreateFile, RequestStates
<1> HIDE DEF d
<1>4. x \in RequestStates
  BY <1>1, <1>2 DEF RequestStates
<1>5. x.at = "write" /\ x.call = d
  BY <1>1 DEF RequestStates
<1>6. x.revealed = request[r].revealed
  BY <1>1 DEF RequestStates
<1> HIDE DEF x
<1> QED
  BY <1>1, <1>2, <1>3, <1>4, <1>5, <1>6 DEF TypeInv, TypeOK, RequestsOK, Call

\* The steps of a Save once its file is there, and the UPDATE.
WritingMove(r, from, to) ==
    /\ from \in Saves \cup {"update"}
    /\ to \in {"insert", "remove", "reread", "error", "logging"}
    /\ Moved(r, from, to) /\ Fits(r, to) /\ Careful(r, from, to)

\* A Save or an UPDATE that goes on makes a writing move.
LEMMA WritingGoes ==
    ASSUME TypeInv, NEW r \in Requests,
           NEW from, NEW to,
           <<from, to>> \in {<<"write", "insert">>, <<"write", "remove">>,
                             <<"insert", "remove">>, <<"update", "reread">>},
           Goes(r, from, to)
    PROVE  WritingMove(r, from, to)
<1>1. from \in Saves \cup {"update"} /\ to \in Places /\ to \in {"insert", "remove", "reread"}
  BY DEF Saves, Places, HandlerSteps
<1>2. Moved(r, from, to) /\ request'[r].revealed = request[r].revealed
  BY <1>1, GoesFacts, Types DEF TypeInv
<1>3. Fits(r, to)
  BY <1>1 DEF Fits, TypeInv, Shape, ShapeOf, Goes, At, WithUpload
<1> QED
  BY <1>1, <1>2, <1>3 DEF WritingMove, Careful

\* A Save or an UPDATE that returns makes a writing move to the error middleware.
LEMMA WritingReturns ==
    ASSUME TypeInv, NEW r \in Requests, NEW from \in Saves \cup {"update"},
           NEW s \in Statuses, NEW e \in Errors, Returns(r, from, s, e)
    PROVE  WritingMove(r, from, "error")
<1>1. RequestsOK /\ "error" \in {"insert", "remove", "reread", "error", "logging"}
  BY Types DEF TypeInv
<1> QED
  BY <1>1, ReturnsFacts, ErrorFits DEF WritingMove, Careful

\* A panic in a Save makes a writing move to the logging middleware.
LEMMA WritingPanics ==
    ASSUME TypeInv, NEW r \in Requests, Saving(r), HandlerPanics(r)
    PROVE  \E from \in Saves : WritingMove(r, from, "logging")
<1>1. request[r].at \in Saves
  BY DEF Saving, Saves
<1>2. Moved(r, request[r].at, "logging") /\ request'[r].revealed = request[r].revealed
  BY Types, PanicFacts DEF TypeInv
<1>3. Fits(r, "logging")
  BY DEF Fits, Places, WithUpload
<1> QED
  BY <1>1, <1>2, <1>3 DEF WritingMove, Careful

\* The statuses and errors the handlers use are among those modelled.
LEMMA HandlerAnswers == /\ {200, 201} \subseteq Statuses /\ "none" \in Errors
                        /\ "other" \in Errors
  BY DEF Statuses, Errors

\* What each of these steps does, places and data together.
LEMMA WriteFileFacts ==
    ASSUME TypeInv, NEW r \in Requests, WriteFile(r)
    PROVE  \/ /\ WritingMove(r, "write", "insert") /\ NoFault
              /\ file' = [file EXCEPT ![Id(r)] = "complete"] /\ UNCHANGED mishap
           \/ /\ WritingMove(r, "write", "remove") /\ NoFault
              /\ UNCHANGED <<file, mishap>>
           \/ /\ WritingMove(r, "write", "error") /\ Fault
              /\ Mishap(Id(r), "abandoned") /\ UNCHANGED file
<1>1. "write" \in Saves \cup {"update"}
  BY DEF Saves
<1> QED
  BY <1>1, HandlerAnswers, WritingGoes, WritingReturns DEF WriteFile, Fails

\* What an insert can do: succeed, fail after its effect, fail without.
LEMMA InsertRowFacts ==
    ASSUME TypeInv, NEW r \in Requests, InsertRow(r)
    PROVE  \/ /\ WritingMove(r, "insert", "error") /\ AddRow(r) /\ NoFault
              /\ answered' = answered \cup {Id(r)} /\ UNCHANGED mishap
           \/ /\ WritingMove(r, "insert", "remove") /\ Fault /\ UNCHANGED answered
              /\ AddRow(r) /\ Mishap(Id(r), "unconfirmed")
           \/ /\ WritingMove(r, "insert", "remove") /\ Fault /\ UNCHANGED answered
              /\ UNCHANGED <<row, shared, entitled, mishap>>
<1>1. "insert" \in Saves \cup {"update"}
  BY DEF Saves
<1> QED
  BY <1>1, HandlerAnswers, WritingGoes, WritingReturns DEF InsertRow, Answers

\* What os.Remove can do: remove, or fail and abandon the file.
LEMMA RemoveFileFacts ==
    ASSUME TypeInv, NEW r \in Requests, RemoveFile(r)
    PROVE  /\ WritingMove(r, "remove", "error")
           /\ \/ file' = [file EXCEPT ![Id(r)] = "none"] /\ NoFault /\ UNCHANGED mishap
              \/ UNCHANGED file /\ Fault /\ Mishap(Id(r), "abandoned")
<1>1. "remove" \in Saves \cup {"update"}
  BY DEF Saves
<1> QED
  BY <1>1, HandlerAnswers, WritingReturns DEF RemoveFile, Fails

\* What the UPDATE can do: succeed, fail after its effect, fail without.
LEMMA UpdateVisibilityFacts ==
    ASSUME TypeInv, NEW r \in Requests, UpdateVisibility(r)
    PROVE  \/ WritingMove(r, "update", "reread") /\ StoreVisibility(r) /\ NoFault
           \/ /\ WritingMove(r, "update", "error") /\ Fault
              /\ StoreVisibility(r) \/ UNCHANGED <<row, shared, entitled>>
<1>1. "update" \in Saves \cup {"update"}
  OBVIOUS
<1> QED
  BY <1>1, HandlerAnswers, WritingGoes, WritingReturns DEF UpdateVisibility, Fails

-----------------------------------------------------------------------------
(* Every step keeps the types and the shape. *)

\* A slot that is free is a request state.
LEMMA IdleFacts == /\ Idle \in RequestStates /\ Idle.at = "idle" /\ Idle.revealed = {}
  BY DEF Idle, RequestStates, Places, Errors, Statuses

\* A request that arrives fills a free slot.
LEMMA ArrivesFacts ==
    ASSUME TypeInv, NEW r \in Requests, NEW c \in Calls, Arrives(r, c)
    PROVE  /\ RequestsOK' /\ request[r].at = "idle"
           /\ \A q \in Requests : q # r => request'[q] = request[q]
           /\ request'[r].at = "auth" /\ request'[r].call = c /\ request'[r].revealed = {}
           /\ c.op \in {"upload", "list"} <=> c.id = NoUpload
<1>1. PICK y \in RequestStates, p \in Places : y = Idle /\ y.revealed = {} /\ p = "auth"
  BY IdleFacts DEF Places, HandlerSteps
<1> DEFINE x == [y EXCEPT !.at = p, !.call = c]
<1>2. x \in RequestStates
  BY DEF RequestStates
<1>3. x.at = p /\ x.call = c
  BY DEF RequestStates
<1>4. x.revealed = {}
  BY <1>1 DEF RequestStates
<1>5. /\ request' = [request EXCEPT ![r] = x] /\ request[r].at = "idle"
      /\ c.op \in {"upload", "list"} <=> c.id = NoUpload
  BY <1>1 DEF Arrives, At
<1> HIDE DEF x
<1> QED
  BY <1>1, <1>2, <1>3, <1>4, <1>5 DEF TypeInv, TypeOK, RequestsOK

\* A request that is answered frees its slot.
LEMMA DoneFacts ==
    ASSUME TypeInv, NEW r \in Requests, Done(r)
    PROVE  /\ RequestsOK' /\ request[r].at = "sent"
           /\ \A q \in Requests : q # r => request'[q] = request[q]
           /\ request'[r] = Idle
  BY IdleFacts DEF TypeInv, TypeOK, RequestsOK, Done, At

\* The disjuncts of Next, by what they do.
LEMMA NextCases ==
    ASSUME Next
    PROVE  \/ \E r \in Requests, c \in Calls : Arrives(r, c)
           \/ \E r \in Requests : Quiet(r)
           \/ \E r \in Requests, u \in Uploads : CreateFile(r, u)
           \/ \E r \in Requests : WriteFile(r)
           \/ \E r \in Requests : InsertRow(r)
           \/ \E r \in Requests : RemoveFile(r)
           \/ \E r \in Requests : UpdateVisibility(r)
           \/ \E r \in Requests : HandlerPanics(r) /\ Saving(r)
           \/ \E r \in Requests : Done(r)
           \/ Restart
  BY DEF Next, HandleUpload, HandleVisibility, Middleware, Quiet

\* Requests that do not move keep their shape while no row changes.
LEMMA OthersShape ==
    ASSUME Shape, UNCHANGED row, NEW r \in Requests, ShapeOf(r)',
           \A q \in Requests : q # r => request'[q] = request[q]
    PROVE  Shape'
<1> SUFFICES ASSUME NEW q \in Requests, q # r PROVE ShapeOf(q)'
  BY DEF Shape
<1>1. ShapeOf(q) /\ request'[q] = request[q]
  BY DEF Shape
<1> QED
  BY <1>1 DEF ShapeOf, At, Call, Id

\* A writing move keeps types and shape.
LEMMA WritingShape ==
    ASSUME TypeInv, RowsStay, NEW r \in Requests, NEW from, NEW to, WritingMove(r, from, to)
    PROVE  RequestsOK' /\ Shape' /\ Id(r) \in Uploads
<1>1. RequestsOK /\ Shape /\ Moved(r, from, to) /\ Fits(r, to)
  BY Types DEF TypeInv, WritingMove
<1>2. ~At(r, "idle") /\ Id(r) \in Uploads
  BY <1>1 DEF WritingMove, Moved, At, Saves, Shape, ShapeOf, WithUpload
<1> QED
  BY <1>1, <1>2, MovedShape DEF Moved

\* The server starts with empty tables and no requests.
THEOREM TypeInit == Init => TypeInv
<1> SUFFICES ASSUME Init PROVE TypeInv
  OBVIOUS
<1>1. RequestsOK /\ Shape
  BY IdleFacts DEF Init, RequestsOK, Shape, ShapeOf, At, WithUpload
<1>2. StoreOK
  BY UploadsAssumption DEF Init, StoreOK, FileStates
<1> QED
  BY <1>1, <1>2, Types DEF TypeInv

\* Every step keeps the types and the shape.
LEMMA TypeStep == TypeInv /\ [Next]_vars => TypeInv'
<1> SUFFICES ASSUME TypeInv, [Next]_vars PROVE TypeInv'
  OBVIOUS
<1>1. RequestsOK /\ StoreOK /\ Shape
  BY Types DEF TypeInv
<1>2. SUFFICES RequestsOK' /\ StoreOK' /\ Shape'
  BY Types DEF TypeInv, TypeOK, RequestsOK, StoreOK
<1>3. UNCHANGED row => RowsStay
  BY DEF RowsStay
<1>4. (Fault \/ NoFault => faults' \in 0 .. MaxFaults) /\ (UNCHANGED faults => faults' \in 0 .. MaxFaults)
  BY <1>1, FaultFacts DEF StoreOK
<1>5. ASSUME NEW r \in Requests, NEW c \in Calls, Arrives(r, c)
      PROVE  RequestsOK' /\ StoreOK' /\ Shape'
  <2>1. Shape'
    <3>1. ShapeOf(r)'
      BY <1>5, ArrivesFacts DEF ShapeOf, At, Call, Id, WithUpload
    <3> QED
      BY <1>1, <1>5, <3>1, ArrivesFacts, OthersShape DEF Arrives, store
  <2>2. entitled' \subseteq Requests \X Uploads
    <3>1. \A u \in shared : <<r, u>> \in Requests \X Uploads
      BY <1>1 DEF StoreOK
    <3> QED
      BY <1>1, <1>5, <3>1 DEF Arrives, StoreOK
  <2>3. StoreOK'
    BY <1>1, <1>4, <1>5, <2>2 DEF Arrives, StoreOK, store
  <2> QED
    BY <1>5, <2>1, <2>3, ArrivesFacts
<1>6. ASSUME NEW r \in Requests, Quiet(r)
      PROVE  RequestsOK' /\ StoreOK' /\ Shape'
  <2>1. PICK from \in Places \ ({"idle"} \cup Saves), to \in Places \ Saves :
          /\ Moved(r, from, to) /\ Fits(r, to)
          /\ faults' \in 0 .. MaxFaults /\ UNCHANGED <<store, history>>
    BY <1>6, QuietSteps DEF QuietMove
  <2>2. Shape'
    BY <1>1, <1>3, <2>1, MovedShape DEF Moved, At, store
  <2>3. StoreOK'
    BY <1>1, <2>1 DEF StoreOK, store, history
  <2> QED
    BY <2>1, <2>2, <2>3 DEF Moved
<1>7. ASSUME NEW r \in Requests, NEW u \in Uploads, CreateFile(r, u)
      PROVE  RequestsOK' /\ StoreOK' /\ Shape'
  <2>1. Shape'
    <3>1. ShapeOf(r)'
      BY <1>7, CreateFileFacts DEF ShapeOf, At, Call, Id, WithUpload
    <3> QED
      BY <1>1, <1>7, <3>1, CreateFileFacts, OthersShape DEF CreateFile
  <2>2. StoreOK'
    BY <1>1, <1>4, <1>7 DEF CreateFile, StoreOK, FileStates, history
  <2> QED
    BY <1>7, <2>1, <2>2, CreateFileFacts
<1>8. ASSUME NEW r \in Requests, WriteFile(r)
      PROVE  RequestsOK' /\ StoreOK' /\ Shape'
  <2>1. RowsStay /\ UNCHANGED <<row, issued, shared, entitled, answered>>
    BY <1>3, <1>8 DEF WriteFile
  <2>2. RequestsOK' /\ Shape' /\ Id(r) \in Uploads
    BY <1>8, <2>1, WriteFileFacts, WritingShape
  <2>3. file' \in [Uploads -> FileStates] /\ faults' \in 0 .. MaxFaults
    BY <1>1, <1>4, <1>8, <2>2, WriteFileFacts DEF StoreOK, FileStates
  <2>4. mishap' \in [Uploads -> {"none", "abandoned", "unconfirmed"}]
    BY <1>1, <1>8, <2>2, WriteFileFacts, MishapFacts DEF StoreOK
  <2> QED
    BY <1>1, <2>1, <2>2, <2>3, <2>4 DEF StoreOK
<1>9. ASSUME NEW r \in Requests, InsertRow(r)
      PROVE  RequestsOK' /\ StoreOK' /\ Shape'
  <2>1. At(r, "insert") /\ ShapeOf(r) /\ Id(r) \in Uploads /\ UNCHANGED <<file, issued>>
    BY <1>1, <1>9 DEF InsertRow, Answers, Returns, Goes, At, Shape, ShapeOf, WithUpload
  <2>2. /\ row' \in [Uploads -> Rows \cup {NoRow}] /\ RowsStay
        /\ shared' \subseteq Uploads /\ entitled' \subseteq Requests \X Uploads
    <3>1. CASE UNCHANGED <<row, shared, entitled>>
      BY <1>1, <1>3, <3>1 DEF StoreOK
    <3>2. CASE AddRow(r)
      <4>1. PICK x \in Rows : row' = [row EXCEPT ![Id(r)] = x]
        BY <1>1, <2>1, <3>2, AddRowFacts
      <4>2. x # NoRow
        BY DEF Rows, NoRow, Visibilities
      <4> QED
        BY <1>1, <2>1, <3>2, <4>1, <4>2, AddRowFacts DEF StoreOK, RowsStay
    <3> QED
      BY <1>9, <3>1, <3>2, InsertRowFacts
  <2>3. RequestsOK' /\ Shape'
    BY <1>9, <2>2, InsertRowFacts, WritingShape
  <2>4. /\ mishap' \in [Uploads -> {"none", "abandoned", "unconfirmed"}]
        /\ faults' \in 0 .. MaxFaults
    BY <1>1, <1>4, <1>9, <2>1, InsertRowFacts, MishapFacts DEF StoreOK
  <2>5. answered' \subseteq Uploads
    BY <1>1, <1>9, <2>1, InsertRowFacts DEF StoreOK
  <2> QED
    BY <1>1, <2>1, <2>2, <2>3, <2>4, <2>5 DEF StoreOK
<1>10. ASSUME NEW r \in Requests, RemoveFile(r)
       PROVE  RequestsOK' /\ StoreOK' /\ Shape'
  <2>1. RowsStay /\ UNCHANGED <<row, issued, shared, entitled, answered>>
    BY <1>3, <1>10 DEF RemoveFile
  <2>2. RequestsOK' /\ Shape' /\ Id(r) \in Uploads
    BY <1>10, <2>1, RemoveFileFacts, WritingShape
  <2>3. file' \in [Uploads -> FileStates] /\ faults' \in 0 .. MaxFaults
    BY <1>1, <1>4, <1>10, <2>2, RemoveFileFacts DEF StoreOK, FileStates
  <2>4. mishap' \in [Uploads -> {"none", "abandoned", "unconfirmed"}]
    BY <1>1, <1>10, <2>2, RemoveFileFacts, MishapFacts DEF StoreOK
  <2> QED
    BY <1>1, <2>1, <2>2, <2>3, <2>4 DEF StoreOK
<1>11. ASSUME NEW r \in Requests, UpdateVisibility(r)
       PROVE  RequestsOK' /\ StoreOK' /\ Shape'
  <2>1. At(r, "update") /\ ShapeOf(r) /\ UNCHANGED <<file, issued, answered, mishap>>
    BY <1>1, <1>11 DEF UpdateVisibility, Fails, Returns, Goes, At, Shape
  <2>2. /\ row' \in [Uploads -> Rows \cup {NoRow}] /\ RowsStay
        /\ shared' \subseteq Uploads /\ entitled' \subseteq Requests \X Uploads
    <3>1. CASE UNCHANGED <<row, shared, entitled>>
      BY <1>1, <1>3, <3>1 DEF StoreOK
    <3>2. CASE StoreVisibility(r)
      BY <1>1, <2>1, <3>2, StoreVisibilityFacts DEF RowsStay
    <3> QED
      BY <1>11, <3>1, <3>2, UpdateVisibilityFacts
  <2>3. RequestsOK' /\ Shape'
    BY <1>11, <2>2, UpdateVisibilityFacts, WritingShape
  <2>4. faults' \in 0 .. MaxFaults
    BY <1>4, <1>11, UpdateVisibilityFacts
  <2> QED
    BY <1>1, <2>1, <2>2, <2>3, <2>4 DEF StoreOK
<1>12. ASSUME NEW r \in Requests, HandlerPanics(r), Saving(r)
       PROVE  RequestsOK' /\ StoreOK' /\ Shape'
  <2>1. /\ RowsStay /\ UNCHANGED <<store, shared, entitled, answered>>
        /\ Fault /\ Mishap(Id(r), "abandoned")
    BY <1>3, <1>12 DEF HandlerPanics, store
  <2>2. RequestsOK' /\ Shape' /\ Id(r) \in Uploads
    BY <1>12, <2>1, WritingPanics, WritingShape
  <2>3. mishap' \in [Uploads -> {"none", "abandoned", "unconfirmed"}]
    BY <1>1, <2>1, <2>2, MishapFacts
  <2> QED
    BY <1>1, <1>4, <2>1, <2>2, <2>3 DEF StoreOK, store
<1>13. ASSUME NEW r \in Requests, Done(r)
       PROVE  RequestsOK' /\ StoreOK' /\ Shape'
  <2>1. Shape'
    BY <1>1, <1>13, DoneFacts, IdleFacts DEF Shape, ShapeOf, At, Call, Id, WithUpload, Done, store
  <2>2. StoreOK'
    BY <1>1, <1>4, <1>13 DEF Done, StoreOK, store
  <2> QED
    BY <1>13, <2>1, <2>2, DoneFacts
<1>14. CASE Restart
  <2>1. /\ request' = [r \in Requests |-> Idle] /\ UNCHANGED store
    BY <1>14 DEF Restart
  <2>2. RequestsOK' /\ Shape'
    BY <2>1, IdleFacts DEF RequestsOK, Shape, ShapeOf, At, WithUpload
  <2>3. mishap' \in [Uploads -> {"none", "abandoned", "unconfirmed"}]
    BY <1>1, <1>14 DEF Restart, StoreOK
  <2> QED
    BY <1>1, <1>4, <1>14, <2>2, <2>3 DEF Restart, StoreOK, store
<1>15. CASE UNCHANGED vars
  BY <1>1, <1>15 DEF vars, store, history, RequestsOK, StoreOK, Shape, ShapeOf, At, Call, Id
<1> QED
  BY <1>5, <1>6, <1>7, <1>8, <1>9, <1>10, <1>11, <1>12, <1>13, <1>14, <1>15, NextCases

\* The types of rows, files, requests and history hold in every state.
THEOREM TypeCorrect == Spec => []TypeOK
<1>1. TypeInv => TypeOK
  BY DEF TypeInv
<1> QED
  BY TypeInit, TypeStep, <1>1, PTL DEF Spec

-----------------------------------------------------------------------------
(* Files and rows. *)

Unused(u) == /\ row[u] = NoRow /\ file[u] = "none" /\ mishap[u] = "none"
             /\ u \notin answered

\* What a Save may count on until it is done with its upload.
SaveOK(r) ==
    /\ Id(r) \in issued /\ Id(r) \notin answered
    /\ request[r].at \in {"write", "insert"} => row[Id(r)] = NoRow /\ mishap[Id(r)] = "none"
    /\ At(r, "insert") => file[Id(r)] = "complete"
    /\ row[Id(r)] # NoRow => mishap[Id(r)] = "unconfirmed"

UploadOK(u) ==
    /\ mishap[u] = "unconfirmed" => row[u] # NoRow
    /\ row[u] # NoRow => file[u] = "complete" \/ mishap[u] = "unconfirmed"
    /\ u \in answered => row[u] # NoRow /\ file[u] = "complete"
    /\ file[u] # "none" /\ row[u] = NoRow =>
         mishap[u] = "abandoned" \/ \E r \in Requests : Saving(r) /\ Id(r) = u

FileInv ==
    /\ \A u \in Uploads \ issued : Unused(u)
    /\ \A r \in Requests : Saving(r) => SaveOK(r)
    /\ \A q, r \in Requests : Saving(q) /\ Saving(r) /\ q # r => Id(q) # Id(r)
    /\ \A u \in Uploads : UploadOK(u)

\* No Save begins, goes on or ends, and no file or history changes.
Calm == /\ \A r \in Requests :
              /\ Saving(r)' <=> Saving(r)
              /\ Saving(r) => request'[r].at = request[r].at /\ Id(r)' = Id(r)
        /\ \A u \in Uploads : row'[u] = NoRow <=> row[u] = NoRow
        /\ UNCHANGED <<file, issued, answered, mishap>>

\* A step that touches neither rows, files nor Saves keeps FileInv.
LEMMA CalmStep == TypeInv /\ FileInv /\ Calm => FileInv'
<1> SUFFICES ASSUME TypeInv, FileInv, Calm PROVE FileInv'
  OBVIOUS
<1>1. \A r \in Requests : Saving(r) => Id(r) \in Uploads
  BY DEF TypeInv, Shape, ShapeOf, Saving, WithUpload
<1>2. \A u \in Uploads : Unused(u) => Unused(u)'
  BY DEF Calm, Unused
<1>3. \A r \in Requests : Saving(r) /\ SaveOK(r) => SaveOK(r)'
  BY <1>1 DEF Calm, SaveOK, At
<1>4. ASSUME NEW u \in Uploads, UploadOK(u) PROVE UploadOK(u)'
  <2>1. (\E r \in Requests : Saving(r) /\ Id(r) = u) => (\E r \in Requests : Saving(r) /\ Id(r) = u)'
    BY DEF Calm
  <2> QED
    BY <1>4, <2>1 DEF Calm, UploadOK
<1>5. \A q, r \in Requests :
        Saving(q)' /\ Saving(r)' => Saving(q) /\ Saving(r) /\ Id(q)' = Id(q) /\ Id(r)' = Id(r)
  BY DEF Calm
<1> QED
  BY <1>2, <1>3, <1>4, <1>5 DEF FileInv, Calm

\* A step of request r's Save, which leaves all other uploads alone.
SaveStep(r) ==
    /\ Saving(r) /\ request'[r].call = request[r].call
    /\ \A q \in Requests : q # r => request'[q] = request[q]
    /\ \A u \in Uploads : u # Id(r) => /\ row'[u] = row[u] /\ file'[u] = file[u]
                                       /\ mishap'[u] = mishap[u]
                                       /\ u \in answered' <=> u \in answered
    /\ UNCHANGED issued

\* A step of a Save keeps FileInv if it keeps the parts about that Save and its upload.
LEMMA SavePreserves ==
    ASSUME TypeInv, FileInv, NEW r \in Requests, SaveStep(r),
           Saving(r)' => SaveOK(r)', UploadOK(Id(r))'
    PROVE  FileInv'
<1>1. \A q \in Requests : Saving(q) => Id(q) \in Uploads
  BY DEF TypeInv, Shape, ShapeOf, Saving, WithUpload
<1>2. Id(r)' = Id(r) /\ Id(r) \in Uploads /\ Id(r) \in issued
  BY <1>1 DEF SaveStep, Id, FileInv, SaveOK
<1>3. ASSUME NEW q \in Requests, q # r
      PROVE  (Saving(q)' <=> Saving(q)) /\ Id(q)' = Id(q) /\ request'[q] = request[q]
  BY <1>3 DEF SaveStep, Saving, Id
<1>4. ASSUME NEW u \in Uploads \ issued PROVE Unused(u)'
  <2>1. u # Id(r) /\ Unused(u)
    BY <1>2 DEF FileInv
  <2> QED
    BY <2>1 DEF SaveStep, Unused
<1>5. ASSUME NEW q \in Requests, q # r, Saving(q) PROVE SaveOK(q)'
  <2>1. SaveOK(q) /\ Id(q) # Id(r) /\ Id(q) \in Uploads
    BY <1>1, <1>5 DEF FileInv, SaveStep
  <2> QED
    BY <1>3, <1>5, <2>1 DEF SaveStep, SaveOK, At
<1>6. ASSUME NEW u \in Uploads, u # Id(r) PROVE UploadOK(u)'
  <2>1. UploadOK(u)
    BY DEF FileInv
  <2>2. (\E q \in Requests : Saving(q) /\ Id(q) = u) => (\E q \in Requests : Saving(q) /\ Id(q) = u)'
    BY <1>3, <1>6
  <2> QED
    BY <1>6, <2>1, <2>2 DEF SaveStep, UploadOK
<1>7. \A p, q \in Requests : Saving(p)' /\ Saving(q)' /\ p # q => Id(p)' # Id(q)'
  BY <1>2, <1>3 DEF FileInv, SaveStep
<1> QED
  BY <1>2, <1>3, <1>4, <1>5, <1>6, <1>7 DEF FileInv, SaveStep

\* An empty directory and an empty table agree.
THEOREM FileInit == Init => FileInv
  BY DEF Init, FileInv, Unused, UploadOK, Saving, Idle

\* A writing step is a step of its Save, whose facts are these.
LEMMA SavingFacts ==
    ASSUME TypeInv, FileInv, NEW r \in Requests, NEW from \in Saves, NEW to,
           WritingMove(r, from, to)
    PROVE  /\ Saving(r) /\ At(r, from) /\ At(r, to)' /\ Id(r)' = Id(r)
           /\ Id(r) \in Uploads /\ SaveOK(r) /\ UploadOK(Id(r))
           /\ request'[r].call = request[r].call
           /\ \A q \in Requests : q # r => request'[q] = request[q]
<1>1. Saving(r) /\ At(r, from) /\ At(r, to)' /\ Id(r)' = Id(r)
  BY DEF WritingMove, Moved, Saving, Saves, At, Id
<1>2. Id(r) \in Uploads
  BY <1>1 DEF TypeInv, Shape, ShapeOf, Saving, WithUpload
<1> QED
  BY <1>1, <1>2 DEF WritingMove, Moved, FileInv

\* Writing the file keeps FileInv.
LEMMA FileWrite ==
    ASSUME TypeInv, FileInv, NEW r \in Requests, WriteFile(r) PROVE FileInv'
<1>1. PICK to \in {"insert", "remove", "error"} : WritingMove(r, "write", to)
  BY WriteFileFacts
<1>2. /\ Saving(r) /\ At(r, "write") /\ At(r, to)' /\ Id(r)' = Id(r)
      /\ Id(r) \in Uploads /\ SaveOK(r) /\ UploadOK(Id(r))
      /\ request'[r].call = request[r].call
      /\ \A q \in Requests : q # r => request'[q] = request[q]
  BY <1>1, SavingFacts DEF Saves
<1>3. UNCHANGED <<row, issued, shared, entitled, answered>>
  BY DEF WriteFile
<1>4. StoreOK /\ row[Id(r)] = NoRow /\ mishap[Id(r)] = "none" /\ Id(r) \notin answered
  BY <1>2, Types DEF SaveOK, At, TypeInv
<1>5. CASE /\ WritingMove(r, "write", "insert")
           /\ file' = [file EXCEPT ![Id(r)] = "complete"] /\ UNCHANGED mishap
  <2>1. SaveStep(r) /\ file'[Id(r)] = "complete" /\ At(r, "insert")'
    BY <1>2, <1>3, <1>4, <1>5 DEF SaveStep, StoreOK, WritingMove, Moved, At
  <2>2. SaveOK(r)' /\ Saving(r)'
    BY <1>2, <1>3, <1>4, <1>5, <2>1 DEF SaveOK, At, Saving
  <2>3. UploadOK(Id(r))'
    BY <1>2, <1>3, <1>4, <1>5, <2>1, <2>2 DEF UploadOK
  <2> QED
    BY <2>1, <2>2, <2>3, SavePreserves
<1>6. CASE WritingMove(r, "write", "remove") /\ UNCHANGED <<file, mishap>>
  <2>1. SaveStep(r) /\ At(r, "remove")'
    BY <1>2, <1>3, <1>6 DEF SaveStep, WritingMove, Moved, At
  <2>2. SaveOK(r)' /\ Saving(r)'
    BY <1>2, <1>3, <1>4, <1>6, <2>1 DEF SaveOK, At, Saving
  <2>3. UploadOK(Id(r))'
    BY <1>2, <1>3, <1>4, <1>6, <2>1, <2>2 DEF UploadOK
  <2> QED
    BY <2>1, <2>2, <2>3, SavePreserves
<1>7. CASE /\ WritingMove(r, "write", "error")
           /\ Mishap(Id(r), "abandoned") /\ UNCHANGED file
  <2>1. /\ mishap'[Id(r)] = "abandoned"
        /\ \A v \in Uploads : v # Id(r) => mishap'[v] = mishap[v]
    BY <1>2, <1>4, <1>7, MishapFacts
  <2>2. SaveStep(r) /\ ~Saving(r)'
    BY <1>2, <1>3, <1>7, <2>1 DEF SaveStep, WritingMove, Moved, Saving
  <2>3. UploadOK(Id(r))'
    BY <1>2, <1>3, <1>4, <1>7, <2>1 DEF UploadOK
  <2> QED
    BY <2>2, <2>3, SavePreserves
<1> QED
  BY <1>5, <1>6, <1>7, WriteFileFacts

\* Inserting the row keeps FileInv.
LEMMA FileInsert ==
    ASSUME TypeInv, FileInv, NEW r \in Requests, InsertRow(r) PROVE FileInv'
<1>1. PICK to \in {"error", "remove"} : WritingMove(r, "insert", to)
  BY InsertRowFacts
<1>2. /\ Saving(r) /\ At(r, "insert") /\ At(r, to)' /\ Id(r)' = Id(r)
      /\ Id(r) \in Uploads /\ SaveOK(r) /\ UploadOK(Id(r))
      /\ request'[r].call = request[r].call
      /\ \A q \in Requests : q # r => request'[q] = request[q]
  BY <1>1, SavingFacts DEF Saves
<1>3. UNCHANGED <<file, issued>>
  BY DEF InsertRow
<1>4. /\ StoreOK /\ ShapeOf(r) /\ row[Id(r)] = NoRow /\ mishap[Id(r)] = "none"
      /\ Id(r) \notin answered /\ file[Id(r)] = "complete"
  BY <1>2, Types DEF SaveOK, At, TypeInv, Shape
<1>5. AddRow(r) => /\ row'[Id(r)] # NoRow
                   /\ \A u \in Uploads : u # Id(r) => row'[u] = row[u]
  <2>1. \A x \in Rows : x # NoRow
    BY DEF Rows, NoRow, Visibilities
  <2> QED
    BY <1>2, <1>4, <2>1, AddRowFacts
<1>6. CASE /\ WritingMove(r, "insert", "error") /\ AddRow(r)
           /\ answered' = answered \cup {Id(r)} /\ UNCHANGED mishap
  <2>1. SaveStep(r) /\ ~Saving(r)'
    BY <1>2, <1>3, <1>5, <1>6 DEF SaveStep, WritingMove, Moved, Saving
  <2>2. UploadOK(Id(r))'
    BY <1>2, <1>3, <1>4, <1>5, <1>6 DEF UploadOK
  <2> QED
    BY <2>1, <2>2, SavePreserves
<1>7. CASE /\ WritingMove(r, "insert", "remove") /\ UNCHANGED answered
           /\ AddRow(r) /\ Mishap(Id(r), "unconfirmed")
  <2>1. /\ mishap'[Id(r)] = "unconfirmed"
        /\ \A v \in Uploads : v # Id(r) => mishap'[v] = mishap[v]
    BY <1>2, <1>4, <1>7, MishapFacts
  <2>2. SaveStep(r) /\ At(r, "remove")'
    BY <1>2, <1>3, <1>5, <1>7, <2>1 DEF SaveStep, WritingMove, Moved, At
  <2>3. SaveOK(r)'
    BY <1>2, <1>3, <1>4, <1>7, <2>1, <2>2 DEF SaveOK, At
  <2>4. UploadOK(Id(r))'
    BY <1>2, <1>3, <1>4, <1>5, <1>7, <2>1 DEF UploadOK
  <2> QED
    BY <2>2, <2>3, <2>4, SavePreserves
<1>8. CASE /\ WritingMove(r, "insert", "remove") /\ UNCHANGED <<answered, row, mishap>>
  <2>1. SaveStep(r) /\ At(r, "remove")'
    BY <1>2, <1>3, <1>8 DEF SaveStep, WritingMove, Moved, At
  <2>2. SaveOK(r)' /\ Saving(r)'
    BY <1>2, <1>3, <1>4, <1>8, <2>1 DEF SaveOK, At, Saving
  <2>3. UploadOK(Id(r))'
    BY <1>2, <1>3, <1>4, <1>8, <2>2 DEF UploadOK
  <2> QED
    BY <2>1, <2>2, <2>3, SavePreserves
<1> QED
  BY <1>6, <1>7, <1>8, InsertRowFacts

\* A Save that removes its file, fails to, or panics, is over.
LEMMA FileGivenUp ==
    ASSUME TypeInv, FileInv, NEW r \in Requests, NEW from \in Saves,
           NEW to \in {"error", "logging"}, WritingMove(r, from, to),
           UNCHANGED <<row, issued, answered>>,
           \/ UNCHANGED file /\ Mishap(Id(r), "abandoned")
           \/ /\ from = "remove" /\ UNCHANGED mishap
              /\ file' = [file EXCEPT ![Id(r)] = "none"]
    PROVE  FileInv'
<1>1. /\ Saving(r) /\ At(r, from) /\ At(r, to)' /\ Id(r)' = Id(r)
      /\ Id(r) \in Uploads /\ SaveOK(r) /\ UploadOK(Id(r))
      /\ request'[r].call = request[r].call
      /\ \A q \in Requests : q # r => request'[q] = request[q]
  BY SavingFacts
<1>2. StoreOK /\ Id(r) \notin answered /\ (row[Id(r)] # NoRow => mishap[Id(r)] = "unconfirmed")
  BY <1>1, Types DEF SaveOK, TypeInv
<1>3. ~Saving(r)'
  BY <1>1 DEF Saving, At
<1>4. CASE UNCHANGED file /\ Mishap(Id(r), "abandoned")
  <2>1. /\ \A v \in Uploads : mishap[v] # "none" \/ v # Id(r) => mishap'[v] = mishap[v]
        /\ mishap[Id(r)] = "none" => mishap'[Id(r)] = "abandoned"
        /\ mishap[Id(r)] \in {"none", "abandoned", "unconfirmed"}
    BY <1>1, <1>2, <1>4, MishapFacts DEF StoreOK
  <2>2. SaveStep(r)
    BY <1>1, <1>4, <2>1 DEF SaveStep
  <2>3. UploadOK(Id(r))'
    BY <1>1, <1>2, <1>4, <2>1 DEF UploadOK
  <2> QED
    BY <1>3, <2>2, <2>3, SavePreserves
<1>5. CASE UNCHANGED mishap /\ file' = [file EXCEPT ![Id(r)] = "none"]
  <2>1. file'[Id(r)] = "none" /\ \A v \in Uploads : v # Id(r) => file'[v] = file[v]
    BY <1>1, <1>2, <1>5 DEF StoreOK
  <2>2. SaveStep(r)
    BY <1>1, <1>5, <2>1 DEF SaveStep
  <2>3. UploadOK(Id(r))'
    BY <1>1, <1>2, <1>5, <2>1 DEF UploadOK
  <2> QED
    BY <1>3, <2>2, <2>3, SavePreserves
<1> QED
  BY <1>4, <1>5

\* A new Save takes an ID nobody has.
LEMMA FileCreate ==
    ASSUME TypeInv, FileInv, NEW r \in Requests, NEW u \in Uploads, CreateFile(r, u)
    PROVE  FileInv'
<1>1. /\ u \notin issued /\ issued' = issued \cup {u}
      /\ file' = [file EXCEPT ![u] = "partial"]
      /\ UNCHANGED row /\ UNCHANGED <<shared, entitled, answered, mishap>>
  BY DEF CreateFile, history
<1>2. /\ Unused(u) /\ file'[u] = "partial"
      /\ \A v \in Uploads : v # u => file'[v] = file[v]
  BY <1>1 DEF FileInv, TypeInv, TypeOK
<1>3. /\ At(r, "write")' /\ Id(r)' = u /\ ~Saving(r)
      /\ \A q \in Requests : q # r => request'[q] = request[q]
  BY CreateFileFacts DEF At, Id, Saving
<1>4. ASSUME NEW q \in Requests, q # r
      PROVE  (Saving(q)' <=> Saving(q)) /\ Id(q)' = Id(q) /\ request'[q] = request[q]
  BY <1>3, <1>4 DEF Saving, Id
<1>5. \A v \in Uploads \ issued' : Unused(v)'
  BY <1>1, <1>2 DEF FileInv, Unused
<1>6. SaveOK(r)' /\ Saving(r)'
  BY <1>1, <1>2, <1>3 DEF SaveOK, Saving, At, Unused
<1>7. ASSUME NEW q \in Requests, q # r, Saving(q)' PROVE SaveOK(q)' /\ Id(q)' # u
  <2>1. Saving(q) /\ SaveOK(q) /\ Id(q) \in Uploads /\ Id(q) # u
    BY <1>1, <1>4, <1>7 DEF FileInv, SaveOK, TypeInv, Shape, ShapeOf, Saving, WithUpload
  <2> QED
    BY <1>1, <1>2, <1>4, <1>7, <2>1 DEF SaveOK, At
<1>8. ASSUME NEW v \in Uploads PROVE UploadOK(v)'
  <2>1. CASE v = u
    BY <1>1, <1>2, <1>3, <1>6, <2>1 DEF UploadOK, Unused
  <2>2. CASE v # u
    <3>1. UploadOK(v)
      BY DEF FileInv
    <3>2. (\E q \in Requests : Saving(q) /\ Id(q) = v) => (\E q \in Requests : Saving(q) /\ Id(q) = v)'
      BY <1>3, <1>4
    <3> QED
      BY <1>1, <1>2, <2>2, <3>1, <3>2 DEF UploadOK
  <2> QED
    BY <2>1, <2>2
<1>9. \A p, q \in Requests : Saving(p)' /\ Saving(q)' /\ p # q => Id(p)' # Id(q)'
  BY <1>3, <1>4, <1>7 DEF FileInv
<1> QED
  BY <1>5, <1>6, <1>7, <1>8, <1>9 DEF FileInv

\* A restart cuts every Save off, and leaves a mishap where one was.
LEMMA FileRestart == TypeInv /\ FileInv /\ Restart => FileInv'
<1> SUFFICES ASSUME TypeInv, FileInv, Restart PROVE FileInv'
  OBVIOUS
<1>1. /\ \A r \in Requests : ~Saving(r)'
      /\ UNCHANGED <<row, file, issued, answered>>
  BY IdleFacts DEF Restart, Saving, store
<1>2. ASSUME NEW u \in Uploads
      PROVE  mishap'[u] = IF mishap[u] = "none" /\ \E r \in Requests : Saving(r) /\ Id(r) = u
                          THEN "abandoned" ELSE mishap[u]
  BY DEF Restart
<1>3. ASSUME NEW u \in Uploads \ issued PROVE Unused(u)'
  <2>1. Unused(u) /\ ~\E r \in Requests : Saving(r) /\ Id(r) = u
    BY DEF FileInv, SaveOK
  <2> QED
    BY <1>1, <1>2, <2>1 DEF Unused
<1>4. ASSUME NEW u \in Uploads PROVE UploadOK(u)'
  <2>1. /\ UploadOK(u) /\ mishap[u] \in {"none", "abandoned", "unconfirmed"}
        /\ \A r \in Requests : Saving(r) => SaveOK(r)
    BY DEF FileInv, TypeInv, TypeOK
  <2>2. CASE mishap[u] = "none" /\ \E r \in Requests : Saving(r) /\ Id(r) = u
    BY <1>1, <1>2, <2>1, <2>2 DEF UploadOK, SaveOK
  <2>3. CASE ~(mishap[u] = "none" /\ \E r \in Requests : Saving(r) /\ Id(r) = u)
    BY <1>1, <1>2, <2>1, <2>3 DEF UploadOK
  <2> QED
    BY <2>2, <2>3
<1> QED
  BY <1>1, <1>3, <1>4 DEF FileInv

\* Every step keeps FileInv.
LEMMA FileStep == TypeInv /\ FileInv /\ [Next]_vars => FileInv'
<1> SUFFICES ASSUME TypeInv, FileInv, [Next]_vars PROVE FileInv'
  OBVIOUS
<1>1. ASSUME NEW r \in Requests, NEW c \in Calls, Arrives(r, c) PROVE FileInv'
  BY <1>1, ArrivesFacts, CalmStep DEF Calm, Saving, Id, Arrives, store
<1>2. ASSUME NEW r \in Requests, Quiet(r) PROVE FileInv'
  <2>1. PICK from \in Places \ ({"idle"} \cup Saves), to \in Places \ Saves :
          Moved(r, from, to) /\ UNCHANGED <<store, history>>
    BY <1>2, QuietSteps DEF QuietMove
  <2> QED
    BY <2>1, CalmStep DEF Calm, Moved, Saving, Saves, Id, store, history
<1>3. ASSUME NEW r \in Requests, RemoveFile(r) PROVE FileInv'
  BY <1>3, RemoveFileFacts, FileGivenUp DEF RemoveFile, Saves
<1>4. ASSUME NEW r \in Requests, HandlerPanics(r), Saving(r) PROVE FileInv'
  BY <1>4, WritingPanics, FileGivenUp DEF HandlerPanics, store
<1>5. ASSUME NEW r \in Requests, UpdateVisibility(r) PROVE FileInv'
  <2>1. PICK to \in {"reread", "error"} : WritingMove(r, "update", to)
    BY <1>5, UpdateVisibilityFacts
  <2>2. UNCHANGED <<file, issued, answered, mishap>> /\ ShapeOf(r) /\ StoreOK /\ At(r, "update")
    BY <1>5, <2>1, Types DEF UpdateVisibility, TypeInv, Shape, WritingMove, Moved, At
  <2>3. \A u \in Uploads : row'[u] = NoRow <=> row[u] = NoRow
    BY <1>5, <2>2, UpdateVisibilityFacts, StoreVisibilityFacts DEF ShapeOf, At
  <2> QED
    BY <2>1, <2>2, <2>3, CalmStep DEF Calm, WritingMove, Moved, Saving, Id
<1>6. ASSUME NEW r \in Requests, Done(r) PROVE FileInv'
  BY <1>6, DoneFacts, IdleFacts, CalmStep DEF Calm, Saving, Id, Done, store
<1>7. CASE UNCHANGED vars
  BY <1>7, CalmStep DEF Calm, vars, store, history, Saving, Id
<1> QED
  BY <1>1, <1>2, <1>3, <1>4, <1>5, <1>6, <1>7, NextCases, FileWrite, FileInsert, FileCreate,
     FileRestart

\* FileInv holds in every reachable state.
LEMMA FileAlways == Spec => [](TypeInv /\ FileInv)
  BY TypeInit, TypeStep, FileInit, FileStep, PTL DEF Spec

\* A row names a complete file, unless its insert reported an error.
THEOREM RowsHaveFiles == Spec => []RowHasFile
<1>1. FileInv => RowHasFile
  BY DEF FileInv, UploadOK, RowHasFile
<1> QED
  BY FileAlways, <1>1, PTL

\* What was answered with 201 stays, whatever fails later.
THEOREM AnsweredUploadsStay == Spec => []AnsweredUploadStays
<1>1. TypeInv /\ FileInv => AnsweredUploadStays
  BY DEF TypeInv, TypeOK, FileInv, UploadOK, AnsweredUploadStays
<1> QED
  BY FileAlways, <1>1, PTL

\* Only a cut-off Save leaves a file that no row names.
THEOREM OrphansHaveMishaps == Spec => []NoOrphanWithoutMishap
<1>1. FileInv => NoOrphanWithoutMishap
  BY DEF FileInv, UploadOK, NoOrphanWithoutMishap
<1> QED
  BY FileAlways, <1>1, PTL

-----------------------------------------------------------------------------
(* Who sees what. *)

\* Request r may be shown upload u.
MaySee(r, u) == row[u] # NoRow /\ (row[u].owner = Call(r).owner \/ <<r, u>> \in entitled)

SightOK(r) ==
    /\ ~At(r, "idle") => \A u \in shared : <<r, u>> \in entitled
    /\ At(r, "serve") => MaySee(r, Id(r))
    /\ At(r, "update") => row[Id(r)].owner = Call(r).owner
    /\ \A u \in request[r].revealed : MaySee(r, u)

ShareInv ==
    /\ \A u \in Uploads : row[u] # NoRow /\ row[u].visibility = "public" => u \in shared
    /\ \A r \in Requests : SightOK(r)

\* Rows keep their owners, and no request but r, if any, changes or loses a right.
SameRights(r) ==
    /\ \A u \in Uploads : row[u] # NoRow => row'[u] # NoRow /\ row'[u].owner = row[u].owner
    /\ \A q \in Requests : q # r => request'[q] = request[q]
    /\ \A q \in Requests, u \in Uploads :
          q # r /\ <<q, u>> \in entitled => <<q, u>> \in entitled'
    /\ \A q \in Requests, u \in shared' :
          q # r /\ ~At(q, "idle") => u \in shared \/ <<q, u>> \in entitled'

\* Rows that do not change stay covered by what was shared.
LEMMA SamePublic ==
    ASSUME UNCHANGED <<row, shared>>,
           \A u \in Uploads : row[u] # NoRow /\ row[u].visibility = "public" => u \in shared
    PROVE  \A u \in Uploads : row'[u] # NoRow /\ row'[u].visibility = "public" => u \in shared'
  OBVIOUS

\* A request that does not move may still see what it might.
LEMMA OthersSight ==
    ASSUME TypeInv, NEW r \in Requests, SameRights(r), NEW q \in Requests, q # r, SightOK(q)
    PROVE  SightOK(q)'
<1>1. request'[q] = request[q] /\ request[q] \in RequestStates
  BY DEF SameRights, TypeInv, TypeOK
<1>2. request[q].revealed \subseteq Uploads
  BY <1>1 DEF RequestStates
<1>3. request[q].at \in {"serve", "update"} => Id(q) \in Uploads /\ row[Id(q)] # NoRow
  BY DEF TypeInv, Shape, ShapeOf, WithUpload
<1>4. ASSUME NEW u \in Uploads, MaySee(q, u) PROVE MaySee(q, u)'
  BY <1>1, <1>4 DEF MaySee, SameRights, Call
<1>5. ~At(q, "idle")' => \A u \in shared' : <<q, u>> \in entitled'
  BY <1>1 DEF SightOK, SameRights, At, TypeInv, TypeOK
<1>6. At(q, "serve")' => MaySee(q, Id(q))'
  BY <1>1, <1>3, <1>4 DEF SightOK, At, Id
<1>7. At(q, "update")' => row'[Id(q)'].owner = Call(q)'.owner
  BY <1>1, <1>3 DEF SightOK, At, Id, Call, SameRights
<1>8. \A u \in request'[q].revealed : MaySee(q, u)'
  BY <1>1, <1>2, <1>4 DEF SightOK
<1> QED
  BY <1>1, <1>5, <1>6, <1>7, <1>8 DEF SightOK

\* Whoever may read an upload now may see it.
LEMMA ReadersMaySee ==
    ASSUME ShareInv, NEW r \in Requests, ~At(r, "idle"), NEW u \in Uploads,
           MayRead(Call(r).owner, u)
    PROVE  MaySee(r, u)
  BY DEF ShareInv, SightOK, MayRead, MaySee

\* Before the first request nothing is shared and nothing shown.
THEOREM ShareInit == Init => ShareInv
  BY IdleFacts DEF Init, ShareInv, SightOK, At, NoRow

\* Quiet steps keep ShareInv.
LEMMA ShareQuiet ==
    ASSUME TypeInv, ShareInv, NEW r \in Requests, Quiet(r) PROVE ShareInv'
<1>1. PICK from \in Places \ ({"idle"} \cup Saves), to \in Places \ Saves :
        /\ Moved(r, from, to) /\ Fits(r, to) /\ Careful(r, from, to)
        /\ UNCHANGED <<store, history>>
  BY QuietSteps DEF QuietMove
<1>2. SameRights(r)
  BY <1>1 DEF SameRights, Moved, store, history
<1>3. /\ ~At(r, "idle") /\ At(r, from) /\ SightOK(r) /\ request'[r].revealed \subseteq Uploads
      /\ At(r, "serve") \/ to = "serve" => Id(r) \in Uploads
  BY <1>1 DEF Moved, At, ShareInv, TypeInv, Shape, ShapeOf, Fits, WithUpload, RequestsOK,
              RequestStates
<1>4. /\ Id(r)' = Id(r) /\ Call(r)' = Call(r) /\ (At(r, to)')
      /\ \A u : MaySee(r, u) => MaySee(r, u)'
  BY <1>1 DEF Moved, Id, Call, At, MaySee, store, history
<1>5. \A u \in request'[r].revealed : MaySee(r, u)'
  BY <1>1, <1>3, <1>4, ReadersMaySee DEF Careful, SightOK, At
<1>6. to = "serve" => MaySee(r, Id(r))'
  BY <1>1, <1>3, <1>4, ReadersMaySee DEF Careful
<1>7. SightOK(r)'
  BY <1>1, <1>3, <1>4, <1>5, <1>6 DEF SightOK, Careful, At, Moved, store, history
<1>8. \A q \in Requests : SightOK(q)'
  BY <1>2, <1>7, OthersSight DEF ShareInv
<1> QED
  BY <1>1, <1>8, SamePublic DEF ShareInv, store, history

\* A step of a Save or an UPDATE shows nothing.
LEMMA WritingSight ==
    ASSUME TypeInv, ShareInv, NEW r \in Requests, NEW from, NEW to,
           WritingMove(r, from, to), SameRights(r),
           \A u \in Uploads : <<r, u>> \in entitled => <<r, u>> \in entitled',
           \A u \in shared' : u \in shared \/ <<r, u>> \in entitled'
    PROVE  \A q \in Requests : SightOK(q)'
<1>1. /\ ~At(r, "idle") /\ SightOK(r) /\ request'[r].revealed \subseteq Uploads
      /\ Call(r)' = Call(r) /\ At(r, to)' /\ to \notin {"serve", "update", "idle"}
      /\ request[r].at = from /\ from # "serve"
  BY DEF WritingMove, Moved, At, ShareInv, RequestsOK, RequestStates, Saves, Call
<1>2. \A u \in request'[r].revealed : u \in request[r].revealed \/ MayRead(Call(r).owner, u)
  BY <1>1 DEF WritingMove, Careful
<1>3. \A u \in Uploads : MaySee(r, u) => MaySee(r, u)'
  BY <1>1 DEF MaySee, SameRights
<1>4. \A u \in request'[r].revealed : MaySee(r, u)'
  BY <1>1, <1>2, <1>3, ReadersMaySee DEF SightOK
<1>5. \A u \in shared' : <<r, u>> \in entitled'
  BY <1>1 DEF SightOK, TypeInv, TypeOK
<1>6. SightOK(r)'
  BY <1>1, <1>4, <1>5 DEF SightOK, At
<1> QED
  BY <1>6, OthersSight DEF ShareInv

\* So do writing moves that change no row.
LEMMA ShareCalm ==
    ASSUME TypeInv, ShareInv, NEW r \in Requests, NEW from, NEW to,
           WritingMove(r, from, to), UNCHANGED <<row, shared, entitled>>
    PROVE  ShareInv'
<1>1. SameRights(r)
  BY DEF SameRights, WritingMove, Moved
<1> QED
  BY <1>1, WritingSight, SamePublic DEF ShareInv

\* So does the insert, which makes a row nobody has looked at.
LEMMA ShareInsert ==
    ASSUME TypeInv, FileInv, ShareInv, NEW r \in Requests, InsertRow(r) PROVE ShareInv'
<1>1. PICK to \in {"error", "remove"} :
        /\ WritingMove(r, "insert", to)
        /\ AddRow(r) \/ UNCHANGED <<row, shared, entitled>>
  BY InsertRowFacts
<1>2. CASE UNCHANGED <<row, shared, entitled>>
  BY <1>1, <1>2, ShareCalm
<1>3. CASE AddRow(r)
  <2>1. /\ StoreOK /\ ShapeOf(r) /\ At(r, "insert") /\ Id(r) \in Uploads /\ row[Id(r)] = NoRow
    BY <1>1, SavingFacts, Types DEF TypeInv, Shape, Saves, SaveOK, At
  <2>2. /\ \A u \in Uploads : u # Id(r) => row'[u] = row[u]
        /\ \/ row'[Id(r)].visibility = "public" /\ Shares(Id(r))
           \/ row'[Id(r)].visibility = "private" /\ UNCHANGED <<shared, entitled>>
    BY <1>3, <2>1, AddRowFacts
  <2>3. /\ entitled \subseteq entitled' /\ shared \subseteq shared'
        /\ \A u \in shared' : u \in shared \/ u = Id(r)
        /\ Id(r) \in shared' =>
              \/ Id(r) \in shared
              \/ \A q \in Requests : ~At(q, "idle") => <<q, Id(r)>> \in entitled'
        /\ row'[Id(r)].visibility = "public" => Id(r) \in shared'
    BY <2>1, <2>2, SharesFacts
  <2>4. SameRights(r)
    BY <1>1, <2>1, <2>2, <2>3 DEF SameRights, WritingMove, Moved
  <2>5. \A q \in Requests : SightOK(q)'
    BY <1>1, <2>1, <2>3, <2>4, WritingSight DEF At
  <2> QED
    BY <2>2, <2>3, <2>5 DEF ShareInv
<1> QED
  BY <1>1, <1>2, <1>3

\* So does the UPDATE: only an owner makes it, and it entitles those in hand.
LEMMA ShareUpdate ==
    ASSUME TypeInv, ShareInv, NEW r \in Requests, UpdateVisibility(r) PROVE ShareInv'
<1>1. PICK to \in {"reread", "error"} :
        /\ WritingMove(r, "update", to)
        /\ StoreVisibility(r) \/ UNCHANGED <<row, shared, entitled>>
  BY UpdateVisibilityFacts
<1>2. CASE UNCHANGED <<row, shared, entitled>>
  BY <1>1, <1>2, ShareCalm
<1>3. CASE StoreVisibility(r)
  <2>1. /\ StoreOK /\ ShapeOf(r) /\ At(r, "update") /\ Id(r) \in Uploads
        /\ row[Id(r)].owner = Call(r).owner /\ Call(r).vis \in Visibilities
    BY <1>1, Types DEF TypeInv, Shape, ShapeOf, WritingMove, Moved, At, WithUpload, ShareInv,
                       SightOK
  <2>2. /\ \A u \in Uploads : u # Id(r) => row'[u] = row[u]
        /\ row'[Id(r)] # NoRow /\ row'[Id(r)].owner = row[Id(r)].owner
        /\ row'[Id(r)].visibility = Call(r).vis
    BY <1>3, <2>1, StoreVisibilityFacts
  <2>3. \/ Call(r).vis = "public" /\ Shares(Id(r))
        \/ Call(r).vis # "public" /\ shared' = shared \ {Id(r)} /\ UNCHANGED entitled
    BY <1>3, <2>1 DEF StoreVisibility
  <2>4. /\ entitled \subseteq entitled'
        /\ \A u \in shared' : u \in shared \/ u = Id(r)
        /\ \A u \in shared : u = Id(r) \/ u \in shared'
        /\ Id(r) \in shared' =>
              \A q \in Requests : ~At(q, "idle") => <<q, Id(r)>> \in entitled'
        /\ Call(r).vis = "public" => Id(r) \in shared'
    BY <2>1, <2>3, SharesFacts
  <2>5. SameRights(r)
    BY <1>1, <2>1, <2>2, <2>4 DEF SameRights, WritingMove, Moved
  <2>6. \A q \in Requests : SightOK(q)'
    BY <1>1, <2>1, <2>4, <2>5, WritingSight DEF At
  <2> QED
    BY <2>2, <2>4, <2>6 DEF ShareInv
<1> QED
  BY <1>1, <1>2, <1>3

\* Every step keeps ShareInv.
LEMMA ShareStep == TypeInv /\ FileInv /\ ShareInv /\ [Next]_vars => ShareInv'
<1> SUFFICES ASSUME TypeInv, FileInv, ShareInv, [Next]_vars PROVE ShareInv'
  OBVIOUS
<1>1. ASSUME NEW r \in Requests, NEW c \in Calls, Arrives(r, c) PROVE ShareInv'
  <2>1. /\ UNCHANGED <<row, shared>>
        /\ entitled' = entitled \cup {<<r, u>> : u \in shared}
    BY <1>1 DEF Arrives, store
  <2>2. SameRights(r)
    BY <1>1, <2>1, ArrivesFacts DEF SameRights
  <2>3. SightOK(r)'
    BY <1>1, <2>1, ArrivesFacts DEF SightOK, At
  <2> QED
    BY <2>1, <2>2, <2>3, OthersSight, SamePublic DEF ShareInv
<1>2. ASSUME NEW r \in Requests, NEW u \in Uploads, CreateFile(r, u) PROVE ShareInv'
  <2>1. UNCHANGED <<row, shared, entitled>>
    BY <1>2 DEF CreateFile, history
  <2>2. SameRights(r)
    BY <1>2, <2>1, CreateFileFacts DEF SameRights
  <2>3. SightOK(r)'
    <3>1. ~At(r, "idle") /\ ~At(r, "serve")' /\ ~At(r, "update")' /\ SightOK(r)
      BY <1>2, CreateFileFacts DEF At, ShareInv
    <3>2. \A v \in request[r].revealed : MaySee(r, v) => MaySee(r, v)'
      BY <1>2, <2>1, CreateFileFacts DEF MaySee, Call
    <3>3. request'[r].revealed = request[r].revealed
      BY <1>2, CreateFileFacts
    <3> QED
      BY <2>1, <3>1, <3>2, <3>3 DEF SightOK
  <2> QED
    BY <2>1, <2>2, <2>3, OthersSight, SamePublic DEF ShareInv
<1>3. ASSUME NEW r \in Requests, WriteFile(r) PROVE ShareInv'
  BY <1>3, WriteFileFacts, ShareCalm DEF WriteFile
<1>4. ASSUME NEW r \in Requests, RemoveFile(r) PROVE ShareInv'
  BY <1>4, RemoveFileFacts, ShareCalm DEF RemoveFile
<1>5. ASSUME NEW r \in Requests, HandlerPanics(r), Saving(r) PROVE ShareInv'
  BY <1>5, WritingPanics, ShareCalm DEF HandlerPanics, store
<1>6. ASSUME NEW r \in Requests, Done(r) PROVE ShareInv'
  <2>1. UNCHANGED <<row, shared>> /\ entitled' = {e \in entitled : e[1] # r}
    BY <1>6 DEF Done, store
  <2>2. SameRights(r)
    BY <1>6, <2>1, DoneFacts DEF SameRights
  <2>3. SightOK(r)'
    BY <1>6, DoneFacts, IdleFacts DEF SightOK, At
  <2> QED
    BY <2>1, <2>2, <2>3, OthersSight, SamePublic DEF ShareInv
<1>7. CASE Restart
  <2>1. UNCHANGED <<row, shared>> /\ request' = [r \in Requests |-> Idle]
    BY <1>7 DEF Restart, store
  <2>2. \A r \in Requests : SightOK(r)'
    BY <2>1, IdleFacts DEF SightOK, At
  <2> QED
    BY <2>1, <2>2, SamePublic DEF ShareInv
<1>8. CASE UNCHANGED vars
  BY <1>8 DEF vars, store, history, ShareInv, SightOK, MaySee, At, Id, Call
<1> QED
  BY <1>1, <1>2, <1>3, <1>4, <1>5, <1>6, <1>7, <1>8, NextCases, ShareQuiet, ShareInsert,
     ShareUpdate

\* Only the owner and requests that met the upload public are shown it.
THEOREM StrangersSeeShared == Spec => []StrangersSeeOnlyShared
<1>1. ShareInv => StrangersSeeOnlyShared
  BY DEF ShareInv, SightOK, MaySee, StrangersSeeOnlyShared
<1> QED
  BY FileAlways, ShareInit, ShareStep, <1>1, PTL DEF Spec

-----------------------------------------------------------------------------
(* The log. *)

\* Every step keeps the logged status that of the answer.
LEMMA LogStep == TypeInv /\ LoggedStatusIsAnswered /\ [Next]_vars => LoggedStatusIsAnswered'
<1> SUFFICES ASSUME TypeInv, LoggedStatusIsAnswered, [Next]_vars,
                    NEW r \in Requests, request'[r].at = "sent"
             PROVE  request'[r].logged = request'[r].status
  BY DEF LoggedStatusIsAnswered, At
<1>1. CASE request'[r] = request[r]
  BY <1>1 DEF LoggedStatusIsAnswered, At
<1>2. ASSUME NEW q \in Requests, Quiet(q), q = r PROVE request'[r].logged = request'[r].status
  BY <1>2, QuietSteps DEF QuietMove, Moved, Careful
<1>3. ASSUME NEW q \in Requests, Quiet(q), q # r PROVE request'[r] = request[r]
  BY <1>3, QuietSteps DEF QuietMove, Moved
<1>4. ASSUME NEW q \in Requests, NEW from, NEW to, WritingMove(q, from, to)
      PROVE  request'[r] = request[r]
  BY <1>4 DEF WritingMove, Moved
<1>5. ASSUME NEW q \in Requests, NEW c \in Calls, Arrives(q, c) PROVE request'[r] = request[r]
  BY <1>5, ArrivesFacts
<1>6. ASSUME NEW q \in Requests, NEW u \in Uploads, CreateFile(q, u)
      PROVE  request'[r] = request[r]
  BY <1>6, CreateFileFacts
<1>7. ASSUME NEW q \in Requests, Done(q) PROVE request'[r] = request[r]
  BY <1>7, DoneFacts, IdleFacts
<1>8. ~Restart
  BY IdleFacts DEF Restart
<1>9. UNCHANGED vars => request'[r] = request[r]
  BY DEF vars
<1> QED
  BY <1>1, <1>2, <1>3, <1>4, <1>5, <1>6, <1>7, <1>8, <1>9, NextCases, WriteFileFacts,
     InsertRowFacts, RemoveFileFacts, UpdateVisibilityFacts, WritingPanics

\* The status a "request end" line carries is the one the client got.
THEOREM LogsTheAnswer == Spec => []LoggedStatusIsAnswered
<1>1. Init => LoggedStatusIsAnswered
  BY IdleFacts DEF Init, LoggedStatusIsAnswered, At
<1> QED
  BY TypeInit, TypeStep, <1>1, LogStep, PTL DEF Spec
=============================================================================

---------------------------- MODULE ServerProofs ----------------------------
(***************************************************************************)
(* Proofs about Server and the sessions it serves, for any number of jobs, *)
(* workers and sessions and any number of lives of the process.            *)
(***************************************************************************)
EXTENDS Server, FiniteSetTheorems, TLAPS

-----------------------------------------------------------------------------
(* Sessions: every step changes one session's record, within its type. *)

Clients  == {"none", "connected", "stalled", "gone"}
Conns    == {"none", "open", "closed"}
Handlers == {"idle", "auth", "open", "read", "resize", "input", "scan", "send", "closing",
             "waiting", "ended"}
Remotes  == {"none", "live", "over"}
Streams  == {"none", "open", "closed"}
Pumps    == {"off", "read", "write", "ended"}
Contexts == {"none", "live", "cancelled"}
Watchers == {"off", "waiting", "ended"}

States == [kind : {"shell", "log"}, client : Clients, conn : Conns, handler : Handlers,
           remote : Remotes, stream : Streams, pump : Pumps, ctx : Contexts,
           watcher : Watchers]

\* The states of a session, spelled out for the provers.
LEMMA SessionStatesAre == SessionStates = States
  BY DEF SessionStates, States, Clients, Conns, Handlers, Remotes, Streams, Pumps, Contexts,
         Watchers

\* Session s changes within its type; it does not become one that asks for
\* admission, and one that makes its access check only by being admitted.
Changes(s) ==
    \E x \in SessionStates : /\ session' = [session EXCEPT ![s] = x]
                             /\ x.handler = "auth" => At(s, "auth")
                             /\ x.handler = "open" => At(s, "open") \/ At(s, "auth")

\* A handler's own steps.
LEMMA HandlerChanges ==
    ASSUME SessionTypeOK, NEW s \in Sessions, HandlerStep(s)
    PROVE  Changes(s)
<1>1. PICK y \in States : y = session[s]
  BY SessionStatesAre DEF SessionTypeOK
<1>2. CASE OpenFails(s)
  <2>1. PICK h \in Handlers, c \in Conns :
          h = "ended" /\ c = "closed"
    BY DEF Handlers, Conns
  <2>2. PICK z : z = [y EXCEPT !.handler = h, !.conn = c]
    OBVIOUS
  <2>3. z \in States /\ z.handler = h
    BY <1>1, <2>2 DEF States
  <2>4. session' = [session EXCEPT ![s] = z]
    BY <1>1, <1>2, <2>1, <2>2 DEF OpenFails
  <2> QED
    BY <1>1, <2>1, <2>3, <2>4, SessionStatesAre DEF Changes, At
<1>3. CASE ReadFails(s)
  <2>1. PICK h \in Handlers, c \in Conns :
          h = "closing" /\ c = "closed"
    BY DEF Handlers, Conns
  <2>2. PICK z : z = [y EXCEPT !.handler = h, !.conn = c]
    OBVIOUS
  <2>3. z \in States /\ z.handler = h
    BY <1>1, <2>2 DEF States
  <2>4. session' = [session EXCEPT ![s] = z]
    BY <1>1, <1>3, <2>1, <2>2 DEF ReadFails
  <2> QED
    BY <1>1, <2>1, <2>3, <2>4, SessionStatesAre DEF Changes, At
<1>4. CASE Resize(s)
  <2>1. PICK h \in Handlers :
          h = "read"
    BY DEF Handlers
  <2>2. PICK z : z = [y EXCEPT !.handler = h]
    OBVIOUS
  <2>3. z \in States /\ z.handler = h
    BY <1>1, <2>2 DEF States
  <2>4. session' = [session EXCEPT ![s] = z]
    BY <1>1, <1>4, <2>1, <2>2 DEF Resize
  <2> QED
    BY <1>1, <2>1, <2>3, <2>4, SessionStatesAre DEF Changes, At
<1>5. CASE WriteInput(s) /\ session' = [session EXCEPT ![s].handler = "read"]
  <2>1. PICK h \in Handlers :
          h = "read"
    BY DEF Handlers
  <2>2. PICK z : z = [y EXCEPT !.handler = h]
    OBVIOUS
  <2>3. z \in States /\ z.handler = h
    BY <1>1, <2>2 DEF States
  <2>4. session' = [session EXCEPT ![s] = z]
    BY <1>1, <1>5, <2>1, <2>2 DEF WriteInput
  <2> QED
    BY <1>1, <2>1, <2>3, <2>4, SessionStatesAre DEF Changes, At
<1>6. CASE WriteInput(s) /\ session' = [session EXCEPT ![s].handler = "closing"]
  <2>1. PICK h \in Handlers :
          h = "closing"
    BY DEF Handlers
  <2>2. PICK z : z = [y EXCEPT !.handler = h]
    OBVIOUS
  <2>3. z \in States /\ z.handler = h
    BY <1>1, <2>2 DEF States
  <2>4. session' = [session EXCEPT ![s] = z]
    BY <1>1, <1>6, <2>1, <2>2 DEF WriteInput
  <2> QED
    BY <1>1, <2>1, <2>3, <2>4, SessionStatesAre DEF Changes, At
<1>7. CASE CloseShell(s)
  <2>1. PICK h \in Handlers, t \in Streams :
          h = "waiting" /\ t = "closed"
    BY DEF Handlers, Streams
  <2>2. PICK z : z = [y EXCEPT !.handler = h, !.stream = t]
    OBVIOUS
  <2>3. z \in States /\ z.handler = h
    BY <1>1, <2>2 DEF States
  <2>4. session' = [session EXCEPT ![s] = z]
    BY <1>1, <1>7, <2>1, <2>2 DEF CloseShell
  <2> QED
    BY <1>1, <2>1, <2>3, <2>4, SessionStatesAre DEF Changes, At
<1>8. CASE AwaitReader(s)
  <2>1. PICK h \in Handlers, c \in Conns :
          h = "ended" /\ c = "closed"
    BY DEF Handlers, Conns
  <2>2. PICK z : z = [y EXCEPT !.handler = h, !.conn = c]
    OBVIOUS
  <2>3. z \in States /\ z.handler = h
    BY <1>1, <2>2 DEF States
  <2>4. session' = [session EXCEPT ![s] = z]
    BY <1>1, <1>8, <2>1, <2>2 DEF AwaitReader
  <2> QED
    BY <1>1, <2>1, <2>3, <2>4, SessionStatesAre DEF Changes, At
<1>9. CASE session' = [session EXCEPT ![s].handler = "send", ![s].pump = "read"]
  <2>1. PICK h \in Handlers, p \in Pumps :
          h = "send" /\ p = "read"
    BY DEF Handlers, Pumps
  <2>2. PICK z : z = [y EXCEPT !.handler = h, !.pump = p]
    OBVIOUS
  <2>3. z \in States /\ z.handler = h
    BY <1>1, <2>2 DEF States
  <2>4. session' = [session EXCEPT ![s] = z]
    BY <1>1, <1>9, <2>1, <2>2
  <2> QED
    BY <1>1, <2>1, <2>3, <2>4, SessionStatesAre DEF Changes, At
<1>10. CASE session' = [session EXCEPT ![s].handler = "closing"]
  <2>1. PICK h \in Handlers :
          h = "closing"
    BY DEF Handlers
  <2>2. PICK z : z = [y EXCEPT !.handler = h]
    OBVIOUS
  <2>3. z \in States /\ z.handler = h
    BY <1>1, <2>2 DEF States
  <2>4. session' = [session EXCEPT ![s] = z]
    BY <1>1, <1>10, <2>1, <2>2
  <2> QED
    BY <1>1, <2>1, <2>3, <2>4, SessionStatesAre DEF Changes, At
<1>11. CASE SendLine(s) /\ Writable(s)
  <2>1. PICK h \in Handlers :
          h = "scan"
    BY DEF Handlers
  <2>2. PICK z : z = [y EXCEPT !.handler = h]
    OBVIOUS
  <2>3. z \in States /\ z.handler = h
    BY <1>1, <2>2 DEF States
  <2>4. session' = [session EXCEPT ![s] = z]
    BY <1>1, <1>11, <2>1, <2>2 DEF SendLine
  <2> QED
    BY <1>1, <2>1, <2>3, <2>4, SessionStatesAre DEF Changes, At
<1>12. CASE SendLine(s) /\ ~Writable(s)
  <2>1. PICK h \in Handlers, c \in Conns :
          h = "closing" /\ c = "closed"
    BY DEF Handlers, Conns
  <2>2. PICK z : z = [y EXCEPT !.handler = h, !.conn = c]
    OBVIOUS
  <2>3. z \in States /\ z.handler = h
    BY <1>1, <2>2 DEF States
  <2>4. session' = [session EXCEPT ![s] = z]
    BY <1>1, <1>12, <2>1, <2>2 DEF SendLine
  <2> QED
    BY <1>1, <2>1, <2>3, <2>4, SessionStatesAre DEF Changes, At
<1>13. CASE CloseLog(s)
  <2>1. PICK h \in Handlers, t \in Streams, c \in Conns :
          h = "ended" /\ t = "closed" /\ c = "closed"
    BY DEF Handlers, Streams, Conns
  <2>2. PICK z : z = [y EXCEPT !.handler = h, !.stream = t, !.conn = c]
    OBVIOUS
  <2>3. z \in States /\ z.handler = h
    BY <1>1, <2>2 DEF States
  <2>4. session' = [session EXCEPT ![s] = z]
    BY <1>1, <1>13, <2>1, <2>2 DEF CloseLog
  <2> QED
    BY <1>1, <2>1, <2>3, <2>4, SessionStatesAre DEF Changes, At
<1> QED
  BY <1>2, <1>3, <1>4, <1>5, <1>6, <1>7, <1>8, <1>9, <1>10, <1>11, <1>12, <1>13 DEF HandlerStep, WriteInput, ScanLine, ScanEnds

\* Those of the goroutines it starts.
LEMMA HelperChanges ==
    ASSUME SessionTypeOK, NEW s \in Sessions, PumpStep(s) \/ ContextStep(s)
    PROVE  Changes(s)
<1>1. PICK y \in States : y = session[s]
  BY SessionStatesAre DEF SessionTypeOK
<1>2. CASE PumpStops(s) \/ PipeCloses(s)
  <2>1. PICK p \in Pumps :
          p = "ended"
    BY DEF Pumps
  <2>2. PICK z : z = [y EXCEPT !.pump = p]
    OBVIOUS
  <2>3. z \in States /\ z.handler = y.handler
    BY <1>1, <2>2 DEF States
  <2>4. session' = [session EXCEPT ![s] = z]
    BY <1>1, <1>2, <2>1, <2>2 DEF PumpStops, PipeCloses
  <2> QED
    BY <1>1, <2>1, <2>3, <2>4, SessionStatesAre DEF Changes, At
<1>3. CASE PumpSends(s) /\ Writable(s)
  <2>1. PICK p \in Pumps :
          p = "read"
    BY DEF Pumps
  <2>2. PICK z : z = [y EXCEPT !.pump = p]
    OBVIOUS
  <2>3. z \in States /\ z.handler = y.handler
    BY <1>1, <2>2 DEF States
  <2>4. session' = [session EXCEPT ![s] = z]
    BY <1>1, <1>3, <2>1, <2>2 DEF PumpSends
  <2> QED
    BY <1>1, <2>1, <2>3, <2>4, SessionStatesAre DEF Changes, At
<1>4. CASE PumpSends(s) /\ ~Writable(s)
  <2>1. PICK p \in Pumps, c \in Conns :
          p = "ended" /\ c = "closed"
    BY DEF Pumps, Conns
  <2>2. PICK z : z = [y EXCEPT !.pump = p, !.conn = c]
    OBVIOUS
  <2>3. z \in States /\ z.handler = y.handler
    BY <1>1, <2>2 DEF States
  <2>4. session' = [session EXCEPT ![s] = z]
    BY <1>1, <1>4, <2>1, <2>2 DEF PumpSends
  <2> QED
    BY <1>1, <2>1, <2>3, <2>4, SessionStatesAre DEF Changes, At
<1>5. CASE CloseReadEnds(s)
  <2>1. PICK x \in Contexts, c \in Conns :
          x = "cancelled" /\ c = "closed"
    BY DEF Contexts, Conns
  <2>2. PICK z : z = [y EXCEPT !.ctx = x, !.conn = c]
    OBVIOUS
  <2>3. z \in States /\ z.handler = y.handler
    BY <1>1, <2>2 DEF States
  <2>4. session' = [session EXCEPT ![s] = z]
    BY <1>1, <1>5, <2>1, <2>2 DEF CloseReadEnds
  <2> QED
    BY <1>1, <2>1, <2>3, <2>4, SessionStatesAre DEF Changes, At
<1>6. CASE WatcherCloses(s)
  <2>1. PICK w \in Watchers, t \in Streams :
          w = "ended" /\ t = "closed"
    BY DEF Watchers, Streams
  <2>2. PICK z : z = [y EXCEPT !.watcher = w, !.stream = t]
    OBVIOUS
  <2>3. z \in States /\ z.handler = y.handler
    BY <1>1, <2>2 DEF States
  <2>4. session' = [session EXCEPT ![s] = z]
    BY <1>1, <1>6, <2>1, <2>2 DEF WatcherCloses
  <2> QED
    BY <1>1, <2>1, <2>3, <2>4, SessionStatesAre DEF Changes, At
<1> QED
  BY <1>2, <1>3, <1>4, <1>5, <1>6 DEF PumpStep, ContextStep

\* Those of the client and the container.
LEMMA SurroundingsChange ==
    ASSUME SessionTypeOK, NEW s \in Sessions, Surroundings(s)
    PROVE  Changes(s)
<1>1. PICK y \in States : y = session[s]
  BY SessionStatesAre DEF SessionTypeOK
<1>2. CASE PumpReads(s)
  <2>1. PICK p \in Pumps :
          p = "write"
    BY DEF Pumps
  <2>2. PICK z : z = [y EXCEPT !.pump = p]
    OBVIOUS
  <2>3. z \in States /\ z.handler = y.handler
    BY <1>1, <2>2 DEF States
  <2>4. session' = [session EXCEPT ![s] = z]
    BY <1>1, <1>2, <2>1, <2>2 DEF PumpReads
  <2> QED
    BY <1>1, <2>1, <2>3, <2>4, SessionStatesAre DEF Changes, At
<1>3. CASE session' = [session EXCEPT ![s].handler = "resize"]
  <2>1. PICK h \in Handlers :
          h = "resize"
    BY DEF Handlers
  <2>2. PICK z : z = [y EXCEPT !.handler = h]
    OBVIOUS
  <2>3. z \in States /\ z.handler = h
    BY <1>1, <2>2 DEF States
  <2>4. session' = [session EXCEPT ![s] = z]
    BY <1>1, <1>3, <2>1, <2>2
  <2> QED
    BY <1>1, <2>1, <2>3, <2>4, SessionStatesAre DEF Changes, At
<1>4. CASE session' = [session EXCEPT ![s].handler = "input"]
  <2>1. PICK h \in Handlers :
          h = "input"
    BY DEF Handlers
  <2>2. PICK z : z = [y EXCEPT !.handler = h]
    OBVIOUS
  <2>3. z \in States /\ z.handler = h
    BY <1>1, <2>2 DEF States
  <2>4. session' = [session EXCEPT ![s] = z]
    BY <1>1, <1>4, <2>1, <2>2
  <2> QED
    BY <1>1, <2>1, <2>3, <2>4, SessionStatesAre DEF Changes, At
<1>5. CASE ClientStalls(s)
  <2>1. PICK v \in Clients :
          v = "stalled"
    BY DEF Clients
  <2>2. PICK z : z = [y EXCEPT !.client = v]
    OBVIOUS
  <2>3. z \in States /\ z.handler = y.handler
    BY <1>1, <2>2 DEF States
  <2>4. session' = [session EXCEPT ![s] = z]
    BY <1>1, <1>5, <2>1, <2>2 DEF ClientStalls, ClientTurns
  <2> QED
    BY <1>1, <2>1, <2>3, <2>4, SessionStatesAre DEF Changes, At
<1>6. CASE ClientResumes(s)
  <2>1. PICK v \in Clients :
          v = "connected"
    BY DEF Clients
  <2>2. PICK z : z = [y EXCEPT !.client = v]
    OBVIOUS
  <2>3. z \in States /\ z.handler = y.handler
    BY <1>1, <2>2 DEF States
  <2>4. session' = [session EXCEPT ![s] = z]
    BY <1>1, <1>6, <2>1, <2>2 DEF ClientResumes, ClientTurns
  <2> QED
    BY <1>1, <2>1, <2>3, <2>4, SessionStatesAre DEF Changes, At
<1>7. CASE ClientLeaves(s)
  <2>1. PICK v \in Clients :
          v = "gone"
    BY DEF Clients
  <2>2. PICK z : z = [y EXCEPT !.client = v]
    OBVIOUS
  <2>3. z \in States /\ z.handler = y.handler
    BY <1>1, <2>2 DEF States
  <2>4. session' = [session EXCEPT ![s] = z]
    BY <1>1, <1>7, <2>1, <2>2 DEF ClientLeaves, ClientTurns
  <2> QED
    BY <1>1, <2>1, <2>3, <2>4, SessionStatesAre DEF Changes, At
<1>8. CASE ClientSpeaks(s)
  <2>1. PICK c \in Conns :
          c = "closed"
    BY DEF Conns
  <2>2. PICK z : z = [y EXCEPT !.conn = c]
    OBVIOUS
  <2>3. z \in States /\ z.handler = y.handler
    BY <1>1, <2>2 DEF States
  <2>4. session' = [session EXCEPT ![s] = z]
    BY <1>1, <1>8, <2>1, <2>2 DEF ClientSpeaks
  <2> QED
    BY <1>1, <2>1, <2>3, <2>4, SessionStatesAre DEF Changes, At
<1>9. CASE RemoteEnds(s)
  <2>1. PICK m \in Remotes :
          m = "over"
    BY DEF Remotes
  <2>2. PICK z : z = [y EXCEPT !.remote = m]
    OBVIOUS
  <2>3. z \in States /\ z.handler = y.handler
    BY <1>1, <2>2 DEF States
  <2>4. session' = [session EXCEPT ![s] = z]
    BY <1>1, <1>9, <2>1, <2>2 DEF RemoteEnds
  <2> QED
    BY <1>1, <2>1, <2>3, <2>4, SessionStatesAre DEF Changes, At
<1> QED
  BY <1>2, <1>3, <1>4, <1>5, <1>6, <1>7, <1>8, <1>9 DEF Surroundings, ReadFrame

\* Admission, and the stream.
LEMMA AcceptChanges ==
    ASSUME SessionTypeOK, NEW s \in Sessions, Accept(s) \/ OpenStream(s)
    PROVE  Changes(s)
<1>1. PICK y \in States : y = session[s]
  BY SessionStatesAre DEF SessionTypeOK
<1>2. CASE session' = [session EXCEPT ![s].handler = "ended"]
  <2>1. PICK h \in Handlers :
          h = "ended"
    BY DEF Handlers
  <2>2. PICK z : z = [y EXCEPT !.handler = h]
    OBVIOUS
  <2>3. z \in States /\ z.handler = h
    BY <1>1, <2>2 DEF States
  <2>4. session' = [session EXCEPT ![s] = z]
    BY <1>1, <1>2, <2>1, <2>2
  <2> QED
    BY <1>1, <2>1, <2>3, <2>4, SessionStatesAre DEF Changes, At
<1>3. CASE /\ At(s, "auth")
           /\ session' = [session EXCEPT ![s].handler = "open", ![s].conn = "open",
                            ![s].ctx = IF IsShell(s) THEN "none" ELSE "live"]
  <2>1. PICK h \in Handlers, c \in Conns, x \in Contexts :
          h = "open" /\ c = "open" /\ x = (IF IsShell(s) THEN "none" ELSE "live")
    BY DEF Handlers, Conns, Contexts
  <2>2. PICK z : z = [y EXCEPT !.handler = h, !.conn = c, !.ctx = x]
    OBVIOUS
  <2>3. z \in States /\ z.handler = h
    BY <1>1, <2>2 DEF States
  <2>4. session' = [session EXCEPT ![s] = z]
    BY <1>1, <1>3, <2>1, <2>2
  <2> QED
    BY <1>1, <1>3, <2>1, <2>3, <2>4, SessionStatesAre DEF Changes, At
<1>4. CASE OpenStream(s)
  <2>1. PICK h \in Handlers, m \in Remotes, t \in Streams, p \in Pumps, w \in Watchers :
          /\ h = (IF IsShell(s) THEN "read" ELSE "scan") /\ m = "live" /\ t = "open"
          /\ p = "read" /\ w = (IF IsShell(s) THEN "off" ELSE "waiting")
    BY DEF Handlers, Remotes, Streams, Pumps, Watchers
  <2>2. PICK z : z = [y EXCEPT !.handler = h, !.remote = m, !.stream = t, !.pump = p, !.watcher = w]
    OBVIOUS
  <2>3. z \in States /\ z.handler = h
    BY <1>1, <2>2 DEF States
  <2>4. session' = [session EXCEPT ![s] = z]
    BY <1>1, <1>4, <2>1, <2>2 DEF OpenStream
  <2> QED
    BY <1>1, <2>1, <2>3, <2>4, SessionStatesAre DEF Changes, At
<1> QED
  BY <1>2, <1>3, <1>4 DEF Accept

\* A client connects: the one step that makes a session ask for admission.
LEMMA UpgradeType ==
    ASSUME SessionTypeOK, NEW s \in Sessions, Upgrade(s)
    PROVE  SessionTypeOK'
<1>1. PICK k \in {"shell", "log"} : session' = [session EXCEPT ![s] =
        [NoSession EXCEPT !.kind = k, !.client = "connected", !.handler = "auth"]]
  BY DEF Upgrade
<1>2. PICK y \in States, v \in Clients, h \in Handlers :
        y = NoSession /\ v = "connected" /\ h = "auth"
  BY DEF States, NoSession, Clients, Conns, Handlers, Remotes, Streams, Pumps, Contexts, Watchers
<1>3. PICK z : z = [y EXCEPT !.kind = k, !.client = v, !.handler = h]
  OBVIOUS
<1>4. z \in States
  BY <1>3 DEF States
<1>5. session' = [session EXCEPT ![s] = z]
  BY <1>1, <1>2, <1>3
<1> QED
  BY <1>4, <1>5, SessionStatesAre DEF SessionTypeOK

\* A slot that is free is a session state.
LEMMA NoSessionFacts == NoSession \in SessionStates /\ NoSession.handler = "idle"
  BY SessionStatesAre
     DEF States, NoSession, Clients, Conns, Handlers, Remotes, Streams, Pumps, Contexts, Watchers

\* The sessions that ask for admission are still those of before, or fewer; one
\* that makes its access check asked before, or is still at it.
NoMoreAsking == \A s \in Sessions :
                   /\ At(s, "auth")' => At(s, "auth")
                   /\ At(s, "open")' => At(s, "open") \/ At(s, "auth")

\* A step of a session changes nothing but sessions, and asks nothing unless main listens.
LEMMA ServeFacts ==
    ASSUME SessionTypeOK, NEW s \in Sessions, ServeSession(s)
    PROVE  /\ SessionTypeOK'
           /\ NoMoreAsking \/ listener = "listening"
           /\ Alive
           /\ UNCHANGED <<process, config, database, work, drains>>
<1>1. ASSUME Changes(s) PROVE SessionTypeOK' /\ NoMoreAsking
  BY <1>1 DEF Changes, SessionTypeOK, NoMoreAsking, At
<1>2. CASE Upgrade(s) /\ listener = "listening"
  BY <1>2, UpgradeType DEF ServeSession
<1>3. CASE Accept(s) \/ OpenStream(s)
  BY <1>1, <1>3, AcceptChanges DEF ServeSession
<1>4. CASE HandlerStep(s)
  BY <1>1, <1>4, HandlerChanges DEF ServeSession
<1>5. CASE PumpStep(s) \/ ContextStep(s)
  BY <1>1, <1>5, HelperChanges DEF ServeSession
<1>6. CASE Surroundings(s)
  BY <1>1, <1>6, SurroundingsChange DEF ServeSession
<1> QED
  BY <1>2, <1>3, <1>4, <1>5, <1>6 DEF ServeSession

-----------------------------------------------------------------------------
(* The inductive invariant: what main's place says about the rest. *)

\* Places of main from which the listener may be on; those that follow the
\* last migration; those at which the database is open.
Serving  == {"await"} \cup Shutdown
Migrated == {"seed", "docker", "wire", "listen"} \cup Serving
Opened   == Migrated \ {"return"}

PlacesOK ==
    /\ Alive <=> exit = "none"
    /\ Alive \/ \A s \in Sessions : ~At(s, "auth") /\ ~At(s, "open")
    /\ listener # "off" => main \in Serving
    /\ main \in Shutdown => listener = "closed"
    /\ main \in Migrated => schema = "current"
    /\ main \in Migrated \ {"seed"} => seeded
    /\ main \in Opened => db = "open"

\* Nothing has been asked of the process yet.
Fresh == Active = {} /\ Opening = {} /\ Job!Unfinished = {}

WorkOK ==
    /\ main \in Startup => Fresh
    /\ config.workers = 0 => Job!Running = {}
    /\ service = "closed" => Job!Unfinished = {} \/ config.workers = 0

DrainsOK ==
    /\ main \in {"jobs", "close", "return"} => Active = {} \/ "http" \in timedOut
    /\ main \in {"close", "return"} => service = "closed" \/ "jobs" \in timedOut
    /\ timedOut \subseteq warned

IInv == TypeOK /\ PlacesOK /\ WorkOK /\ DrainsOK /\ DrainedOrLogged

\* The first process starts with nothing asked of it.
THEOREM ServerInit == Init => IInv
<1> SUFFICES ASSUME Init PROVE IInv
  OBVIOUS
<1>1. /\ session \in [Sessions -> SessionStates]
      /\ \A s \in Sessions : ~At(s, "auth") /\ ~At(s, "open")
  BY NoSessionFacts DEF Init, SessionInit, At
<1>2. Active = {} /\ Opening = {} /\ Job!Unfinished = {} /\ Job!Running = {}
  BY <1>1 DEF Init, Active, ActiveJobs, Opening, Job!Init, Job!Unfinished, Job!Running
<1>3. TypeOK
  <2>1. config \in [workers : 0 .. MaxWorkers, queue : {-1, 0, 1}]
    BY ServerAssumption DEF Init, NoConfig
  <2> QED
    BY <1>1, <2>1 DEF Init, TypeOK, SessionTypeOK, Job!Init, MainStates, Startup
<1> QED
  BY <1>2, <1>3 DEF Init, IInv, PlacesOK, WorkOK, DrainsOK, DrainedOrLogged, Alive, Fresh,
     Serving, Migrated, Opened, Shutdown, Job!Init

\* What requests and jobs leave alone, the counts of them leave alone.
LEMMA SameWork ==
    ASSUME UNCHANGED <<session, request, phase>>
    PROVE  /\ Active' = Active /\ ActiveJobs' = ActiveJobs /\ Opening' = Opening
           /\ Job!Unfinished' = Job!Unfinished /\ Job!Running' = Job!Running
  BY DEF Active, ActiveJobs, Opening, At, Job!Unfinished, Job!Running

\* A job that runs is not finished.
LEMMA RunningUnfinished == Job!Running \subseteq Job!Unfinished
  BY DEF Job!Running, Job!Unfinished

\* The end of the process, whichever way.
LEMMA DiesStep ==
    ASSUME IInv, NEW how \in {"fatal", "panic", "killed", "ok"}, Dies(how),
           how = "ok" => main = "return"
    PROVE  IInv'
<1>1. SessionTypeOK' /\ \A s \in Sessions : ~At(s, "auth")' /\ ~At(s, "open")'
  BY NoSessionFacts DEF Dies, SessionTypeOK, At
<1>2. /\ ActiveJobs' = ActiveJobs /\ Job!Unfinished' = Job!Unfinished
      /\ Job!Running' = Job!Running
  BY DEF Dies, work, ActiveJobs, Job!Unfinished, Job!Running
<1>3. ActiveJobs \subseteq Active
  BY DEF Active
<1>4. TypeOK' /\ PlacesOK'
  <2>1. TypeOK'
    BY <1>1 DEF IInv, TypeOK, Dies, work, drains, MainStates
  <2>2. PlacesOK'
    BY <1>1 DEF PlacesOK, Dies, Alive, Serving, Shutdown, Migrated, Opened
  <2> QED
    BY <2>1, <2>2
<1>5. WorkOK' /\ DrainsOK'
  BY <1>2 DEF IInv, WorkOK, DrainsOK, Dies, work, drains, Startup
<1>6. DrainedOrLogged'
  BY <1>2, <1>3 DEF IInv, WorkOK, DrainsOK, Dies, work, drains, DrainedOrLogged
<1> QED
  BY <1>4, <1>5, <1>6 DEF IInv

\* main goes on, and work with it stays as it is.
LEMMA MainMoves ==
    ASSUME IInv, NEW from \in MainStates \ {"exited"}, NEW to \in MainStates \ {"exited"},
           MainGoes(from, to), UNCHANGED work,
           to \in Startup => from \in Startup,
           config' = config \/ from \in Startup,
           TypeOK', PlacesOK', DrainsOK'
    PROVE  IInv'
<1>1. UNCHANGED <<session, request, phase, service, exit>> /\ main = from /\ main' = to
  BY DEF MainGoes, work
<1>2. WorkOK'
  BY <1>1, SameWork, RunningUnfinished DEF IInv, WorkOK, Fresh
<1>3. DrainedOrLogged'
  BY <1>1 DEF IInv, PlacesOK, Alive, DrainedOrLogged
<1> QED
  BY <1>2, <1>3 DEF IInv

\* Start-up.
LEMMA StartupStep ==
    ASSUME IInv,
           \/ LoadConfig \/ OpenLog \/ OpenRepo("containers", "apiKeys")
           \/ OpenRepo("apiKeys", "uploads") \/ OpenRepo("uploads", "seed")
           \/ FinishMigration \/ SeedKey \/ ConnectDocker \/ Wire \/ Listen
    PROVE  IInv'
<1> USE DEF MainGoes, MainStates, Startup, Shutdown, Serving, Migrated, Opened, Alive
<1>1. CASE Dies("fatal") \/ Dies("panic")
  BY <1>1, DiesStep
<1>2. ASSUME NEW from \in Startup, NEW to \in (Startup \ {"config"}) \cup {"await"},
             MainGoes(from, to), UNCHANGED work, TypeOK', PlacesOK', UNCHANGED drains
      PROVE  IInv'
  <2>1. DrainsOK'
    BY <1>2 DEF IInv, DrainsOK, drains
  <2> QED
    BY <1>2, <2>1, MainMoves
<1>3. CASE LoadConfig
  <2>1. ASSUME MainGoes("config", "log"),
               config' \in [workers : 0 .. MaxWorkers, queue : {-1, 1}],
               UNCHANGED <<listener, database, work, drains>>
        PROVE  TypeOK' /\ PlacesOK'
    BY <2>1 DEF IInv, TypeOK, PlacesOK, SessionTypeOK, database, work, drains
  <2> QED
    BY <1>1, <1>2, <1>3, <2>1 DEF LoadConfig, Fatal
<1>4. CASE OpenLog \/ ConnectDocker
  <2>1. Dies("fatal") \/ (TypeOK' /\ PlacesOK')
    BY <1>4 DEF IInv, TypeOK, PlacesOK, SessionTypeOK, database, work, drains, OpenLog,
                ConnectDocker, Fatal
  <2> QED
    BY <1>1, <1>2, <1>4, <2>1 DEF OpenLog, ConnectDocker, Fatal
<1>5. ASSUME NEW at \in {"containers", "apiKeys", "uploads"},
             NEW next \in {"apiKeys", "uploads", "seed"}, OpenRepo(at, next)
      PROVE  IInv'
  <2>1. Dies("fatal") \/ (TypeOK' /\ PlacesOK')
    BY <1>5 DEF IInv, TypeOK, PlacesOK, SessionTypeOK, work, drains, OpenRepo, Fatal
  <2> QED
    BY <1>1, <1>2, <1>5, <2>1 DEF OpenRepo, Fatal
<1>6. CASE FinishMigration \/ SeedKey
  <2>1. Dies("fatal") \/ (TypeOK' /\ PlacesOK')
    BY <1>6 DEF IInv, TypeOK, PlacesOK, SessionTypeOK, work, drains, FinishMigration, SeedKey,
                Fatal
  <2> QED
    BY <1>1, <1>2, <1>6, <2>1 DEF FinishMigration, SeedKey, Fatal
<1>7. CASE Wire
  <2>1. Dies("fatal") \/ Dies("panic") \/ (TypeOK' /\ PlacesOK')
    BY <1>7 DEF IInv, TypeOK, PlacesOK, SessionTypeOK, database, work, drains, Wire, Fatal
  <2> QED
    BY <1>1, <1>2, <1>7, <2>1 DEF Wire, Fatal
<1>8. CASE Listen
  <2>1. TypeOK' /\ PlacesOK'
    BY <1>8 DEF IInv, TypeOK, PlacesOK, SessionTypeOK, database, work, drains, Listen
  <2> QED
    BY <1>2, <1>8, <2>1 DEF Listen
<1> QED
  BY <1>3, <1>4, <1>5, <1>6, <1>7, <1>8

\* Shutdown.
LEMMA ShutdownStep ==
    ASSUME IInv,
           \/ Signal \/ HttpDrained \/ HttpTimesOut \/ JobsDrained \/ JobsTimeOut
           \/ CloseAll \/ Return
    PROVE  IInv'
<1> USE DEF MainGoes, MainStates, Startup, Shutdown, Serving, Migrated, Opened, Alive
<1>1. CASE Return
  BY <1>1, DiesStep DEF Return
<1>2. ASSUME NEW from \in {"await"} \cup Shutdown, NEW to \in Shutdown,
             MainGoes(from, to), UNCHANGED work, config' = config,
             TypeOK', PlacesOK', DrainsOK'
      PROVE  IInv'
  BY <1>2, MainMoves
<1>3. CASE Signal
  <2>1. TypeOK' /\ PlacesOK' /\ DrainsOK'
    BY <1>3 DEF IInv, TypeOK, PlacesOK, DrainsOK, SessionTypeOK, database, work, drains, Signal
  <2> QED
    BY <1>2, <1>3, <2>1 DEF Signal
<1>4. CASE HttpDrained \/ HttpTimesOut
  <2>1. UNCHANGED work /\ MainGoes("http", "jobs") /\ UNCHANGED <<config, listener, database>>
    BY <1>4 DEF HttpDrained, HttpTimesOut
  <2>2. Active' = Active
    BY <2>1, SameWork DEF work
  <2>3. /\ timedOut' \in {timedOut, timedOut \cup {"http"}} /\ timedOut' \subseteq warned'
        /\ timedOut' \subseteq {"http", "jobs"} /\ warned' \subseteq {"http", "jobs"}
        /\ Active = {} \/ "http" \in timedOut'
    BY <1>4 DEF HttpDrained, HttpTimesOut, GivesUp, drains, IInv, DrainsOK, TypeOK
  <2>4. TypeOK'
    BY <2>1, <2>3 DEF IInv, TypeOK, SessionTypeOK, database, work
  <2>5. PlacesOK'
    BY <2>1 DEF IInv, PlacesOK, database
  <2>6. DrainsOK'
    BY <2>1, <2>2, <2>3 DEF IInv, DrainsOK, work
  <2> QED
    BY <1>2, <2>1, <2>4, <2>5, <2>6
<1>5. CASE JobsDrained \/ JobsTimeOut
  <2>1. UNCHANGED work /\ MainGoes("jobs", "close") /\ UNCHANGED <<config, listener, database>>
    BY <1>5 DEF JobsDrained, JobsTimeOut
  <2>2. Active' = Active
    BY <2>1, SameWork DEF work
  <2>3. /\ timedOut' \in {timedOut, timedOut \cup {"jobs"}} /\ timedOut' \subseteq warned'
        /\ timedOut' \subseteq {"http", "jobs"} /\ warned' \subseteq {"http", "jobs"}
        /\ service = "closed" \/ "jobs" \in timedOut'
    BY <1>5 DEF JobsDrained, JobsTimeOut, GivesUp, drains, IInv, DrainsOK, TypeOK
  <2>4. TypeOK'
    BY <2>1, <2>3 DEF IInv, TypeOK, SessionTypeOK, database, work
  <2>5. PlacesOK'
    BY <2>1 DEF IInv, PlacesOK, database
  <2>6. DrainsOK'
    BY <2>1, <2>2, <2>3 DEF IInv, DrainsOK, work
  <2> QED
    BY <1>2, <2>1, <2>4, <2>5, <2>6
<1>6. CASE CloseAll
  <2>1. UNCHANGED work /\ MainGoes("close", "return")
    BY <1>6 DEF CloseAll
  <2>2. Active' = Active
    BY <2>1, SameWork DEF work
  <2>3. TypeOK' /\ PlacesOK' /\ DrainsOK'
    BY <1>6, <2>2 DEF IInv, TypeOK, PlacesOK, DrainsOK, SessionTypeOK, work, drains, CloseAll
  <2> QED
    BY <1>2, <1>6, <2>1, <2>3 DEF CloseAll
<1> QED
  BY <1>1, <1>3, <1>4, <1>5, <1>6

\* Steps that leave main where it is.
LEMMA SamePlace ==
    ASSUME IInv, Alive, UNCHANGED <<main, exit, config, database, drains>>,
           listener' = listener \/ (listener # "off" /\ listener' # "off" /\ main \notin Shutdown),
           TypeOK', WorkOK',
           main \in {"jobs", "close", "return"} /\ Active = {} => Active' = {},
           service = "closed" => service' = "closed"
    PROVE  IInv'
<1>1. PlacesOK'
  BY DEF IInv, PlacesOK, Alive, database
<1>2. DrainsOK'
  BY DEF IInv, DrainsOK, drains
<1>3. DrainedOrLogged'
  BY DEF IInv, PlacesOK, Alive, DrainedOrLogged
<1> QED
  BY <1>1, <1>2, <1>3 DEF IInv

\* The goroutine of the listener keeps the invariant.
LEMMA ListenerStep ==
    ASSUME IInv, ListenerStarts \/ ListenerFails PROVE IInv'
<1>1. CASE ListenerFails
  BY <1>1, DiesStep DEF ListenerFails
<1>2. CASE ListenerStarts
  <2>1. /\ UNCHANGED <<session, request, phase, service, main, exit, config, database, drains>>
        /\ Alive /\ listener = "starting" /\ listener' = "listening"
    BY <1>2 DEF ListenerStarts, work
  <2>2. TypeOK'
    BY <2>1 DEF IInv, TypeOK, SessionTypeOK, database, drains
  <2>3. WorkOK' /\ Active' = Active
    BY <2>1, SameWork DEF IInv, WorkOK, Fresh
  <2>4. main \notin Shutdown
    BY <2>1 DEF IInv, PlacesOK
  <2> QED
    BY <2>1, <2>2, <2>3, <2>4, SamePlace
<1> QED
  BY <1>1, <1>2

\* A live process whose main has not started to listen has no request and no
\* session.
LEMMA ActiveServes == IInv /\ Alive /\ Active \cup Opening # {} => main \in Serving
  BY DEF IInv, WorkOK, Fresh, TypeOK, MainStates, Serving, Alive

\* While there is an unfinished job, main is where the process serves.
LEMMA UnfinishedServes == IInv /\ Alive /\ Job!Unfinished # {} => main \in Serving
  BY DEF IInv, WorkOK, Fresh, TypeOK, MainStates, Serving, Alive

\* Sessions keep the invariant.
LEMMA SessionsStep ==
    ASSUME IInv, NEW s \in Sessions, ServeSession(s) PROVE IInv'
<1>1. /\ SessionTypeOK' /\ Alive
      /\ NoMoreAsking \/ listener = "listening"
      /\ UNCHANGED <<main, exit, listener, config, database, request, phase, service, drains>>
  BY ServeFacts DEF IInv, TypeOK, process, work
<1>2. TypeOK'
  BY <1>1 DEF IInv, TypeOK, database, drains
<1>3. /\ Job!Unfinished' = Job!Unfinished /\ Job!Running' = Job!Running
      /\ ActiveJobs' = ActiveJobs
  BY <1>1 DEF Job!Unfinished, Job!Running, ActiveJobs
<1>4. NoMoreAsking => /\ Active' \subseteq Active
                      /\ Active = {} /\ Opening = {} => Opening' = {}
  BY <1>3 DEF Active, Opening, NoMoreAsking
<1>5. listener = "listening" => main = "await"
  BY DEF IInv, PlacesOK, Serving
<1>6. main \in Startup \cup Shutdown /\ Active = {} => Active' = {}
  BY <1>1, <1>4, <1>5 DEF Startup, Shutdown
<1>7. main \in Startup /\ Fresh => Opening' = {}
  BY <1>1, <1>4, <1>5 DEF Startup, Fresh
<1>8. WorkOK'
  BY <1>1, <1>3, <1>6, <1>7 DEF IInv, WorkOK, Fresh
<1> QED
  BY <1>1, <1>2, <1>6, <1>8, SamePlace DEF Shutdown

\* Requests and jobs: what a step may do to their sets.
LEMMA JobsStep ==
    ASSUME IInv, NEW j \in Jobs,
           RequestArrives(j) \/ Submit(j) \/ Answer(j) \/ Work(j)
    PROVE  IInv'
<1>1. UNCHANGED <<main, exit, listener, config, database, drains, session>>
  BY DEF RequestArrives, Submit, Answer, Work, process
<1>2. main = "await" \/ main \in Shutdown
  <2>1. CASE RequestArrives(j)
    BY <2>1 DEF RequestArrives, IInv, PlacesOK, Serving
  <2>2. CASE Submit(j) \/ Answer(j)
    <3>1. Alive /\ j \in Active
      BY <2>2 DEF Submit, Answer, RequestEnds, Active, ActiveJobs
    <3> QED
      BY <3>1, ActiveServes DEF Serving
  <2>3. CASE Work(j)
    <3>1. Alive /\ j \in Job!Unfinished
      BY <2>3 DEF Work, Job!Start, Job!Finish, Job!Move, Job!Unfinished
    <3> QED
      BY <3>1, UnfinishedServes DEF Serving
  <2> QED
    BY <2>1, <2>2, <2>3
<1>3. Alive /\ main \notin Startup
  BY <1>2 DEF Alive, Shutdown, Startup
<1>4. /\ request' \in [Jobs -> {"none", "active", "submitted", "answered"}]
      /\ phase' \in [Jobs -> {"absent", "pending", "running", "done", "failed"}]
      /\ service' = service
  BY DEF IInv, TypeOK, RequestArrives, Submit, Answer, Work, RequestEnds, Job!Accept,
         Job!Reject, Job!Start, Job!Finish, Job!Move
<1>5. TypeOK'
  BY <1>1, <1>4 DEF IInv, TypeOK, SessionTypeOK, database, drains
<1>6. main \in Shutdown /\ Active = {} => Active' = {}
  <2>1. ASSUME main \in Shutdown PROVE ActiveJobs' \subseteq ActiveJobs
    <3>1. listener # "listening"
      BY <2>1 DEF IInv, PlacesOK
    <3> QED
      BY <3>1 DEF RequestArrives, Submit, Answer, Work, RequestEnds, ActiveJobs, IInv, TypeOK
  <2> QED
    BY <1>1, <2>1 DEF Active, At
<1>7. config.workers = 0 => Job!Running' = {}
  <2>1. SUFFICES ASSUME config.workers = 0 PROVE Job!Running' \subseteq Job!Running
    BY DEF IInv, WorkOK
  <2>2. Job!Running = {} /\ Cardinality(Job!Running) = 0
    BY <2>1, FS_EmptySet DEF IInv, WorkOK
  <2>3. ~(Cardinality(Job!Running) < config.workers)
    BY <2>1, <2>2
  <2> QED
    BY <2>3 DEF RequestArrives, Submit, Answer, Work, Job!Accept, Job!Reject, Job!Finish,
                Job!Move, Job!Running, IInv, TypeOK
<1>8. service = "closed" => Job!Unfinished' \subseteq Job!Unfinished
  BY DEF RequestArrives, Submit, Answer, Work, Job!Accept, Job!Reject, Job!Start, Job!Finish,
         Job!Move, Job!Unfinished, IInv, TypeOK
<1>9. WorkOK'
  BY <1>1, <1>3, <1>4, <1>7, <1>8 DEF IInv, WorkOK
<1> QED
  BY <1>1, <1>3, <1>4, <1>5, <1>6, <1>9, SamePlace DEF Shutdown

\* Closing the job service keeps the invariant.
LEMMA CloseStep ==
    ASSUME IInv, CloseJobs PROVE IInv'
<1>1. /\ Alive /\ main \in Shutdown
      /\ UNCHANGED <<main, exit, listener, config, database, request, phase, drains, session>>
  BY DEF CloseJobs, process, Job!BeginClose, Job!EndClose
<1>2. /\ service' \in {"closing", "closed"} /\ service # "closed"
      /\ service' = "closed" => Job!Unfinished = {} \/ config.workers = 0
  BY DEF CloseJobs, Job!BeginClose, Job!EndClose
<1>3. TypeOK'
  BY <1>1, <1>2 DEF IInv, TypeOK, SessionTypeOK, database, drains
<1>4. /\ Active' = Active /\ Opening' = Opening
      /\ Job!Unfinished' = Job!Unfinished /\ Job!Running' = Job!Running
  BY <1>1, SameWork
<1>5. WorkOK'
  BY <1>1, <1>2, <1>4 DEF IInv, WorkOK, Fresh
<1> QED
  BY <1>1, <1>2, <1>3, <1>4, <1>5, SamePlace

\* A new start of the process keeps the invariant.
LEMMA BootStep ==
    ASSUME IInv, Boot PROVE IInv'
<1>1. UNCHANGED <<listener, db, schema, seeded, session>> /\ listener = "off"
  BY DEF Boot, database, IInv, PlacesOK, Serving, Shutdown
<1>2. \A s \in Sessions : ~At(s, "auth") /\ ~At(s, "open")
  BY DEF Boot, IInv, PlacesOK, Alive
<1>3. Active' = {} /\ Opening' = {} /\ Job!Unfinished' = {} /\ Job!Running' = {}
  BY <1>1, <1>2 DEF Boot, Active, ActiveJobs, Opening, At, Job!Unfinished, Job!Running
<1>4. TypeOK'
  <2>1. config' \in [workers : 0 .. MaxWorkers, queue : {-1, 0, 1}]
    BY ServerAssumption DEF Boot, NoConfig
  <2> QED
    BY <1>1, <2>1 DEF Boot, IInv, TypeOK, SessionTypeOK, MainStates, Startup
<1>5. PlacesOK'
  BY <1>1 DEF Boot, PlacesOK, Alive, Serving, Migrated, Opened, Shutdown
<1>6. WorkOK' /\ DrainsOK' /\ DrainedOrLogged'
  BY <1>3 DEF Boot, WorkOK, Fresh, DrainsOK, DrainedOrLogged
<1> QED
  BY <1>4, <1>5, <1>6 DEF IInv

\* Every step keeps the invariant.
LEMMA ServerStep == IInv /\ [Next]_vars => IInv'
<1> SUFFICES ASSUME IInv, [Next]_vars PROVE IInv'
  OBVIOUS
<1>1. CASE MainStep
  BY <1>1, StartupStep, ShutdownStep DEF MainStep
<1>2. CASE Killed
  BY <1>2, DiesStep DEF Killed
<1>3. CASE Signal
  BY <1>3, ShutdownStep
<1>4. CASE UNCHANGED vars
  <2>1. /\ UNCHANGED <<session, request, phase, service, main, exit, listener, config, db,
                        schema, seeded, timedOut, warned>>
    BY <1>4 DEF vars, process, database, work, drains
  <2>2. /\ Active' = Active /\ ActiveJobs' = ActiveJobs /\ Opening' = Opening
        /\ Job!Unfinished' = Job!Unfinished /\ Job!Running' = Job!Running
    BY <2>1, SameWork
  <2>3. TypeOK'
    BY <2>1 DEF IInv, TypeOK, SessionTypeOK
  <2>4. PlacesOK'
    BY <2>1 DEF IInv, PlacesOK, Alive, At
  <2> QED
    BY <2>1, <2>2, <2>3, <2>4 DEF IInv, WorkOK, Fresh, DrainsOK, DrainedOrLogged
<1> QED
  BY <1>1, <1>2, <1>3, <1>4, ListenerStep, JobsStep, SessionsStep, CloseStep, BootStep DEF Next

\* The invariant holds in every reachable state.
LEMMA ServerAlways == Spec => []IInv
  BY ServerInit, ServerStep, PTL DEF Spec

\* The types of the process, its database, its work and its sessions.
THEOREM ServerTypes == Spec => []TypeOK
<1>1. IInv => TypeOK
  BY DEF IInv
<1> QED
  BY ServerAlways, <1>1, PTL

\* Requests, jobs and sessions find the database migrated and seeded, and open
\* unless the drain that waits for them was given up; a session that has taken
\* over its connection, which no drain waits for, until the job drain is past.
THEOREM WorkHasDatabase == Spec => []WorkFindsDatabase
<1>1. IInv => WorkFindsDatabase
  <2> SUFFICES ASSUME IInv, Alive PROVE WorkFindsDatabase
    BY DEF WorkFindsDatabase
  <2>1. ASSUME Active \cup Opening # {} PROVE schema = "current" /\ seeded
    BY <2>1, ActiveServes DEF IInv, PlacesOK, Migrated, Serving, Shutdown
  <2>2. ASSUME Active # {} PROVE db = "open" \/ "http" \in timedOut
    BY <2>2, ActiveServes DEF IInv, PlacesOK, DrainsOK, Migrated, Opened, Serving, Shutdown
  <2>3. ASSUME Job!Running # {} PROVE db = "open" \/ "jobs" \in timedOut
    BY <2>3, UnfinishedServes, RunningUnfinished
       DEF IInv, PlacesOK, WorkOK, DrainsOK, Migrated, Opened, Serving, Shutdown
  <2>4. ASSUME Opening # {}
        PROVE  db = "open" \/ service = "closed" \/ "jobs" \in timedOut
    BY <2>4, ActiveServes DEF IInv, PlacesOK, DrainsOK, Migrated, Opened, Serving, Shutdown
  <2> QED
    BY <2>1, <2>2, <2>3, <2>4 DEF WorkFindsDatabase
<1> QED
  BY ServerAlways, <1>1, PTL

\* An orderly end leaves no work behind that the log does not tell of.
THEOREM EndsDrainedOrLogged == Spec => []DrainedOrLogged
<1>1. IInv => DrainedOrLogged
  BY DEF IInv
<1> QED
  BY ServerAlways, <1>1, PTL
=============================================================================

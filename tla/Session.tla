------------------------------- MODULE Session -------------------------------
(***************************************************************************)
(* The WebSocket sessions that hold a stream open (internal/wsstream): an  *)
(* interactive shell (containerexec.go) or a container's log               *)
(* (containerlogs.go), over the streams of internal/container/docker.go.   *)
(* A session is a handler and its helper goroutines between a client that  *)
(* may stall or vanish and a container whose shell or output may end.      *)
(***************************************************************************)
EXTENDS Naturals

CONSTANT Sessions  \* WebSocket requests the server can have in hand

VARIABLE session   \* session -> its two ends and its goroutines

SessionStates ==
    [kind    : {"shell", "log"},
     client  : {"none", "connected", "stalled", "gone"},  \* the client's end
     conn    : {"none", "open", "closed"},                \* the server's end
     handler : {"idle", "auth", "open", "read", "resize", "input", "scan",
                "send", "closing", "waiting", "ended"},
     remote  : {"none", "live", "over"},    \* the shell, or the output
     stream  : {"none", "open", "closed"},  \* the handler's side of it
     pump    : {"off", "read", "write", "ended"},  \* copies the output: the
                                            \* shell's reader, a log's StdCopy
     ctx     : {"none", "live", "cancelled"},      \* of a log session
     watcher : {"off", "waiting", "ended"}]        \* of a log's context

NoSession == [kind |-> "log", client |-> "none", conn |-> "none",
              handler |-> "idle", remote |-> "none", stream |-> "none",
              pump |-> "off", ctx |-> "none", watcher |-> "off"]

IsShell(s) == session[s].kind = "shell"
At(s, h)   == session[s].handler = h

\* The connection is lost for whoever reads from it.
Lost(s) == session[s].client = "gone" \/ session[s].conn = "closed"

\* A write to the client gets through.
Writable(s) == session[s].conn = "open" /\ session[s].client = "connected"

HelpersGone(s) == /\ session[s].pump \in {"off", "ended"}
                  /\ session[s].watcher \in {"off", "ended"}

-----------------------------------------------------------------------------
SessionInit == session = [s \in Sessions |-> NoSession]

\* A client connects, for the first time or after an earlier session.
Upgrade(s) ==
    /\ session[s].handler \in {"idle", "ended"} /\ HelpersGone(s)
    /\ \E k \in {"shell", "log"} :
         session' = [session EXCEPT ![s] =
           [NoSession EXCEPT !.kind = k, !.client = "connected", !.handler = "auth"]]

\* The key of the request is looked up; then the connection is taken over, and
\* CloseRead starts to watch that of a log session.
Accept(s) ==
    /\ At(s, "auth")
    /\ \/ session' = [session EXCEPT ![s].handler = "ended"]
       \/ session' = [session EXCEPT ![s].handler = "open", ![s].conn = "open",
                        ![s].ctx = IF IsShell(s) THEN "none" ELSE "live"]

\* Exec or StreamLogs: the access check passes and Docker attaches the stream.
OpenStream(s) ==
    /\ At(s, "open") /\ session[s].ctx # "cancelled"
    /\ session' = [session EXCEPT
         ![s].handler = IF IsShell(s) THEN "read" ELSE "scan",
         ![s].remote = "live", ![s].stream = "open", ![s].pump = "read",
         ![s].watcher = IF IsShell(s) THEN "off" ELSE "waiting"]

\* It is refused or fails: the error goes to the client in the close frame.
OpenFails(s) ==
    /\ At(s, "open")
    /\ session' = [session EXCEPT ![s].handler = "ended", ![s].conn = "closed"]

-----------------------------------------------------------------------------
(* The pump. *)

\* Faulty variant: the log request is made with a context nobody cancels.
EndsWithoutContext(s) ==
    \/ session[s].remote = "over"
    \/ IsShell(s) /\ session[s].stream = "closed"

\* What ends its read of the container's output: the end of the output; for a
\* shell the handler's Close; for a log the context the request was made with.
OutputEnds(s) ==
    \/ session[s].remote = "over"
    \/ IF IsShell(s) THEN session[s].stream = "closed"
                     ELSE session[s].ctx = "cancelled"

PumpReads(s) ==
    /\ session[s].pump = "read" /\ session[s].remote = "live" /\ ~OutputEnds(s)
    /\ session' = [session EXCEPT ![s].pump = "write"]

PumpStops(s) ==
    /\ session[s].pump = "read" /\ OutputEnds(s)
    /\ session' = [session EXCEPT ![s].pump = "ended"]

\* A shell's reader writes to the connection; a client that does not read is
\* cut off after five seconds, by closing the connection.
PumpSends(s) ==
    /\ IsShell(s) /\ session[s].pump = "write"
    /\ session' = IF Writable(s)
                  THEN [session EXCEPT ![s].pump = "read"]
                  ELSE [session EXCEPT ![s].pump = "ended", ![s].conn = "closed"]

\* StdCopy writes to a pipe that the handler's end has closed.
PipeCloses(s) ==
    /\ ~IsShell(s) /\ session[s].pump = "write" /\ session[s].stream = "closed"
    /\ session' = [session EXCEPT ![s].pump = "ended"]

-----------------------------------------------------------------------------
(* The handler of a shell. *)

\* A text frame resizes the terminal, a binary frame is input.
ReadFrame(s) ==
    /\ At(s, "read") /\ ~Lost(s)
    /\ \E h \in {"resize", "input"} : session' = [session EXCEPT ![s].handler = h]

ReadFails(s) ==
    /\ At(s, "read") /\ Lost(s)
    /\ session' = [session EXCEPT ![s].handler = "closing", ![s].conn = "closed"]

Resize(s) == At(s, "resize") /\ session' = [session EXCEPT ![s].handler = "read"]

\* A write to a shell that has exited may be taken by a buffer, or fail.
WriteInput(s) ==
    /\ At(s, "input")
    /\ \/ session' = [session EXCEPT ![s].handler = "read"]
       \/ /\ session[s].remote = "over"
          /\ session' = [session EXCEPT ![s].handler = "closing"]

\* Faulty variant: the reader is waited for before the stream is closed.
CloseAfterReader(s) ==
    /\ IsShell(s) /\ At(s, "closing") /\ session[s].pump = "ended"
    /\ session' = [session EXCEPT ![s].handler = "waiting", ![s].stream = "closed"]

\* The deferred calls: session.Close(), <-readerDone, then conn.CloseNow().
CloseShell(s) ==
    /\ IsShell(s) /\ At(s, "closing")
    /\ session' = [session EXCEPT ![s].handler = "waiting", ![s].stream = "closed"]

AwaitReader(s) ==
    /\ At(s, "waiting") /\ session[s].pump = "ended"
    /\ session' = [session EXCEPT ![s].handler = "ended", ![s].conn = "closed"]

-----------------------------------------------------------------------------
(* The handler of a log, its context and the goroutine that waits for it. *)

\* A line comes through the pipe; one that is too long ends the scan.
ScanLine(s) ==
    /\ At(s, "scan") /\ session[s].stream = "open" /\ session[s].pump = "write"
    /\ \/ session' = [session EXCEPT ![s].handler = "send", ![s].pump = "read"]
       \/ session' = [session EXCEPT ![s].handler = "closing"]

ScanEnds(s) ==
    /\ At(s, "scan")
    /\ session[s].stream = "closed" \/ session[s].pump = "ended"
    /\ session' = [session EXCEPT ![s].handler = "closing"]

SendLine(s) ==
    /\ At(s, "send")
    /\ session' = IF Writable(s)
                  THEN [session EXCEPT ![s].handler = "scan"]
                  ELSE [session EXCEPT ![s].handler = "closing",
                                       ![s].conn = "closed"]

\* The deferred calls: rc.Close(), then conn.CloseNow().
CloseLog(s) ==
    /\ ~IsShell(s) /\ At(s, "closing")
    /\ session' = [session EXCEPT ![s].handler = "ended",
                     ![s].stream = "closed", ![s].conn = "closed"]

\* CloseRead sees the end of the connection and cancels the context.
CloseReadEnds(s) ==
    /\ session[s].ctx = "live" /\ Lost(s)
    /\ session' = [session EXCEPT ![s].ctx = "cancelled", ![s].conn = "closed"]

WatcherCloses(s) ==
    /\ session[s].watcher = "waiting" /\ session[s].ctx = "cancelled"
    /\ session' = [session EXCEPT ![s].watcher = "ended", ![s].stream = "closed"]

-----------------------------------------------------------------------------
(* The client and the container. *)

ClientTurns(s, from, to) == /\ session[s].client \in from
                            /\ session' = [session EXCEPT ![s].client = to]

ClientStalls(s)  == ClientTurns(s, {"connected"}, "stalled")
ClientResumes(s) == ClientTurns(s, {"stalled"}, "connected")
ClientLeaves(s)  == ClientTurns(s, {"connected", "stalled"}, "gone")

\* A client of a log session that sends data is disconnected.
ClientSpeaks(s) == /\ session[s].ctx = "live" /\ ~Lost(s)
                   /\ session' = [session EXCEPT ![s].conn = "closed"]

RemoteEnds(s) == /\ session[s].remote = "live"
                 /\ session' = [session EXCEPT ![s].remote = "over"]

-----------------------------------------------------------------------------
\* What a goroutine does as soon as it can.
HandlerStep(s) == \/ OpenFails(s) \/ ReadFails(s) \/ Resize(s) \/ WriteInput(s)
                  \/ CloseShell(s) \/ AwaitReader(s)
                  \/ ScanLine(s) \/ ScanEnds(s) \/ SendLine(s) \/ CloseLog(s)
PumpStep(s)    == PumpStops(s) \/ PumpSends(s) \/ PipeCloses(s)
ContextStep(s) == CloseReadEnds(s) \/ WatcherCloses(s)

\* Frames and output come when they come, and so do the ends of both.
Surroundings(s) == \/ PumpReads(s) \/ ReadFrame(s)
                   \/ ClientStalls(s) \/ ClientResumes(s) \/ ClientLeaves(s)
                   \/ ClientSpeaks(s) \/ RemoteEnds(s)

SessionNext ==
    \E s \in Sessions : \/ Upgrade(s) \/ Accept(s) \/ OpenStream(s)
                        \/ HandlerStep(s) \/ PumpStep(s) \/ ContextStep(s)
                        \/ Surroundings(s)

\* Goroutines are scheduled, calls of Docker and of the WebSocket library
\* return, and the shell, or what runs in it, goes on reading its terminal.
SessionFairness ==
    \A s \in Sessions : /\ WF_session(Accept(s) \/ HandlerStep(s))
                        /\ WF_session(PumpStep(s))
                        /\ WF_session(ContextStep(s))

SessionSpec == /\ SessionInit /\ [][SessionNext]_session
               /\ SessionFairness

-----------------------------------------------------------------------------
(* Properties. *)

SessionTypeOK == session \in [Sessions -> SessionStates]

\* Once the connection is lost the handler returns: a client that hangs up, or
\* that stops reading and is cut off, holds no shell and no log stream open.
HangUpEndsSession ==
    \A s \in Sessions :
      Lost(s) ~> session[s].handler \in {"idle", "ended"}

\* The goroutines a handler has started do not outlive it for long: neither
\* the one that copies the output nor the one that waits for the context.
HelpersEndToo ==
    \A s \in Sessions : At(s, "ended") ~> HelpersGone(s)

\* "The session ends when either side closes it" (containerexec.go): also when
\* the shell does.
EndsWithEitherSide ==
    \A s \in Sessions :
      At(s, "read") /\ (Lost(s) \/ session[s].remote = "over") ~> At(s, "ended")
=============================================================================

------------------------------ MODULE Service -------------------------------
(***************************************************************************)
(* The daemon around the engine: the IPC server with one goroutine per     *)
(* connection, the API that turns a request into one or several calls of   *)
(* the engine, and Program, which starts the listener, stops everything    *)
(* once, and ends the process.                                             *)
(*                                                                         *)
(* Of the engine only what Protection says is used, with the lock that     *)
(* serialises its calls: a call waits for Engine.mu, holds it while it     *)
(* works, and publishes the status that Status returns to those who do not *)
(* get the lock.                                                           *)
(***************************************************************************)
EXTENDS Naturals, FiniteSets

CONSTANTS Conns,        \* connections
          None,         \* nobody, nothing
          MaxRequests,  \* bound: requests
          MaxRebuilds   \* bound: rebuilds after a change of network

ASSUME BoundAssumption == MaxRequests \in Nat /\ MaxRebuilds \in Nat

ASSUME NoneAssumption == /\ {None, "stop", "monitor"} \cap Conns = {}
                         /\ None \notin {"start", "stop", "restart", "shutdown", "cleanup", "monitor"}

VARIABLES
  wanted, on, pending,  \* the engine, as Protection has it
  mu,                   \* who holds Engine.mu
  call,                 \* the call each one waits for or is in
  snapshot,             \* the published status: protection is not stopped
  conn,                 \* the connections and their goroutines
  listening, closed,    \* Server.listener, Server.closed
  closer,               \* the goroutine of serveListener that waits for the context
  serve,                \* the goroutine that runs serveIPC
  cancelled,            \* the context of Program.Start
  start,                \* how far Program.Start is
  stop,                 \* how far the one execution of Program.Stop is
  asked,                \* who called Program.Stop: the run loop, the goroutine
                        \* of a lost listener, the fallback of a shutdown
  shutdowns,            \* requestShutdown goroutines
  exit,                 \* the process
  late,                 \* history: a request started the engine after Program.Stop
                        \* had cleaned up
  requests, rebuilds

engineVars == <<wanted, on, pending, mu, call, snapshot>>
serverVars == <<conn, listening, closed, closer>>
progVars   == <<serve, cancelled, start, stop, asked, shutdowns, exit, late>>
vars       == <<engineVars, serverVars, progVars, requests, rebuilds>>

Engine == INSTANCE Protection

\* The requests that call the engine; "stop" stands for "repair" too, which
\* also turns protection off.
Methods == {"start", "stop", "restart", "shutdown"}
Calls   == {"start", "stop", "cleanup"}
Actors  == Conns \cup {"stop", "monitor"}

\* A connection's goroutine: "accepted" before and "reading" after trackConn;
\* a request is read, then handled in steps.  For a "restart" two facts are kept:
\* whether something else turned protection on since it began, and whether its
\* start was refused.
NoConn == [pc |-> "none", method |-> None, shut |-> FALSE, interfered |-> FALSE, refused |-> FALSE]

ConnType == [pc : {"none", "accepted", "reading", "stopping", "starting", "calling", "shutdown"},
             method : Methods \cup {None}, shut : BOOLEAN, interfered : BOOLEAN,
             refused : BOOLEAN]

\* Every variable holds a value of its kind, and only a call that was made
\* holds the engine's lock.
TypeOK ==
  /\ wanted \in BOOLEAN /\ on \in BOOLEAN /\ pending \in BOOLEAN /\ snapshot \in BOOLEAN
  /\ call \in [Actors -> Calls \cup {None}]
  /\ mu \in Actors \cup {None}
  /\ mu \notin {None, "monitor"} => call[mu] # None
  /\ conn \in [Conns -> ConnType]
  /\ listening \in BOOLEAN /\ closed \in BOOLEAN /\ cancelled \in BOOLEAN /\ late \in BOOLEAN
  /\ closer \in {"none", "waiting", "done"}
  /\ serve \in {"listen", "serving", "exited", "over"}
  /\ start \in {"select", "closing", "ok", "failed"}
  /\ stop \in {"no", "status", "stopping", "cleanup", "close", "join", "done"}
  /\ asked \subseteq {"run", "lost", "fallback"}
  /\ shutdowns \in Nat /\ requests \in Nat /\ rebuilds \in Nat
  /\ exit \in {"up", "clean", "error"}

Init ==
  /\ wanted = FALSE /\ on = FALSE /\ pending = FALSE
  /\ mu = None /\ call = [a \in Actors |-> None] /\ snapshot = FALSE
  /\ conn = [k \in Conns |-> NoConn]
  /\ listening = FALSE /\ closed = FALSE /\ closer = "none"
  /\ serve = "listen" /\ cancelled = FALSE /\ start = "select"
  /\ stop = "no" /\ asked = {} /\ shutdowns = 0 /\ exit = "up" /\ late = FALSE
  /\ requests = 0 /\ rebuilds = 0

-----------------------------------------------------------------------------
(* The engine. *)

\* Somebody else turned protection on while a "restart" is handled.
Interfere(by) == [k \in Conns |-> IF k # by /\ conn[k].method = "restart"
                                  THEN [conn[k] EXCEPT !.interfered = TRUE] ELSE conn[k]]

Acquire(a) ==
  /\ exit = "up" /\ mu = None /\ call[a] # None
  /\ mu' = a
  /\ UNCHANGED <<wanted, on, pending, call, snapshot, serverVars, progVars, requests, rebuilds>>

Released(a) == mu = a /\ mu' = None /\ call' = [call EXCEPT ![a] = None]

\* Start: refused when protection is on, else it publishes what it came to.
FinishStart(a) ==
  /\ exit = "up" /\ call[a] = "start" /\ Released(a)
  /\ \/ on /\ Engine!UserRefused /\ UNCHANGED snapshot
        /\ conn' = [conn EXCEPT ![a].refused = (@ \/ conn[a].method = "restart")]
     \/ ~on /\ Engine!UserOn /\ snapshot' = on'
        /\ conn' = IF on' THEN Interfere(a) ELSE conn
  /\ late' = (late \/ (on' /\ stop \in {"cleanup", "close", "join", "done"} /\ call["stop"] = None))
  /\ UNCHANGED <<listening, closed, closer, serve, cancelled, start, stop, asked, shutdowns, exit,
                 requests, rebuilds>>

\* Stop publishes unless there was nothing to stop; Repair always does.
FinishStop(a) ==
  /\ exit = "up" /\ call[a] = "stop" /\ Released(a)
  /\ Engine!UserOff
  /\ snapshot' \in IF on THEN {FALSE} ELSE {snapshot, FALSE}
  /\ UNCHANGED <<serverVars, progVars, requests, rebuilds>>

\* Variant: a crash cleanup that leaves the rebuild under way alone.
FinishCleanupLeavesRebuild(a) ==
  /\ exit = "up" /\ call[a] = "cleanup" /\ Released(a)
  /\ wanted' = FALSE /\ on' = FALSE
  /\ UNCHANGED <<pending, snapshot, serverVars, progVars, requests, rebuilds>>

\* CrashCleanup turns everything off and publishes nothing.
FinishCleanup(a) ==
  /\ exit = "up" /\ call[a] = "cleanup" /\ Released(a)
  /\ Engine!UserOff
  /\ UNCHANGED <<snapshot, serverVars, progVars, requests, rebuilds>>

\* A goroutine of the session holds the lock for a while and changes nothing.
MonitorHolds ==
  /\ exit = "up" /\ on
  /\ \/ mu = None /\ mu' = "monitor"
     \/ mu = "monitor" /\ mu' = None
  /\ UNCHANGED <<wanted, on, pending, call, snapshot, serverVars, progVars, requests, rebuilds>>

\* A rebuild after a change of network, its stop and its start published.
Rebuild ==
  /\ exit = "up" /\ mu = None
  /\ \/ /\ rebuilds < MaxRebuilds /\ rebuilds' = rebuilds + 1
        /\ Engine!RebuildBegin /\ UNCHANGED conn
     \/ /\ Engine!RebuildEnd /\ UNCHANGED rebuilds
        /\ conn' = IF on' THEN Interfere(None) ELSE conn
  /\ snapshot' = on'
  /\ UNCHANGED <<mu, call, listening, closed, closer, progVars, requests>>

\* What Status may say: the truth with the lock; without it the published
\* status, or that of the operation under way once that is published.
StatusSays == IF mu = None THEN {on}
              ELSE IF mu # "monitor" /\ call[mu] # "cleanup" THEN {snapshot, TRUE}
              ELSE {snapshot}

-----------------------------------------------------------------------------
(* The server. *)

OnConn(k, r) == conn' = [conn EXCEPT ![k] = r]

\* ListenAndServe binds its endpoint, or fails.
Listen ==
  /\ exit = "up" /\ serve = "listen"
  /\ \/ /\ ~closed /\ listening' = TRUE /\ serve' = "serving" /\ closer' = "waiting"
     \/ serve' = "exited" /\ UNCHANGED <<listening, closer>>
  /\ UNCHANGED <<engineVars, conn, closed, cancelled, start, stop, asked, shutdowns, exit, late,
                 requests, rebuilds>>

Accept(k) ==
  /\ exit = "up" /\ serve = "serving" /\ listening /\ conn[k].pc = "none"
  /\ requests < MaxRequests
  /\ OnConn(k, [NoConn EXCEPT !.pc = "accepted"])
  /\ UNCHANGED <<engineVars, listening, closed, closer, progVars, requests, rebuilds>>

\* Variant: a connection is tracked whether or not the server was closed.
trackConnOpen(k) ==
  /\ exit = "up" /\ conn[k].pc = "accepted"
  /\ OnConn(k, [conn[k] EXCEPT !.pc = "reading"])
  /\ UNCHANGED <<engineVars, listening, closed, closer, progVars, requests, rebuilds>>

trackConn(k) ==
  /\ exit = "up" /\ conn[k].pc = "accepted"
  /\ OnConn(k, [conn[k] EXCEPT !.pc = "reading", !.shut = closed])
  /\ UNCHANGED <<engineVars, listening, closed, closer, progVars, requests, rebuilds>>

\* The connection is over for its client, or was closed.
Hangup(k) ==
  /\ exit = "up" /\ conn[k].pc = "reading"
  /\ OnConn(k, NoConn)
  /\ UNCHANGED <<engineVars, listening, closed, closer, progVars, requests, rebuilds>>

\* The request goes on to its next call of the engine, or to requestShutdown.
Calling(k, method, c) ==
  /\ call' = [call EXCEPT ![k] = c]
  /\ OnConn(k, [conn[k] EXCEPT !.method = method,
                  !.pc = IF c = None THEN "shutdown" ELSE IF method \in {"start", "stop"} THEN "calling"
                         ELSE IF c = "stop" THEN "stopping" ELSE "starting"])

\* Variant: "restart" calls Start alone when protection seems to be on.
FirstCallsStart(method) ==
  IF method = "restart" THEN {"start"}
  ELSE IF method \in {"start", "stop"} THEN {method}
  ELSE {IF up THEN "stop" ELSE None : up \in StatusSays}

\* API.Handle, up to its first call of the engine: "restart" and "shutdown" ask
\* for the status, and stop what it does not say is stopped.
FirstCalls(method) ==
  IF method \in {"start", "stop"} THEN {method}
  ELSE {IF up THEN "stop" ELSE IF method = "restart" THEN "start" ELSE None : up \in StatusSays}

\* serveConn decodes a request and hands it to the API.
Receive(k, method) ==
  /\ exit = "up" /\ conn[k].pc = "reading" /\ ~conn[k].shut
  /\ requests < MaxRequests /\ requests' = requests + 1
  /\ \E c \in FirstCalls(method) : Calling(k, method, c)
  /\ UNCHANGED <<wanted, on, pending, mu, snapshot, listening, closed, closer, progVars, rebuilds>>

\* The Stop of "restart" or "shutdown" returned; not_running is no error.
AfterStop(k) ==
  /\ exit = "up" /\ conn[k].pc = "stopping" /\ call[k] = None
  /\ Calling(k, conn[k].method, IF conn[k].method = "restart" THEN "start" ELSE None)
  /\ UNCHANGED <<wanted, on, pending, mu, snapshot, listening, closed, closer, progVars,
                 requests, rebuilds>>

\* The response is written, and the next request read, unless the connection
\* was closed.
Reply(k) == OnConn(k, IF conn[k].shut THEN NoConn ELSE [NoConn EXCEPT !.pc = "reading"])

AfterCall(k) ==
  /\ exit = "up" /\ conn[k].pc \in {"calling", "starting"} /\ call[k] = None
  /\ Reply(k)
  /\ UNCHANGED <<engineVars, listening, closed, closer, progVars, requests, rebuilds>>

\* Variant: the handler of "shutdown" stops the service itself.
ShutdownInline(k) ==
  /\ exit = "up" /\ conn[k].pc = "shutdown" /\ (stop = "done" \/ "fallback" \notin asked)
  /\ asked' = asked \cup {"fallback"}
  /\ IF stop = "done" THEN Reply(k) ELSE UNCHANGED conn
  /\ UNCHANGED <<engineVars, listening, closed, closer, serve, cancelled, start, stop, shutdowns,
                 exit, late, requests, rebuilds>>

\* requestShutdown leaves the stop to a goroutine, so that the reply goes out.
Shutdown(k) ==
  /\ exit = "up" /\ conn[k].pc = "shutdown"
  /\ shutdowns' = shutdowns + 1 /\ Reply(k)
  /\ UNCHANGED <<engineVars, listening, closed, closer, serve, cancelled, start, stop, asked, exit,
                 late, requests, rebuilds>>

-----------------------------------------------------------------------------
(* Program. *)

\* Server.Close: the first call closes the listener and the connections that
\* are tracked; every call then waits for their goroutines.
CloseServer ==
  /\ closed' = TRUE /\ listening' = FALSE
  /\ conn' = [k \in Conns |-> IF conn[k].pc \in {"none", "accepted"} THEN conn[k]
                              ELSE [conn[k] EXCEPT !.shut = TRUE]]

ConnsEnded == \A k \in Conns : conn[k].pc \in {"none", "accepted"}

\* serveListener's goroutine closes the server when the context ends.
Closer ==
  /\ exit = "up" /\ closer = "waiting" /\ cancelled
  /\ CloseServer /\ closer' = "done"
  /\ UNCHANGED <<engineVars, progVars, requests, rebuilds>>

\* The accept loop ends: its listener was closed, or fails by itself.
AcceptEnds ==
  /\ exit = "up" /\ serve = "serving" /\ ~listening
  /\ serve' = "exited"
  /\ UNCHANGED <<engineVars, serverVars, cancelled, start, stop, asked, shutdowns, exit, late,
                 requests, rebuilds>>

AcceptFails ==
  /\ exit = "up" /\ serve = "serving" /\ listening
  /\ serve' = "exited"
  /\ UNCHANGED <<engineVars, serverVars, cancelled, start, stop, asked, shutdowns, exit, late,
                 requests, rebuilds>>

\* What the listener's goroutine does after serveIPC: once Start was accepted,
\* an exit nobody asked for leaves the teardown to a goroutine of its own.
ServeEnds ==
  /\ exit = "up" /\ serve = "exited"
  /\ start = "ok" \/ cancelled
  /\ asked' = IF start = "ok" /\ ~cancelled THEN asked \cup {"lost"} ELSE asked
  /\ serve' = "over"
  /\ UNCHANGED <<engineVars, serverVars, cancelled, start, stop, shutdowns, exit, late, requests,
                 rebuilds>>

\* Program.Start: the listener is ready, or ended first, or took too long.
StartSelect ==
  /\ exit = "up" /\ start = "select"
  /\ \/ /\ closer # "none" /\ start' = "ok"
        /\ UNCHANGED <<cancelled, conn, listening, closed>>
     \/ /\ serve = "exited" /\ start' = "failed" /\ cancelled' = TRUE
        /\ UNCHANGED <<conn, listening, closed>>
     \/ /\ start' = "closing" /\ cancelled' = TRUE /\ CloseServer
  /\ UNCHANGED <<engineVars, closer, serve, stop, asked, shutdowns, exit, late, requests, rebuilds>>

StartClosed ==
  /\ exit = "up" /\ start = "closing" /\ ConnsEnded
  /\ start' = "failed"
  /\ UNCHANGED <<engineVars, serverVars, serve, cancelled, stop, asked, shutdowns, exit, late,
                 requests, rebuilds>>

\* The run loop: a start that failed ends the process, and so does the stop it
\* was told to make; the goroutine of a lost listener ends it with an error.
\* The process's goroutines are gone with it.
Exit ==
  /\ exit = "up"
  /\ \/ start = "failed" /\ serve = "over" /\ exit' = "error"
     \/ stop = "done" /\ "run" \in asked /\ exit' = "clean"
     \/ stop = "done" /\ "lost" \in asked /\ exit' = "error"
  /\ conn' = [k \in Conns |-> NoConn] /\ call' = [a \in Actors |-> None] /\ mu' = None
  /\ shutdowns' = 0 /\ requests' = 0 /\ rebuilds' = 0
  /\ UNCHANGED <<wanted, on, pending, snapshot, listening, closed, closer, serve, cancelled, start,
                 stop, asked, late>>

\* The service manager tells the run loop to stop.
Terminate ==
  /\ exit = "up" /\ start = "ok" /\ "run" \notin asked /\ asked' = asked \cup {"run"}
  /\ UNCHANGED <<engineVars, serverVars, serve, cancelled, start, stop, shutdowns, exit, late,
                 requests, rebuilds>>

\* stopSCM: the service manager takes the stop, or the fallback stops in process.
StopSCM ==
  /\ exit = "up" /\ start = "ok" /\ shutdowns > 0
  /\ shutdowns' = shutdowns - 1
  /\ \E who \in {"run", "fallback"} : asked' = asked \cup {who}
  /\ UNCHANGED <<engineVars, serverVars, serve, cancelled, start, stop, exit, late, requests,
                 rebuilds>>

StopBegin ==
  /\ exit = "up" /\ stop = "no" /\ asked # {}
  /\ stop' = "status" /\ cancelled' = TRUE
  /\ UNCHANGED <<engineVars, serverVars, serve, start, asked, shutdowns, exit, late, requests,
                 rebuilds>>

StopEngine ==
  /\ exit = "up" /\ call["stop"] = None
  /\ \/ stop = "status" /\ TRUE \in StatusSays
        /\ stop' = "stopping" /\ call' = [call EXCEPT !["stop"] = "stop"]
     \/ (stop = "stopping" \/ (stop = "status" /\ FALSE \in StatusSays))
        /\ stop' = "cleanup" /\ call' = [call EXCEPT !["stop"] = "cleanup"]
  /\ UNCHANGED <<wanted, on, pending, mu, snapshot, serverVars, serve, cancelled, start, asked,
                 shutdowns, exit, late, requests, rebuilds>>

StopClose ==
  /\ exit = "up" /\ stop = "cleanup" /\ call["stop"] = None
  /\ CloseServer /\ stop' = "close"
  /\ UNCHANGED <<engineVars, closer, serve, cancelled, start, asked, shutdowns, exit, late,
                 requests, rebuilds>>

StopJoin ==
  /\ exit = "up"
  /\ \/ stop = "close" /\ ConnsEnded /\ stop' = "join"
     \/ stop = "join" /\ serve = "over" /\ stop' = "done"
  /\ UNCHANGED <<engineVars, serverVars, serve, cancelled, start, asked, shutdowns, exit, late,
                 requests, rebuilds>>

-----------------------------------------------------------------------------
EngineStep(a) == Acquire(a) \/ FinishStop(a) \/ FinishCleanup(a)

ConnStep(k) == \/ trackConn(k) \/ Hangup(k) \/ AfterStop(k) \/ AfterCall(k)
               \/ Shutdown(k) \/ FinishStart(k)

ProgStep == \/ Closer \/ AcceptEnds \/ ServeEnds \/ StartSelect \/ StartClosed \/ Exit
            \/ StopSCM \/ StopBegin \/ StopEngine \/ StopClose \/ StopJoin

Next ==
  \/ \E a \in Actors : EngineStep(a)
  \/ \E k \in Conns : ConnStep(k) \/ Accept(k) \/ (\E m \in Methods : Receive(k, m))
  \/ ProgStep \/ MonitorHolds \/ Rebuild
  \/ Listen \/ AcceptFails \/ Terminate

\* A connection that waits for its client: the read has no deadline, so only
\* closing the connection is sure to end it.
Idle(k) == conn[k].pc = "reading" /\ ~conn[k].shut

\* Every goroutine that can go on does so in the end, and the engine's lock,
\* a Go mutex, starves nobody.  Clients, signals, failures of the listener and
\* changes of network owe nothing.
Fairness ==
  /\ \A a \in Actors : SF_vars(Acquire(a)) /\ WF_vars(FinishStop(a) \/ FinishCleanup(a))
  /\ \A k \in Conns : WF_vars(~Idle(k) /\ ConnStep(k))
  /\ WF_vars(StartSelect \/ StartClosed) /\ WF_vars(Listen \/ AcceptEnds \/ ServeEnds)
  /\ WF_vars(StopBegin \/ StopEngine \/ StopClose \/ StopJoin)
  /\ WF_vars(Closer) /\ WF_vars(StopSCM) /\ WF_vars(Exit)
  /\ WF_vars(MonitorHolds /\ mu = "monitor")

Spec == Init /\ [][Next]_vars /\ Fairness

-----------------------------------------------------------------------------
(* Properties. *)

\* When Program.Stop is done no request is being handled, whatever connection
\* the accept loop had taken when the server was closed.
NoRequestOutlivesStop ==
  stop = "done" => \A k \in Conns : conn[k].pc \in {"none", "accepted", "reading"}

\* A "restart" is refused as already running only when something else turned
\* protection on while it was handled: the status it goes by, read without the
\* lock, is never so stale that it leaves out its own Stop.
RestartRefusedOnlyByOthers ==
  \A k \in Conns : conn[k].method = "restart" /\ conn[k].refused => conn[k].interfered

\* Protection that is on when Program.Stop is done was started by a request
\* that reached the engine after the cleanup: no rebuild, and no status read
\* without the lock, brings it back or leaves it on.
OnlyALateStartSurvives == stop = "done" /\ on => late

\* What the comment at the cleanup promises: when the service has stopped,
\* nothing of its protection is left in the system.
NothingLeftAtExit == stop = "done" /\ exit # "up" => ~on

\* Whoever asks for the service to stop (the run loop, the goroutine of a lost
\* listener, the fallback of a shutdown) sees it stopped, and the process ends
\* when the run loop or a lost listener asked: the handlers, the listener and
\* the callers of Program.Stop never wait for each other.
StopEnds == asked # {} ~> (stop = "done" /\ (asked = {"fallback"} \/ exit # "up"))

=============================================================================

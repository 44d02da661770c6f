--------------------------- MODULE ServiceProofs ----------------------------
(***************************************************************************)
(* Proofs about module Service, for every set of connections and any       *)
(* number of requests and rebuilds.                                        *)
(*                                                                         *)
(* The argument: Server.Close marks every tracked connection and a closed  *)
(* server tracks no connection unmarked, so once the join has seen the     *)
(* handlers end none can begin again (Closing).  The published status      *)
(* never says off while protection is on (SnapshotKnows), and whoever      *)
(* turns protection on while a "restart" is between its stop and its start *)
(* is somebody else (RestartFindsItOff).  After the cleanup of             *)
(* Program.Stop protection is off and no rebuild is under way, so only a   *)
(* request can turn it on again (CleanedUp).                               *)
(***************************************************************************)
EXTENDS Service, TLAPS

\* The call a connection's goroutine is in fits the step of its request.
CallsFit ==
  \A k \in Conns :
    /\ conn[k].pc \in {"none", "accepted", "reading"} =>
         conn[k].method = None /\ call[k] = None /\ ~conn[k].refused
    /\ conn[k].pc = "stopping" => conn[k].method \in {"restart", "shutdown"} /\ call[k] \in {"stop", None}
    /\ conn[k].pc = "starting" => conn[k].method = "restart" /\ call[k] \in {"start", None}
    /\ conn[k].pc = "calling" => conn[k].method \in {"start", "stop"}
    /\ conn[k].pc = "shutdown" => conn[k].method = "shutdown" /\ call[k] = None

\* The call Program.Stop is in fits its step.
StopCallFits ==
  /\ stop = "stopping" => call["stop"] \in {"stop", None}
  /\ stop = "cleanup" => call["stop"] \in {"cleanup", None}
  /\ stop \notin {"stopping", "cleanup"} => call["stop"] = None

\* Only a service that started is asked to stop.
StartedFirst == start # "ok" => asked = {} /\ stop = "no"

Closing ==
  /\ closed => ~listening /\ \A k \in Conns : conn[k].pc \notin {"none", "accepted"} => conn[k].shut
  /\ stop \in {"close", "join", "done"} => closed
  /\ stop \in {"join", "done"} => \A k \in Conns : conn[k].pc \in {"none", "accepted", "reading"}

SnapshotKnows == on => snapshot

\* Between its stop and its start, protection is off for a "restart" unless
\* something else turned it on.
RestartFindsItOff ==
  \A k \in Conns :
    /\ conn[k].method = "restart" /\ ~conn[k].interfered
    /\ call[k] = "start" \/ (conn[k].pc = "stopping" /\ call[k] = None)
    => ~on

Cleaned == stop \in {"close", "join", "done"} \/ (stop = "cleanup" /\ call["stop"] = None)

CleanedUp == Cleaned /\ (on \/ pending) => late

IInv == /\ TypeOK /\ CallsFit /\ StopCallFits /\ StartedFirst
        /\ Closing /\ SnapshotKnows
        /\ RestartFindsItOff /\ RestartRefusedOnlyByOthers
        /\ CleanedUp

-----------------------------------------------------------------------------
\* A record put in place of a connection's keeps the connections typed.
LEMMA ConnTyped ==
  ASSUME TypeOK, NEW k \in Conns, NEW r \in ConnType, OnConn(k, r)
  PROVE  conn' \in [Conns -> ConnType]
BY DEF TypeOK, OnConn

\* Closing the server, or marking the restarts it interferes with, keeps them
\* typed too.
LEMMA ConnsTyped ==
  ASSUME TypeOK
  PROVE  /\ CloseServer => conn' \in [Conns -> ConnType]
         /\ \A by : Interfere(by) \in [Conns -> ConnType]
         /\ [k \in Conns |-> NoConn] \in [Conns -> ConnType]
<1>1. \A k \in Conns : conn[k] \in ConnType
  BY DEF TypeOK
<1>2. \A r \in ConnType :
        [r EXCEPT !.shut = TRUE] \in ConnType /\ [r EXCEPT !.interfered = TRUE] \in ConnType
  BY Zenon DEF ConnType
<1>3. NoConn \in ConnType
  BY DEF NoConn, ConnType
<1> QED BY <1>1, <1>2, <1>3, Zenon DEF CloseServer, Interfere

\* The lock and the calls.
CallsOK == /\ call \in [Actors -> Calls \cup {None}]
           /\ mu \in Actors \cup {None}
           /\ mu \notin {None, "monitor"} => call[mu] # None

\* Every step of the daemon keeps the connections typed.
LEMMA ConnTypeStep == ASSUME TypeOK, CallsFit, [Next]_vars PROVE conn' \in [Conns -> ConnType]
<1> USE NoneAssumption DEF serverVars
<1>0. ASSUME UNCHANGED conn PROVE conn' \in [Conns -> ConnType]
  BY <1>0 DEF TypeOK
<1>1. ASSUME NEW k \in Conns PROVE conn[k] \in ConnType
  BY DEF TypeOK
<1>2. NoConn \in ConnType /\ [NoConn EXCEPT !.pc = "accepted"] \in ConnType
      /\ [NoConn EXCEPT !.pc = "reading"] \in ConnType
  BY Zenon DEF NoConn, ConnType
<1>3. ASSUME NEW a \in Actors, EngineStep(a) PROVE conn' \in [Conns -> ConnType]
  BY <1>0, <1>3, Zenon DEF EngineStep, Acquire, FinishStop, FinishCleanup
<1>4. ASSUME NEW k \in Conns, trackConn(k) PROVE conn' \in [Conns -> ConnType]
  <2>1. [conn[k] EXCEPT !.pc = "reading", !.shut = closed] \in ConnType
    BY <1>1, ZenonT(30) DEF ConnType, TypeOK
  <2> QED BY <1>4, <2>1, ConnTyped DEF trackConn
<1>5. ASSUME NEW k \in Conns, Hangup(k) \/ AfterCall(k) \/ Shutdown(k) \/ Accept(k)
      PROVE  conn' \in [Conns -> ConnType]
  <2>1. OnConn(k, NoConn) \/ OnConn(k, [NoConn EXCEPT !.pc = "accepted"])
        \/ OnConn(k, [NoConn EXCEPT !.pc = "reading"])
    BY <1>5 DEF Hangup, AfterCall, Shutdown, Accept, Reply, OnConn
  <2> QED BY <1>2, <2>1, ConnTyped
<1>6. ASSUME NEW k \in Conns, NEW m \in Methods, NEW c, Calling(k, m, c)
      PROVE  conn' \in [Conns -> ConnType]
  <2>1. \A pc \in {"shutdown", "calling", "stopping", "starting"} :
          [conn[k] EXCEPT !.method = m, !.pc = pc] \in ConnType
    BY <1>1, Zenon DEF ConnType
  <2> QED BY <1>6, <2>1, ConnTyped, Zenon DEF Calling
<1>7. ASSUME NEW k \in Conns, AfterStop(k) PROVE conn' \in [Conns -> ConnType]
  <2>1. conn[k].method \in Methods
    BY <1>7 DEF AfterStop, CallsFit, Methods
  <2> QED BY <1>6, <1>7, <2>1 DEF AfterStop
<1>8. ASSUME NEW k \in Conns, NEW m \in Methods, Receive(k, m) PROVE conn' \in [Conns -> ConnType]
  BY <1>6, <1>8 DEF Receive
<1>9. ASSUME NEW k \in Conns, FinishStart(k) PROVE conn' \in [Conns -> ConnType]
  <2>1. CASE conn' = [conn EXCEPT ![k].refused = (@ \/ conn[k].method = "restart")]
    <3>1. \A r \in ConnType, b \in BOOLEAN : [r EXCEPT !.refused = b] \in ConnType
      BY DEF ConnType
    <3>2. conn' = [conn EXCEPT ![k] = [conn[k] EXCEPT !.refused = (@ \/ conn[k].method = "restart")]]
      BY <2>1
    <3>3. (conn[k].refused \/ conn[k].method = "restart") \in BOOLEAN
      OBVIOUS
    <3> QED BY <1>1, <3>1, <3>2, <3>3, Zenon DEF TypeOK
  <2>2. CASE conn' = IF on' THEN Interfere(k) ELSE conn
    BY <2>2, ConnsTyped DEF TypeOK
  <2> QED BY <1>9, <2>1, <2>2 DEF FinishStart
<1>10. CASE Closer \/ StartSelect \/ StopClose
  BY <1>0, <1>10, ConnsTyped DEF Closer, StartSelect, StopClose
<1>11. CASE Exit
  BY <1>11, ConnsTyped DEF Exit
<1>12. CASE Rebuild
  BY <1>0, <1>12, ConnsTyped DEF Rebuild, TypeOK
<1>13. CASE AcceptEnds \/ ServeEnds \/ StartClosed \/ StopSCM \/ StopBegin \/ StopEngine \/ StopJoin
            \/ MonitorHolds \/ Listen \/ AcceptFails \/ Terminate \/ UNCHANGED vars
  BY <1>0, <1>13, Zenon DEF AcceptEnds, ServeEnds, StartClosed, StopSCM, StopBegin, StopEngine, StopJoin,
     MonitorHolds, Listen, AcceptFails, Terminate, vars
<1> QED BY <1>3, <1>4, <1>5, <1>7, <1>8, <1>9, <1>10, <1>11, <1>12, <1>13
        DEF Next, ConnStep, ProgStep

\* Every step keeps the calls typed, and the lock with a call that was made.
LEMMA CallTypeStep == ASSUME TypeOK, CallsFit, [Next]_vars PROVE CallsOK'
<1> USE NoneAssumption DEF engineVars, CallsOK
<1>0. CallsOK
  BY DEF TypeOK
<1>1. ASSUME UNCHANGED <<mu, call>> PROVE CallsOK'
  BY <1>0, <1>1
<1>2. ASSUME NEW a \in Actors, Acquire(a) PROVE CallsOK'
  BY <1>0, <1>2 DEF Acquire
<1>3. ASSUME NEW a \in Actors, Released(a) PROVE CallsOK'
  BY <1>0, <1>3 DEF Released
<1>4. ASSUME NEW a \in Actors, FinishStop(a) \/ FinishCleanup(a) PROVE CallsOK'
  BY <1>3, <1>4, Zenon DEF FinishStop, FinishCleanup
<1>5. ASSUME NEW k \in Conns, FinishStart(k) PROVE CallsOK'
  BY <1>3, <1>5 DEF FinishStart, Actors
<1>6. ASSUME NEW a \in Actors, a # "monitor", call[a] = None, NEW c \in Calls \cup {None},
             call' = [call EXCEPT ![a] = c], mu' = mu
      PROVE  CallsOK'
  BY <1>0, <1>6
<1>7. ASSUME NEW k \in Conns, AfterStop(k) PROVE CallsOK'
  BY <1>6, <1>7, Zenon DEF AfterStop, Calling, Actors, Calls
<1>8. ASSUME NEW k \in Conns, NEW m \in Methods, Receive(k, m) PROVE CallsOK'
  <2>1. call[k] = None
    BY <1>8 DEF Receive, CallsFit
  <2>2. FirstCalls(m) \subseteq Calls \cup {None}
    BY DEF FirstCalls, Calls
  <2> QED BY <1>6, <1>8, <2>1, <2>2, Zenon DEF Receive, Calling, Actors
<1>9. CASE StopEngine
  BY <1>6, <1>9, ZenonT(30) DEF StopEngine, Actors, Calls
<1>10. CASE Exit
  BY <1>10 DEF Exit
<1>11. CASE MonitorHolds
  BY <1>0, <1>11 DEF MonitorHolds, Actors
<1>12. ASSUME NEW k \in Conns, trackConn(k) \/ Hangup(k) \/ AfterCall(k) \/ Shutdown(k) \/ Accept(k)
       PROVE  CallsOK'
  BY <1>1, <1>12 DEF trackConn, Hangup, AfterCall, Shutdown, Accept
<1>13. CASE Closer \/ StartSelect \/ StopClose \/ Rebuild \/ AcceptEnds \/ ServeEnds \/ StartClosed
            \/ StopSCM \/ StopBegin \/ StopJoin \/ Listen \/ AcceptFails \/ Terminate \/ UNCHANGED vars
  BY <1>1, <1>13 DEF Closer, StartSelect, StopClose, Rebuild, AcceptEnds, ServeEnds, StartClosed,
     StopSCM, StopBegin, StopJoin, Listen, AcceptFails, Terminate, vars
<1> QED BY <1>2, <1>4, <1>5, <1>7, <1>8, <1>9, <1>10, <1>11, <1>12, <1>13
        DEF Next, EngineStep, ConnStep, ProgStep

\* The flags and the steps of the server and of Program.
FlagsOK ==
  /\ wanted \in BOOLEAN /\ on \in BOOLEAN /\ pending \in BOOLEAN /\ snapshot \in BOOLEAN
  /\ listening \in BOOLEAN /\ closed \in BOOLEAN /\ cancelled \in BOOLEAN /\ late \in BOOLEAN
  /\ closer \in {"none", "waiting", "done"}
  /\ serve \in {"listen", "serving", "exited", "over"}
  /\ start \in {"select", "closing", "ok", "failed"}
  /\ stop \in {"no", "status", "stopping", "cleanup", "close", "join", "done"}
  /\ asked \subseteq {"run", "lost", "fallback"}
  /\ shutdowns \in Nat /\ requests \in Nat /\ rebuilds \in Nat
  /\ exit \in {"up", "clean", "error"}

\* Every step keeps the flags and the counters typed.
LEMMA FlagTypeStep == ASSUME FlagsOK, [Next]_vars PROVE FlagsOK'
<1> USE DEF FlagsOK, engineVars, serverVars, progVars
<1>1. ASSUME NEW a \in Actors, Acquire(a) PROVE FlagsOK'
  BY <1>1 DEF Acquire
<1>2. ASSUME NEW a \in Actors, FinishStop(a) PROVE FlagsOK'
  <2>1. wanted' \in BOOLEAN /\ on' \in BOOLEAN /\ pending' \in BOOLEAN
    BY <1>2, Zenon DEF FinishStop, Engine!UserOff
  <2>2. snapshot' \in BOOLEAN
    BY <1>2, Zenon DEF FinishStop
  <2> QED BY <1>2, <2>1, <2>2 DEF FinishStop
<1>3. ASSUME NEW a \in Actors, FinishCleanup(a) PROVE FlagsOK'
  <2>1. wanted' \in BOOLEAN /\ on' \in BOOLEAN /\ pending' \in BOOLEAN
    BY <1>3, Zenon DEF FinishCleanup, Engine!UserOff
  <2> QED BY <1>3, <2>1 DEF FinishCleanup
<1>4. ASSUME NEW k \in Conns, trackConn(k) PROVE FlagsOK'
  BY <1>4 DEF trackConn
<1>5. ASSUME NEW k \in Conns, Hangup(k) PROVE FlagsOK'
  BY <1>5 DEF Hangup
<1>6. ASSUME NEW k \in Conns, AfterStop(k) PROVE FlagsOK'
  BY <1>6 DEF AfterStop
<1>7. ASSUME NEW k \in Conns, AfterCall(k) PROVE FlagsOK'
  BY <1>7 DEF AfterCall
<1>8. ASSUME NEW k \in Conns, Shutdown(k) PROVE FlagsOK'
  BY <1>8 DEF Shutdown
<1>9. ASSUME NEW k \in Conns, FinishStart(k) PROVE FlagsOK'
  <2>1. wanted' \in BOOLEAN /\ on' \in BOOLEAN /\ pending' \in BOOLEAN
    BY <1>9, Zenon DEF FinishStart, Engine!UserRefused, Engine!UserOn
  <2>2. snapshot' \in BOOLEAN
    BY <1>9, <2>1 DEF FinishStart
  <2>3. late' \in BOOLEAN
    BY <1>9 DEF FinishStart
  <2> QED BY <1>9, <2>1, <2>2, <2>3 DEF FinishStart
<1>10. ASSUME NEW k \in Conns, Accept(k) PROVE FlagsOK'
  BY <1>10 DEF Accept
<1>11. ASSUME NEW k \in Conns, NEW m \in Methods, Receive(k, m) PROVE FlagsOK'
  BY <1>11 DEF Receive
<1>12. CASE Closer
  <2>1. closed' \in BOOLEAN /\ listening' \in BOOLEAN
    BY <1>12, Zenon DEF Closer, CloseServer
  <2> QED BY <1>12, <2>1 DEF Closer
<1>13. CASE AcceptEnds
  BY <1>13 DEF AcceptEnds
<1>14. CASE ServeEnds
  BY <1>14 DEF ServeEnds
<1>15. CASE StartSelect
  <2>1. closed' \in BOOLEAN /\ listening' \in BOOLEAN /\ cancelled' \in BOOLEAN
    BY <1>15, Zenon DEF StartSelect, CloseServer
  <2>2. start' \in {"select", "closing", "ok", "failed"}
    BY <1>15 DEF StartSelect
  <2> QED BY <1>15, <2>1, <2>2 DEF StartSelect
<1>16. CASE StartClosed
  BY <1>16 DEF StartClosed
<1>17. CASE Exit
  BY <1>17 DEF Exit
<1>18. CASE StopSCM
  BY <1>18 DEF StopSCM
<1>19. CASE StopBegin
  BY <1>19 DEF StopBegin
<1>20. CASE StopEngine
  <2>1. stop' \in {"stopping", "cleanup"}
    BY <1>20, Zenon DEF StopEngine
  <2> QED BY <1>20, <2>1 DEF StopEngine
<1>21. CASE StopClose
  <2>1. closed' \in BOOLEAN /\ listening' \in BOOLEAN
    BY <1>21, Zenon DEF StopClose, CloseServer
  <2> QED BY <1>21, <2>1 DEF StopClose
<1>22. CASE StopJoin
  BY <1>22 DEF StopJoin
<1>23. CASE MonitorHolds
  BY <1>23 DEF MonitorHolds
<1>24. CASE Rebuild
  <2>1. wanted' \in BOOLEAN /\ on' \in BOOLEAN /\ pending' \in BOOLEAN
    BY <1>24, Zenon DEF Rebuild, Engine!RebuildBegin, Engine!RebuildEnd
  <2>2. rebuilds' \in Nat
    BY <1>24 DEF Rebuild
  <2> QED BY <1>24, <2>1, <2>2 DEF Rebuild
<1>25. CASE Listen
  <2>1. /\ listening' \in BOOLEAN /\ closer' \in {"none", "waiting", "done"}
        /\ serve' \in {"serving", "exited"}
    BY <1>25, Zenon DEF Listen
  <2> QED BY <1>25, <2>1 DEF Listen
<1>26. CASE AcceptFails
  BY <1>26 DEF AcceptFails
<1>27. CASE Terminate
  BY <1>27 DEF Terminate
<1>28. CASE UNCHANGED vars
  BY <1>28 DEF vars
<1> HIDE DEF FlagsOK
<1> QED BY <1>1, <1>2, <1>3, <1>4, <1>5, <1>6, <1>7, <1>8, <1>9, <1>10, <1>11, <1>12, <1>13, <1>14,
    <1>15, <1>16, <1>17, <1>18, <1>19, <1>20, <1>21, <1>22, <1>23, <1>24, <1>25, <1>26, <1>27, <1>28
    DEF Next, EngineStep, ConnStep, ProgStep

\* The variables are typed after every step.
LEMMA TypeStep == ASSUME TypeOK, CallsFit, [Next]_vars PROVE TypeOK'
BY ConnTypeStep, CallTypeStep, FlagTypeStep DEF TypeOK, FlagsOK, CallsOK

-----------------------------------------------------------------------------
\* What a request begins with: "restart" calls Start at once only if the status
\* says protection is off, and then it is.
LEMMA FirstCall ==
  ASSUME TypeOK, SnapshotKnows, NEW m \in Methods, NEW c \in FirstCalls(m)
  PROVE  /\ m \in {"start", "stop"} => c = m
         /\ m = "restart" => c \in {"start", "stop"} /\ (c = "start" => ~on)
         /\ m = "shutdown" => c \in {"stop", None}
<1>1. FALSE \in StatusSays => ~on
  BY Zenon DEF TypeOK, SnapshotKnows, StatusSays
<1>2. StatusSays \subseteq BOOLEAN
  BY Zenon DEF TypeOK, StatusSays
<1> QED BY <1>1, <1>2, Zenon DEF FirstCalls, Methods

\* What the first call makes of the connection.
LEMMA ReceiveSets ==
  ASSUME TypeOK, SnapshotKnows, NEW k \in Conns, NEW m \in Methods, Receive(k, m)
  PROVE  \E c \in FirstCalls(m) :
           /\ call' = [call EXCEPT ![k] = c]
           /\ conn' = [conn EXCEPT ![k] = conn'[k]]
           /\ conn'[k].method = m /\ conn'[k].refused = conn[k].refused
           /\ conn'[k].shut = conn[k].shut /\ conn'[k].interfered = conn[k].interfered
           /\ conn'[k].pc = IF c = None THEN "shutdown" ELSE IF m \in {"start", "stop"} THEN "calling"
                            ELSE IF c = "stop" THEN "stopping" ELSE "starting"
<1>1. PICK c \in FirstCalls(m) : Calling(k, m, c)
  BY DEF Receive
<1>2. conn[k] \in ConnType /\ conn \in [Conns -> ConnType]
  BY DEF TypeOK
<1> DEFINE pc == IF c = None THEN "shutdown" ELSE IF m \in {"start", "stop"} THEN "calling"
                 ELSE IF c = "stop" THEN "stopping" ELSE "starting"
<1>3. /\ call' = [call EXCEPT ![k] = c]
      /\ conn' = [conn EXCEPT ![k] = [conn[k] EXCEPT !.method = m, !.pc = pc]]
  BY <1>1 DEF Calling, OnConn
<1> HIDE DEF pc
<1>4. conn'[k] = [conn[k] EXCEPT !.method = m, !.pc = pc]
  BY <1>2, <1>3
<1>5. /\ conn'[k].method = m /\ conn'[k].refused = conn[k].refused
      /\ conn'[k].shut = conn[k].shut /\ conn'[k].interfered = conn[k].interfered
      /\ conn'[k].pc = pc
  BY <1>2, <1>4 DEF ConnType
<1> QED BY <1>2, <1>3, <1>4, <1>5, Zenon DEF pc

\* Every step keeps the calls in agreement with the requests and with Program.Stop.
LEMMA CallsStep == ASSUME IInv, [Next]_vars PROVE (CallsFit /\ StopCallFits /\ StartedFirst)'
<1> USE NoneAssumption
    DEF IInv, TypeOK, ConnType, Methods, Calls, Actors, CallsFit, StopCallFits, StartedFirst, engineVars,
    serverVars, progVars
<1>1. ASSUME NEW a \in Actors, Acquire(a) PROVE (CallsFit /\ StopCallFits /\ StartedFirst)'
  BY <1>1 DEF Acquire
<1>2. ASSUME NEW a \in Actors, FinishStop(a) PROVE (CallsFit /\ StopCallFits /\ StartedFirst)'
  BY <1>2 DEF FinishStop, Released, Engine!UserOff
<1>3. ASSUME NEW a \in Actors, FinishCleanup(a) PROVE (CallsFit /\ StopCallFits /\ StartedFirst)'
  BY <1>3 DEF FinishCleanup, Released, Engine!UserOff
<1>4. ASSUME NEW k \in Conns, trackConn(k) PROVE (CallsFit /\ StopCallFits /\ StartedFirst)'
  BY <1>4 DEF trackConn, OnConn
<1>5. ASSUME NEW k \in Conns, Hangup(k) PROVE (CallsFit /\ StopCallFits /\ StartedFirst)'
  BY <1>5 DEF Hangup, OnConn, NoConn
<1>6. ASSUME NEW k \in Conns, AfterStop(k) PROVE (CallsFit /\ StopCallFits /\ StartedFirst)'
  BY <1>6 DEF AfterStop, Calling, OnConn
<1>7. ASSUME NEW k \in Conns, AfterCall(k) PROVE (CallsFit /\ StopCallFits /\ StartedFirst)'
  BY <1>7 DEF AfterCall, Reply, OnConn, NoConn
<1>8. ASSUME NEW k \in Conns, Shutdown(k) PROVE (CallsFit /\ StopCallFits /\ StartedFirst)'
  BY <1>8 DEF Shutdown, Reply, OnConn, NoConn
<1>9. ASSUME NEW k \in Conns, FinishStart(k) PROVE (CallsFit /\ StopCallFits /\ StartedFirst)'
  BY <1>9 DEF FinishStart, Released, Engine!UserRefused, Engine!UserOn, Interfere
<1>10. ASSUME NEW k \in Conns, Accept(k) PROVE (CallsFit /\ StopCallFits /\ StartedFirst)'
  BY <1>10 DEF Accept, OnConn, NoConn
<1>11. ASSUME NEW k \in Conns, NEW m \in Methods, Receive(k, m)
       PROVE  (CallsFit /\ StopCallFits /\ StartedFirst)'
  <2>1. PICK c \in FirstCalls(m) :
          /\ call' = [call EXCEPT ![k] = c]
          /\ conn' = [conn EXCEPT ![k] = conn'[k]]
          /\ conn'[k].method = m /\ conn'[k].refused = conn[k].refused
          /\ conn'[k].pc = IF c = None THEN "shutdown" ELSE IF m \in {"start", "stop"} THEN "calling"
                           ELSE IF c = "stop" THEN "stopping" ELSE "starting"
    BY <1>11, ReceiveSets
  <2>2. /\ m \in {"start", "stop"} => c = m
        /\ m = "restart" => c \in {"start", "stop"}
        /\ m = "shutdown" => c \in {"stop", None}
    BY FirstCall
  <2>3. UNCHANGED <<stop, start, asked>>
    BY <1>11 DEF Receive
  <2> QED BY <2>1, <2>2, <2>3
<1>12. CASE Closer
  BY <1>12 DEF Closer, CloseServer
<1>13. CASE AcceptEnds
  BY <1>13 DEF AcceptEnds
<1>14. CASE ServeEnds
  BY <1>14 DEF ServeEnds
<1>15. CASE StartSelect
  BY <1>15 DEF StartSelect, CloseServer
<1>16. CASE StartClosed
  BY <1>16 DEF StartClosed
<1>17. CASE Exit
  BY <1>17 DEF Exit, NoConn
<1>18. CASE StopSCM
  BY <1>18 DEF StopSCM
<1>19. CASE StopBegin
  BY <1>19, Zenon DEF StopBegin
<1>20. CASE StopEngine
  <2>1. UNCHANGED <<conn, start, asked>> /\ \A k \in Conns : call'[k] = call[k]
    BY <1>20, Zenon DEF StopEngine
  <2>2. start = "ok"
    BY <1>20, Zenon DEF StopEngine
  <2>3. StopCallFits'
    BY <1>20, ZenonT(30) DEF StopEngine
  <2> QED BY <2>1, <2>2, <2>3
<1>21. CASE StopClose
  BY <1>21 DEF StopClose, CloseServer
<1>22. CASE StopJoin
  BY <1>22 DEF StopJoin, ConnsEnded
<1>23. CASE MonitorHolds
  BY <1>23 DEF MonitorHolds
<1>24. CASE Rebuild
  BY <1>24 DEF Rebuild, Engine!RebuildBegin, Engine!RebuildEnd, Interfere
<1>25. CASE Listen
  BY <1>25 DEF Listen
<1>26. CASE AcceptFails
  BY <1>26 DEF AcceptFails
<1>27. CASE Terminate
  BY <1>27 DEF Terminate
<1>28. CASE UNCHANGED vars
  BY <1>28 DEF vars
<1> HIDE DEF IInv, CallsFit, StopCallFits, StartedFirst
<1> QED BY <1>1, <1>2, <1>3, <1>4, <1>5, <1>6, <1>7, <1>8, <1>9, <1>10, <1>11, <1>12, <1>13, <1>14,
    <1>15, <1>16, <1>17, <1>18, <1>19, <1>20, <1>21, <1>22, <1>23, <1>24, <1>25, <1>26, <1>27, <1>28,
    SMTT(30)
    DEF Next, EngineStep, ConnStep, ProgStep

\* Every step keeps a closed server from taking requests.
LEMMA ClosingStep == ASSUME IInv, [Next]_vars PROVE Closing'
<1> USE NoneAssumption DEF IInv, TypeOK, ConnType, Closing, engineVars, serverVars, progVars
<1>1. ASSUME NEW a \in Actors, Acquire(a) PROVE Closing'
  BY <1>1 DEF Acquire
<1>2. ASSUME NEW a \in Actors, FinishStop(a) PROVE Closing'
  BY <1>2 DEF FinishStop, Released, Engine!UserOff
<1>3. ASSUME NEW a \in Actors, FinishCleanup(a) PROVE Closing'
  BY <1>3 DEF FinishCleanup, Released, Engine!UserOff
<1>4. ASSUME NEW k \in Conns, trackConn(k) PROVE Closing'
  BY <1>4 DEF trackConn, OnConn
<1>5. ASSUME NEW k \in Conns, Hangup(k) PROVE Closing'
  BY <1>5 DEF Hangup, OnConn, NoConn
<1>6. ASSUME NEW k \in Conns, AfterStop(k) PROVE Closing'
  BY <1>6 DEF AfterStop, Calling, OnConn
<1>7. ASSUME NEW k \in Conns, AfterCall(k) PROVE Closing'
  BY <1>7 DEF AfterCall, Reply, OnConn, NoConn
<1>8. ASSUME NEW k \in Conns, Shutdown(k) PROVE Closing'
  BY <1>8 DEF Shutdown, Reply, OnConn, NoConn
<1>9. ASSUME NEW k \in Conns, FinishStart(k) PROVE Closing'
  BY <1>9 DEF FinishStart, Released, Engine!UserRefused, Engine!UserOn, Interfere
<1>10. ASSUME NEW k \in Conns, Accept(k) PROVE Closing'
  BY <1>10 DEF Accept, OnConn, NoConn
<1>11. ASSUME NEW k \in Conns, NEW m \in Methods, Receive(k, m) PROVE Closing'
  BY <1>11 DEF Receive, FirstCalls, Calling, OnConn, StatusSays
<1>12. CASE Closer
  BY <1>12 DEF Closer, CloseServer
<1>13. CASE AcceptEnds
  BY <1>13 DEF AcceptEnds
<1>14. CASE ServeEnds
  BY <1>14 DEF ServeEnds
<1>15. CASE StartSelect
  BY <1>15 DEF StartSelect, CloseServer
<1>16. CASE StartClosed
  BY <1>16 DEF StartClosed
<1>17. CASE Exit
  BY <1>17 DEF Exit, NoConn
<1>18. CASE StopSCM
  BY <1>18 DEF StopSCM
<1>19. CASE StopBegin
  BY <1>19 DEF StopBegin
<1>20. CASE StopEngine
  BY <1>20, ZenonT(30) DEF StopEngine
<1>21. CASE StopClose
  BY <1>21 DEF StopClose, CloseServer
<1>22. CASE StopJoin
  BY <1>22 DEF StopJoin, ConnsEnded
<1>23. CASE MonitorHolds
  BY <1>23 DEF MonitorHolds
<1>24. CASE Rebuild
  BY <1>24 DEF Rebuild, Engine!RebuildBegin, Engine!RebuildEnd, Interfere
<1>25. CASE Listen
  BY <1>25 DEF Listen
<1>26. CASE AcceptFails
  BY <1>26 DEF AcceptFails
<1>27. CASE Terminate
  BY <1>27 DEF Terminate
<1>28. CASE UNCHANGED vars
  BY <1>28, SMTT(30) DEF vars
<1> HIDE DEF IInv, Closing
<1> QED BY <1>1, <1>2, <1>3, <1>4, <1>5, <1>6, <1>7, <1>8, <1>9, <1>10, <1>11, <1>12, <1>13, <1>14,
    <1>15, <1>16, <1>17, <1>18, <1>19, <1>20, <1>21, <1>22, <1>23, <1>24, <1>25, <1>26, <1>27, <1>28
    DEF Next, EngineStep, ConnStep, ProgStep

\* Every step keeps the published status and the restarts right.
LEMMA RestartStep ==
  ASSUME IInv, [Next]_vars
  PROVE  (SnapshotKnows /\ RestartFindsItOff /\ RestartRefusedOnlyByOthers)'
<1> USE NoneAssumption
    DEF IInv, TypeOK, ConnType, Methods, Calls, Actors, CallsFit, SnapshotKnows, RestartFindsItOff,
    RestartRefusedOnlyByOthers, engineVars, serverVars, progVars
<1>1. ASSUME NEW a \in Actors, Acquire(a)
      PROVE  (SnapshotKnows /\ RestartFindsItOff /\ RestartRefusedOnlyByOthers)'
  BY <1>1 DEF Acquire
<1>2. ASSUME NEW a \in Actors, FinishStop(a)
      PROVE  (SnapshotKnows /\ RestartFindsItOff /\ RestartRefusedOnlyByOthers)'
  BY <1>2 DEF FinishStop, Released, Engine!UserOff
<1>3. ASSUME NEW a \in Actors, FinishCleanup(a)
      PROVE  (SnapshotKnows /\ RestartFindsItOff /\ RestartRefusedOnlyByOthers)'
  BY <1>3 DEF FinishCleanup, Released, Engine!UserOff
<1>4. ASSUME NEW k \in Conns, trackConn(k)
      PROVE  (SnapshotKnows /\ RestartFindsItOff /\ RestartRefusedOnlyByOthers)'
  BY <1>4 DEF trackConn, OnConn
<1>5. ASSUME NEW k \in Conns, Hangup(k)
      PROVE  (SnapshotKnows /\ RestartFindsItOff /\ RestartRefusedOnlyByOthers)'
  BY <1>5 DEF Hangup, OnConn, NoConn
<1>6. ASSUME NEW k \in Conns, AfterStop(k)
      PROVE  (SnapshotKnows /\ RestartFindsItOff /\ RestartRefusedOnlyByOthers)'
  BY <1>6 DEF AfterStop, Calling, OnConn
<1>7. ASSUME NEW k \in Conns, AfterCall(k)
      PROVE  (SnapshotKnows /\ RestartFindsItOff /\ RestartRefusedOnlyByOthers)'
  BY <1>7 DEF AfterCall, Reply, OnConn, NoConn
<1>8. ASSUME NEW k \in Conns, Shutdown(k)
      PROVE  (SnapshotKnows /\ RestartFindsItOff /\ RestartRefusedOnlyByOthers)'
  BY <1>8 DEF Shutdown, Reply, OnConn, NoConn
<1>9. ASSUME NEW k \in Conns, FinishStart(k)
      PROVE  (SnapshotKnows /\ RestartFindsItOff /\ RestartRefusedOnlyByOthers)'
  BY <1>9 DEF FinishStart, Released, Engine!UserRefused, Engine!UserOn, Interfere
<1>10. ASSUME NEW k \in Conns, Accept(k)
       PROVE  (SnapshotKnows /\ RestartFindsItOff /\ RestartRefusedOnlyByOthers)'
  BY <1>10 DEF Accept, OnConn, NoConn
<1>11. ASSUME NEW k \in Conns, NEW m \in Methods, Receive(k, m)
       PROVE  (SnapshotKnows /\ RestartFindsItOff /\ RestartRefusedOnlyByOthers)'
  <2>1. PICK c \in FirstCalls(m) :
          /\ call' = [call EXCEPT ![k] = c]
          /\ conn' = [conn EXCEPT ![k] = conn'[k]]
          /\ conn'[k].method = m /\ conn'[k].refused = conn[k].refused
          /\ conn'[k].pc = IF c = None THEN "shutdown" ELSE IF m \in {"start", "stop"} THEN "calling"
                           ELSE IF c = "stop" THEN "stopping" ELSE "starting"
    BY <1>11, ReceiveSets
  <2>2. m = "restart" => c \in {"start", "stop"} /\ (c = "start" => ~on)
    BY FirstCall
  <2>3. UNCHANGED <<on, snapshot>> /\ ~conn[k].refused
    BY <1>11 DEF Receive
  <2> QED BY <2>1, <2>2, <2>3
<1>12. CASE Closer
  BY <1>12 DEF Closer, CloseServer
<1>13. CASE AcceptEnds
  BY <1>13 DEF AcceptEnds
<1>14. CASE ServeEnds
  BY <1>14 DEF ServeEnds
<1>15. CASE StartSelect
  BY <1>15 DEF StartSelect, CloseServer
<1>16. CASE StartClosed
  BY <1>16, SMTT(30) DEF StartClosed
<1>17. CASE Exit
  BY <1>17 DEF Exit, NoConn
<1>18. CASE StopSCM
  BY <1>18 DEF StopSCM
<1>19. CASE StopBegin
  BY <1>19 DEF StopBegin
<1>20. CASE StopEngine
  BY <1>20, ZenonT(30) DEF StopEngine
<1>21. CASE StopClose
  BY <1>21 DEF StopClose, CloseServer
<1>22. CASE StopJoin
  BY <1>22 DEF StopJoin, ConnsEnded
<1>23. CASE MonitorHolds
  BY <1>23 DEF MonitorHolds
<1>24. CASE Rebuild
  BY <1>24 DEF Rebuild, Engine!RebuildBegin, Engine!RebuildEnd, Interfere
<1>25. CASE Listen
  BY <1>25 DEF Listen
<1>26. CASE AcceptFails
  BY <1>26 DEF AcceptFails
<1>27. CASE Terminate
  BY <1>27, SMTT(30) DEF Terminate
<1>28. CASE UNCHANGED vars
  BY <1>28 DEF vars
<1> HIDE DEF IInv, SnapshotKnows, RestartFindsItOff, RestartRefusedOnlyByOthers
<1> QED BY <1>1, <1>2, <1>3, <1>4, <1>5, <1>6, <1>7, <1>8, <1>9, <1>10, <1>11, <1>12, <1>13, <1>14,
    <1>15, <1>16, <1>17, <1>18, <1>19, <1>20, <1>21, <1>22, <1>23, <1>24, <1>25, <1>26, <1>27, <1>28,
    SMTT(30)
    DEF Next, EngineStep, ConnStep, ProgStep

\* Every step keeps protection off after the cleanup, but for a late start.
LEMMA CleanedStep == ASSUME IInv, [Next]_vars PROVE CleanedUp'
<1> USE NoneAssumption
    DEF IInv, TypeOK, Calls, Actors, StopCallFits, StartedFirst, Cleaned, CleanedUp, engineVars,
    serverVars, progVars
<1>1. ASSUME NEW a \in Actors, Acquire(a) PROVE CleanedUp'
  BY <1>1 DEF Acquire
<1>2. ASSUME NEW a \in Actors, FinishStop(a) PROVE CleanedUp'
  BY <1>2 DEF FinishStop, Released, Engine!UserOff
<1>3. ASSUME NEW a \in Actors, FinishCleanup(a) PROVE CleanedUp'
  BY <1>3 DEF FinishCleanup, Released, Engine!UserOff
<1>4. ASSUME NEW k \in Conns, trackConn(k) PROVE CleanedUp'
  BY <1>4 DEF trackConn, OnConn
<1>5. ASSUME NEW k \in Conns, Hangup(k) PROVE CleanedUp'
  BY <1>5 DEF Hangup, OnConn, NoConn
<1>6. ASSUME NEW k \in Conns, AfterStop(k) PROVE CleanedUp'
  BY <1>6 DEF AfterStop, Calling, OnConn
<1>7. ASSUME NEW k \in Conns, AfterCall(k) PROVE CleanedUp'
  BY <1>7 DEF AfterCall, Reply, OnConn, NoConn
<1>8. ASSUME NEW k \in Conns, Shutdown(k) PROVE CleanedUp'
  BY <1>8 DEF Shutdown, Reply, OnConn, NoConn
<1>9. ASSUME NEW k \in Conns, FinishStart(k) PROVE CleanedUp'
  BY <1>9 DEF FinishStart, Released, Engine!UserRefused, Engine!UserOn, Interfere
<1>10. ASSUME NEW k \in Conns, Accept(k) PROVE CleanedUp'
  BY <1>10 DEF Accept, OnConn, NoConn
<1>11. ASSUME NEW k \in Conns, NEW m \in Methods, Receive(k, m) PROVE CleanedUp'
  BY <1>11 DEF Receive, FirstCalls, Calling, OnConn, StatusSays
<1>12. CASE Closer
  BY <1>12 DEF Closer, CloseServer
<1>13. CASE AcceptEnds
  BY <1>13 DEF AcceptEnds
<1>14. CASE ServeEnds
  BY <1>14 DEF ServeEnds
<1>15. CASE StartSelect
  BY <1>15 DEF StartSelect, CloseServer
<1>16. CASE StartClosed
  BY <1>16 DEF StartClosed
<1>17. CASE Exit
  BY <1>17 DEF Exit, NoConn
<1>18. CASE StopSCM
  BY <1>18 DEF StopSCM
<1>19. CASE StopBegin
  BY <1>19 DEF StopBegin
<1>20. CASE StopEngine
  BY <1>20, ZenonT(30) DEF StopEngine
<1>21. CASE StopClose
  BY <1>21 DEF StopClose, CloseServer
<1>22. CASE StopJoin
  BY <1>22 DEF StopJoin, ConnsEnded
<1>23. CASE MonitorHolds
  BY <1>23 DEF MonitorHolds
<1>24. CASE Rebuild
  BY <1>24 DEF Rebuild, Engine!RebuildBegin, Engine!RebuildEnd, Interfere
<1>25. CASE Listen
  BY <1>25 DEF Listen
<1>26. CASE AcceptFails
  BY <1>26 DEF AcceptFails
<1>27. CASE Terminate
  BY <1>27 DEF Terminate
<1>28. CASE UNCHANGED vars
  BY <1>28 DEF vars
<1> HIDE DEF IInv, CleanedUp
<1> QED BY <1>1, <1>2, <1>3, <1>4, <1>5, <1>6, <1>7, <1>8, <1>9, <1>10, <1>11, <1>12, <1>13, <1>14,
    <1>15, <1>16, <1>17, <1>18, <1>19, <1>20, <1>21, <1>22, <1>23, <1>24, <1>25, <1>26, <1>27, <1>28,
    SMTT(30)
    DEF Next, EngineStep, ConnStep, ProgStep

-----------------------------------------------------------------------------
\* The daemon begins with nothing asked, nothing called and no connection.
LEMMA InitIInv == Init => IInv
<1> SUFFICES ASSUME Init PROVE IInv
  OBVIOUS
<1> USE NoneAssumption DEF Init, NoConn
<1>1. TypeOK
  <2>1. conn \in [Conns -> ConnType]
    BY DEF ConnType
  <2>2. CallsOK
    BY DEF CallsOK
  <2>3. FlagsOK
    BY ZenonT(30) DEF FlagsOK
  <2> QED BY <2>1, <2>2, <2>3, Zenon DEF TypeOK, CallsOK, FlagsOK
<1>2. CallsFit /\ StopCallFits /\ StartedFirst
  BY DEF CallsFit, StopCallFits, StartedFirst, Actors
<1>3. Closing /\ SnapshotKnows /\ CleanedUp
  BY DEF Closing, SnapshotKnows, Cleaned, CleanedUp
<1>4. RestartFindsItOff /\ RestartRefusedOnlyByOthers
  BY DEF RestartFindsItOff, RestartRefusedOnlyByOthers
<1> QED BY <1>1, <1>2, <1>3, <1>4 DEF IInv

\* The inductive invariant holds in every state of the daemon.
LEMMA Invariance == Spec => []IInv
<1>1. IInv /\ [Next]_vars => IInv'
  BY TypeStep, CallsStep, ClosingStep, RestartStep, CleanedStep DEF IInv
<1> QED BY <1>1, InitIInv, PTL DEF Spec

\* The daemon's variables keep their types, and only a call that was made holds
\* the engine's lock.
THEOREM ServiceTyped == Spec => []TypeOK
<1>1. IInv => TypeOK
  BY DEF IInv
<1> QED BY <1>1, Invariance, PTL

\* Once Program.Stop is done no handler of a request is left, for any number of
\* connections accepted before, while or after the server is closed
\* (Server.Close, trackConn).
THEOREM StopEndsRequests == Spec => []NoRequestOutlivesStop
<1>1. IInv => NoRequestOutlivesStop
  BY DEF IInv, Closing, NoRequestOutlivesStop
<1> QED BY <1>1, Invariance, PTL

\* A "restart" that is refused was overtaken by another request or a rebuild,
\* although it goes by a status it may read without the engine's lock
\* (API.Handle, Engine.Status).
THEOREM RestartIsOvertaken == Spec => []RestartRefusedOnlyByOthers
<1>1. IInv => RestartRefusedOnlyByOthers
  BY DEF IInv
<1> QED BY <1>1, Invariance, PTL

\* Protection that outlives Program.Stop was started by a request that reached
\* the engine after the cleanup; no rebuild brings it back (Program.Stop,
\* Engine.CrashCleanup).
THEOREM CleanupIsFinal == Spec => []OnlyALateStartSurvives
<1>1. IInv => OnlyALateStartSurvives
  BY DEF IInv, Cleaned, CleanedUp, OnlyALateStartSurvives
<1> QED BY <1>1, Invariance, PTL
=============================================================================

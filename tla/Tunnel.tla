------------------------------- MODULE Tunnel -------------------------------
(***************************************************************************)
(* The tunnel of a group of sites: the WARP account, the preflight that    *)
(* tries endpoints with three workers, the start of a sing-box process     *)
(* with its own configuration file, the gateway that is rebuilt with the   *)
(* tunnel, its routing rules, and the two selectors that move a group      *)
(* between the helper and the tunnel.                                      *)
(*                                                                         *)
(* The repair of GroupRepair calls this: what it takes as one step (the    *)
(* tunnel is prepared, the gateway is rebuilt, a group is moved) is done   *)
(* here in the steps of the code.                                          *)
(***************************************************************************)
EXTENDS Naturals, Sequences, FiniteSets, FiniteSetsExt

CONSTANTS Workers,     \* the workers of the preflight
          Candidates,  \* the documented WARP endpoints, in order
          Groups,      \* groups of sites
          Movers,      \* callers of SetGroupPath
          None,
          TUNRetry,    \* the adapter is retried (Windows)
          MaxMoves     \* bound: calls of SetGroupPath

ASSUME TunnelAssumption ==
  /\ MaxMoves \in Nat /\ TUNRetry \in BOOLEAN
  /\ Workers # {} /\ "gw" \notin Workers
  /\ Groups \cap {"other", "exempt", None} = {}
  /\ Len(Candidates) \in Nat \ {0} /\ DOMAIN Candidates = 1..Len(Candidates)
  /\ \A i, j \in DOMAIN Candidates : Candidates[i] # None /\ (Candidates[i] = Candidates[j] => i = j)

VARIABLES
  live,        \* the context of the session
  reality,     \* the Reality credentials: none, spare, preferred
  remembered,  \* the endpoint remembered for this network
  budget,      \* the context of the preflight
  feed,        \* the producer: the next candidate, 0 when it has closed the jobs
  run,         \* the starts in progress: one of each worker, one of the gateway
  winner,      \* the first endpoint received that passed
  repair,      \* how far the repair of a group is
  target,      \* the group it is for
  provider,    \* what carries the gateway's tunnel
  paths,       \* selectiveSession.paths
  sel,         \* the selectors of the sing-box process
  mover,       \* the calls of SetGroupPath
  disturbed,   \* history: a selector call of the group failed with an effect
               \* nobody knows of, or two moves of the group overlapped
  passed,      \* history: endpoints whose own process reached the quorum
  tried,       \* history: endpoints whose trial has ended
  answer,      \* history: what the preflight returned
  moves

poolVars   == <<budget, feed, winner, passed, tried, answer>>
repairVars == <<reality, remembered, repair, target>>
groupVars  == <<paths, sel, mover, disturbed, moves>>
vars       == <<live, run, provider, poolVars, repairVars, groupVars>>

Endpoints == {Candidates[i] : i \in DOMAIN Candidates}
Starts    == Workers \cup {"gw"}
Sides     == {"desync", "tunnel"}

\* WARPEndpointCandidates: the remembered endpoint first, each endpoint once.
Order ==
  LET r == CHOOSE i \in DOMAIN Candidates : Candidates[i] = remembered
  IN  IF remembered = None THEN Candidates
      ELSE [i \in DOMAIN Candidates |-> IF i = 1 THEN remembered
                                       ELSE Candidates[IF i <= r THEN i - 1 ELSE i]]

\* One execution of startOne: how far, with which endpoint, whether its
\* configuration file and its process exist, attempts, and its result.
NoRun == [pc |-> "none", at |-> None, file |-> FALSE, proc |-> FALSE, tries |-> 0, ok |-> FALSE]

RunType == [pc : {"none", "idle", "config", "launch", "wait", "controls", "finish", "open"},
            at : Endpoints \cup {None}, file : BOOLEAN, proc : BOOLEAN, tries : 0..3, ok : BOOLEAN]

NoMove == [pc |-> "idle", group |-> None, path |-> None, alone |-> FALSE]

MoveType == [pc : {"idle", "tcpPut", "tcpGet", "udpPut", "udpGet", "backPut", "backGet"},
             group : Groups \cup {None}, path : Sides \cup {None}, alone : BOOLEAN]

Unselected == [g \in Groups |-> [tcp |-> "desync", udp |-> "direct"]]

\* Every variable holds a value of its kind.
TypeOK ==
  /\ live \in BOOLEAN
  /\ reality \in {"none", "spare", "preferred"}
  /\ remembered \in Endpoints \cup {None}
  /\ budget \in {"none", "open", "over"} /\ feed \in 0..Len(Candidates) + 2
  /\ run \in [Starts -> RunType]
  /\ winner \in Endpoints \cup {None}
  /\ repair \in {"idle", "account", "preflight", "rebuild", "restore", "done"}
  /\ target \in Groups \cup {None}
  /\ provider \in {"none", "desync", "warp", "reality"}
  /\ paths \in [Groups -> Sides]
  /\ sel \in [Groups -> [tcp : Sides, udp : {"direct", "tunnel"}]]
  /\ mover \in [Movers -> MoveType]
  /\ disturbed \in [Groups -> BOOLEAN]
  /\ passed \subseteq Endpoints /\ tried \subseteq Endpoints
  /\ answer \in {"none", "pinned", "failed"}
  /\ moves \in 0..MaxMoves

\* Protection is on with a gateway that has no tunnel.
Init ==
  /\ live = TRUE
  /\ reality \in {"none", "spare", "preferred"}
  /\ remembered \in {None, Candidates[Len(Candidates)]}
  /\ budget = "none" /\ feed = 0 /\ winner = None
  /\ run = [p \in Starts |-> IF p = "gw" THEN [NoRun EXCEPT !.pc = "open", !.file = TRUE, !.proc = TRUE]
                             ELSE NoRun]
  /\ repair = "idle" /\ target = None /\ provider = "desync"
  /\ paths = [g \in Groups |-> "desync"] /\ sel = Unselected
  /\ mover = [m \in Movers |-> NoMove] /\ disturbed = [g \in Groups |-> FALSE]
  /\ passed = {} /\ tried = {} /\ answer = "none" /\ moves = 0

-----------------------------------------------------------------------------
(* startOne: one provider, one configuration file, one process.  The gateway *)
(* has the lifetime of the session, and Engine.mu keeps the session alive    *)
(* while it starts; a trial has the lifetime of the preflight's budget.      *)

Cancelled(p) == p # "gw" /\ budget = "over"

To(p, r) == run' = [run EXCEPT ![p] = r]

\* Whether or not startOne hands out a session, its deferred function removes
\* the file of a start that failed.
Failed(r) == [r EXCEPT !.pc = "finish", !.file = FALSE, !.proc = FALSE, !.ok = FALSE]

Configure(p) ==
  /\ run[p].pc = "config"
  /\ \/ To(p, [run[p] EXCEPT !.pc = "launch", !.file = TRUE])
     \/ To(p, Failed(run[p]))
  /\ UNCHANGED <<live, provider, poolVars, repairVars, groupVars>>

\* Variant: the file is kept when no session is handed out that could remove it.
LaunchFailsKept(p) ==
  /\ run[p].pc = "launch"
  /\ To(p, [Failed(run[p]) EXCEPT !.file = TRUE])
  /\ UNCHANGED <<live, provider, poolVars, repairVars, groupVars>>

\* The context is over, there is no binary, the process does not start, or the
\* job refuses it and it is killed.
LaunchFails(p) ==
  /\ run[p].pc = "launch"
  /\ To(p, Failed(run[p]))
  /\ UNCHANGED <<live, provider, poolVars, repairVars, groupVars>>

Launch(p) ==
  /\ run[p].pc = "launch" /\ ~Cancelled(p)
  /\ To(p, [run[p] EXCEPT !.pc = "wait", !.proc = TRUE, !.tries = @ + 1])
  /\ UNCHANGED <<live, provider, poolVars, repairVars, groupVars>>

\* The port answers and the process still runs.  A trial goes on to the
\* controls, the gateway is up.
Ready(p) ==
  /\ run[p].pc = "wait" /\ run[p].proc /\ ~Cancelled(p)
  /\ To(p, IF p = "gw" THEN [run[p] EXCEPT !.pc = "finish", !.ok = TRUE]
           ELSE [run[p] EXCEPT !.pc = "controls"])
  /\ UNCHANGED <<live, provider, poolVars, repairVars, groupVars>>

NotReady(p) ==
  /\ run[p].pc = "wait"
  /\ To(p, Failed(run[p]))
  /\ UNCHANGED <<live, provider, poolVars, repairVars, groupVars>>

\* startWithTUNRetry: the adapter of a previous process is still there.
AdapterBusy ==
  /\ run["gw"].pc = "wait" /\ TUNRetry /\ run["gw"].tries < 3
  /\ To("gw", [run["gw"] EXCEPT !.pc = "launch", !.proc = FALSE])
  /\ UNCHANGED <<live, provider, poolVars, repairVars, groupVars>>

\* The process ends by itself, or its context kills it.
ProcessExits(p) ==
  /\ run[p].proc
  /\ To(p, [run[p] EXCEPT !.proc = FALSE])
  /\ UNCHANGED <<live, provider, poolVars, repairVars, groupVars>>

\* checkControls: the quorum of the control hosts answers through the process.
ControlsPass(w) ==
  /\ run[w].pc = "controls" /\ run[w].proc
  /\ To(w, [run[w] EXCEPT !.pc = "finish", !.ok = TRUE])
  /\ passed' = passed \cup {run[w].at}
  /\ UNCHANGED <<live, provider, budget, feed, winner, tried, answer, repairVars, groupVars>>

ControlsFail(w) ==
  /\ run[w].pc = "controls"
  /\ To(w, Failed(run[w]))
  /\ UNCHANGED <<live, provider, poolVars, repairVars, groupVars>>

-----------------------------------------------------------------------------
(* PreflightWARP. *)

\* A worker receives the candidate the producer sends.  Once the budget is over
\* the producer's select may still send one.
TakeJob(w) ==
  /\ run[w].pc = "idle" /\ feed \in 1..Len(Order)
  /\ To(w, [NoRun EXCEPT !.pc = "config", !.at = Order[feed]])
  /\ feed' = feed + 1
  /\ UNCHANGED <<live, provider, budget, winner, passed, tried, answer, repairVars, groupVars>>

\* Variant: the producer stops with the last candidate still in its hand.
ProducerEndsEarly ==
  /\ feed > 0 /\ (budget = "over" \/ feed >= Len(Order))
  /\ feed' = 0
  /\ UNCHANGED <<live, run, provider, budget, winner, passed, tried, answer, repairVars, groupVars>>

ProducerEnds ==
  /\ feed > 0 /\ (budget = "over" \/ feed > Len(Order))
  /\ feed' = 0
  /\ UNCHANGED <<live, run, provider, budget, winner, passed, tried, answer, repairVars, groupVars>>

WorkerQuits(w) ==
  /\ run[w].pc = "idle" /\ feed = 0
  /\ To(w, NoRun)
  /\ UNCHANGED <<live, provider, poolVars, repairVars, groupVars>>

\* The worker closes the session, if there is one, and sends its result; with a
\* result that passed it ends the budget of the others and itself.  Results are
\* received in the order they are sent, so the first one that passed wins.
TrialEnds(w) ==
  /\ run[w].pc = "finish"
  /\ tried' = tried \cup {run[w].at}
  /\ To(w, IF run[w].ok THEN NoRun ELSE [run[w] EXCEPT !.pc = "idle", !.at = None, !.tries = 0])
  /\ budget' = IF run[w].ok THEN "over" ELSE budget
  /\ winner' = IF run[w].ok /\ winner = None THEN run[w].at ELSE winner
  /\ UNCHANGED <<live, provider, feed, passed, answer, repairVars, groupVars>>

\* Forty seconds, or the end of the session.
BudgetEnds ==
  /\ budget = "open"
  /\ budget' = "over"
  /\ UNCHANGED <<live, run, provider, feed, winner, passed, tried, answer, repairVars, groupVars>>

-----------------------------------------------------------------------------
(* escalateGroupSession and defaultPrepareTunnel. *)

\* Engine.mu is held while the gateway is rebuilt.
Locked == repair \in {"rebuild", "restore"}

\* rebuildGatewayLocked closes the gateway and starts the next one.
Rebuild(with) ==
  /\ repair' = "rebuild" /\ provider' = with
  /\ run' = [run EXCEPT !["gw"] = [NoRun EXCEPT !.pc = "config"]]

GiveUp == repair' = "done" /\ UNCHANGED <<run, provider>>

\* No WARP: Reality takes over if there are credentials, in a session that
\* still is the current one.
WithoutWARP == IF reality # "none" /\ live THEN Rebuild("reality") ELSE GiveUp

Escalate(g) ==
  /\ repair = "idle" /\ live /\ run["gw"].pc = "open" /\ provider = "desync"
  /\ repair' = "account" /\ target' = g
  /\ UNCHANGED <<live, run, provider, reality, remembered, poolVars, groupVars>>

\* Reality is preferred, and WARP is not asked.
PreferReality ==
  /\ repair = "account" /\ reality = "preferred"
  /\ WithoutWARP
  /\ UNCHANGED <<live, poolVars, reality, remembered, target, groupVars>>

\* loadOrRegisterWARP: the saved account is fetched, or a new one is registered
\* and saved if there is none or the service rejects it.  Every other failure,
\* and one of the registration or of the save, leaves WARP out.
PrepareWARP ==
  /\ repair = "account" /\ reality # "preferred"
  /\ \/ repair' = "preflight"
        /\ budget' = (IF live THEN "open" ELSE "over") /\ feed' = 1
        /\ run' = [p \in Starts |-> IF p = "gw" THEN run[p] ELSE [NoRun EXCEPT !.pc = "idle"]]
        /\ UNCHANGED provider
     \/ UNCHANGED <<budget, feed>> /\ WithoutWARP
  /\ UNCHANGED <<live, reality, remembered, target, winner, passed, tried, answer, groupVars>>

\* The channel of results is closed when the last worker is gone.  The endpoint
\* that won is remembered even if the session has ended meanwhile.
PreflightReturns ==
  /\ repair = "preflight" /\ \A w \in Workers : run[w].pc = "none"
  /\ budget' = "over" /\ feed' = 0
  /\ answer' = IF winner = None THEN "failed" ELSE "pinned"
  /\ remembered' = IF winner = None THEN remembered ELSE winner
  /\ IF winner = None THEN WithoutWARP
     ELSE IF live THEN Rebuild("warp") ELSE GiveUp
  /\ UNCHANGED <<live, reality, target, winner, passed, tried, groupVars>>

\* startSelective: each group starts on the side its path says, and the
\* configuration has that side as the default of both selectors.
Start(pths) ==
  /\ paths' = pths
  /\ sel' = [g \in Groups |-> IF pths[g] = "tunnel" THEN [tcp |-> "tunnel", udp |-> "tunnel"]
                              ELSE [tcp |-> "desync", udp |-> "direct"]]

\* The histories of the preflight end with the rebuild they led to.
Forget == winner' = None /\ passed' = {} /\ tried' = {} /\ answer' = "none"

GatewayUp ==
  /\ run["gw"].pc = "finish" /\ run["gw"].ok /\ run["gw"].proc
  /\ To("gw", [run["gw"] EXCEPT !.pc = "open", !.tries = 0])
  /\ Start([paths EXCEPT ![target] = IF repair = "rebuild" THEN "tunnel" ELSE @])
  /\ repair' = "done" /\ Forget
  /\ UNCHANGED <<live, provider, budget, feed, reality, remembered, target,
                 mover, disturbed, moves>>

\* It did not start, its process has ended, or its adapter did not appear: it
\* is closed, and the previous configuration is started once.
GatewayFails ==
  /\ run["gw"].pc = "finish"
  /\ IF repair = "rebuild"
     THEN /\ repair' = "restore" /\ provider' = "desync"
          /\ To("gw", [NoRun EXCEPT !.pc = "config"])
     ELSE /\ repair' = "done" /\ provider' = "none" /\ To("gw", NoRun)
  /\ Forget
  /\ UNCHANGED <<live, budget, feed, reality, remembered, target, groupVars>>

\* Stop: the context ends and the gateway is closed.  What is left of a call of
\* SetGroupPath can only fail against a process that is gone.
Stop ==
  /\ live /\ ~Locked
  /\ live' = FALSE
  /\ budget' = IF budget = "open" THEN "over" ELSE budget
  /\ To("gw", NoRun) /\ provider' = "none"
  /\ Start([g \in Groups |-> "desync"])
  /\ mover' = [m \in Movers |-> NoMove] /\ disturbed' = [g \in Groups |-> FALSE]
  /\ UNCHANGED <<feed, winner, passed, tried, answer, repairVars, moves>>

-----------------------------------------------------------------------------
(* SetGroupPath: the TCP selector, then the UDP selector, each set with a PUT *)
(* and read back with a GET; the TCP selector is set back if UDP fails.       *)

Open   == run["gw"].pc = "open"
Remote == provider \in {"warp", "reality"}

Busy(g)   == {m \in Movers : mover[m].group = g}
Other(s)  == IF s = "tunnel" THEN "desync" ELSE "tunnel"
UDPOf(s)  == IF s = "tunnel" THEN "tunnel" ELSE "direct"
Proto(pc) == IF pc \in {"udpPut", "udpGet"} THEN "udp" ELSE "tcp"

\* What a call at its step wants its selector to be.
Wanted(c) ==
  CASE c.pc \in {"tcpPut", "tcpGet"}   -> c.path
    [] c.pc \in {"udpPut", "udpGet"}   -> UDPOf(c.path)
    [] c.pc \in {"backPut", "backGet"} -> Other(c.path)

MoveBegin(m, g, path) ==
  /\ Open /\ Remote /\ mover[m] = NoMove /\ paths[g] # path /\ moves < MaxMoves
  /\ moves' = moves + 1
  /\ mover' = [n \in Movers |->
                 IF n = m THEN [pc |-> "tcpPut", group |-> g, path |-> path, alone |-> Busy(g) = {}]
                 ELSE IF mover[n].group = g THEN [mover[n] EXCEPT !.alone = FALSE] ELSE mover[n]]
  /\ disturbed' = [disturbed EXCEPT ![g] = @ \/ Busy(g) # {}]
  /\ UNCHANGED <<live, run, provider, poolVars, repairVars, paths, sel>>

Next1(pc) == CASE pc = "tcpPut" -> "tcpGet" [] pc = "udpPut" -> "udpGet" [] pc = "backPut" -> "backGet"

Applied(c) == sel' = [sel EXCEPT ![c.group][Proto(c.pc)] = Wanted(c)]

Put(m) ==
  /\ mover[m].pc \in {"tcpPut", "udpPut", "backPut"} /\ run["gw"].proc
  /\ Applied(mover[m])
  /\ mover' = [mover EXCEPT ![m].pc = Next1(@)]
  /\ UNCHANGED <<live, run, provider, poolVars, repairVars, paths, disturbed, moves>>

\* A call of the control fails: the move ends, after TCP was set back if it was
\* the UDP selector that could not be set.
CallFails(c) == IF Proto(c.pc) = "udp" THEN [c EXCEPT !.pc = "backPut"] ELSE NoMove

\* The PUT is refused, lost, or applied with its response lost.
PutFails(m) ==
  LET c == mover[m] IN
  /\ c.pc \in {"tcpPut", "udpPut", "backPut"}
  /\ mover' = [mover EXCEPT ![m] = CallFails(c)]
  /\ \/ UNCHANGED sel /\ disturbed' = [disturbed EXCEPT ![c.group] = @ \/ c.pc = "backPut"]
     \/ run["gw"].proc /\ Applied(c) /\ disturbed' = [disturbed EXCEPT ![c.group] = TRUE]
  /\ UNCHANGED <<live, run, provider, poolVars, repairVars, paths, moves>>

\* The selector is read back as it was set; after UDP the move is recorded.
GetAgrees(m) ==
  LET c == mover[m] IN
  /\ c.pc \in {"tcpGet", "udpGet", "backGet"} /\ run["gw"].proc
  /\ sel[c.group][Proto(c.pc)] = Wanted(c)
  /\ mover' = [mover EXCEPT ![m] = IF c.pc = "tcpGet" THEN [c EXCEPT !.pc = "udpPut"] ELSE NoMove]
  /\ paths' = [paths EXCEPT ![c.group] = IF c.pc = "udpGet" THEN c.path ELSE @]
  /\ disturbed' = [disturbed EXCEPT ![c.group] = @ /\ ~(c.pc = "udpGet" /\ c.alone)]
  /\ UNCHANGED <<live, run, provider, poolVars, repairVars, sel, moves>>

\* The GET fails, or finds what another call has set.
GetFails(m) ==
  LET c == mover[m] IN
  /\ c.pc \in {"tcpGet", "udpGet", "backGet"}
  /\ mover' = [mover EXCEPT ![m] = CallFails(c)]
  /\ disturbed' = [disturbed EXCEPT ![c.group] = @ \/ c.pc # "backGet"]
  /\ UNCHANGED <<live, run, provider, poolVars, repairVars, paths, sel, moves>>

-----------------------------------------------------------------------------
Next ==
  \/ \E p \in Starts : Configure(p) \/ Launch(p) \/ LaunchFails(p) \/ Ready(p) \/ NotReady(p)
                       \/ ProcessExits(p)
  \/ AdapterBusy
  \/ \E w \in Workers : TakeJob(w) \/ WorkerQuits(w) \/ ControlsPass(w) \/ ControlsFail(w) \/ TrialEnds(w)
  \/ ProducerEnds \/ BudgetEnds
  \/ \E g \in Groups : Escalate(g)
  \/ PreferReality \/ PrepareWARP \/ PreflightReturns
  \/ GatewayUp \/ GatewayFails \/ Stop
  \/ \E m \in Movers : \/ \E g \in Groups, path \in Sides : MoveBegin(m, g, path)
                       \/ Put(m) \/ PutFails(m) \/ GetAgrees(m) \/ GetFails(m)

Spec == Init /\ [][Next]_vars

-----------------------------------------------------------------------------
(* buildSelectiveConfig: the first rule that matches routes a packet. *)

Packets == [proto : {"dns", "tcp", "udp"}, web : BOOLEAN,  \* "web": IPv4, port 80 or 443
            dest : {"tun", "private", "peer", "public"}, name : Groups \cup {"exempt", "other"}]

Rule(match, out) == [match |-> match, out |-> out]

\* What names the destination comes before what names the site.
LocalRules == <<Rule({p \in Packets : p.proto = "dns"}, "dns"),
                Rule({p \in Packets : p.dest = "tun"}, "drop"),
                Rule({p \in Packets : p.dest = "private"}, "direct"),
                Rule({p \in Packets : p.dest = "peer"}, "direct"),
                Rule({p \in Packets : p.name = "exempt"}, "direct")>>

\* The selectors of the groups, one for TCP and one for UDP of each.
GroupRules == <<Rule({p \in Packets : p.name \in Groups /\ p.proto \in {"tcp", "udp"}}, "selector")>>

WebRules == <<Rule({p \in Packets : p.proto = "tcp" /\ p.web}, "desync")>>

\* Variant: the groups are put before the exclusions.
RulesGroupsFirst(remote) == (IF remote THEN GroupRules ELSE <<>>) \o LocalRules \o WebRules

Rules(remote) == LocalRules \o (IF remote THEN GroupRules ELSE <<>>) \o WebRules

Route(p) ==
  LET rules == Rules(Remote)
      hits  == {i \in DOMAIN rules : p \in rules[i].match}
      out   == rules[Min(hits)].out
  IN  IF hits = {} THEN "direct"
      ELSE IF out = "selector" THEN sel[p.name][p.proto] ELSE out

-----------------------------------------------------------------------------
(* Properties. *)

\* A configuration file, which holds the tunnel's private key, and a process
\* exist only while a start is in progress or its session is open: whatever
\* fails on the way, a preflight that has returned leaves none of its trials,
\* and a gateway that is closed or could not start leaves nothing.
NothingLeftBehind ==
  /\ \A p \in Starts : run[p].file \/ run[p].proc => run[p].pc \notin {"none", "idle"}
  /\ repair # "preflight" => \A w \in Workers : run[w] = NoRun
  /\ ~live => ~run["gw"].file /\ ~run["gw"].proc

\* The profile the gateway is rebuilt with is pinned to an endpoint whose own
\* process passed the control quorum, whatever trials ended or were cancelled
\* around it.  "no WARP endpoint passed the control quorum" is never said when
\* one did, and only after every candidate was tried, unless the budget or the
\* session ended.
PinnedIsVerified ==
  /\ answer = "pinned" => winner \in passed /\ winner \in tried /\ remembered = winner
  /\ answer = "failed" => passed = {}
  /\ repair = "preflight" /\ (\A w \in Workers : run[w].pc = "none") /\ winner = None
       => budget = "over" \/ tried = Endpoints
  /\ repair = "rebuild" /\ provider = "warp" => answer = "pinned"

\* Traffic enters the tunnel exactly when it is public traffic of a group whose
\* path is the tunnel, TCP and UDP alike, in every state in which the group is
\* not being moved; only a selector call that failed with an unknown effect,
\* or two moves of one group at once, can break it, and the next complete move
\* of the group repairs it.  Nothing else ever enters the tunnel.
TrafficFollowsPaths ==
  Open => \A p \in Packets :
    LET tunnelled == Route(p) = "tunnel"
        grouped   == p.name \in Groups /\ p.dest = "public" /\ p.proto # "dns"
    IN  /\ tunnelled => grouped
        /\ grouped /\ Busy(p.name) = {} /\ ~disturbed[p.name]
             => (tunnelled <=> paths[p.name] = "tunnel")

\* "Keep TCP and UDP of one group on the same side.": when no call of
\* SetGroupPath is in progress for a group, its two selectors are on the same
\* side.
SameSide ==
  Open => \A g \in Groups : Busy(g) = {} => (sel[g].tcp = "tunnel") = (sel[g].udp = "tunnel")

=============================================================================

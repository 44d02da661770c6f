---------------------------- MODULE TunnelProofs ----------------------------
(***************************************************************************)
(* Proofs about module Tunnel, for any endpoints, any number of workers of *)
(* the preflight, any groups and any number of callers of SetGroupPath.    *)
(*                                                                         *)
(* Nothing is left behind: a start that has not begun or has failed holds  *)
(* neither file nor process, trials run only during the preflight and the  *)
(* gateway starts only while Engine.mu is held (RunInv).                   *)
(*                                                                         *)
(* The endpoint is verified: whatever passed is the winner or is about to  *)
(* be (PoolInv), and while the budget lasts an endpoint is still to be     *)
(* sent, on trial, or tried (NoneLost).                                    *)
(*                                                                         *)
(* Traffic follows the paths: a call of SetGroupPath that has its group    *)
(* for itself knows what each selector is at each of its steps (Midway),   *)
(* so what it leaves is one side on both selectors (Settled); calls that   *)
(* overlap, and calls with an effect nobody knows of, are disturbed. Which *)
(* rule a packet meets first then decides (RulesAre, RulesSay, RouteIs).   *)
(***************************************************************************)
EXTENDS Tunnel, TLAPS

-----------------------------------------------------------------------------
(* The invariant. *)

Pcs  == {"none", "idle", "config", "launch", "wait", "controls", "finish", "open"}
Runs == [pc : Pcs, at : Endpoints \cup {None}, file : BOOLEAN, proc : BOOLEAN, tries : Nat, ok : BOOLEAN]

Moves == [pc : {"idle", "tcpPut", "tcpGet", "udpPut", "udpGet", "backPut", "backGet"},
          group : Groups \cup {None}, path : Sides \cup {None}, alone : BOOLEAN]

Typed ==
  /\ live \in BOOLEAN
  /\ remembered \in Endpoints \cup {None}
  /\ budget \in {"none", "open", "over"} /\ feed \in Nat
  /\ run \in [Starts -> Runs]
  /\ repair \in {"idle", "account", "preflight", "rebuild", "restore", "done"}
  /\ repair # "idle" => target \in Groups

\* A start that has not begun or has failed left nothing; trials run during the
\* preflight, and the gateway starts while Engine.mu is held, in a session that
\* is alive.
RunInv ==
  /\ \A p \in Starts : run[p].pc = "none" => run[p] = NoRun
  /\ \A p \in Starts : run[p].pc = "idle" \/ (run[p].pc = "finish" /\ ~run[p].ok) => ~run[p].file /\ ~run[p].proc
  /\ repair # "preflight" => \A w \in Workers : run[w] = NoRun
  /\ Locked => live /\ run["gw"].pc \notin {"none", "open"}
  /\ ~Locked => run["gw"].pc \in {"none", "open"}
  /\ ~live => run["gw"] = NoRun

Trying(w) == run[w].pc \notin {"none", "idle"}
Passed(w) == run[w].pc = "finish" /\ run[w].ok

\* What passed won, or is about to; and while the budget lasts no candidate that
\* was sent gets lost, and no worker returns before the producer has closed the
\* jobs.
PoolInv ==
  /\ \A w \in Workers : Trying(w) => run[w].at \in Endpoints
  /\ \A w \in Workers : Passed(w) => run[w].at \in passed
  /\ winner # None => winner \in passed /\ winner \in tried
  /\ winner = None /\ passed # {} => \E w \in Workers : Passed(w)
  /\ tried \subseteq Endpoints
  /\ repair \in {"idle", "account"} => winner = None /\ passed = {} /\ tried = {}
  /\ repair \in {"idle", "account", "preflight"} => answer = "none"
  /\ answer = "pinned" => winner # None /\ remembered = winner
  /\ answer = "failed" => winner = None
  /\ repair = "rebuild" /\ provider = "warp" => answer = "pinned"

NoneLost ==
  repair = "preflight" =>
    /\ budget # "none" /\ feed <= Len(Order) + 1
    /\ budget = "open" =>
         /\ \A i \in DOMAIN Order : feed = 0 \/ i < feed =>
              Order[i] \in tried \/ \E w \in Workers : Trying(w) /\ run[w].at = Order[i]
         /\ \A w \in Workers : run[w].pc = "none" => feed = 0

\* A group on the side of its path, with both selectors.
On(side) == [tcp |-> side, udp |-> UDPOf(side)]

\* The selectors that a call of SetGroupPath at its step leaves, of a group whose
\* path is still the other side.
Midway(c) == [tcp |-> IF c.pc \in {"tcpPut", "backGet"} THEN Other(c.path) ELSE c.path,
              udp |-> UDPOf(IF c.pc = "udpGet" THEN c.path ELSE Other(c.path))]

\* Before a tunnel is up nobody moves a group.
Calm ==
  /\ \A g \in Groups : paths[g] = "desync" /\ sel[g] = On("desync")
  /\ \A m \in Movers : mover[m] = NoMove

GroupsTyped ==
  /\ paths \in [Groups -> Sides] /\ sel \in [Groups -> [tcp : Sides, udp : {"direct", "tunnel"}]]
  /\ mover \in [Movers -> Moves] /\ disturbed \in [Groups -> BOOLEAN]
  /\ \A m \in Movers : \/ mover[m] = NoMove
                       \/ mover[m].pc # "idle" /\ mover[m].group \in Groups /\ mover[m].path \in Sides

\* A call that has its group for itself knows both selectors, unless an earlier
\* one left them disturbed; then it knows the TCP selector once it has read it
\* back.  Calls that overlap are disturbed.
Settled(g) == Busy(g) = {} /\ ~disturbed[g] => sel[g] = On(paths[g])

Steady(m) ==
  LET c == mover[m] IN
  c.group \in Groups =>
    IF c.alone
    THEN /\ paths[c.group] = Other(c.path)
         /\ c.pc \in {"udpPut", "udpGet"} => sel[c.group].tcp = c.path
         /\ \A n \in Movers : mover[n].group = c.group => n = m
         /\ ~disturbed[c.group] => sel[c.group] = Midway(c)
    ELSE disturbed[c.group]

GroupInv ==
  /\ repair # "done" \/ ~Remote => Calm
  /\ repair \in {"idle", "account", "preflight"} => ~Remote
  /\ repair = "rebuild" => Remote
  /\ \A g \in Groups : Settled(g)
  /\ \A m \in Movers : Steady(m)

IInv == Typed /\ RunInv /\ PoolInv /\ NoneLost /\ GroupsTyped /\ GroupInv

-----------------------------------------------------------------------------
(* The list of endpoints. *)

\* The remembered endpoint only comes to the front.
LEMMA OrderHasAll ==
  ASSUME Typed
  PROVE  /\ DOMAIN Order = 1..Len(Order) /\ Len(Order) \in Nat
         /\ \A i \in DOMAIN Order : Order[i] \in Endpoints
         /\ \A e \in Endpoints : \E i \in DOMAIN Order : Order[i] = e
<1> DEFINE n == Len(Candidates)
<1>1. n \in Nat \ {0} /\ DOMAIN Candidates = 1..n
  BY TunnelAssumption, Zenon
<1>2. CASE remembered = None
  BY <1>1, <1>2, Zenon DEF Order, Endpoints
<1>3. CASE remembered # None
  <2>1. \E i \in 1..n : Candidates[i] = remembered
    BY <1>1, <1>3, Zenon DEF Typed, Endpoints
  <2> DEFINE r == CHOOSE i \in 1..n : Candidates[i] = remembered
  <2>2. r \in 1..n /\ Candidates[r] = remembered
    BY <2>1, Zenon
  <2> DEFINE o == [i \in 1..n |-> IF i = 1 THEN remembered ELSE Candidates[IF i <= r THEN i - 1 ELSE i]]
  <2>3. Order = o
    BY <1>1, <1>3, Zenon DEF Order
  <2> HIDE DEF r, n
  <2>4. DOMAIN o = 1..n /\ Len(o) = n
    BY <1>1
  <2>5. ASSUME NEW i \in 1..n PROVE o[i] \in Endpoints
    <3>1. (IF i <= r THEN i - 1 ELSE i) \in 1..n \/ i = 1
      BY <1>1, <2>2
    <3> QED BY <1>1, <2>2, <3>1, Zenon DEF Endpoints
  <2>6. ASSUME NEW e \in Endpoints PROVE \E i \in 1..n : o[i] = e
    <3>1. PICK j \in 1..n : e = Candidates[j]
      BY <1>1, Zenon DEF Endpoints
    <3>2. CASE j = r
      <4>1. 1 \in 1..n /\ o[1] = remembered
        BY <1>1
      <4> QED BY <2>2, <3>1, <3>2, <4>1, Zenon
    <3>3. CASE j < r
      <4>1. j + 1 \in 1..n /\ j + 1 # 1 /\ j + 1 <= r /\ (j + 1) - 1 = j
        BY <1>1, <2>2, <3>3
      <4>2. o[j + 1] = Candidates[j]
        BY <4>1, Zenon
      <4> QED BY <3>1, <4>1, <4>2, Zenon
    <3>4. CASE j > r
      <4>1. j # 1 /\ ~(j <= r)
        BY <1>1, <2>2, <3>4
      <4>2. o[j] = Candidates[j]
        BY <4>1, Zenon
      <4> QED BY <3>1, <4>2, Zenon
    <3> QED BY <1>1, <2>2, <3>2, <3>3, <3>4
  <2> HIDE DEF o
  <2> QED BY <1>1, <2>3, <2>4, <2>5, <2>6, Zenon
<1> QED BY <1>2, <1>3, Zenon

-----------------------------------------------------------------------------
(* The starts. *)

\* A record that fails keeps its endpoint, and nothing else.
LEMMA FailedRun ==
  ASSUME NEW r \in Runs
  PROVE  /\ Failed(r) \in Runs /\ Failed(r).pc = "finish" /\ Failed(r).at = r.at
         /\ Failed(r).file = FALSE /\ Failed(r).proc = FALSE /\ Failed(r).ok = FALSE
BY Zenon DEF Failed, Runs, Pcs

\* No start at all, and a start about to begin, in the type of a start.
LEMMA FreshRuns ==
  /\ NoRun \in Runs /\ NoRun.pc = "none" /\ NoRun.file = FALSE /\ NoRun.proc = FALSE /\ NoRun.ok = FALSE
  /\ \A pc \in Pcs, e \in Endpoints \cup {None} :
       LET r == [NoRun EXCEPT !.pc = pc, !.at = e]
       IN  r \in Runs /\ r.pc = pc /\ r.at = e /\ r.file = FALSE /\ r.proc = FALSE /\ r.ok = FALSE
  /\ \A pc \in Pcs :
       LET r == [NoRun EXCEPT !.pc = pc]
       IN  r \in Runs /\ r.pc = pc /\ r.file = FALSE /\ r.proc = FALSE /\ r.ok = FALSE
BY DEF NoRun, Runs, Pcs

\* One start moves.
LEMMA OneMoves ==
  ASSUME Typed, NEW p \in Starts, NEW r \in Runs, To(p, r)
  PROVE  run' \in [Starts -> Runs] /\ run'[p] = r /\ \A q \in Starts \ {p} : run'[q] = run[q]
BY Zenon DEF Typed, To

\* The steps of startOne and of checkControls.
StartStep(p) ==
  \/ Configure(p) \/ Launch(p) \/ LaunchFails(p) \/ Ready(p) \/ NotReady(p) \/ ProcessExits(p)
  \/ p = "gw" /\ AdapterBusy
  \/ p \in Workers /\ (ControlsPass(p) \/ ControlsFail(p))

Begun == {"config", "launch", "wait", "controls"}

\* What such a step does to its start.
Stepped(p, r) ==
  /\ r.at = run[p].at
  /\ \/ r.pc = run[p].pc /\ r.ok = run[p].ok /\ r.file = run[p].file /\ r.proc = FALSE
        /\ run[p].pc \notin {"none", "idle"} /\ UNCHANGED passed
     \/ /\ run[p].pc \in Begun /\ r.pc \in Begun \cup {"finish"}
        /\ r.pc = "finish" /\ ~r.ok => ~r.file /\ ~r.proc
        /\ IF p \in Workers /\ r.pc = "finish" /\ r.ok THEN passed' = passed \cup {run[p].at}
           ELSE UNCHANGED passed

\* A step of a start moves it on, ends it, or ends its process.
LEMMA StartMoves ==
  ASSUME Typed, RunInv, NEW p \in Starts, StartStep(p)
  PROVE  \E r \in Runs : /\ To(p, r) /\ Stepped(p, r)
                         /\ UNCHANGED <<live, provider, budget, feed, winner, tried, answer, repairVars, groupVars>>
<1>0. run[p] \in Runs
  BY Zenon DEF Typed
<1>g. p \in Workers => p # "gw"
  BY TunnelAssumption, Zenon
<1>1. CASE ControlsFail(p) \/ NotReady(p) \/ LaunchFails(p)
  <2>1. To(p, Failed(run[p])) /\ run[p].pc \in Begun
    BY <1>1, Zenon DEF ControlsFail, NotReady, LaunchFails, Begun
  <2>2. Stepped(p, Failed(run[p]))
    BY <1>0, <1>1, <2>1, FailedRun, Zenon DEF Stepped, ControlsFail, NotReady, LaunchFails, poolVars
  <2> QED BY <1>0, <1>1, <2>1, <2>2, FailedRun, Zenon DEF ControlsFail, NotReady, LaunchFails, poolVars
<1>2. CASE Configure(p)
  <2> DEFINE r == [run[p] EXCEPT !.pc = "launch", !.file = TRUE]
  <2>1. r \in Runs /\ r.pc = "launch" /\ r.at = run[p].at
    BY <1>0, Zenon DEF Runs, Pcs
  <2> HIDE DEF r
  <2>2. Stepped(p, r)
    BY <1>2, <2>1, Zenon DEF Stepped, Configure, poolVars, Begun
  <2>3. Stepped(p, Failed(run[p]))
    BY <1>0, <1>2, FailedRun, Zenon DEF Stepped, Configure, poolVars, Begun
  <2>4. To(p, r) \/ To(p, Failed(run[p]))
    BY <1>2, Zenon DEF Configure, r
  <2>5. UNCHANGED <<live, provider, budget, feed, winner, tried, answer, repairVars, groupVars>>
    BY <1>2, Zenon DEF Configure, poolVars
  <2> QED BY <1>0, <2>1, <2>2, <2>3, <2>4, <2>5, FailedRun, Zenon
<1>3. CASE Launch(p)
  <2> DEFINE r == [run[p] EXCEPT !.pc = "wait", !.proc = TRUE, !.tries = run[p].tries + 1]
  <2>0. run[p].tries + 1 \in Nat
    BY <1>0 DEF Runs
  <2>1. r \in Runs /\ r.pc = "wait" /\ r.at = run[p].at
    BY <1>0, <2>0, Zenon DEF Runs, Pcs
  <2>2. To(p, r)
    BY <1>3, Zenon DEF Launch
  <2> HIDE DEF r
  <2>3. Stepped(p, r)
    BY <1>3, <2>1, Zenon DEF Stepped, Launch, poolVars, Begun
  <2> QED BY <1>3, <2>1, <2>2, <2>3, Zenon DEF Launch, poolVars
<1>4. CASE Ready(p) /\ p = "gw"
  <2> DEFINE r == [run[p] EXCEPT !.pc = "finish", !.ok = TRUE]
  <2>1. r \in Runs /\ r.pc = "finish" /\ r.ok /\ r.at = run[p].at
    BY <1>0, Zenon DEF Runs, Pcs
  <2>2. To(p, r)
    BY <1>4, Zenon DEF Ready
  <2> HIDE DEF r
  <2>3. Stepped(p, r)
    BY <1>4, <1>g, <2>1, Zenon DEF Stepped, Ready, poolVars, Begun
  <2> QED BY <1>4, <2>1, <2>2, <2>3, Zenon DEF Ready, poolVars
<1>5. CASE Ready(p) /\ p # "gw"
  <2> DEFINE r == [run[p] EXCEPT !.pc = "controls"]
  <2>1. r \in Runs /\ r.pc = "controls" /\ r.at = run[p].at
    BY <1>0, Zenon DEF Runs, Pcs
  <2>2. To(p, r)
    BY <1>5, Zenon DEF Ready
  <2> HIDE DEF r
  <2>3. Stepped(p, r)
    BY <1>5, <2>1, Zenon DEF Stepped, Ready, poolVars, Begun
  <2> QED BY <1>5, <2>1, <2>2, <2>3, Zenon DEF Ready, poolVars
<1>6. CASE ProcessExits(p)
  <2> DEFINE r == [run[p] EXCEPT !.proc = FALSE]
  <2>1. /\ r \in Runs /\ r.pc = run[p].pc /\ r.ok = run[p].ok /\ r.file = run[p].file /\ r.proc = FALSE
        /\ r.at = run[p].at
    BY <1>0, Zenon DEF Runs
  <2>2. To(p, r)
    BY <1>6, Zenon DEF ProcessExits
  <2>3. run[p].pc \notin {"none", "idle"}
    BY <1>6 DEF ProcessExits, RunInv, NoRun
  <2> HIDE DEF r
  <2>4. Stepped(p, r)
    BY <1>6, <2>1, <2>3, Zenon DEF Stepped, ProcessExits, poolVars
  <2> QED BY <1>6, <2>1, <2>2, <2>4, Zenon DEF ProcessExits, poolVars
<1>7. CASE p = "gw" /\ AdapterBusy
  <2> DEFINE r == [run[p] EXCEPT !.pc = "launch", !.proc = FALSE]
  <2>1. r \in Runs /\ r.pc = "launch" /\ r.at = run[p].at
    BY <1>0, Zenon DEF Runs, Pcs
  <2>2. To(p, r)
    BY <1>7, Zenon DEF AdapterBusy
  <2> HIDE DEF r
  <2>3. Stepped(p, r)
    BY <1>7, <2>1, Zenon DEF Stepped, AdapterBusy, poolVars, Begun
  <2> QED BY <1>7, <2>1, <2>2, <2>3, Zenon DEF AdapterBusy, poolVars
<1>8. CASE p \in Workers /\ ControlsPass(p)
  <2> DEFINE r == [run[p] EXCEPT !.pc = "finish", !.ok = TRUE]
  <2>1. r \in Runs /\ r.pc = "finish" /\ r.ok /\ r.at = run[p].at
    BY <1>0, Zenon DEF Runs, Pcs
  <2>2. To(p, r)
    BY <1>8, Zenon DEF ControlsPass
  <2> HIDE DEF r
  <2>3. Stepped(p, r)
    BY <1>8, <2>1, Zenon DEF Stepped, ControlsPass, Begun
  <2> QED BY <1>8, <2>1, <2>2, <2>3, Zenon DEF ControlsPass
<1> QED BY <1>1, <1>2, <1>3, <1>4, <1>5, <1>6, <1>7, <1>8, Zenon DEF StartStep

\* A step of a start keeps the rules of the starts.
LEMMA StartKeepsRuns ==
  ASSUME Typed, RunInv, NEW p \in Starts, StartStep(p)
  PROVE  Typed' /\ RunInv'
<1>1. PICK r \in Runs : /\ To(p, r) /\ Stepped(p, r)
                        /\ UNCHANGED <<live, provider, budget, feed, winner, tried, answer, repairVars, groupVars>>
  BY StartMoves, Zenon
<1>2. run' \in [Starts -> Runs] /\ run'[p] = r /\ \A q \in Starts \ {p} : run'[q] = run[q]
  BY <1>1, OneMoves, Zenon
<1>3. UNCHANGED <<live, remembered, budget, feed, repair, target>>
  BY <1>1, Zenon DEF repairVars
<1>4. Typed'
  BY <1>2, <1>3, Zenon DEF Typed
<1>5. run[p].pc # "none" /\ r.pc \notin {"none", "idle"}
  BY <1>1, Zenon DEF Stepped, Begun
<1>6. \A q \in Starts : run'[q].pc = "none" => run'[q] = NoRun
  BY <1>2, <1>5, Zenon DEF RunInv
<1>7. \A q \in Starts : run'[q].pc = "idle" \/ (run'[q].pc = "finish" /\ ~run'[q].ok) => ~run'[q].file /\ ~run'[q].proc
  <2>1. r.pc = "finish" /\ ~r.ok => ~r.file /\ ~r.proc
    BY <1>1, Zenon DEF Stepped, RunInv, Begun
  <2> QED BY <1>2, <1>5, <2>1, Zenon DEF RunInv
<1>8. repair # "preflight" => \A w \in Workers : run'[w] = NoRun
  BY <1>2, <1>5 DEF RunInv, NoRun, Starts
<1>9. CASE p = "gw"
  <2>1. live
    BY <1>5, <1>9 DEF RunInv, NoRun, Typed
  <2>2. r.pc \in {"none", "open"} <=> run[p].pc \in {"none", "open"}
    BY <1>1, Zenon DEF Stepped, Begun
  <2>3. run'["gw"].pc \in {"none", "open"} <=> run["gw"].pc \in {"none", "open"}
    BY <1>2, <1>9, <2>2, Zenon
  <2> QED BY <1>3, <1>4, <1>6, <1>7, <1>8, <2>1, <2>3, Zenon DEF RunInv, Locked
<1>10. CASE p # "gw"
  <2>1. run'["gw"] = run["gw"]
    BY <1>2, <1>10, Zenon DEF Starts
  <2> QED BY <1>3, <1>4, <1>6, <1>7, <1>8, <2>1, Zenon DEF RunInv, Locked
<1> QED BY <1>9, <1>10, Zenon

\* What a worker of the preflight does with its start.
WorkerStep(w) == TakeJob(w) \/ WorkerQuits(w) \/ TrialEnds(w)

\* The start of a worker between two jobs, with the next one, or gone.
LEMMA WorkerMoves ==
  ASSUME Typed, RunInv, NEW w \in Workers, WorkerStep(w)
  PROVE  \E r \in Runs :
           /\ To(w, r) /\ run[w].pc \in {"idle", "finish"}
           /\ UNCHANGED <<live, provider, passed, answer, repairVars, groupVars>>
           /\ \/ TakeJob(w) /\ r.pc = "config" /\ r.at = Order[feed]
              \/ WorkerQuits(w) /\ r = NoRun
              \/ TrialEnds(w) /\ run[w].ok /\ r = NoRun
              \/ TrialEnds(w) /\ ~run[w].ok /\ r.pc = "idle" /\ ~r.file /\ ~r.proc
<1>0. w \in Starts /\ run[w] \in Runs
  BY Zenon DEF Starts, Typed
<1>1. CASE TakeJob(w)
  <2>1. Order[feed] \in Endpoints
    BY <1>1, OrderHasAll, Zenon DEF TakeJob
  <2> DEFINE r == [NoRun EXCEPT !.pc = "config", !.at = Order[feed]]
  <2>2. r \in Runs /\ r.pc = "config" /\ r.at = Order[feed]
    BY <2>1, Zenon DEF NoRun, Runs, Pcs
  <2>3. To(w, r) /\ run[w].pc = "idle" /\ UNCHANGED <<live, provider, passed, answer, repairVars, groupVars>>
    BY <1>1, Zenon DEF TakeJob
  <2> HIDE DEF r
  <2> QED BY <1>1, <2>2, <2>3, Zenon
<1>2. CASE WorkerQuits(w)
  BY <1>2, FreshRuns, Zenon DEF WorkerQuits, poolVars
<1>3. CASE TrialEnds(w) /\ run[w].ok
  BY <1>3, FreshRuns, Zenon DEF TrialEnds
<1>4. CASE TrialEnds(w) /\ ~run[w].ok
  <2> DEFINE r == [run[w] EXCEPT !.pc = "idle", !.at = None, !.tries = 0]
  <2>1. r \in Runs /\ r.pc = "idle" /\ r.file = run[w].file /\ r.proc = run[w].proc
    BY <1>0, Zenon DEF Runs, Pcs
  <2>2. ~run[w].file /\ ~run[w].proc
    BY <1>0, <1>4, Zenon DEF TrialEnds, RunInv
  <2>3. To(w, r) /\ run[w].pc = "finish" /\ UNCHANGED <<live, provider, passed, answer, repairVars, groupVars>>
    BY <1>4, Zenon DEF TrialEnds
  <2> HIDE DEF r
  <2> QED BY <1>4, <2>1, <2>2, <2>3, Zenon
<1> QED BY <1>1, <1>2, <1>3, <1>4, Zenon DEF WorkerStep

\* A worker's step keeps the rules of the starts.
LEMMA WorkerKeepsRuns ==
  ASSUME Typed, RunInv, NEW w \in Workers, WorkerStep(w)
  PROVE  Typed' /\ RunInv'
<1>0. w \in Starts /\ w # "gw" /\ "gw" \in Starts
  BY TunnelAssumption, Zenon DEF Starts
<1>1. PICK r \in Runs :
           /\ To(w, r) /\ run[w].pc \in {"idle", "finish"}
           /\ UNCHANGED <<live, provider, passed, answer, repairVars, groupVars>>
           /\ \/ TakeJob(w) /\ r.pc = "config" /\ r.at = Order[feed]
              \/ WorkerQuits(w) /\ r = NoRun
              \/ TrialEnds(w) /\ run[w].ok /\ r = NoRun
              \/ TrialEnds(w) /\ ~run[w].ok /\ r.pc = "idle" /\ ~r.file /\ ~r.proc
  BY WorkerMoves, Zenon
<1>2. run' \in [Starts -> Runs] /\ run'[w] = r /\ \A q \in Starts \ {w} : run'[q] = run[q]
  BY <1>0, <1>1, OneMoves, Zenon
<1>3. UNCHANGED <<live, remembered, repair, target>>
  BY <1>1, Zenon DEF repairVars
<1>4. feed' \in Nat /\ budget' \in {"none", "open", "over"}
  BY <1>1 DEF TakeJob, WorkerQuits, TrialEnds, poolVars, Typed
<1>5. Typed'
  BY <1>2, <1>3, <1>4, Zenon DEF Typed
<1>6. repair = "preflight"
  BY <1>1 DEF RunInv, NoRun
<1>7. \/ r = NoRun
      \/ r.pc = "config"
      \/ r.pc = "idle" /\ ~r.file /\ ~r.proc
  BY <1>1, Zenon
<1>8. run'["gw"] = run["gw"]
  BY <1>0, <1>2, Zenon
<1>9. \A q \in Starts : run'[q].pc = "none" => run'[q] = NoRun
  BY <1>2, <1>7, Zenon DEF RunInv
<1>10. \A q \in Starts : run'[q].pc = "idle" \/ (run'[q].pc = "finish" /\ ~run'[q].ok) => ~run'[q].file /\ ~run'[q].proc
  <2> TAKE q \in Starts
  <2>1. CASE q = w
    <3>1. NoRun.file = FALSE /\ NoRun.proc = FALSE
      BY FreshRuns, Zenon
    <3>2. r.pc = "idle" \/ r.pc = "finish" => ~r.file /\ ~r.proc
      BY <1>7, <3>1, Zenon
    <3> QED BY <1>2, <2>1, <3>2, Zenon
  <2>2. CASE q # w
    BY <1>2, <2>2, Zenon DEF RunInv
  <2> QED BY <2>1, <2>2, Zenon
<1> QED BY <1>3, <1>5, <1>6, <1>8, <1>9, <1>10, Zenon DEF RunInv, Locked

\* The gateway is closed and starts again, with everything else in place.
LEMMA GatewayMoves ==
  ASSUME Typed, RunInv, NEW r \in Runs, run' = [run EXCEPT !["gw"] = r],
         r = NoRun \/ r.pc \in {"config", "open"},
         live' \in BOOLEAN, remembered' \in Endpoints \cup {None}, budget' \in {"none", "open", "over"}, feed' \in Nat,
         repair' \in {"idle", "account", "preflight", "rebuild", "restore", "done"},
         repair' # "idle" => target' \in Groups,
         r.pc = "config" => Locked' /\ live', r.pc # "config" => ~Locked', ~live' => r = NoRun,
         repair' # "preflight" => \A w \in Workers : run[w] = NoRun
  PROVE  Typed' /\ RunInv'
<1>1. /\ run' \in [Starts -> Runs] /\ run'["gw"] = r
      /\ \A q \in Starts \ {"gw"} : run'[q] = run[q]
  BY Zenon DEF Typed, Starts
<1>2. \A w \in Workers : run'[w] = run[w]
  BY <1>1, TunnelAssumption, Zenon DEF Starts
<1>3. Typed'
  BY <1>1, Zenon DEF Typed
<1>4. \A q \in Starts : run'[q].pc = "none" => run'[q] = NoRun
  BY <1>1, Zenon DEF RunInv
<1>5. \A q \in Starts : run'[q].pc = "idle" \/ (run'[q].pc = "finish" /\ ~run'[q].ok) => ~run'[q].file /\ ~run'[q].proc
  BY <1>1, FreshRuns, Zenon DEF RunInv
<1>6. run'["gw"].pc = r.pc /\ (r.pc = "none" \/ r.pc = "config" \/ r.pc = "open")
  BY <1>1, FreshRuns, Zenon
<1> QED BY <1>1, <1>2, <1>3, <1>4, <1>5, <1>6, Zenon DEF RunInv

\* Steps that leave every start alone.
LEMMA RunsLeft ==
  ASSUME Typed, RunInv, UNCHANGED <<run, live>>, Locked' = Locked,
         remembered' \in Endpoints \cup {None}, budget' \in {"none", "open", "over"}, feed' \in Nat,
         repair' \in {"idle", "account", "preflight", "rebuild", "restore", "done"},
         repair' # "idle" => target' \in Groups,
         repair' # "preflight" => \A w \in Workers : run[w] = NoRun
  PROVE  Typed' /\ RunInv'
BY Zenon DEF Typed, RunInv

\* Reality takes over, WARP does, or the repair gives up.
LEMMA PreparedRuns ==
  ASSUME Typed, RunInv, repair \in {"account", "preflight"}, \A w \in Workers : run[w] = NoRun,
         UNCHANGED <<live, target>>, remembered' \in Endpoints \cup {None},
         budget' \in {"none", "open", "over"}, feed' \in Nat,
         (live /\ (Rebuild("reality") \/ Rebuild("warp"))) \/ GiveUp
  PROVE  Typed' /\ RunInv'
<1>1. CASE GiveUp
  <2>1. Locked' = Locked
    BY <1>1 DEF GiveUp, Locked
  <2>2. UNCHANGED <<run, live>> /\ repair' = "done" /\ target' \in Groups
    BY <1>1, Zenon DEF GiveUp, Typed
  <2> QED BY <2>1, <2>2, RunsLeft, Zenon
<1>2. CASE live /\ (Rebuild("reality") \/ Rebuild("warp"))
  <2> DEFINE r == [NoRun EXCEPT !.pc = "config"]
  <2>1. r \in Runs /\ r.pc = "config"
    BY Zenon DEF NoRun, Runs, Pcs
  <2>2. run' = [run EXCEPT !["gw"] = r] /\ repair' = "rebuild"
    BY <1>2, Zenon DEF Rebuild
  <2>3. target' \in Groups /\ live' /\ Locked' /\ live' \in BOOLEAN
    BY <1>2, <2>2, Zenon DEF Typed, Locked
  <2> HIDE DEF r
  <2> QED BY <2>1, <2>2, <2>3, GatewayMoves, Zenon
<1> QED BY <1>1, <1>2, Zenon

RepairStep ==
  \/ \E g \in Groups : Escalate(g)
  \/ PreferReality \/ PrepareWARP \/ PreflightReturns \/ GatewayUp \/ GatewayFails \/ Stop

\* The steps of a repair, and a stop, keep the rules of the starts.
LEMMA RepairKeepsRuns ==
  ASSUME Typed, RunInv, PoolInv, RepairStep
  PROVE  Typed' /\ RunInv'
<1>0. /\ live \in BOOLEAN /\ feed \in Nat /\ budget \in {"none", "open", "over"}
      /\ remembered \in Endpoints \cup {None} /\ run["gw"] \in Runs /\ "gw" \in Starts
  BY Zenon DEF Typed, Starts
<1>1. ASSUME NEW g \in Groups, Escalate(g) PROVE Typed' /\ RunInv'
  <2>1. /\ UNCHANGED <<run, live, remembered, budget, feed>> /\ repair = "idle" /\ repair' = "account"
        /\ target' \in Groups
    BY <1>1, Zenon DEF Escalate, poolVars
  <2>2. Locked' = Locked
    BY <2>1 DEF Locked
  <2>3. \A w \in Workers : run[w] = NoRun
    BY <2>1, Zenon DEF RunInv
  <2> QED BY <1>0, <2>1, <2>2, <2>3, RunsLeft, Zenon
<1>2. CASE PreferReality
  <2>1. repair = "account" /\ UNCHANGED <<live, target, remembered, budget, feed>>
    BY <1>2, Zenon DEF PreferReality, poolVars
  <2>2. \A w \in Workers : run[w] = NoRun
    BY <2>1, Zenon DEF RunInv
  <2>3. (live /\ Rebuild("reality")) \/ GiveUp
    BY <1>2, Zenon DEF PreferReality, WithoutWARP
  <2> QED BY <1>0, <2>1, <2>2, <2>3, PreparedRuns, Zenon
<1>3. CASE PrepareWARP
  <2>1. repair = "account" /\ UNCHANGED <<live, target, remembered>>
    BY <1>3, Zenon DEF PrepareWARP
  <2>2. \A w \in Workers : run[w] = NoRun
    BY <2>1, Zenon DEF RunInv
  <2>3. CASE UNCHANGED <<budget, feed>> /\ WithoutWARP
    <3>1. (live /\ Rebuild("reality")) \/ GiveUp
      BY <2>3, Zenon DEF WithoutWARP
    <3> QED BY <1>0, <2>1, <2>2, <2>3, <3>1, PreparedRuns, Zenon
  <2>4. CASE ~(UNCHANGED <<budget, feed>> /\ WithoutWARP)
    <3> DEFINE i == [NoRun EXCEPT !.pc = "idle"]
    <3>1. /\ repair' = "preflight" /\ budget' \in {"open", "over"} /\ feed' = 1
          /\ run' = [p \in Starts |-> IF p = "gw" THEN run[p] ELSE i]
      BY <1>3, <2>4, Zenon DEF PrepareWARP
    <3>2. i \in Runs /\ i.pc = "idle" /\ ~i.file /\ ~i.proc
      BY Zenon DEF NoRun, Runs, Pcs
    <3> HIDE DEF i
    <3>3. run' \in [Starts -> Runs] /\ run'["gw"] = run["gw"] /\ \A w \in Workers : run'[w] = i
      BY <1>0, <3>1, <3>2, TunnelAssumption, Zenon DEF Typed, Starts
    <3>4. Typed'
      BY <1>0, <2>1, <3>1, <3>3, Zenon DEF Typed
    <3>5. \A q \in Starts : run'[q] = i \/ run'[q] = run[q]
      BY <3>1, Zenon
    <3>6. ~Locked /\ ~Locked'
      BY <2>1, <3>1, Zenon DEF Locked
    <3> QED BY <2>1, <3>1, <3>2, <3>3, <3>4, <3>5, <3>6, Zenon DEF RunInv
  <2> QED BY <2>3, <2>4, Zenon
<1>4. CASE PreflightReturns
  <2>1. repair = "preflight" /\ UNCHANGED <<live, target>> /\ budget' = "over" /\ feed' = 0
    BY <1>4, Zenon DEF PreflightReturns
  <2>2. \A w \in Workers : run[w] = NoRun
    BY <1>4, Zenon DEF PreflightReturns, RunInv, Starts
  <2>3. (live /\ (Rebuild("reality") \/ Rebuild("warp"))) \/ GiveUp
    BY <1>4, Zenon DEF PreflightReturns, WithoutWARP
  <2>4. remembered' \in Endpoints \cup {None}
    BY <1>0, <1>4, Zenon DEF PreflightReturns, PoolInv
  <2> QED BY <1>0, <2>1, <2>2, <2>3, <2>4, PreparedRuns, Zenon
<1>5. CASE GatewayUp
  <2> DEFINE r == [run["gw"] EXCEPT !.pc = "open", !.tries = 0]
  <2>1. r \in Runs /\ r.pc = "open"
    BY <1>0, Zenon DEF Runs, Pcs
  <2>2. run' = [run EXCEPT !["gw"] = r] /\ UNCHANGED <<live, target, remembered, budget, feed>> /\ repair' = "done"
    BY <1>5, Zenon DEF GatewayUp, To
  <2> HIDE DEF r
  <2>3. Locked
    BY <1>5, Zenon DEF GatewayUp, RunInv
  <2>4. live /\ target \in Groups /\ \A w \in Workers : run[w] = NoRun
    BY <2>3, Zenon DEF RunInv, Locked, Typed
  <2>5. ~Locked'
    BY <2>2, Zenon DEF Locked
  <2> QED BY <1>0, <2>1, <2>2, <2>4, <2>5, GatewayMoves, Zenon
<1>6. CASE GatewayFails
  <2>1. UNCHANGED <<live, target, remembered, budget, feed>>
    BY <1>6, Zenon DEF GatewayFails
  <2>3. Locked
    BY <1>6, Zenon DEF GatewayFails, RunInv
  <2>4. live /\ target \in Groups /\ \A w \in Workers : run[w] = NoRun
    BY <2>3, Zenon DEF RunInv, Locked, Typed
  <2>5. CASE repair = "rebuild"
    <3> DEFINE r == [NoRun EXCEPT !.pc = "config"]
    <3>1. r \in Runs /\ r.pc = "config"
      BY Zenon DEF NoRun, Runs, Pcs
    <3>2. run' = [run EXCEPT !["gw"] = r] /\ repair' = "restore"
      BY <1>6, <2>5, Zenon DEF GatewayFails, To
    <3>3. Locked'
      BY <3>2, Zenon DEF Locked
    <3> HIDE DEF r
    <3> QED BY <1>0, <2>1, <2>4, <3>1, <3>2, <3>3, GatewayMoves, Zenon
  <2>6. CASE repair # "rebuild"
    <3>1. run' = [run EXCEPT !["gw"] = NoRun] /\ repair' = "done"
      BY <1>6, <2>6, Zenon DEF GatewayFails, To
    <3>2. ~Locked'
      BY <3>1, Zenon DEF Locked
    <3> QED BY <1>0, <2>1, <2>4, <3>1, <3>2, FreshRuns, GatewayMoves, Zenon
  <2> QED BY <2>5, <2>6, Zenon
<1>7. CASE Stop
  <2>1. /\ run' = [run EXCEPT !["gw"] = NoRun] /\ live' = FALSE /\ UNCHANGED <<repair, remembered, target, feed>>
        /\ budget' \in {budget, "over"} /\ ~Locked
    BY <1>7, Zenon DEF Stop, To, repairVars
  <2>2. ~Locked'
    BY <2>1, Zenon DEF Locked
  <2>3. /\ repair' \in {"idle", "account", "preflight", "rebuild", "restore", "done"}
        /\ repair' # "idle" => target' \in Groups
        /\ repair' # "preflight" => \A w \in Workers : run[w] = NoRun
    BY <2>1, Zenon DEF Typed, RunInv
  <2> QED BY <1>0, <2>1, <2>2, <2>3, FreshRuns, GatewayMoves, Zenon
<1> QED BY <1>1, <1>2, <1>3, <1>4, <1>5, <1>6, <1>7, Zenon DEF RepairStep

-----------------------------------------------------------------------------
(* The preflight. *)

\* A step of a start keeps what the preflight relies on: a trial that passes is
\* recorded, and no job is dropped.
LEMMA StartKeepsPool ==
  ASSUME Typed, RunInv, PoolInv, NoneLost, NEW p \in Starts, StartStep(p)
  PROVE  PoolInv' /\ NoneLost'
<1>1. PICK r \in Runs : /\ To(p, r) /\ Stepped(p, r)
                        /\ UNCHANGED <<live, provider, budget, feed, winner, tried, answer, repairVars, groupVars>>
  BY StartMoves, Zenon
<1>2. run' \in [Starts -> Runs] /\ run'[p] = r /\ \A q \in Starts \ {p} : run'[q] = run[q]
  BY <1>1, OneMoves, Zenon
<1>3. UNCHANGED <<provider, budget, feed, winner, tried, answer, remembered, repair>>
  BY <1>1, Zenon DEF repairVars
<1>4. /\ run[p].pc \notin {"none", "idle"} /\ r.pc \notin {"none", "idle"} /\ r.at = run[p].at
      /\ passed \subseteq passed'
      /\ run[p].pc = "finish" => r.pc = "finish" /\ r.ok = run[p].ok
      /\ p \in Workers /\ r.pc = "finish" /\ r.ok /\ run[p].pc # "finish" => run[p].at \in passed'
      /\ passed' # passed => p \in Workers /\ r.pc = "finish" /\ r.ok
  BY <1>1, Zenon DEF Stepped, Begun
<1>5. \A w \in Workers : /\ Trying(w)' <=> Trying(w)
                         /\ run'[w].at = run[w].at
                         /\ run'[w].pc = "none" <=> run[w].pc = "none"
                         /\ Passed(w) => Passed(w)'
                         /\ Passed(w)' => run'[w].at \in passed'
  <2> TAKE w \in Workers
  <2>1. CASE w = p
    BY <1>2, <1>4, <2>1, Zenon DEF Trying, Passed, PoolInv
  <2>2. CASE w # p
    <3>1. run'[w] = run[w]
      BY <1>2, <2>2, Zenon DEF Starts
    <3> QED BY <1>4, <3>1, Zenon DEF Trying, Passed, PoolInv
  <2> QED BY <2>1, <2>2, Zenon
<1>6. winner = None /\ passed' # {} => \E w \in Workers : Passed(w)'
  <2>1. CASE passed' = passed
    BY <1>5, <2>1, Zenon DEF PoolInv
  <2>2. CASE passed' # passed
    BY <1>2, <1>4, <2>2, Zenon DEF Passed
  <2> QED BY <2>1, <2>2, Zenon
<1>7. repair = "idle" \/ repair = "account" => passed' = {}
  <2>1. repair # "preflight" => \A w \in Workers : run[w].pc = "none"
    BY FreshRuns, Zenon DEF RunInv
  <2>2. passed' # passed => repair = "preflight"
    BY <1>4, <2>1, Zenon
  <2> QED BY <2>2, Zenon DEF PoolInv
<1>8. PoolInv'
  BY <1>3, <1>4, <1>5, <1>6, <1>7, Zenon DEF PoolInv
<1>9. Order' = Order
  BY <1>3, Zenon DEF Order
<1>10. NoneLost'
  BY <1>3, <1>5, <1>9, Zenon DEF NoneLost
<1> QED BY <1>8, <1>10, Zenon

\* A worker takes the job the producer sends.
LEMMA TakeJobKeepsPool ==
  ASSUME Typed, RunInv, PoolInv, NoneLost, NEW w \in Workers, TakeJob(w)
  PROVE  PoolInv' /\ NoneLost'
<1>0. w \in Starts /\ feed \in DOMAIN Order /\ Order[feed] \in Endpoints /\ Len(Order) \in Nat /\ feed \in Nat
      /\ DOMAIN Order = 1..Len(Order)
  BY OrderHasAll, Zenon DEF Starts, TakeJob, Typed
<1>1. PICK r \in Runs : To(w, r) /\ r.pc = "config" /\ r.at = Order[feed]
  <2>1. ~WorkerQuits(w) /\ ~TrialEnds(w)
    BY <1>0 DEF TakeJob, WorkerQuits, TrialEnds
  <2> QED BY <2>1, WorkerMoves, Zenon DEF WorkerStep
<1>2. run' \in [Starts -> Runs] /\ run'[w] = r /\ \A q \in Starts \ {w} : run'[q] = run[q]
  BY <1>0, <1>1, OneMoves, Zenon
<1>3. /\ UNCHANGED <<provider, budget, winner, passed, tried, answer, remembered, repair>> /\ feed' = feed + 1
      /\ run[w].pc = "idle" /\ feed \in 1..Len(Order)
  BY Zenon DEF TakeJob, repairVars
<1>4. Order' = Order
  BY <1>3, Zenon DEF Order
<1>5. \A v \in Workers : v # w => run'[v] = run[v]
  BY <1>2, Zenon DEF Starts
<1>6. \A v \in Workers : (Passed(v)' <=> Passed(v)) /\ (Passed(v) => v # w)
  BY <1>1, <1>2, <1>3, <1>5, Zenon DEF Passed
<1>7. PoolInv'
  BY <1>0, <1>1, <1>2, <1>3, <1>5, <1>6, Zenon DEF PoolInv, Trying
<1>8. repair = "preflight"
  BY <1>0, <1>3, FreshRuns, Zenon DEF RunInv
<1>9. ASSUME NEW i \in DOMAIN Order, i < feed + 1, budget = "open"
      PROVE  Order[i] \in tried \/ \E v \in Workers : Trying(v)' /\ run'[v].at = Order[i]
  <2>1. CASE i = feed
    BY <1>1, <1>2, <2>1, Zenon DEF Trying
  <2>2. CASE i # feed
    <3>1. i < feed
      BY <1>0, <1>9, <2>2
    <3>2. Order[i] \in tried \/ \E v \in Workers : Trying(v) /\ run[v].at = Order[i]
      BY <1>8, <1>9, <3>1, Zenon DEF NoneLost
    <3> QED BY <1>3, <1>5, <3>2, Zenon DEF Trying
  <2> QED BY <2>1, <2>2, Zenon
<1>10. feed + 1 <= Len(Order) + 1 /\ feed + 1 # 0
  BY <1>0, <1>3
<1>11. budget = "open" => \A v \in Workers : run'[v].pc # "none"
  BY <1>0, <1>1, <1>2, <1>3, <1>5, <1>8 DEF NoneLost
<1> QED BY <1>3, <1>4, <1>7, <1>8, <1>9, <1>10, <1>11, Zenon DEF NoneLost

\* A worker quits when the jobs are closed.
LEMMA QuitKeepsPool ==
  ASSUME Typed, RunInv, PoolInv, NoneLost, NEW w \in Workers, WorkerQuits(w)
  PROVE  PoolInv' /\ NoneLost'
<1>0. w \in Starts
  BY Zenon DEF Starts
<1>1. run' \in [Starts -> Runs] /\ run'[w] = NoRun /\ \A q \in Starts \ {w} : run'[q] = run[q]
  BY <1>0, FreshRuns, OneMoves, Zenon DEF WorkerQuits
<1>2. /\ UNCHANGED <<provider, budget, winner, passed, tried, answer, remembered, repair, feed>>
      /\ run[w].pc = "idle" /\ feed = 0
  BY Zenon DEF WorkerQuits, repairVars, poolVars
<1>3. Order' = Order
  BY <1>2, Zenon DEF Order
<1>4. \A v \in Workers : v # w => run'[v] = run[v]
  BY <1>1, Zenon DEF Starts
<1>5. \A v \in Workers : (Passed(v)' <=> Passed(v)) /\ (Trying(v)' <=> Trying(v)) /\ (Trying(v) => run'[v] = run[v])
  BY <1>1, <1>2, <1>4, FreshRuns, Zenon DEF Passed, Trying
<1>6. PoolInv'
  BY <1>2, <1>5, Zenon DEF PoolInv, Passed, Trying
<1>7. NoneLost'
  BY <1>2, <1>3, <1>5, Zenon DEF NoneLost
<1> QED BY <1>6, <1>7, Zenon

\* A trial ends: it has been tried, and with a result that passed the budget is
\* over.
LEMMA TrialKeepsPool ==
  ASSUME Typed, RunInv, PoolInv, NoneLost, NEW w \in Workers, TrialEnds(w)
  PROVE  PoolInv' /\ NoneLost'
<1>0. w \in Starts
  BY Zenon DEF Starts
<1>1. PICK r \in Runs : To(w, r) /\ (r = NoRun \/ r.pc = "idle") /\ (~run[w].ok => r.pc = "idle")
  BY WorkerMoves, Zenon DEF WorkerStep, TakeJob, WorkerQuits, TrialEnds
<1>2. run' \in [Starts -> Runs] /\ run'[w] = r /\ \A q \in Starts \ {w} : run'[q] = run[q]
  BY <1>0, <1>1, OneMoves, Zenon
<1>3. /\ UNCHANGED <<provider, passed, answer, remembered, repair, feed>>
      /\ run[w].pc = "finish" /\ tried' = tried \cup {run[w].at}
      /\ budget' = IF run[w].ok THEN "over" ELSE budget
      /\ winner' = IF run[w].ok /\ winner = None THEN run[w].at ELSE winner
  BY Zenon DEF TrialEnds, repairVars
<1>4. Order' = Order
  BY <1>3, Zenon DEF Order
<1>5. \A v \in Workers : v # w => run'[v] = run[v]
  BY <1>2, Zenon DEF Starts
<1>6. ~Trying(w)' /\ ~Passed(w)' /\ run[w].at \in Endpoints /\ (run[w].ok => run[w].at \in passed)
      /\ run[w].at # None
  <2>1. run'[w].pc \in {"none", "idle"}
    BY <1>1, <1>2, FreshRuns, Zenon
  <2>2. run[w].at \in Endpoints /\ (run[w].ok => run[w].at \in passed)
    BY <1>3, Zenon DEF Trying, Passed, PoolInv
  <2>3. None \notin Endpoints
    BY TunnelAssumption, Zenon DEF Endpoints
  <2> QED BY <2>1, <2>2, <2>3, Zenon DEF Trying, Passed
<1>7. repair = "preflight"
  BY <1>0, <1>3, FreshRuns, Zenon DEF RunInv
<1>8. winner' = None /\ passed' # {} => \E v \in Workers : Passed(v)'
  <2> SUFFICES ASSUME winner' = None, passed # {} PROVE \E v \in Workers : Passed(v)'
    BY <1>3, Zenon
  <2>1. winner = None /\ ~run[w].ok
    BY <1>3, <1>6, Zenon
  <2>2. PICK v \in Workers : Passed(v)
    BY <2>1, Zenon DEF PoolInv
  <2>3. v # w
    BY <2>1, <2>2, Zenon DEF Passed
  <2> QED BY <1>5, <2>2, <2>3, Zenon DEF Passed
<1>9. \A v \in Workers : /\ Trying(v)' => run'[v].at \in Endpoints
                         /\ Passed(v)' => run'[v].at \in passed'
  BY <1>3, <1>5, <1>6, Zenon DEF PoolInv, Trying, Passed
<1>10. winner' # None => winner' \in passed' /\ winner' \in tried'
  BY <1>3, <1>6, Zenon DEF PoolInv
<1>11. PoolInv'
  BY <1>3, <1>6, <1>7, <1>8, <1>9, <1>10, Zenon DEF PoolInv
<1>12. budget' = "open" => budget = "open" /\ ~run[w].ok
  BY <1>3, Zenon
<1>13. ASSUME NEW i \in DOMAIN Order, Order[i] \in tried \/ \E v \in Workers : Trying(v) /\ run[v].at = Order[i]
       PROVE  Order[i] \in tried' \/ \E v \in Workers : Trying(v)' /\ run'[v].at = Order[i]
  BY <1>3, <1>5, <1>13, Zenon DEF Trying
<1>14. budget' # "none"
  BY <1>3, <1>7, Zenon DEF NoneLost
<1>15. budget' = "open" => \A v \in Workers : run'[v].pc = "none" => run[v].pc = "none"
  BY <1>1, <1>2, <1>5, <1>12, Zenon
<1>16. NoneLost'
  BY <1>3, <1>4, <1>7, <1>12, <1>13, <1>14, <1>15, Zenon DEF NoneLost
<1> QED BY <1>11, <1>16, Zenon

\* The producer closes the jobs when all are sent, or the budget is over.
LEMMA ProducerKeepsPool ==
  ASSUME Typed, RunInv, PoolInv, NoneLost, ProducerEnds \/ BudgetEnds
  PROVE  PoolInv' /\ NoneLost'
<1>1. /\ UNCHANGED <<run, provider, winner, passed, tried, answer, remembered, repair>>
      /\ \/ feed' = 0 /\ UNCHANGED budget /\ (budget = "over" \/ feed > Len(Order))
         \/ feed' = feed /\ budget' = "over"
  BY Zenon DEF ProducerEnds, BudgetEnds, repairVars
<1>2. Order' = Order /\ \A w \in Workers : (Passed(w)' <=> Passed(w)) /\ (Trying(w)' <=> Trying(w))
  BY <1>1, Zenon DEF Order, Passed, Trying
<1>3. PoolInv'
  BY <1>1, <1>2, Zenon DEF PoolInv
<1>4. DOMAIN Order = 1..Len(Order) /\ Len(Order) \in Nat /\ feed \in Nat
  BY OrderHasAll, Zenon DEF Typed
<1>5. CASE feed' = 0 /\ UNCHANGED budget /\ (budget = "over" \/ feed > Len(Order))
  <2>1. budget = "open" => \A i \in DOMAIN Order : i < feed
    BY <1>4, <1>5
  <2>2. 0 <= Len(Order) + 1
    BY <1>4
  <2> QED BY <1>1, <1>2, <1>3, <1>5, <2>1, <2>2, Zenon DEF NoneLost
<1>6. CASE feed' = feed /\ budget' = "over"
  BY <1>1, <1>2, <1>3, <1>6, Zenon DEF NoneLost
<1> QED BY <1>1, <1>5, <1>6, Zenon

\* Nobody tries an endpoint outside a preflight.
LEMMA NobodyTries ==
  ASSUME \A w \in Workers : run[w] = NoRun
  PROVE  \A w \in Workers : ~Trying(w) /\ ~Passed(w)
BY FreshRuns, Zenon DEF Trying, Passed

\* The steps of a repair keep what the preflight relies on.
LEMMA RepairKeepsPool ==
  ASSUME Typed, RunInv, PoolInv, NoneLost, RepairStep
  PROVE  PoolInv' /\ NoneLost'
<1>g. \A w \in Workers : w # "gw" /\ w \in Starts
  BY TunnelAssumption, Zenon DEF Starts
<1>w. ASSUME NEW r, run' = [run EXCEPT !["gw"] = r] PROVE \A w \in Workers : run'[w] = run[w]
  BY <1>g, <1>w, Zenon DEF Typed
<1>1. ASSUME NEW g \in Groups, Escalate(g) PROVE PoolInv' /\ NoneLost'
  <2>1. /\ UNCHANGED <<run, provider, winner, passed, tried, answer, remembered>>
        /\ repair = "idle" /\ repair' = "account"
    BY <1>1, Zenon DEF Escalate, poolVars
  <2> QED BY <2>1, Zenon DEF PoolInv, NoneLost, Passed, Trying
<1>2. CASE PreferReality \/ (PrepareWARP /\ UNCHANGED <<budget, feed>> /\ WithoutWARP)
  <2>1. /\ repair = "account" /\ UNCHANGED <<winner, passed, tried, answer, remembered>> /\ WithoutWARP
    BY <1>2, Zenon DEF PreferReality, PrepareWARP, poolVars
  <2>2. /\ repair' \in {"rebuild", "done"} /\ (repair' = "rebuild" => provider' = "reality")
        /\ \A w \in Workers : run'[w] = run[w]
    <3>1. CASE Rebuild("reality")
      BY <1>w, <3>1, Zenon DEF Rebuild
    <3>2. CASE GiveUp
      BY <3>2, Zenon DEF GiveUp
    <3> QED BY <2>1, <3>1, <3>2, Zenon DEF WithoutWARP
  <2>3. winner = None /\ passed = {} /\ tried = {} /\ answer = "none" /\ \A w \in Workers : run'[w] = NoRun
    BY <2>1, <2>2, Zenon DEF PoolInv, RunInv
  <2>4. \A w \in Workers : ~Trying(w)' /\ ~Passed(w)'
    BY <2>3, FreshRuns, Zenon DEF Trying, Passed
  <2> QED BY <2>1, <2>2, <2>3, <2>4, Zenon DEF PoolInv, NoneLost
<1>3. CASE PrepareWARP /\ ~(UNCHANGED <<budget, feed>> /\ WithoutWARP)
  <2> DEFINE i == [NoRun EXCEPT !.pc = "idle"]
  <2>1. /\ repair = "account" /\ repair' = "preflight" /\ budget' \in {"open", "over"} /\ feed' = 1
        /\ run' = [p \in Starts |-> IF p = "gw" THEN run[p] ELSE i]
        /\ UNCHANGED <<winner, passed, tried, answer, remembered>>
    BY <1>3, Zenon DEF PrepareWARP
  <2>2. i.pc = "idle"
    BY Zenon DEF NoRun
  <2> HIDE DEF i
  <2>3. \A w \in Workers : run'[w].pc = "idle"
    BY <1>g, <2>1, <2>2, Zenon
  <2>4. winner = None /\ passed = {} /\ tried = {} /\ answer = "none"
    BY <2>1, Zenon DEF PoolInv
  <2>5. \A w \in Workers : ~Trying(w)' /\ ~Passed(w)'
    BY <2>3, Zenon DEF Trying, Passed
  <2>6. Order' = Order /\ DOMAIN Order = 1..Len(Order) /\ Len(Order) \in Nat
    BY <2>1, OrderHasAll DEF Order
  <2>7. (\A j \in DOMAIN Order' : ~(j < feed')) /\ feed' <= Len(Order') + 1 /\ feed' # 0
    BY <2>1, <2>6
  <2>8. PoolInv'
    BY <2>1, <2>4, <2>5, Zenon DEF PoolInv
  <2>9. NoneLost'
    BY <2>1, <2>3, <2>7, Zenon DEF NoneLost
  <2> QED BY <2>8, <2>9, Zenon
<1>4. CASE PreflightReturns
  <2>1. \A w \in Workers : run[w] = NoRun
    BY <1>4, Zenon DEF PreflightReturns, RunInv, Starts
  <2>2. /\ answer' = IF winner = None THEN "failed" ELSE "pinned"
        /\ remembered' = IF winner = None THEN remembered ELSE winner
        /\ UNCHANGED <<winner, passed, tried>>
    BY <1>4, Zenon DEF PreflightReturns
  <2>3. /\ repair' \in {"rebuild", "done"} /\ (provider' = "warp" /\ repair' = "rebuild" => winner # None)
        /\ \A w \in Workers : run'[w] = run[w]
    <3>1. CASE winner = None /\ Rebuild("reality")
      BY <1>w, <3>1, Zenon DEF Rebuild
    <3>2. CASE winner # None /\ Rebuild("warp")
      BY <1>w, <3>2, Zenon DEF Rebuild
    <3>3. CASE GiveUp
      BY <3>3, Zenon DEF GiveUp
    <3> QED BY <1>4, <3>1, <3>2, <3>3, Zenon DEF PreflightReturns, WithoutWARP
  <2>4. \A w \in Workers : ~Trying(w) /\ ~Passed(w) /\ ~Trying(w)' /\ ~Passed(w)'
    BY <2>1, <2>3, NobodyTries, Zenon DEF Trying, Passed
  <2> QED BY <2>2, <2>3, <2>4, Zenon DEF PoolInv, NoneLost
<1>5. CASE GatewayUp \/ GatewayFails
  <2>1. Locked
    BY <1>5, Zenon DEF GatewayUp, GatewayFails, RunInv
  <2>2. \A w \in Workers : run[w] = NoRun
    BY <2>1, Zenon DEF RunInv, Locked
  <2>3. repair' \in {"restore", "done"} /\ Forget
    BY <1>5, Zenon DEF GatewayUp, GatewayFails
  <2>4. \A w \in Workers : run'[w] = run[w]
    BY <1>5, <1>w, Zenon DEF GatewayUp, GatewayFails, To
  <2>5. \A w \in Workers : ~Trying(w)' /\ ~Passed(w)'
    BY <2>2, <2>4, NobodyTries, Zenon DEF Trying, Passed
  <2> QED BY <2>3, <2>5, Zenon DEF PoolInv, NoneLost, Forget
<1>6. CASE Stop
  <2>1. /\ UNCHANGED <<winner, passed, tried, answer, remembered, repair, feed>>
        /\ budget' = (IF budget = "open" THEN "over" ELSE budget) /\ ~Locked
    BY <1>6, Zenon DEF Stop, repairVars
  <2>2. \A w \in Workers : run'[w] = run[w]
    BY <1>6, <1>w, Zenon DEF Stop, To
  <2>3. \A w \in Workers : (Trying(w)' <=> Trying(w)) /\ (Passed(w)' <=> Passed(w)) /\ run'[w].at = run[w].at
    BY <2>2, Zenon DEF Trying, Passed
  <2>4. PoolInv'
    BY <2>1, <2>3, Zenon DEF PoolInv, Locked
  <2>5. Order' = Order
    BY <2>1, Zenon DEF Order
  <2> QED BY <2>1, <2>4, <2>5, Zenon DEF NoneLost
<1> QED BY <1>1, <1>2, <1>3, <1>4, <1>5, <1>6, Zenon DEF RepairStep

-----------------------------------------------------------------------------
(* The selectors. *)

\* The sides, and what the selectors are on each.
LEMMA SidesFit ==
  /\ \A s \in Sides : /\ Other(s) \in Sides /\ UDPOf(s) \in {"direct", "tunnel"} /\ Other(Other(s)) = s
                      /\ On(s).tcp = s /\ On(s).udp = UDPOf(s)
                      /\ UDPOf(s) = "tunnel" <=> s = "tunnel"
  /\ \A s, t \in Sides : s # t => s = Other(t)
BY Zenon DEF Sides, Other, UDPOf, On

\* Steps that leave the groups alone.
LEMMA GroupsLeft ==
  ASSUME GroupsTyped, GroupInv, UNCHANGED <<paths, sel, mover, disturbed>>,
         repair' # "done" \/ ~Remote' => Calm,
         repair' \in {"idle", "account", "preflight"} => ~Remote', repair' = "rebuild" => Remote'
  PROVE  GroupsTyped' /\ GroupInv'
<1>1. GroupsTyped'
  BY Zenon DEF GroupsTyped
<1>2. Calm' <=> Calm
  BY Zenon DEF Calm
<1>3. \A g \in Groups : Settled(g)'
  BY Zenon DEF GroupInv, Settled, Busy
<1>4. \A m \in Movers : Steady(m)'
  BY Zenon DEF GroupInv, Steady
<1> QED BY <1>1, <1>2, <1>3, <1>4, Zenon DEF GroupInv

\* Nobody moves a group while the gateway starts: every group is on the side of
\* its path.
LEMMA CalmIsSettled ==
  ASSUME GroupsTyped', \A m \in Movers : mover'[m] = NoMove, \A g \in Groups : sel'[g] = On(paths'[g])
  PROVE  (\A g \in Groups : Settled(g)') /\ (\A m \in Movers : Steady(m)')
<1>1. NoMove.group = None /\ None \notin Groups
  BY TunnelAssumption, Zenon DEF NoMove
<1> QED BY <1>1, Zenon DEF Settled, Steady

\* startSelective puts every group on the side of its path.
LEMMA StartSettles ==
  ASSUME NEW pths \in [Groups -> Sides], Start(pths)
  PROVE  /\ paths' = pths /\ \A g \in Groups : sel'[g] = On(pths[g])
         /\ sel' \in [Groups -> [tcp : Sides, udp : {"direct", "tunnel"}]]
<1>1. \A g \in Groups : pths[g] \in Sides
  OBVIOUS
<1>2. \A g \in Groups : sel'[g] = On(pths[g])
  BY <1>1, Zenon DEF Start, On, UDPOf, Sides
<1>3. \A s \in Sides : On(s) \in [tcp : Sides, udp : {"direct", "tunnel"}]
  BY Zenon DEF On, UDPOf, Sides
<1>4. sel' = [g \in Groups |-> sel'[g]]
  BY Zenon DEF Start
<1> QED BY <1>1, <1>2, <1>3, <1>4, Zenon DEF Start

\* The steps of a repair, and a stop, keep the groups on the sides of their paths.
LEMMA RepairKeepsGroups ==
  ASSUME Typed, RunInv, GroupsTyped, GroupInv, RepairStep
  PROVE  GroupsTyped' /\ GroupInv'
<1>r. ~Remote \/ Remote
  BY Zenon DEF Remote
<1>1. CASE (\E g \in Groups : Escalate(g)) \/ PreferReality \/ PrepareWARP \/ PreflightReturns
  <2>1. /\ UNCHANGED <<paths, sel, mover, disturbed>> /\ repair \in {"idle", "account", "preflight"}
        /\ \/ UNCHANGED provider /\ repair' # "rebuild"
           \/ repair' = "rebuild" /\ provider' \in {"warp", "reality"}
    BY <1>1, Zenon
      DEF Escalate, PreferReality, PrepareWARP, PreflightReturns, WithoutWARP, Rebuild, GiveUp, groupVars
  <2>2. Calm /\ ~Remote
    BY <2>1, Zenon DEF GroupInv
  <2>3. \/ ~Remote' /\ repair' # "rebuild"
        \/ Remote' /\ repair' = "rebuild"
    BY <2>1, <2>2, Zenon DEF Remote
  <2> QED BY <2>1, <2>2, <2>3, GroupsLeft, Zenon
<1>2. CASE GatewayFails
  <2>1. Locked
    BY <1>2, Zenon DEF GatewayFails, RunInv
  <2>2. Calm
    BY <2>1, Zenon DEF GroupInv, Locked
  <2>3. UNCHANGED <<paths, sel, mover, disturbed>> /\ repair' \in {"restore", "done"} /\ provider' \in {"desync", "none"}
    BY <1>2, Zenon DEF GatewayFails, groupVars
  <2>4. ~Remote'
    BY <2>3, Zenon DEF Remote
  <2> QED BY <2>2, <2>3, <2>4, GroupsLeft, Zenon
<1>3. CASE GatewayUp
  <2>1. Locked
    BY <1>3, Zenon DEF GatewayUp, RunInv
  <2>2. Calm /\ target \in Groups /\ (repair = "rebuild" => Remote)
    BY <2>1, Zenon DEF GroupInv, Locked, Typed
  <2> DEFINE pths == [paths EXCEPT ![target] = IF repair = "rebuild" THEN "tunnel" ELSE @]
  <2>3. Start(pths) /\ UNCHANGED <<provider, mover, disturbed>> /\ repair' = "done"
    BY <1>3, Zenon DEF GatewayUp
  <2>4. pths \in [Groups -> Sides] /\ (repair # "rebuild" => \A g \in Groups : pths[g] = "desync")
    BY <2>2, Zenon DEF GroupsTyped, Sides, Calm
  <2> HIDE DEF pths
  <2>5. /\ paths' = pths /\ \A g \in Groups : sel'[g] = On(pths[g])
        /\ sel' \in [Groups -> [tcp : Sides, udp : {"direct", "tunnel"}]]
    BY <2>3, <2>4, StartSettles, Zenon
  <2>6. GroupsTyped'
    BY <2>3, <2>4, <2>5, Zenon DEF GroupsTyped
  <2>7. (\A g \in Groups : Settled(g)') /\ (\A m \in Movers : Steady(m)')
    BY <2>2, <2>3, <2>5, <2>6, CalmIsSettled, Zenon DEF Calm
  <2>8. Remote' = Remote /\ (~Remote => Calm')
    BY <2>2, <2>3, <2>4, <2>5, Zenon DEF Calm, Remote
  <2> QED BY <2>3, <2>6, <2>7, <2>8, Zenon DEF GroupInv
<1>4. CASE Stop
  <2> DEFINE pths == [g \in Groups |-> "desync"]
  <2>1. /\ Start(pths) /\ provider' = "none" /\ UNCHANGED repair /\ ~Locked
        /\ mover' = [m \in Movers |-> NoMove] /\ disturbed' = [g \in Groups |-> FALSE]
    BY <1>4, Zenon DEF Stop, repairVars
  <2>2. pths \in [Groups -> Sides] /\ \A g \in Groups : pths[g] = "desync"
    BY Zenon DEF Sides
  <2> HIDE DEF pths
  <2>3. /\ paths' = pths /\ \A g \in Groups : sel'[g] = On(pths[g])
        /\ sel' \in [Groups -> [tcp : Sides, udp : {"direct", "tunnel"}]]
    BY <2>1, <2>2, StartSettles, Zenon
  <2>4. \A m \in Movers : mover'[m] = NoMove
    BY <2>1, Zenon
  <2>5. GroupsTyped'
    <3>1. NoMove \in Moves
      BY Zenon DEF NoMove, Moves
    <3> QED BY <2>1, <2>2, <2>3, <2>4, <3>1, Zenon DEF GroupsTyped
  <2>6. (\A g \in Groups : Settled(g)') /\ (\A m \in Movers : Steady(m)')
    BY <2>3, <2>4, <2>5, CalmIsSettled, Zenon
  <2>7. ~Remote' /\ Calm' /\ repair' # "rebuild"
    BY <2>1, <2>2, <2>3, <2>4, Zenon DEF Calm, Remote, Locked
  <2> QED BY <2>5, <2>6, <2>7, Zenon DEF GroupInv
<1> QED BY <1>1, <1>2, <1>3, <1>4, Zenon DEF RepairStep

\* A PUT that is applied sets one selector of one group.
LEMMA AppliedSets ==
  ASSUME GroupsTyped, NEW c \in Moves, c.group \in Groups, c.path \in Sides, c.pc # "idle", Applied(c)
  PROVE  /\ sel' \in [Groups -> [tcp : Sides, udp : {"direct", "tunnel"}]]
         /\ \A h \in Groups \ {c.group} : sel'[h] = sel[h]
         /\ Proto(c.pc) = "tcp" => sel'[c.group].tcp = Wanted(c) /\ sel'[c.group].udp = sel[c.group].udp
         /\ Proto(c.pc) = "udp" => sel'[c.group].udp = Wanted(c) /\ sel'[c.group].tcp = sel[c.group].tcp
<1>1. CASE c.pc \in {"udpPut", "udpGet"}
  <2>1. sel' = [sel EXCEPT ![c.group].udp = UDPOf(c.path)] /\ Wanted(c) = UDPOf(c.path) /\ Proto(c.pc) = "udp"
    BY <1>1, Zenon DEF Applied, Proto, Wanted
  <2>2. UDPOf(c.path) \in {"direct", "tunnel"}
    BY SidesFit, Zenon
  <2> QED BY <2>1, <2>2, Zenon DEF GroupsTyped
<1>2. CASE c.pc \in {"tcpPut", "tcpGet"}
  <2>1. sel' = [sel EXCEPT ![c.group].tcp = c.path] /\ Wanted(c) = c.path /\ Proto(c.pc) = "tcp"
    BY <1>2, Zenon DEF Applied, Proto, Wanted
  <2> QED BY <2>1, Zenon DEF GroupsTyped
<1>3. CASE c.pc \in {"backPut", "backGet"}
  <2>1. sel' = [sel EXCEPT ![c.group].tcp = Other(c.path)] /\ Wanted(c) = Other(c.path) /\ Proto(c.pc) = "tcp"
    BY <1>3, Zenon DEF Applied, Proto, Wanted
  <2>2. Other(c.path) \in Sides
    BY SidesFit, Zenon
  <2> QED BY <2>1, <2>2 DEF GroupsTyped
<1> QED BY <1>1, <1>2, <1>3, Zenon DEF Moves

\* A call moves a group only with a tunnel up.
LEMMA MoverAtWork ==
  ASSUME GroupsTyped, GroupInv, NEW m \in Movers, mover[m].pc # "idle"
  PROVE  /\ mover[m] \in Moves /\ mover[m].group \in Groups /\ mover[m].path \in Sides
         /\ repair = "done" /\ Remote
<1>1. mover[m] # NoMove
  BY DEF NoMove
<1>2. mover[m] \in Moves /\ mover[m].group \in Groups /\ mover[m].path \in Sides
  BY <1>1, Zenon DEF GroupsTyped
<1>3. ~Calm
  BY <1>1, Zenon DEF Calm
<1> QED BY <1>2, <1>3, Zenon DEF GroupInv

\* A call that stands still, of a group that nobody moves.
LEMMA SteadyStays ==
  ASSUME NEW n \in Movers, mover'[n] = mover[n], Steady(n),
         \A k \in Movers : mover'[k].group = mover[n].group /\ mover[n].group \in Groups
                             => mover[k].group = mover[n].group,
         mover[n].group \in Groups => /\ paths'[mover[n].group] = paths[mover[n].group]
                                      /\ sel'[mover[n].group] = sel[mover[n].group]
                                      /\ disturbed'[mover[n].group] = disturbed[mover[n].group]
  PROVE  Steady(n)'
<1>1. CASE mover[n].group \notin Groups
  BY <1>1, Zenon DEF Steady
<1>2. CASE mover[n].group \in Groups /\ mover[n].alone
  BY <1>2 DEF Steady
<1>3. CASE mover[n].group \in Groups /\ ~mover[n].alone
  BY <1>3, Zenon DEF Steady
<1> QED BY <1>1, <1>2, <1>3, Zenon

\* What a step of one call must see to, so that every group stays on the side of
\* its path: a call that is not alone leaves its group disturbed, one that ends
\* leaves both selectors on the side of the path, and one that goes on knows them.
LEMMA CallKeepsGroups ==
  ASSUME GroupsTyped, GroupInv, NEW m \in Movers, mover[m].pc # "idle", NEW d \in Moves,
         mover' = [mover EXCEPT ![m] = d], UNCHANGED <<repair, provider>>,
         \/ d = NoMove
         \/ d.pc # "idle" /\ d.group = mover[m].group /\ d.path = mover[m].path /\ d.alone = mover[m].alone,
         paths' \in [Groups -> Sides], sel' \in [Groups -> [tcp : Sides, udp : {"direct", "tunnel"}]],
         disturbed' \in [Groups -> BOOLEAN],
         \A h \in Groups \ {mover[m].group} :
           paths'[h] = paths[h] /\ sel'[h] = sel[h] /\ disturbed'[h] = disturbed[h],
         ~mover[m].alone => disturbed'[mover[m].group],
         mover[m].alone /\ d = NoMove /\ ~disturbed'[mover[m].group]
           => sel'[mover[m].group] = On(paths'[mover[m].group]),
         mover[m].alone /\ d # NoMove
           => /\ paths'[mover[m].group] = Other(mover[m].path)
              /\ d.pc \in {"udpPut", "udpGet"} => sel'[mover[m].group].tcp = mover[m].path
              /\ ~disturbed'[mover[m].group] => sel'[mover[m].group] = Midway(d)
  PROVE  GroupsTyped' /\ GroupInv'
<1>1. /\ mover[m] \in Moves /\ mover[m].group \in Groups /\ mover[m].path \in Sides
      /\ repair = "done" /\ Remote /\ Remote' = Remote /\ repair' = repair
  BY MoverAtWork, Zenon DEF Remote
<1>g. PICK g \in Groups : g = mover[m].group
  BY <1>1, Zenon
<1>2. mover' \in [Movers -> Moves] /\ mover'[m] = d /\ \A n \in Movers \ {m} : mover'[n] = mover[n]
  BY Zenon DEF GroupsTyped
<1>3. GroupsTyped'
  <2>1. \A n \in Movers : \/ mover'[n] = NoMove
                          \/ mover'[n].pc # "idle" /\ mover'[n].group \in Groups /\ mover'[n].path \in Sides
    BY <1>1, <1>2, Zenon DEF GroupsTyped
  <2> QED BY <1>2, <2>1, Zenon DEF GroupsTyped
<1>4. NoMove.group = None /\ None \notin Groups
  BY TunnelAssumption, Zenon DEF NoMove
<1>5. ASSUME NEW h \in Groups PROVE Settled(h)'
  <2>1. CASE h = g
    <3> SUFFICES ASSUME Busy(g)' = {}, ~disturbed'[g] PROVE sel'[g] = On(paths'[g])
      BY <1>g, <2>1, Zenon DEF Settled
    <3>1. d.group # g
      BY <1>2, Zenon DEF Busy
    <3> QED BY <1>g, <3>1, Zenon
  <2>2. CASE h # g
    <3>1. mover[m].group # h /\ d.group # h
      BY <1>g, <1>4, <2>2
    <3>2. Busy(h)' = Busy(h)
      BY <1>2, <3>1 DEF Busy
    <3>3. paths'[h] = paths[h] /\ sel'[h] = sel[h] /\ disturbed'[h] = disturbed[h] /\ Settled(h)
      BY <1>g, <2>2, Zenon DEF GroupInv
    <3> QED BY <3>2, <3>3, Zenon DEF Settled
  <2> QED BY <2>1, <2>2, Zenon
<1>6. ASSUME NEW n \in Movers PROVE Steady(n)'
  <2>1. CASE n = m /\ d = NoMove
    BY <1>2, <1>4, <2>1, Zenon DEF Steady
  <2>2. CASE n = m /\ d # NoMove
    <3>1. \A k \in Movers : mover'[k].group = g /\ mover[m].alone => k = m
      BY <1>g, <1>1, <1>2, Zenon DEF GroupInv, Steady
    <3>2. d.group = g /\ d.path = mover[m].path /\ d.alone = mover[m].alone
      BY <1>g, <2>2, Zenon
    <3> QED BY <1>g, <1>2, <2>2, <3>1, <3>2 DEF Steady
  <2>3. CASE n # m /\ mover[n].group = g
    <3>1. mover'[n] = mover[n]
      BY <1>2, <2>3, Zenon
    <3>2. ~mover[n].alone /\ ~mover[m].alone
      BY <1>g, <1>1, <2>3 DEF GroupInv, Steady
    <3> QED BY <1>g, <2>3, <3>1, <3>2, Zenon DEF Steady
  <2>4. CASE n # m /\ mover[n].group # g
    <3>1. mover'[n] = mover[n]
      BY <1>2, <2>4, Zenon
    <3>2. \A k \in Movers : mover'[k].group = mover[n].group /\ mover[n].group \in Groups
                              => mover[k].group = mover[n].group
      BY <1>g, <1>2, <1>4, <2>4, Zenon
    <3>3. mover[n].group \in Groups => /\ paths'[mover[n].group] = paths[mover[n].group]
                                       /\ sel'[mover[n].group] = sel[mover[n].group]
                                       /\ disturbed'[mover[n].group] = disturbed[mover[n].group]
      BY <1>g, <2>4, Zenon
    <3>4. Steady(n)
      BY Zenon DEF GroupInv
    <3> QED BY <3>1, <3>2, <3>3, <3>4, SteadyStays, Zenon
  <2> QED BY <2>1, <2>2, <2>3, <2>4, Zenon
<1> QED BY <1>1, <1>3, <1>5, <1>6, Zenon DEF GroupInv

\* A call that no longer has its group for itself.
LEMMA SharedMove ==
  ASSUME NEW c \in Moves
  PROVE  LET s == [c EXCEPT !.alone = FALSE]
         IN  s \in Moves /\ s.pc = c.pc /\ s.group = c.group /\ s.path = c.path /\ s.alone = FALSE
<1> DEFINE s == [c EXCEPT !.alone = FALSE]
<1>1. s.pc = c.pc /\ s.group = c.group /\ s.path = c.path /\ s.alone = FALSE
  BY DEF Moves
<1>2. s \in Moves
  BY Zenon DEF Moves
<1> QED BY <1>1, <1>2, Zenon

\* SetGroupPath begins.
LEMMA MoveBeginKeepsGroups ==
  ASSUME Typed, RunInv, GroupsTyped, GroupInv, NEW m \in Movers, NEW g \in Groups, NEW path \in Sides,
         MoveBegin(m, g, path)
  PROVE  GroupsTyped' /\ GroupInv'
<1> DEFINE d == [pc |-> "tcpPut", group |-> g, path |-> path, alone |-> Busy(g) = {}]
           n2(n) == [mover[n] EXCEPT !.alone = FALSE]
<1>0. /\ Open /\ Remote /\ mover[m] = NoMove /\ paths[g] # path /\ UNCHANGED <<paths, sel, repair, provider>>
      /\ mover' = [n \in Movers |-> IF n = m THEN d ELSE IF mover[n].group = g THEN n2(n) ELSE mover[n]]
      /\ disturbed' = [disturbed EXCEPT ![g] = @ \/ Busy(g) # {}]
  BY Zenon DEF MoveBegin, repairVars
<1>1. repair = "done" /\ Remote' = Remote
  BY <1>0, Zenon DEF GroupInv, RunInv, Open, Locked, Typed, Remote
<1>2. /\ d \in Moves /\ d.pc = "tcpPut" /\ d.group = g /\ d.path = path
      /\ d.alone \in BOOLEAN /\ (d.alone <=> Busy(g) = {})
  BY Zenon DEF Moves
<1>3. ASSUME NEW n \in Movers
      PROVE  n2(n) \in Moves /\ n2(n).pc = mover[n].pc /\ n2(n).group = mover[n].group /\ n2(n).path = mover[n].path
             /\ n2(n).alone = FALSE
  BY SharedMove, Zenon DEF GroupsTyped
<1>4. NoMove.group = None /\ None \notin Groups
  BY TunnelAssumption, Zenon DEF NoMove
<1> HIDE DEF d, n2
<1>5. /\ mover' \in [Movers -> Moves] /\ mover'[m] = d
      /\ \A n \in Movers \ {m} : mover'[n] = IF mover[n].group = g THEN n2(n) ELSE mover[n]
  BY <1>0, <1>2, <1>3, Zenon DEF GroupsTyped
<1>6. /\ disturbed' \in [Groups -> BOOLEAN] /\ (disturbed'[g] <=> disturbed[g] \/ Busy(g) # {})
      /\ \A h \in Groups \ {g} : disturbed'[h] = disturbed[h]
  BY <1>0, Zenon DEF GroupsTyped
<1>7. GroupsTyped'
  <2>1. \A n \in Movers : \/ mover'[n] = NoMove
                          \/ mover'[n].pc # "idle" /\ mover'[n].group \in Groups /\ mover'[n].path \in Sides
    <3> TAKE n \in Movers
    <3>1. CASE n = m
      BY <1>2, <1>5, <3>1, Zenon
    <3>2. CASE n # m /\ mover[n].group = g
      <4>1. mover[n] # NoMove
        BY <1>4, <3>2, Zenon
      <4>2. mover[n].pc # "idle" /\ mover[n].path \in Sides
        BY <4>1, Zenon DEF GroupsTyped
      <4> QED BY <1>3, <1>5, <3>2, <4>2, Zenon
    <3>3. CASE n # m /\ mover[n].group # g
      BY <1>5, <3>3, Zenon DEF GroupsTyped
    <3> QED BY <3>1, <3>2, <3>3, Zenon
  <2> QED BY <1>0, <1>5, <1>6, <2>1, Zenon DEF GroupsTyped
<1>8. \A n \in Movers \ {m} : mover'[n].group = mover[n].group
  BY <1>3, <1>5, Zenon
<1>9. ASSUME NEW h \in Groups PROVE Settled(h)'
  <2>1. CASE h = g
    BY <1>2, <1>5, <2>1, Zenon DEF Settled, Busy
  <2>2. CASE h # g
    <3>1. Busy(h)' = Busy(h)
      BY <1>0, <1>2, <1>4, <1>5, <1>8, <2>2, Zenon DEF Busy
    <3> QED BY <1>0, <1>6, <2>2, <3>1, Zenon DEF Settled, GroupInv
  <2> QED BY <2>1, <2>2, Zenon
<1>10. ASSUME NEW n \in Movers PROVE Steady(n)'
  <2>1. CASE n = m /\ Busy(g) = {}
    <3>1. \A k \in Movers : mover'[k].group = g => k = m
      BY <1>8, <2>1, Zenon DEF Busy
    <3>2. paths[g] = Other(path)
      BY <1>0, SidesFit, Zenon DEF GroupsTyped
    <3>3. ~disturbed'[g] => sel[g] = On(paths[g])
      BY <1>6, <2>1, Zenon DEF GroupInv, Settled
    <3>4. Midway(d) = On(Other(path))
      BY <1>2, Zenon DEF Midway, On
    <3> QED BY <1>0, <1>2, <1>5, <2>1, <3>1, <3>2, <3>3, <3>4 DEF Steady
  <2>2. CASE n = m /\ Busy(g) # {}
    BY <1>2, <1>5, <1>6, <2>2, Zenon DEF Steady
  <2>3. CASE n # m /\ mover[n].group = g
    <3>1. mover'[n].group = g /\ ~mover'[n].alone
      BY <1>3, <1>5, <2>3, Zenon
    <3>2. Busy(g) # {}
      BY <2>3, Zenon DEF Busy
    <3> QED BY <1>6, <3>1, <3>2, Zenon DEF Steady
  <2>4. CASE n # m /\ mover[n].group # g
    <3>1. mover'[n] = mover[n]
      BY <1>5, <2>4, Zenon
    <3>2. \A k \in Movers : mover'[k].group = mover[n].group /\ mover[n].group \in Groups
                              => mover[k].group = mover[n].group
      BY <1>2, <1>5, <1>8, <2>4, Zenon
    <3>3. mover[n].group \in Groups => disturbed'[mover[n].group] = disturbed[mover[n].group]
      BY <1>6, <2>4, Zenon
    <3>4. Steady(n)
      BY Zenon DEF GroupInv
    <3> QED BY <1>0, <3>1, <3>2, <3>3, <3>4, SteadyStays, Zenon
  <2> QED BY <2>1, <2>2, <2>3, <2>4, Zenon
<1> QED BY <1>0, <1>1, <1>7, <1>9, <1>10, Zenon DEF GroupInv

\* Two selectors are known by their values.
LEMMA SelectorsAre ==
  ASSUME NEW r \in [tcp : Sides, udp : {"direct", "tunnel"}], NEW x, NEW y
  PROVE  r = [tcp |-> x, udp |-> y] <=> r.tcp = x /\ r.udp = y
OBVIOUS

\* A call that fails ends, or goes back to the TCP selector.
LEMMA FailedCall ==
  ASSUME NEW c \in Moves, c.pc # "idle"
  PROVE  /\ CallFails(c) \in Moves
         /\ c.pc \notin {"udpPut", "udpGet"} => CallFails(c) = NoMove
         /\ c.pc \in {"udpPut", "udpGet"} =>
              /\ CallFails(c).pc = "backPut" /\ CallFails(c).group = c.group /\ CallFails(c).path = c.path
              /\ CallFails(c).alone = c.alone
<1>1. NoMove \in Moves
  BY Zenon DEF NoMove, Moves
<1>2. CASE c.pc \in {"udpPut", "udpGet"}
  <2>1. CallFails(c) = [c EXCEPT !.pc = "backPut"]
    BY <1>2, Zenon DEF CallFails, Proto
  <2> QED BY <1>2, <2>1, Zenon DEF Moves
<1>3. CASE c.pc \notin {"udpPut", "udpGet"}
  BY <1>1, <1>3, Zenon DEF CallFails, Proto
<1> QED BY <1>2, <1>3, Zenon

\* A selector is set.
LEMMA PutKeepsGroups ==
  ASSUME GroupsTyped, GroupInv, NEW m \in Movers, Put(m)
  PROVE  GroupsTyped' /\ GroupInv'
<1>1. /\ mover[m].pc \in {"tcpPut", "udpPut", "backPut"} /\ Applied(mover[m])
      /\ UNCHANGED <<repair, provider, paths, disturbed>>
      /\ mover' = [mover EXCEPT ![m] = [mover[m] EXCEPT !.pc = Next1(mover[m].pc)]]
  BY Zenon DEF Put, repairVars, GroupsTyped
<1>2. PICK c \in Moves : c = mover[m] /\ c.group \in Groups /\ c.path \in Sides
  BY <1>1, MoverAtWork, Zenon
<1> DEFINE d == [c EXCEPT !.pc = Next1(c.pc)]
<1>3. /\ d \in Moves /\ d.group = c.group /\ d.path = c.path /\ d.alone = c.alone /\ d.pc # "idle"
      /\ c.pc = "tcpPut" => d.pc = "tcpGet"
      /\ c.pc = "udpPut" => d.pc = "udpGet"
      /\ c.pc = "backPut" => d.pc = "backGet"
  BY <1>1, <1>2, Zenon DEF Moves, Next1
<1>4. mover' = [mover EXCEPT ![m] = d] /\ d # NoMove
  BY <1>1, <1>2, <1>3, Zenon DEF NoMove
<1> HIDE DEF d
<1>5. /\ sel' \in [Groups -> [tcp : Sides, udp : {"direct", "tunnel"}]]
      /\ \A h \in Groups \ {c.group} : sel'[h] = sel[h]
      /\ Proto(c.pc) = "tcp" => sel'[c.group].tcp = Wanted(c) /\ sel'[c.group].udp = sel[c.group].udp
      /\ Proto(c.pc) = "udp" => sel'[c.group].udp = Wanted(c) /\ sel'[c.group].tcp = sel[c.group].tcp
  BY <1>1, <1>2, AppliedSets, Zenon
<1>6. ~c.alone => disturbed[c.group]
  BY <1>2, Zenon DEF GroupInv, Steady
<1>7. ASSUME c.alone
      PROVE  /\ paths[c.group] = Other(c.path)
             /\ d.pc \in {"udpPut", "udpGet"} => sel'[c.group].tcp = c.path
             /\ ~disturbed[c.group] => sel'[c.group] = Midway(d)
  <2>1. /\ paths[c.group] = Other(c.path)
        /\ c.pc \in {"udpPut", "udpGet"} => sel[c.group].tcp = c.path
        /\ ~disturbed[c.group] => sel[c.group] = Midway(c)
    BY <1>2, <1>7, Zenon DEF GroupInv, Steady
  <2>2. d.pc \in {"udpPut", "udpGet"} => c.pc = "udpPut" /\ Proto(c.pc) = "udp"
    BY <1>1, <1>2, <1>3, Zenon DEF Proto
  <2>3. ASSUME ~disturbed[c.group] PROVE sel'[c.group] = Midway(d)
    <3>1. sel[c.group].tcp = Midway(c).tcp /\ sel[c.group].udp = Midway(c).udp
      BY <2>1, <2>3, Zenon
    <3>2. sel'[c.group].tcp = Midway(d).tcp /\ sel'[c.group].udp = Midway(d).udp
      BY <1>1, <1>2, <1>3, <1>5, <3>1, Zenon DEF Midway, Proto, Wanted
    <3>3. sel'[c.group] \in [tcp : Sides, udp : {"direct", "tunnel"}]
      BY <1>2, <1>5, Zenon
    <3> QED BY <3>2, <3>3, SelectorsAre, Zenon DEF Midway
  <2> QED BY <1>5, <2>1, <2>2, <2>3, Zenon
<1>8. paths' = paths /\ disturbed' = disturbed /\ mover[m].pc # "idle" /\ UNCHANGED <<repair, provider>>
      /\ paths \in [Groups -> Sides] /\ disturbed \in [Groups -> BOOLEAN]
  BY <1>1, Zenon DEF GroupsTyped
<1> QED BY <1>2, <1>3, <1>4, <1>5, <1>6, <1>7, <1>8, CallKeepsGroups, Zenon

\* A PUT fails, or only its response is lost.
LEMMA PutFailsKeepsGroups ==
  ASSUME GroupsTyped, GroupInv, NEW m \in Movers, PutFails(m)
  PROVE  GroupsTyped' /\ GroupInv'
<1>1. /\ mover[m].pc \in {"tcpPut", "udpPut", "backPut"}
      /\ UNCHANGED <<repair, provider, paths>> /\ mover' = [mover EXCEPT ![m] = CallFails(mover[m])]
      /\ \/ UNCHANGED sel /\ disturbed' = [disturbed EXCEPT ![mover[m].group] = @ \/ mover[m].pc = "backPut"]
         \/ Applied(mover[m]) /\ disturbed' = [disturbed EXCEPT ![mover[m].group] = TRUE]
  BY Zenon DEF PutFails, repairVars
<1>2. PICK c \in Moves : c = mover[m] /\ c.group \in Groups /\ c.path \in Sides
  BY <1>1, MoverAtWork, Zenon
<1> DEFINE d == CallFails(c)
<1>3. /\ d \in Moves /\ mover' = [mover EXCEPT ![m] = d]
      /\ d # NoMove => c.pc = "udpPut" /\ d.pc = "backPut" /\ d.group = c.group /\ d.path = c.path /\ d.alone = c.alone
      /\ c.pc = "udpPut" => d # NoMove
  <2>1. c.pc # "idle" /\ c.pc # "udpGet"
    BY <1>1, <1>2, Zenon
  <2>2. /\ d \in Moves /\ (c.pc # "udpPut" => d = NoMove)
        /\ c.pc = "udpPut" => d.pc = "backPut" /\ d.group = c.group /\ d.path = c.path /\ d.alone = c.alone
    BY <2>1, FailedCall, Zenon
  <2>3. NoMove.pc = "idle"
    BY Zenon DEF NoMove
  <2>4. mover' = [mover EXCEPT ![m] = d]
    BY <1>1, <1>2, Zenon
  <2> HIDE DEF d
  <2> QED BY <2>2, <2>3, <2>4, Zenon
<1> HIDE DEF d
<1>4. /\ sel' \in [Groups -> [tcp : Sides, udp : {"direct", "tunnel"}]]
      /\ \A h \in Groups \ {c.group} : sel'[h] = sel[h]
  BY <1>1, <1>2, AppliedSets, Zenon DEF GroupsTyped
<1>5. /\ disturbed' \in [Groups -> BOOLEAN] /\ \A h \in Groups \ {c.group} : disturbed'[h] = disturbed[h]
      /\ disturbed[c.group] \/ c.pc = "backPut" => disturbed'[c.group]
      /\ ~disturbed'[c.group] => UNCHANGED sel
  BY <1>1, <1>2, Zenon DEF GroupsTyped
<1>6. ~c.alone => disturbed[c.group]
  BY <1>2, Zenon DEF GroupInv, Steady
<1>7. ASSUME c.alone
      PROVE  /\ paths[c.group] = Other(c.path)
             /\ ~disturbed'[c.group] => sel'[c.group] = Midway(c)
  BY <1>2, <1>5, <1>7, Zenon DEF GroupInv, Steady
<1>8. ASSUME c.alone, d = NoMove, ~disturbed'[c.group] PROVE sel'[c.group] = On(paths[c.group])
  <2>1. c.pc = "tcpPut"
    BY <1>1, <1>2, <1>3, <1>5, <1>8, Zenon
  <2>2. Midway(c) = On(Other(c.path))
    BY <2>1, Zenon DEF Midway, On
  <2> QED BY <1>7, <1>8, <2>2, Zenon
<1>9. ASSUME c.alone, d # NoMove, ~disturbed'[c.group] PROVE sel'[c.group] = Midway(d)
  <2>1. Midway(d) = Midway(c)
    BY <1>3, <1>9, Zenon DEF Midway
  <2> QED BY <1>7, <1>9, <2>1, Zenon
<1>10. paths' = paths /\ mover[m].pc # "idle" /\ UNCHANGED <<repair, provider>> /\ paths \in [Groups -> Sides]
  BY <1>1, Zenon DEF GroupsTyped
<1>11. d # NoMove => d.pc # "idle" /\ d.pc \notin {"udpPut", "udpGet"}
  BY <1>3, Zenon
<1> QED BY <1>2, <1>3, <1>4, <1>5, <1>6, <1>7, <1>8, <1>9, <1>10, <1>11, CallKeepsGroups

\* A selector is read back as it was set.
LEMMA GetAgreesKeepsGroups ==
  ASSUME GroupsTyped, GroupInv, NEW m \in Movers, GetAgrees(m)
  PROVE  GroupsTyped' /\ GroupInv'
<1>1. /\ mover[m].pc \in {"tcpGet", "udpGet", "backGet"} /\ UNCHANGED <<repair, provider, sel>>
      /\ sel[mover[m].group][Proto(mover[m].pc)] = Wanted(mover[m])
      /\ mover' = [mover EXCEPT ![m] = IF mover[m].pc = "tcpGet" THEN [mover[m] EXCEPT !.pc = "udpPut"] ELSE NoMove]
      /\ paths' = [paths EXCEPT ![mover[m].group] = IF mover[m].pc = "udpGet" THEN mover[m].path ELSE @]
      /\ disturbed' = [disturbed EXCEPT ![mover[m].group] = @ /\ ~(mover[m].pc = "udpGet" /\ mover[m].alone)]
  BY Zenon DEF GetAgrees, repairVars
<1>2. PICK c \in Moves : c = mover[m] /\ c.group \in Groups /\ c.path \in Sides
  BY <1>1, MoverAtWork, Zenon
<1>3. PICK d \in Moves :
        /\ mover' = [mover EXCEPT ![m] = d]
        /\ c.pc # "tcpGet" => d = NoMove
        /\ c.pc = "tcpGet" => d.pc = "udpPut" /\ d.group = c.group /\ d.path = c.path /\ d.alone = c.alone
  <2>1. CASE c.pc = "tcpGet"
    <3> DEFINE r == [c EXCEPT !.pc = "udpPut"]
    <3>1. r \in Moves /\ r.pc = "udpPut" /\ r.group = c.group /\ r.path = c.path /\ r.alone = c.alone
      BY Zenon DEF Moves
    <3>2. mover' = [mover EXCEPT ![m] = r]
      BY <1>1, <1>2, <2>1, Zenon
    <3> HIDE DEF r
    <3> QED BY <2>1, <3>1, <3>2, Zenon
  <2>2. CASE c.pc # "tcpGet"
    <3>1. NoMove \in Moves
      BY Zenon DEF NoMove, Moves
    <3> QED BY <1>1, <1>2, <2>2, <3>1, Zenon
  <2> QED BY <2>1, <2>2, Zenon
<1>4. d # NoMove => c.pc = "tcpGet"
  BY <1>3, Zenon
<1>5. /\ paths' \in [Groups -> Sides] /\ \A h \in Groups \ {c.group} : paths'[h] = paths[h]
      /\ c.pc = "udpGet" => paths'[c.group] = c.path
      /\ c.pc # "udpGet" => paths'[c.group] = paths[c.group]
  BY <1>1, <1>2, Zenon DEF GroupsTyped
<1>6. /\ disturbed' \in [Groups -> BOOLEAN] /\ \A h \in Groups \ {c.group} : disturbed'[h] = disturbed[h]
      /\ ~(c.pc = "udpGet" /\ c.alone) => disturbed'[c.group] = disturbed[c.group]
  BY <1>1, <1>2, Zenon DEF GroupsTyped
<1>7. ~c.alone => disturbed'[c.group]
  BY <1>2, <1>6, Zenon DEF GroupInv, Steady
<1>8. sel' = sel /\ sel \in [Groups -> [tcp : Sides, udp : {"direct", "tunnel"}]]
  BY <1>1, Zenon DEF GroupsTyped
<1>9. ASSUME c.alone
      PROVE  /\ paths[c.group] = Other(c.path)
             /\ c.pc = "udpGet" => sel[c.group].tcp = c.path
             /\ ~disturbed[c.group] => sel[c.group] = Midway(c)
  BY <1>2, <1>9, Zenon DEF GroupInv, Steady
<1>10. ASSUME c.alone, d = NoMove, ~disturbed'[c.group] PROVE sel[c.group] = On(paths'[c.group])
  <2>1. CASE c.pc = "udpGet"
    <3>1. sel[c.group].udp = UDPOf(c.path)
      BY <1>1, <1>2, <2>1, Zenon DEF Proto, Wanted
    <3> QED BY <1>2, <1>5, <1>8, <1>9, <1>10, <2>1, <3>1, SelectorsAre DEF On
  <2>2. CASE c.pc = "backGet"
    <3>1. Midway(c) = On(Other(c.path))
      BY <2>2, Zenon DEF Midway, On
    <3> QED BY <1>5, <1>6, <1>9, <1>10, <2>2, <3>1, Zenon
  <2>3. c.pc # "tcpGet"
    <3>1. NoMove.pc = "idle"
      BY Zenon DEF NoMove
    <3> QED BY <1>3, <1>10, <3>1, Zenon
  <2> QED BY <1>1, <1>2, <2>1, <2>2, <2>3, Zenon
<1>11. ASSUME c.alone, d # NoMove
       PROVE  /\ paths'[c.group] = Other(c.path)
              /\ sel[c.group].tcp = c.path
              /\ ~disturbed'[c.group] => sel[c.group] = Midway(d)
  <2>1. c.pc = "tcpGet" /\ d.pc = "udpPut" /\ d.path = c.path
    BY <1>3, <1>4, <1>11, Zenon
  <2>2. sel[c.group].tcp = c.path
    BY <1>1, <1>2, <2>1, Zenon DEF Proto, Wanted
  <2>3. Midway(d) = Midway(c)
    BY <2>1, Zenon DEF Midway
  <2> QED BY <1>5, <1>6, <1>9, <1>11, <2>1, <2>2, <2>3, Zenon
<1>12. mover[m].pc # "idle" /\ UNCHANGED <<repair, provider>> /\ (d # NoMove => d.pc # "idle")
  BY <1>1, <1>3, <1>4, Zenon
<1>13. d = NoMove \/ (d.pc # "idle" /\ d.group = c.group /\ d.path = c.path /\ d.alone = c.alone)
  BY <1>3, <1>4, Zenon
<1> QED BY <1>2, <1>3, <1>5, <1>6, <1>7, <1>8, <1>10, <1>11, <1>12, <1>13, CallKeepsGroups

\* A selector could not be read back, or is not what was set.
LEMMA GetFailsKeepsGroups ==
  ASSUME GroupsTyped, GroupInv, NEW m \in Movers, GetFails(m)
  PROVE  GroupsTyped' /\ GroupInv'
<1>1. /\ mover[m].pc \in {"tcpGet", "udpGet", "backGet"} /\ UNCHANGED <<repair, provider, paths, sel>>
      /\ mover' = [mover EXCEPT ![m] = CallFails(mover[m])]
      /\ disturbed' = [disturbed EXCEPT ![mover[m].group] = @ \/ mover[m].pc # "backGet"]
  BY Zenon DEF GetFails, repairVars
<1>2. PICK c \in Moves : c = mover[m] /\ c.group \in Groups /\ c.path \in Sides
  BY <1>1, MoverAtWork, Zenon
<1> DEFINE d == CallFails(c)
<1>3. c.pc # "idle" /\ c.pc # "udpPut" /\ mover' = [mover EXCEPT ![m] = d]
  BY <1>1, <1>2, Zenon
<1>4. /\ d \in Moves /\ (c.pc # "udpGet" => d = NoMove)
      /\ c.pc = "udpGet" => d.pc = "backPut" /\ d.group = c.group /\ d.path = c.path /\ d.alone = c.alone
  BY <1>3, FailedCall, Zenon
<1> HIDE DEF d
<1>5. /\ disturbed' \in [Groups -> BOOLEAN] /\ \A h \in Groups \ {c.group} : disturbed'[h] = disturbed[h]
      /\ disturbed[c.group] \/ c.pc # "backGet" => disturbed'[c.group]
  BY <1>1, <1>2, Zenon DEF GroupsTyped
<1>6. ~c.alone => disturbed[c.group]
  BY <1>2, Zenon DEF GroupInv, Steady
<1>7. ASSUME c.alone
      PROVE  /\ paths[c.group] = Other(c.path)
             /\ ~disturbed[c.group] => sel[c.group] = Midway(c)
  BY <1>2, <1>7, Zenon DEF GroupInv, Steady
<1>8. ASSUME c.alone, ~disturbed'[c.group] PROVE sel[c.group] = On(paths[c.group])
  <2>1. c.pc = "backGet" /\ ~disturbed[c.group]
    BY <1>5, <1>8, Zenon
  <2>2. Midway(c) = On(Other(c.path))
    BY <2>1, Zenon DEF Midway, On
  <2> QED BY <1>7, <1>8, <2>1, <2>2, Zenon
<1>9. ~disturbed'[c.group] => d = NoMove
  BY <1>4, <1>5, Zenon
<1>10. /\ paths' = paths /\ sel' = sel /\ mover[m].pc # "idle" /\ UNCHANGED <<repair, provider>>
       /\ paths \in [Groups -> Sides] /\ sel \in [Groups -> [tcp : Sides, udp : {"direct", "tunnel"}]]
  BY <1>1, Zenon DEF GroupsTyped
<1>11. d = NoMove \/ (d.pc # "idle" /\ d.group = c.group /\ d.path = c.path /\ d.alone = c.alone)
  BY <1>4, Zenon
<1>12. d # NoMove => d.pc \notin {"udpPut", "udpGet"}
  BY <1>4, Zenon
<1> QED BY <1>2, <1>3, <1>4, <1>5, <1>6, <1>7, <1>8, <1>9, <1>10, <1>11, <1>12, CallKeepsGroups, Zenon

-----------------------------------------------------------------------------
(* Every step. *)

MoveStep(m) ==
  \/ \E g \in Groups, path \in Sides : MoveBegin(m, g, path)
  \/ Put(m) \/ PutFails(m) \/ GetAgrees(m) \/ GetFails(m)

\* The invariant holds at first.
LEMMA InitIInv == Init => IInv
<1> SUFFICES ASSUME Init PROVE IInv
  OBVIOUS
<1> DEFINE gw == [NoRun EXCEPT !.pc = "open", !.file = TRUE, !.proc = TRUE]
<1>1. gw \in Runs /\ gw.pc = "open"
  BY Zenon DEF NoRun, Runs, Pcs
<1>2. run = [p \in Starts |-> IF p = "gw" THEN gw ELSE NoRun]
  BY Zenon DEF Init
<1> HIDE DEF gw
<1>3. run \in [Starts -> Runs] /\ run["gw"] = gw /\ \A w \in Workers : run[w] = NoRun
  BY <1>1, <1>2, FreshRuns, TunnelAssumption, Zenon DEF Starts
<1>4. Candidates[Len(Candidates)] \in Endpoints
  BY TunnelAssumption DEF Endpoints
<1>5. Typed
  BY <1>3, <1>4, Zenon DEF Init, Typed
<1>6. \A p \in Starts : run[p] = NoRun \/ run[p].pc = "open"
  BY <1>1, <1>2, Zenon
<1>7. RunInv
  BY <1>1, <1>3, <1>6, FreshRuns, Zenon DEF Init, RunInv, Locked
<1>8. PoolInv /\ NoneLost
  <2>1. \A w \in Workers : ~Trying(w) /\ ~Passed(w)
    BY <1>3, NobodyTries, Zenon
  <2> QED BY <2>1, Zenon DEF Init, PoolInv, NoneLost
<1>9. sel \in [Groups -> [tcp : Sides, udp : {"direct", "tunnel"}]] /\ \A g \in Groups : sel[g] = On("desync")
  BY Zenon DEF Init, Unselected, On, UDPOf, Sides
<1>10. /\ \A g \in Groups : paths[g] = "desync"
       /\ \A m \in Movers : mover[m] = NoMove
       /\ NoMove \in Moves /\ NoMove.group = None /\ None \notin Groups
  BY TunnelAssumption, Zenon DEF Init, NoMove, Moves
<1>11. GroupsTyped
  BY <1>9, <1>10, Zenon DEF Init, GroupsTyped, Sides
<1>12. GroupInv
  BY <1>9, <1>10, Zenon DEF Init, GroupInv, Calm, Remote, Settled, Steady
<1> QED BY <1>5, <1>7, <1>8, <1>11, <1>12, Zenon DEF IInv

\* Every step preserves the invariant.
LEMMA Invariance == IInv /\ [Next]_vars => IInv'
<1> SUFFICES ASSUME IInv, [Next]_vars PROVE IInv'
  OBVIOUS
<1>0. Typed /\ RunInv /\ PoolInv /\ NoneLost /\ GroupsTyped /\ GroupInv
  BY Zenon DEF IInv
<1>u. ASSUME UNCHANGED <<paths, sel, mover, disturbed, repair, provider>> PROVE GroupsTyped' /\ GroupInv'
  <2>1. Remote' = Remote
    BY <1>u, Zenon DEF Remote
  <2>2. /\ repair' # "done" \/ ~Remote' => Calm
        /\ repair' \in {"idle", "account", "preflight"} => ~Remote'
        /\ repair' = "rebuild" => Remote'
    BY <1>0, <1>u, <2>1, Zenon DEF GroupInv
  <2> QED BY <1>0, <1>u, <2>2, GroupsLeft, Zenon
<1>1. ASSUME NEW p \in Starts, StartStep(p) PROVE IInv'
  <2>1. UNCHANGED <<paths, sel, mover, disturbed, repair, provider>>
    BY <1>0, <1>1, StartMoves, Zenon DEF repairVars, groupVars
  <2> QED BY <1>0, <1>1, <1>u, <2>1, StartKeepsRuns, StartKeepsPool, Zenon DEF IInv
<1>2. ASSUME NEW w \in Workers, WorkerStep(w) PROVE IInv'
  <2>1. UNCHANGED <<paths, sel, mover, disturbed, repair, provider>>
    BY <1>0, <1>2, WorkerMoves, Zenon DEF repairVars, groupVars
  <2>2. PoolInv' /\ NoneLost'
    BY <1>0, <1>2, TakeJobKeepsPool, QuitKeepsPool, TrialKeepsPool, Zenon DEF WorkerStep
  <2> QED BY <1>0, <1>2, <1>u, <2>1, <2>2, WorkerKeepsRuns, Zenon DEF IInv
<1>3. CASE ProducerEnds \/ BudgetEnds
  <2>1. UNCHANGED <<paths, sel, mover, disturbed, repair, provider, run, live, remembered, target>>
        /\ budget' \in {budget, "over"} /\ feed' \in {feed, 0}
    BY <1>3, Zenon DEF ProducerEnds, BudgetEnds, repairVars, groupVars
  <2>2. Locked' = Locked
    BY <2>1, Zenon DEF Locked
  <2>3. Typed' /\ RunInv'
    <3>1. /\ remembered' \in Endpoints \cup {None} /\ budget' \in {"none", "open", "over"} /\ feed' \in Nat
          /\ repair' \in {"idle", "account", "preflight", "rebuild", "restore", "done"}
          /\ repair' # "idle" => target' \in Groups
          /\ repair' # "preflight" => \A w \in Workers : run[w] = NoRun
      BY <1>0, <2>1 DEF Typed, RunInv
    <3> QED BY <1>0, <2>1, <2>2, <3>1, RunsLeft, Zenon
  <2> QED BY <1>0, <1>3, <1>u, <2>1, <2>3, ProducerKeepsPool, Zenon DEF IInv
<1>4. CASE RepairStep
  BY <1>0, <1>4, RepairKeepsRuns, RepairKeepsPool, RepairKeepsGroups, Zenon DEF IInv
<1>5. ASSUME UNCHANGED <<live, run, provider, poolVars, repairVars>> PROVE Typed' /\ RunInv' /\ PoolInv' /\ NoneLost'
  <2>1. UNCHANGED <<live, run, provider, budget, feed, winner, passed, tried, answer, remembered, repair, target>>
    BY <1>5, Zenon DEF poolVars, repairVars
  <2>2. Typed'
    BY <1>0, <2>1, Zenon DEF Typed
  <2>3. RunInv'
    BY <1>0, <2>1, Zenon DEF RunInv, Locked
  <2>4. PoolInv'
    BY <1>0, <2>1, Zenon DEF PoolInv, Trying, Passed
  <2>5. NoneLost'
    BY <1>0, <2>1 DEF NoneLost, Trying, Order
  <2> QED BY <2>2, <2>3, <2>4, <2>5, Zenon
<1>6. ASSUME NEW m \in Movers, MoveStep(m) PROVE IInv'
  <2>1. UNCHANGED <<live, run, provider, poolVars, repairVars>>
    BY <1>6, Zenon DEF MoveStep, MoveBegin, Put, PutFails, GetAgrees, GetFails
  <2>2. GroupsTyped' /\ GroupInv'
    BY <1>0, <1>6, MoveBeginKeepsGroups, PutKeepsGroups, PutFailsKeepsGroups, GetAgreesKeepsGroups,
       GetFailsKeepsGroups, Zenon DEF MoveStep
  <2> QED BY <1>5, <2>1, <2>2, Zenon DEF IInv
<1>7. CASE UNCHANGED vars
  <2>1. UNCHANGED <<live, run, provider, poolVars, repairVars>> /\ UNCHANGED <<paths, sel, mover, disturbed, repair, provider>>
    BY <1>7, Zenon DEF vars, repairVars, groupVars
  <2> QED BY <1>5, <1>u, <2>1, Zenon DEF IInv
<1>8. \/ \E p \in Starts : StartStep(p)
      \/ \E w \in Workers : WorkerStep(w)
      \/ ProducerEnds \/ BudgetEnds \/ RepairStep
      \/ \E m \in Movers : MoveStep(m)
      \/ UNCHANGED vars
  <2>1. "gw" \in Starts /\ \A w \in Workers : w \in Starts
    BY Zenon DEF Starts
  <2> QED BY <2>1, Zenon DEF Next, StartStep, WorkerStep, RepairStep, MoveStep
<1> QED BY <1>1, <1>2, <1>3, <1>4, <1>6, <1>7, <1>8, Zenon

\* The invariant holds in every behaviour.
LEMMA IInvHolds == Spec => []IInv
BY InitIInv, Invariance, PTL DEF Spec

-----------------------------------------------------------------------------
(* The properties. *)

\* Whatever fails on the way, no configuration file and no process is left of a
\* start that ended, of a preflight that returned or of a gateway that was closed.
THEOREM StartsLeaveNothing == Spec => []NothingLeftBehind
<1>1. IInv => NothingLeftBehind
  BY FreshRuns, Zenon DEF IInv, RunInv, NothingLeftBehind
<1> QED BY <1>1, IInvHolds, PTL

\* PreflightWARP pins an endpoint that passed, fails only if none did, and is
\* exhausted only after every endpoint was tried: for any list of endpoints, any
\* number of workers and any order in which the trials end.
THEOREM EndpointIsVerified == Spec => []PinnedIsVerified
<1>1. IInv => PinnedIsVerified
  <2> SUFFICES ASSUME IInv PROVE PinnedIsVerified
    OBVIOUS
  <2>0. Typed /\ RunInv /\ PoolInv /\ NoneLost
    BY Zenon DEF IInv
  <2>1. answer = "pinned" => winner \in passed /\ winner \in tried /\ remembered = winner
    BY <2>0, Zenon DEF PoolInv
  <2>2. answer = "failed" => passed = {}
    <3> SUFFICES ASSUME answer = "failed" PROVE passed = {}
      OBVIOUS
    <3>1. repair # "preflight" /\ winner = None
      BY <2>0, Zenon DEF PoolInv
    <3>2. \A w \in Workers : ~Passed(w)
      BY <2>0, <3>1, NobodyTries, Zenon DEF RunInv
    <3> QED BY <2>0, <3>1, <3>2, Zenon DEF PoolInv
  <2>3. ASSUME repair = "preflight", \A w \in Workers : run[w].pc = "none", budget # "over"
        PROVE  tried = Endpoints
    <3>1. budget = "open" /\ feed = 0
      BY <2>0, <2>3, TunnelAssumption, Zenon DEF Typed, NoneLost
    <3>2. \A i \in DOMAIN Order : Order[i] \in tried
      BY <2>0, <2>3, <3>1, Zenon DEF NoneLost, Trying
    <3>3. Endpoints \subseteq tried
      BY <2>0, <3>2, OrderHasAll, Zenon
    <3> QED BY <2>0, <3>3, Zenon DEF PoolInv
  <2>4. repair = "rebuild" /\ provider = "warp" => answer = "pinned"
    BY <2>0, Zenon DEF PoolInv
  <2> QED BY <2>1, <2>2, <2>3, <2>4, Zenon DEF PinnedIsVerified
<1> QED BY <1>1, IInvHolds, PTL

\* Two lists, one after the other.
Joined(a, b) == a \o b

\* The elements of two lists, one after the other.
LEMMA JoinedLists ==
  ASSUME NEW R, NEW a \in Seq(R), NEW b \in Seq(R)
  PROVE  /\ Joined(a, b) \in Seq(R) /\ Len(Joined(a, b)) = Len(a) + Len(b)
         /\ \A i \in 1..Len(a) : Joined(a, b)[i] = a[i]
         /\ Len(b) > 0 => Joined(a, b)[Len(a) + 1] = b[1]
<1>1. Len(a) \in Nat /\ Len(b) \in Nat /\ Len(a \o b) = Len(a) + Len(b)
  OBVIOUS
<1>2. \A i \in 1..Len(a) : (a \o b)[i] = a[i]
  OBVIOUS
<1>3. ASSUME Len(b) > 0 PROVE (a \o b)[Len(a) + 1] = b[1]
  <2>1. \A i \in 1..Len(a) + Len(b) : i > Len(a) => (a \o b)[i] = b[i - Len(a)]
    OBVIOUS
  <2>2. Len(a) + 1 \in 1..Len(a) + Len(b) /\ Len(a) + 1 > Len(a) /\ (Len(a) + 1) - Len(a) = 1
    BY <1>1, <1>3
  <2> QED BY <2>1, <2>2, Zenon
<1>4. a \o b \in Seq(R)
  OBVIOUS
<1> QED BY <1>1, <1>2, <1>3, <1>4, Zenon DEF Joined

\* A list and the one element that follows it.
LEMMA OneMore ==
  ASSUME NEW R, NEW a \in Seq(R), NEW b \in Seq(R), Len(b) = 1
  PROVE  /\ Joined(a, b) \in Seq(R) /\ Len(Joined(a, b)) = Len(a) + 1
         /\ \A i \in 1..Len(a) : Joined(a, b)[i] = a[i]
         /\ Joined(a, b)[Len(a) + 1] = b[1]
<1>1. /\ Joined(a, b) \in Seq(R) /\ Len(Joined(a, b)) = Len(a) + Len(b)
      /\ \A i \in 1..Len(a) : Joined(a, b)[i] = a[i]
      /\ Len(b) > 0 => Joined(a, b)[Len(a) + 1] = b[1]
  BY JoinedLists, Zenon
<1>2. Len(b) > 0
  OBVIOUS
<1>3. Len(Joined(a, b)) = Len(a) + 1
  BY <1>1, Zenon
<1> QED BY <1>1, <1>2, <1>3, Zenon

\* Short lists.
LEMMA ShortLists ==
  /\ \A R : \A a, b, c, d, e \in R : <<a, b, c, d, e>> \in Seq(R) /\ Len(<<a, b, c, d, e>>) = 5
  /\ \A R : \A a \in R : <<a>> \in Seq(R) /\ Len(<<a>>) = 1
OBVIOUS

\* The rules, one by one.
LEMMA RulesAre ==
  /\ DOMAIN Rules(TRUE) = 1..7 /\ DOMAIN Rules(FALSE) = 1..6
  /\ \A i \in 1..5 : Rules(TRUE)[i] = LocalRules[i] /\ Rules(FALSE)[i] = LocalRules[i]
  /\ Rules(TRUE)[6] = GroupRules[1] /\ Rules(TRUE)[7] = WebRules[1] /\ Rules(FALSE)[6] = WebRules[1]
<1> DEFINE Outs == {"dns", "drop", "direct", "selector", "desync"}
           R == [match : SUBSET Packets, out : Outs]
<1>0. \A S \in SUBSET Packets, out \in Outs : Rule(S, out) \in R
  BY Zenon DEF Rule
<1>s. "dns" \in Outs /\ "drop" \in Outs /\ "direct" \in Outs /\ "selector" \in Outs /\ "desync" \in Outs
  OBVIOUS
<1> HIDE DEF R, Outs
<1>1. LocalRules \in Seq(R) /\ Len(LocalRules) = 5
  <2>1. /\ Rule({p \in Packets : p.proto = "dns"}, "dns") \in R
        /\ Rule({p \in Packets : p.dest = "tun"}, "drop") \in R
        /\ Rule({p \in Packets : p.dest = "private"}, "direct") \in R
        /\ Rule({p \in Packets : p.dest = "peer"}, "direct") \in R
        /\ Rule({p \in Packets : p.name = "exempt"}, "direct") \in R
    BY <1>0, <1>s, Zenon
  <2> QED BY <2>1, ShortLists, Zenon DEF LocalRules
<1>2. GroupRules \in Seq(R) /\ Len(GroupRules) = 1
  <2>1. Rule({p \in Packets : p.name \in Groups /\ p.proto \in {"tcp", "udp"}}, "selector") \in R
    BY <1>0, <1>s, Zenon
  <2> QED BY <2>1, ShortLists, Zenon DEF GroupRules
<1>3. WebRules \in Seq(R) /\ Len(WebRules) = 1
  <2>1. Rule({p \in Packets : p.proto = "tcp" /\ p.web}, "desync") \in R
    BY <1>0, <1>s, Zenon
  <2> QED BY <2>1, ShortLists, Zenon DEF WebRules
<1>4. Rules(TRUE) = Joined(Joined(LocalRules, GroupRules), WebRules)
  BY Zenon DEF Rules, Joined
<1>5. Rules(FALSE) = Joined(LocalRules, WebRules)
  <2>1. LocalRules \o <<>> = LocalRules
    BY <1>1
  <2> QED BY <2>1, Zenon DEF Rules, Joined
<1>6. PICK lg \in Seq(R) : /\ lg = Joined(LocalRules, GroupRules) /\ Len(lg) = 6
                          /\ \A i \in 1..5 : lg[i] = LocalRules[i]
                          /\ lg[6] = GroupRules[1]
  <2>2. /\ Joined(LocalRules, GroupRules) \in Seq(R) /\ Len(Joined(LocalRules, GroupRules)) = Len(LocalRules) + 1
        /\ \A i \in 1..Len(LocalRules) : Joined(LocalRules, GroupRules)[i] = LocalRules[i]
        /\ Joined(LocalRules, GroupRules)[Len(LocalRules) + 1] = GroupRules[1]
    BY <1>1, <1>2, OneMore, Zenon
  <2>3. Len(LocalRules) = 5 /\ Len(LocalRules) + 1 = 6
    BY <1>1, <1>2
  <2> QED BY <2>2, <2>3, Zenon
<1>7. PICK lw \in Seq(R) : /\ lw = Joined(LocalRules, WebRules) /\ Len(lw) = 6
                          /\ \A i \in 1..5 : lw[i] = LocalRules[i]
                          /\ lw[6] = WebRules[1]
  <2>2. /\ Joined(LocalRules, WebRules) \in Seq(R) /\ Len(Joined(LocalRules, WebRules)) = Len(LocalRules) + 1
        /\ \A i \in 1..Len(LocalRules) : Joined(LocalRules, WebRules)[i] = LocalRules[i]
        /\ Joined(LocalRules, WebRules)[Len(LocalRules) + 1] = WebRules[1]
    BY <1>1, <1>3, OneMore, Zenon
  <2>3. Len(LocalRules) = 5 /\ Len(LocalRules) + 1 = 6
    BY <1>1, <1>3
  <2> QED BY <2>2, <2>3, Zenon
<1>8. PICK all \in Seq(R) : /\ all = Joined(lg, WebRules) /\ Len(all) = 7
                           /\ \A i \in 1..6 : all[i] = lg[i]
                           /\ all[7] = WebRules[1]
  <2>2. /\ Joined(lg, WebRules) \in Seq(R) /\ Len(Joined(lg, WebRules)) = Len(lg) + 1
        /\ \A i \in 1..Len(lg) : Joined(lg, WebRules)[i] = lg[i]
        /\ Joined(lg, WebRules)[Len(lg) + 1] = WebRules[1]
    BY <1>3, OneMore, Zenon
  <2>3. Len(lg) = 6 /\ Len(lg) + 1 = 7
    BY <1>3, <1>6
  <2> QED BY <2>2, <2>3, Zenon
<1>9. DOMAIN all = 1..7 /\ DOMAIN lw = 1..6
  BY <1>7, <1>8
<1>10. 6 \in 1..6 /\ \A i \in 1..5 : i \in 1..6
  OBVIOUS
<1>11. Rules(TRUE) = all /\ Rules(FALSE) = lw
  BY <1>4, <1>5, <1>6, <1>7, <1>8, Zenon
<1>12. /\ all[6] = GroupRules[1] /\ all[7] = WebRules[1] /\ lw[6] = WebRules[1]
       /\ \A i \in 1..5 : all[i] = LocalRules[i] /\ lw[i] = LocalRules[i]
  <2>1. all[7] = WebRules[1] /\ lw[6] = WebRules[1]
    BY <1>7, <1>8
  <2>2. all[6] = lg[6] /\ lg[6] = GroupRules[1]
    BY <1>6, <1>8, <1>10
  <2>3. ASSUME NEW i \in 1..5 PROVE all[i] = lg[i] /\ lg[i] = LocalRules[i] /\ lw[i] = LocalRules[i]
    BY <1>6, <1>7, <1>8, <1>10, Zenon
  <2> QED BY <2>1, <2>2, <2>3, Zenon
<1> QED BY <1>9, <1>11, <1>12, Zenon

\* Which packets a rule matches, and where it sends them.
LEMMA RulesSay ==
  ASSUME NEW p \in Packets
  PROVE  /\ p \in LocalRules[1].match <=> p.proto = "dns"
         /\ p \in LocalRules[2].match <=> p.dest = "tun"
         /\ p \in LocalRules[3].match <=> p.dest = "private"
         /\ p \in LocalRules[4].match <=> p.dest = "peer"
         /\ p \in LocalRules[5].match <=> p.name = "exempt"
         /\ p \in GroupRules[1].match <=> p.name \in Groups /\ p.proto \in {"tcp", "udp"}
         /\ \A i \in 1..5 : LocalRules[i].out \notin {"selector", "tunnel"}
         /\ GroupRules[1].out = "selector" /\ WebRules[1].out = "desync"
<1>1. /\ LocalRules[1] = Rule({q \in Packets : q.proto = "dns"}, "dns")
      /\ LocalRules[2] = Rule({q \in Packets : q.dest = "tun"}, "drop")
      /\ LocalRules[3] = Rule({q \in Packets : q.dest = "private"}, "direct")
      /\ LocalRules[4] = Rule({q \in Packets : q.dest = "peer"}, "direct")
      /\ LocalRules[5] = Rule({q \in Packets : q.name = "exempt"}, "direct")
  BY Zenon DEF LocalRules
<1>2. /\ GroupRules[1] = Rule({q \in Packets : q.name \in Groups /\ q.proto \in {"tcp", "udp"}}, "selector")
      /\ WebRules[1] = Rule({q \in Packets : q.proto = "tcp" /\ q.web}, "desync")
  BY Zenon DEF GroupRules, WebRules
<1>3. \A i \in 1..5 : i = 1 \/ i = 2 \/ i = 3 \/ i = 4 \/ i = 5
  OBVIOUS
<1>4. \A i \in 1..5 : LocalRules[i].out \notin {"selector", "tunnel"}
  BY <1>1, <1>3 DEF Rule
<1>5. GroupRules[1].out = "selector" /\ WebRules[1].out = "desync"
  BY <1>2 DEF Rule
<1>6. p \in GroupRules[1].match <=> p.name \in Groups /\ p.proto \in {"tcp", "udp"}
  BY <1>2 DEF Rule
<1>7. /\ p \in LocalRules[1].match <=> p.proto = "dns"
      /\ p \in LocalRules[2].match <=> p.dest = "tun"
      /\ p \in LocalRules[3].match <=> p.dest = "private"
      /\ p \in LocalRules[4].match <=> p.dest = "peer"
      /\ p \in LocalRules[5].match <=> p.name = "exempt"
  BY <1>1 DEF Rule
<1> QED BY <1>4, <1>5, <1>6, <1>7, Zenon

\* buildSelectiveConfig sends public traffic of a group to its selector if there
\* is a tunnel, and nothing else to a selector.
LEMMA RouteIs ==
  ASSUME NEW p \in Packets
  PROVE  LET grouped == p.name \in Groups /\ p.dest = "public" /\ p.proto # "dns"
         IN  /\ grouped /\ Remote => Route(p) = sel[p.name][p.proto]
             /\ ~(grouped /\ Remote) => Route(p) # "tunnel"
<1> DEFINE rules == Rules(Remote)
           hits  == {i \in DOMAIN rules : p \in rules[i].match}
           out   == rules[Min(hits)].out
           grouped == p.name \in Groups /\ p.dest = "public" /\ p.proto # "dns"
<1>r. Route(p) = IF hits = {} THEN "direct" ELSE IF out = "selector" THEN sel[p.name][p.proto] ELSE out
  BY Zenon DEF Route
<1>p. /\ p.proto \in {"dns", "tcp", "udp"} /\ p.dest \in {"tun", "private", "peer", "public"}
      /\ p.name \in Groups => p.name # "exempt"
  BY TunnelAssumption, Zenon DEF Packets
<1>d. /\ Remote => DOMAIN rules = 1..7 /\ rules[6] = GroupRules[1] /\ rules[7] = WebRules[1]
      /\ ~Remote => DOMAIN rules = 1..6 /\ rules[6] = WebRules[1]
      /\ \A i \in 1..5 : rules[i] = LocalRules[i]
  <2>1. Remote = TRUE \/ Remote = FALSE
    BY DEF Remote
  <2> QED BY <2>1, RulesAre, Zenon
<1> HIDE DEF rules
<1>n. hits \subseteq 1..7
  BY <1>d
<1>l. (\E i \in 1..5 : i \in hits) <=> \E i \in 1..5 : p \in LocalRules[i].match
  BY <1>d
<1>m. ASSUME hits # {} PROVE Min(hits) \in hits /\ \A i \in hits : Min(hits) <= i
  <2> HIDE DEF hits
  <2>1. \E k \in hits : \A i \in hits : k <= i
    <3> SUFFICES ASSUME \A k \in hits : \E i \in hits : ~(k <= i) PROVE FALSE
      OBVIOUS
    <3>1. \A k \in hits : k \in 1..7
      BY <1>n, Zenon
    <3>2. 1 \notin hits
      BY <3>1
    <3>3. 2 \notin hits
      BY <3>1, <3>2
    <3>4. 3 \notin hits
      BY <3>1, <3>2, <3>3
    <3>5. 4 \notin hits
      BY <3>1, <3>2, <3>3, <3>4
    <3>6. 5 \notin hits
      BY <3>1, <3>2, <3>3, <3>4, <3>5
    <3>7. 6 \notin hits
      BY <3>1, <3>2, <3>3, <3>4, <3>5, <3>6
    <3>8. 7 \notin hits
      BY <3>1, <3>2, <3>3, <3>4, <3>5, <3>6, <3>7
    <3> QED BY <1>m, <3>1, <3>2, <3>3, <3>4, <3>5, <3>6, <3>7, <3>8
  <2> QED BY <2>1, Zenon DEF Min
<1>1. ASSUME grouped, Remote PROVE Route(p) = sel[p.name][p.proto]
  <2>1. \A i \in 1..5 : p \notin LocalRules[i].match
    <3>1. \A i \in 1..5 : i = 1 \/ i = 2 \/ i = 3 \/ i = 4 \/ i = 5
      OBVIOUS
    <3> QED BY <1>1, <1>p, <3>1, RulesSay, Zenon
  <2>2. 6 \in hits
    BY <1>1, <1>d, <1>p, RulesSay
  <2>3. Min(hits) = 6
    <3>1. PICK k \in 1..7 : k = Min(hits) /\ k \in hits /\ k <= 6
      BY <1>m, <1>n, <2>2, Zenon
    <3>2. k \notin 1..5
      BY <1>l, <2>1, <3>1, Zenon
    <3>3. k = 6
      BY <3>1, <3>2
    <3> QED BY <3>1, <3>3, Zenon
  <2> QED BY <1>1, <1>d, <1>r, <2>2, <2>3, RulesSay
<1>2. ASSUME Route(p) = "tunnel" PROVE grouped /\ Remote
  <2>1. hits # {}
    BY <1>2, <1>r, Zenon
  <2>2. PICK k \in 1..7 : k = Min(hits) /\ k \in hits /\ \A i \in hits : k <= i
    BY <1>m, <1>n, <2>1, Zenon
  <2>3. rules[k].out \in {"selector", "tunnel"}
    BY <1>2, <1>r, <2>1, <2>2, Zenon
  <2>4. k = 6 /\ Remote
    <3>1. k \in 1..5 \/ k = 6 \/ k = 7
      OBVIOUS
    <3>2. k \notin 1..5
      BY <1>d, <2>3, RulesSay, Zenon
    <3>3. k = 7 => FALSE
      BY <1>d, <2>2, <2>3, RulesSay
    <3>4. Remote
      BY <1>d, <2>3, <3>1, <3>2, <3>3, RulesSay, Zenon
    <3> QED BY <3>1, <3>2, <3>3, <3>4, Zenon
  <2>5. \A i \in 1..5 : p \notin LocalRules[i].match
    <3>1. \A i \in 1..5 : ~(k <= i)
      BY <2>4
    <3> QED BY <1>l, <2>2, <3>1, Zenon
  <2>6. p \in GroupRules[1].match
    BY <1>d, <2>2, <2>4, Zenon
  <2> QED BY <1>p, <2>4, <2>5, <2>6, RulesSay
<1> HIDE DEF hits, out
<1> QED BY <1>1, <1>2, Zenon

\* Public traffic of a group enters the tunnel exactly when its path is the
\* tunnel, and nothing else ever does: for any groups, any number of callers of
\* SetGroupPath and any interleaving of their selector calls.
THEOREM TunnelCarriesItsGroups == Spec => []TrafficFollowsPaths
<1>1. IInv => TrafficFollowsPaths
  <2> SUFFICES ASSUME IInv, Open, NEW p \in Packets
      PROVE  LET tunnelled == Route(p) = "tunnel"
                 grouped   == p.name \in Groups /\ p.dest = "public" /\ p.proto # "dns"
             IN  /\ tunnelled => grouped
                 /\ grouped /\ Busy(p.name) = {} /\ ~disturbed[p.name]
                      => (tunnelled <=> paths[p.name] = "tunnel")
    BY Zenon DEF TrafficFollowsPaths
  <2> DEFINE grouped == p.name \in Groups /\ p.dest = "public" /\ p.proto # "dns"
  <2>1. (grouped /\ Remote => Route(p) = sel[p.name][p.proto]) /\ (~(grouped /\ Remote) => Route(p) # "tunnel")
    BY RouteIs, Zenon
  <2>2. ASSUME grouped, Busy(p.name) = {}, ~disturbed[p.name]
        PROVE  Route(p) = "tunnel" <=> paths[p.name] = "tunnel"
    <3>1. CASE Remote
      <4>1. sel[p.name] = On(paths[p.name]) /\ paths[p.name] \in Sides
        BY <2>2, Zenon DEF IInv, GroupInv, Settled, GroupsTyped
      <4>2. sel[p.name].tcp = paths[p.name] /\ sel[p.name].udp = UDPOf(paths[p.name])
        BY <4>1, SidesFit
      <4>3. UDPOf(paths[p.name]) = "tunnel" <=> paths[p.name] = "tunnel"
        BY <4>1, SidesFit, Zenon
      <4>4. p.proto = "tcp" \/ p.proto = "udp"
        BY <2>2, Zenon DEF Packets
      <4>5. Route(p) = sel[p.name][p.proto]
        BY <2>1, <2>2, <3>1, Zenon
      <4>6. CASE p.proto = "tcp"
        BY <4>2, <4>5, <4>6, Zenon
      <4>7. CASE p.proto = "udp"
        BY <4>2, <4>3, <4>5, <4>7, Zenon
      <4> QED BY <4>4, <4>6, <4>7, Zenon
    <3>2. CASE ~Remote
      BY <2>1, <2>2, <3>2, Zenon DEF IInv, GroupInv, Calm
    <3> QED BY <3>1, <3>2, Zenon
  <2> HIDE DEF grouped
  <2> QED BY <2>1, <2>2, Zenon DEF grouped
<1> QED BY <1>1, IInvHolds, PTL

=============================================================================

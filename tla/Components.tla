----------------------------- MODULE Components -----------------------------
(***************************************************************************)
(* The three components of a protection session, the resolver ("dns"), the *)
(* gateway ("tunnel") and the helper ("desync"), and the goroutines that   *)
(* replace them while the session runs: recoverComponent after an exit,    *)
(* the monitor that turns the TCP layer on, swaps the helper's strategy or *)
(* rebuilds the gateway for a group, and softRebindLocked.  When the       *)
(* monitor does which is the subject of module GroupRepair; here any       *)
(* number of its checks may be under way.                                  *)
(*                                                                         *)
(* An action is one critical section of Engine.mu, or one call a goroutine *)
(* makes without the lock (closing or starting a component).  A worker     *)
(* captured the generation of its session; its results come back after any *)
(* number of Stops, Starts and other workers' steps.                       *)
(*                                                                         *)
(* A component instance is the object behind a Session interface.  Helper  *)
(* and gateway are processes bound to the session's context: a cancelled   *)
(* context kills them and lets none start.  The resolver runs inside the   *)
(* daemon and knows no context.  Each kind listens on a fixed port, so two *)
(* instances of a kind never run at once.                                  *)
(***************************************************************************)
EXTENDS Naturals, FiniteSets

CONSTANTS Instances,       \* component instances
          Kind,            \* the component each one is an instance of
          Workers,         \* goroutines of recoverComponent and of the monitor
          None,            \* a nil interface
          recoveryBudget,  \* restarts of one component per session
          Controls,        \* neutral hosts a measurement probes
          Canaries,        \* groups it probes
          MaxGeneration,   \* bound: session generations
          MaxExits,        \* bound: components that exit by themselves
          MaxRebinds       \* bound: soft rebinds

Kinds == {"dns", "tunnel", "desync"}

ASSUME InstanceAssumption == Kind \in [Instances -> Kinds] /\ None \notin Instances

ASSUME BudgetAssumption == /\ recoveryBudget \in Nat \ {0}
                           /\ Controls \in Nat /\ Canaries \in Nat
                           /\ MaxGeneration \in Nat /\ MaxExits \in Nat /\ MaxRebinds \in Nat

VARIABLES
  running, sessionGeneration, \* protection is on; Engine.sessionGeneration
  layer,                      \* Engine.layer
  slot,                       \* Engine.dns, Engine.tun, Engine.des
  up,                         \* the session each instance serves, 0 when it serves none
  unserved,                   \* resolvers whose stub stopped and that were not closed yet
  ipv4Only,                   \* the resolvers that answer AAAA with NODATA
  strategySwitching,          \* Engine.strategySwitching
  desyncScan,                 \* the worker whose scan Engine.desyncScan is
  recoveryAttempts,           \* Engine.recoveryAttempts
  restarts,                   \* history: restarts recoverComponent began this session
  job,                        \* the workers
  exits, rebinds

engineVars == <<running, sessionGeneration, layer, slot, strategySwitching, desyncScan,
                recoveryAttempts, restarts>>
instVars   == <<up, unserved, ipv4Only>>
vars       == <<engineVars, instVars, job, exits, rebinds>>

\* A worker's local variables: its session, the component it restarts, the
\* instances it read (old, tun) and the one it started (next), and whether
\* closing failed.
Idle == [pc |-> "idle", session |-> 0, kind |-> None, old |-> None, tun |-> None,
         next |-> None, failed |-> FALSE]

RecoverPcs == {"close", "start", "apply"}
MonitorPcs == {"classify", "retry", "scan", "winner", "verify", "rollback", "restored", "tunnel"}
Pcs        == {"idle", "drop"} \cup RecoverPcs \cup MonitorPcs

JobType == [pc : Pcs, session : Nat, kind : Kinds \cup {None},
            old : Instances \cup {None}, tun : Instances \cup {None},
            next : Instances \cup {None}, failed : BOOLEAN]

\* Every variable holds a value of its kind; no counter runs past the budget.
TypeOK ==
  /\ running \in BOOLEAN /\ sessionGeneration \in Nat
  /\ layer \in {None, "dns_only", "fallback", "selective"}
  /\ slot \in [Kinds -> Instances \cup {None}]
  /\ up \in [Instances -> Nat]
  /\ unserved \subseteq Instances /\ ipv4Only \subseteq Instances
  /\ strategySwitching \in BOOLEAN
  /\ desyncScan \in Workers \cup {None}
  /\ recoveryAttempts \in [Kinds -> 0..recoveryBudget + 1] /\ restarts \in [Kinds -> Nat]
  /\ job \in [Workers -> JobType]
  /\ exits \in Nat /\ rebinds \in Nat

Init ==
  /\ running = FALSE /\ sessionGeneration = 0
  /\ layer = None
  /\ slot = [k \in Kinds |-> None]
  /\ up = [i \in Instances |-> 0] /\ unserved = {} /\ ipv4Only = {}
  /\ strategySwitching = FALSE /\ desyncScan = None
  /\ recoveryAttempts = [k \in Kinds |-> 0] /\ restarts = [k \in Kinds |-> 0]
  /\ job = [w \in Workers |-> Idle]
  /\ exits = 0 /\ rebinds = 0

-----------------------------------------------------------------------------
Current(session) == running /\ session = sessionGeneration

At(w, pc) == job[w].pc = pc

Becomes(w, r) == job' = [job EXCEPT ![w] = r]

Goes(w, pc) == Becomes(w, [job[w] EXCEPT !.pc = pc])

Referenced(i) == \/ \E k \in Kinds : slot[k] = i
                 \/ \E w \in Workers : i \in {job[w].old, job[w].tun, job[w].next}

\* An instance that still holds something of the system: a process, a port, or
\* the resolver's DNS settings, which outlive a stub that stopped serving.
Open(i) == up[i] # 0 \/ i \in unserved

\* i is a new instance of kind k whose port is free once the instances in
\* closing are closed.
Startable(k, i, closing) ==
  /\ Kind[i] = k /\ ~Referenced(i) /\ ~Open(i)
  /\ \A j \in Instances \ closing : Kind[j] = k => up[j] = 0

\* Variant: helper and gateway outside the session's context.
ContextIgnored(k, session) == TRUE

\* exec.CommandContext starts nothing under a cancelled session; dns.Start takes
\* no context.
ContextAllows(k, session) == k = "dns" \/ session = sessionGeneration

Up(k) == slot[k] # None /\ up[slot[k]] # 0

\* Close of the instances in C, start of the ones in S.
Replace(C, S, session) ==
  /\ up' = [i \in Instances |-> IF i \in S THEN session ELSE IF i \in C THEN 0 ELSE up[i]]
  /\ unserved' = unserved \ C

\* Helper and gateway are configured exactly while the TCP layer is on.
Required(k) == k = "dns" \/ layer = "selective"

Failed(k) == Required(k) /\ ~Up(k)

\* Variant: the resolver is looked at last.
ProcessesFirst ==
  IF Failed("tunnel") THEN "tunnel"
  ELSE IF Failed("desync") THEN "desync"
  ELSE IF Failed("dns") THEN "dns" ELSE None

\* failedComponentLocked: the first one in this order.
failedComponent ==
  IF Failed("dns") THEN "dns"
  ELSE IF Failed("tunnel") THEN "tunnel"
  ELSE IF Failed("desync") THEN "desync" ELSE None

\* Variant: a budget that is spent does not count as spent yet.
ExhaustedLate(k) == recoveryAttempts[k] > recoveryBudget

recoveryExhausted(k) == recoveryAttempts[k] >= recoveryBudget

\* refreshNetworkStatusLocked: the reason the status gives, as far as the
\* components decide it; the ones after them are None here.
networkReason ==
  CASE failedComponent = None           -> None
    [] failedComponent = "dns"          -> "dns_unavailable"
    [] recoveryExhausted(failedComponent) -> "component_unavailable"
    [] OTHER                            -> "recovering"

\* statusLocked: the status says "transport_recovery".
InTransition == running /\ (strategySwitching \/ networkReason = "recovering")

-----------------------------------------------------------------------------
\* classifyNetwork: what the measurements of neutral controls and canaries on
\* the physical path say of it.
classifyNetwork(controlsOK, blocked) ==
  CASE Controls >= 2 /\ controlsOK < 2 -> "offline"
    [] Canaries = 0                    -> "unknown"
    [] blocked > 0                     -> "present"
    [] OTHER                           -> "none"

\* The verdicts a measurement may end with; a diagnostics switch makes of
\* "none" a "present" (applyClassificationLocked).
Verdicts == {classifyNetwork(c, b) : c \in 0..Controls, b \in 0..Canaries}

\* beginSessionLocked and the fields startLocked clears.
SessionReset ==
  /\ strategySwitching' = FALSE /\ desyncScan' = None
  /\ recoveryAttempts' = [k \in Kinds |-> 0] /\ restarts' = [k \in Kinds |-> 0]

StartOnlyDNS(d, l) ==
  /\ layer' = l
  /\ slot' = [k \in Kinds |-> IF k = "dns" THEN d ELSE None]
  /\ Replace({}, {d}, sessionGeneration + 1)
  /\ ipv4Only' = ipv4Only \ {d}

StartWithTCP(d, t, h) ==
  /\ Startable("tunnel", t, {}) /\ Startable("desync", h, {})
  /\ layer' = "selective"
  /\ slot' = [k \in Kinds |-> IF k = "dns" THEN d ELSE IF k = "tunnel" THEN t ELSE h]
  /\ Replace({}, {d, t, h}, sessionGeneration + 1)
  /\ ipv4Only' = ipv4Only \cup {d}

Start ==
  /\ ~running /\ sessionGeneration < MaxGeneration
  /\ \E d \in Instances :
       /\ Startable("dns", d, {})
       /\ \E verdict \in Verdicts :
            \/ verdict = "none" /\ StartOnlyDNS(d, "dns_only")
            \/ verdict # "none" /\ StartOnlyDNS(d, "fallback")
            \/ verdict # "none" /\ \E t, h \in Instances : StartWithTCP(d, t, h)
  /\ running' = TRUE /\ sessionGeneration' = sessionGeneration + 1
  /\ SessionReset
  /\ UNCHANGED <<job, exits, rebinds>>

\* Everything that was started is closed again and the session cancelled.  A
\* resolver an old worker still has on the port is one reason to get here.
StartFails ==
  /\ ~running /\ sessionGeneration < MaxGeneration
  /\ sessionGeneration' = sessionGeneration + 2
  /\ layer' = None
  /\ SessionReset
  /\ UNCHANGED <<running, slot, instVars, job, exits, rebinds>>

\* stopLocked and CrashCleanup: the hooks close what the engine holds, and the
\* cancelled context kills every other process of the session.
Stop ==
  /\ running
  /\ running' = FALSE /\ sessionGeneration' = sessionGeneration + 1
  /\ Replace({i \in Instances : slot["dns"] = i \/ Kind[i] # "dns"}, {}, 0)
  /\ ipv4Only' = ipv4Only \ {slot["dns"]}
  /\ slot' = [k \in Kinds |-> None]
  /\ strategySwitching' = FALSE /\ desyncScan' = None
  /\ UNCHANGED <<layer, recoveryAttempts, restarts, job, exits, rebinds>>

\* A process exits, or the stub stops serving.
Exit(i) ==
  /\ up[i] # 0
  /\ exits < MaxExits /\ exits' = exits + 1
  /\ up' = [up EXCEPT ![i] = 0]
  /\ unserved' = IF Kind[i] = "dns" THEN unserved \cup {i} ELSE unserved
  /\ UNCHANGED <<engineVars, ipv4Only, job, rebinds>>

-----------------------------------------------------------------------------
\* recoverComponent, called by the session's one watchComponents loop.
Recovering == \E w \in Workers : job[w].pc \in RecoverPcs /\ job[w].session = sessionGeneration

\* Variant: one restart too many.
OneMoreRestart(k) == recoveryAttempts[k] <= recoveryBudget

MayRestart(k) == recoveryAttempts[k] < recoveryBudget

RecoverBegin(w) ==
  /\ At(w, "idle") /\ running /\ ~strategySwitching /\ ~Recovering
  /\ failedComponent # None
  /\ MayRestart(failedComponent)
  /\ recoveryAttempts' = [recoveryAttempts EXCEPT ![failedComponent] = @ + 1]
  /\ restarts' = [restarts EXCEPT ![failedComponent] = @ + 1]
  /\ strategySwitching' = TRUE
  /\ Becomes(w, [Idle EXCEPT !.pc = "close", !.session = sessionGeneration,
                             !.kind = failedComponent, !.old = slot[failedComponent]])
  /\ UNCHANGED <<running, sessionGeneration, layer, slot, desyncScan, instVars, exits, rebinds>>

\* The budget is spent; the failure is journaled once.
JustSpent(k) == recoveryAttempts[k] = recoveryBudget

RecoverGivesUp ==
  /\ running /\ ~strategySwitching /\ ~Recovering
  /\ failedComponent # None
  /\ JustSpent(failedComponent)
  /\ recoveryAttempts' = [recoveryAttempts EXCEPT ![failedComponent] = @ + 1]
  /\ UNCHANGED <<running, sessionGeneration, layer, slot, strategySwitching, desyncScan, restarts,
                 instVars, job, exits, rebinds>>

\* Only the resolver's Close can report an error, and it cannot be repeated.
RecoverClose(w) ==
  /\ At(w, "close")
  /\ Replace({job[w].old}, {}, 0)
  /\ \/ Becomes(w, [job[w] EXCEPT !.pc = "start", !.old = None])
     \/ job[w].kind = "dns" /\ Becomes(w, [job[w] EXCEPT !.pc = "apply", !.old = None, !.failed = TRUE])
  /\ UNCHANGED <<engineVars, ipv4Only, exits, rebinds>>

\* A start, without the lock: the new instance is the worker's own.
StartsOwn(w, k, pc) ==
  /\ \/ \E i \in Instances :
          /\ Startable(k, i, {}) /\ ContextAllows(k, job[w].session)
          /\ Replace({}, {i}, job[w].session)
          /\ ipv4Only' = ipv4Only \ {i}
          /\ Becomes(w, [job[w] EXCEPT !.pc = pc, !.next = i])
     \/ Goes(w, pc) /\ UNCHANGED instVars
  /\ UNCHANGED <<engineVars, exits, rebinds>>

RecoverStart(w) == At(w, "start") /\ StartsOwn(w, job[w].kind, "apply")

\* Variant: the goroutine forgets what it started.
Forgets(w) == Becomes(w, Idle)

\* What the goroutine started is closed, without the lock.
Drops(w) == IF job[w].next = None THEN Becomes(w, Idle) ELSE Goes(w, "drop")

\* Variant: any running session takes the restart.
AnySession(w) == running

\* Whether the restart is still wanted when it is done.
SameSession(w) == Current(job[w].session)

RecoverApply(w) ==
  /\ At(w, "apply")
  /\ \/ /\ ~SameSession(w)
        /\ Drops(w) /\ UNCHANGED <<slot, strategySwitching, recoveryAttempts>>
     \/ /\ SameSession(w)
        /\ strategySwitching' = FALSE
        /\ slot' = IF job[w].next = None THEN slot ELSE [slot EXCEPT ![job[w].kind] = job[w].next]
        /\ recoveryAttempts' = IF job[w].failed
                               THEN [recoveryAttempts EXCEPT ![job[w].kind] = recoveryBudget]
                               ELSE recoveryAttempts
        /\ Becomes(w, Idle)
  /\ UNCHANGED <<running, sessionGeneration, layer, desyncScan, restarts, instVars, exits, rebinds>>

Drop(w) ==
  /\ At(w, "drop")
  /\ Replace({job[w].next}, {}, 0)
  /\ Becomes(w, Idle)
  /\ UNCHANGED <<engineVars, ipv4Only, exits, rebinds>>

-----------------------------------------------------------------------------
\* What the monitor leaves alone.
monitorRest == <<running, sessionGeneration, recoveryAttempts, restarts, exits, rebinds>>

\* checkNetworkSession outside the TCP layer: the network is measured without
\* the lock, or a layer that failed is due to be tried again.
ClassifyBegin(w) ==
  /\ At(w, "idle") /\ running /\ ~strategySwitching /\ layer # "selective"
  /\ \E pc \in IF layer = "fallback" THEN {"classify", "retry"} ELSE {"classify"} :
       Becomes(w, [Idle EXCEPT !.pc = pc, !.session = sessionGeneration])
  /\ UNCHANGED <<layer, slot, strategySwitching, desyncScan, instVars, monitorRest>>

\* checkDNSLayerLocked after the measurement: the TCP layer starts or falls back
\* in the same critical section.
LayerStarts(t, h) ==
  /\ Startable("tunnel", t, {}) /\ Startable("desync", h, {})
  /\ slot' = [slot EXCEPT !["tunnel"] = t, !["desync"] = h]
  /\ Replace({}, {t, h}, sessionGeneration)
  /\ layer' = "selective"
  /\ ipv4Only' = ipv4Only \cup {slot["dns"]}

LayerFails ==
  /\ layer' = "fallback"
  /\ ipv4Only' = ipv4Only \ {slot["dns"]}
  /\ UNCHANGED <<slot, up, unserved>>

\* Filtering appeared in a session without the TCP layer, or a retry is due.
TurnsOn(w, verdict) == \/ layer = "dns_only" /\ verdict = "present"
                       \/ layer = "fallback" /\ At(w, "retry")

ClassifyEnd(w) ==
  /\ At(w, "classify") \/ At(w, "retry")
  /\ Becomes(w, Idle)
  /\ \E verdict \in Verdicts :
       IF Current(job[w].session) /\ TurnsOn(w, verdict)
         THEN /\ LayerFails \/ \E t, h \in Instances : LayerStarts(t, h)
              /\ strategySwitching' = FALSE
         ELSE UNCHANGED <<layer, slot, instVars, strategySwitching>>
  /\ UNCHANGED <<desyncScan, monitorRest>>

\* recoverDesyncStrategySession.
ScanBegin(w) ==
  /\ At(w, "idle") /\ running /\ ~strategySwitching
  /\ layer = "selective" /\ desyncScan = None
  /\ slot["desync"] # None /\ Up("tunnel")
  /\ desyncScan' = w
  /\ Becomes(w, [Idle EXCEPT !.pc = "scan", !.session = sessionGeneration,
                             !.old = slot["desync"], !.tun = slot["tunnel"]])
  /\ UNCHANGED <<layer, slot, strategySwitching, instVars, monitorRest>>

ScanStands(w) ==
  /\ slot["desync"] = job[w].old /\ slot["tunnel"] = job[w].tun
  /\ ~strategySwitching /\ layer = "selective"

\* A winner replaces the running helper; without one the scan is over.
ScanEnd(w) ==
  /\ At(w, "scan")
  /\ \/ /\ ~(Current(job[w].session) /\ desyncScan = w)
        /\ Becomes(w, Idle) /\ UNCHANGED <<desyncScan, slot, up, unserved, strategySwitching>>
     \/ /\ Current(job[w].session) /\ desyncScan = w
        /\ Becomes(w, Idle) /\ desyncScan' = None /\ UNCHANGED <<slot, up, unserved, strategySwitching>>
     \/ /\ Current(job[w].session) /\ desyncScan = w /\ ScanStands(w)
        /\ strategySwitching' = TRUE
        /\ Replace({job[w].old}, {}, 0)
        /\ slot' = [slot EXCEPT !["desync"] = None]
        /\ Becomes(w, [job[w] EXCEPT !.pc = "winner", !.old = None])
        /\ UNCHANGED desyncScan
  /\ UNCHANGED <<layer, ipv4Only, monitorRest>>

StartWinner(w) == At(w, "winner") /\ StartsOwn(w, "desync", "verify")

Superseded(w) == ~Current(job[w].session) \/ slot["tunnel"] # job[w].tun

\* The session ended or the gateway changed meanwhile.
SwapAbandoned(w) ==
  /\ Superseded(w)
  /\ strategySwitching' = FALSE
  /\ Drops(w)
  /\ UNCHANGED <<slot, desyncScan, up, unserved>>

\* The worker's helper, if any, becomes the session's; the switch is released.
SwapAdopts(w) ==
  /\ ~Superseded(w)
  /\ slot' = [slot EXCEPT !["desync"] = job[w].next]
  /\ strategySwitching' = FALSE /\ desyncScan' = None
  /\ Becomes(w, Idle) /\ UNCHANGED <<up, unserved>>

VerifyWinner(w) ==
  /\ At(w, "verify")
  /\ \/ SwapAbandoned(w)
     \/ job[w].next # None /\ SwapAdopts(w)
     \/ /\ ~Superseded(w)
        /\ Replace({job[w].next}, {}, 0)
        /\ Becomes(w, [job[w] EXCEPT !.pc = "rollback", !.next = None])
        /\ UNCHANGED <<slot, strategySwitching, desyncScan>>
  /\ UNCHANGED <<layer, ipv4Only, monitorRest>>

StartOriginal(w) == At(w, "rollback") /\ StartsOwn(w, "desync", "restored")

RollbackEnd(w) ==
  /\ At(w, "restored")
  /\ SwapAbandoned(w) \/ SwapAdopts(w)
  /\ UNCHANGED <<layer, ipv4Only, monitorRest>>

\* escalateGroupSession.
TunnelBegin(w) ==
  /\ At(w, "idle") /\ running /\ layer = "selective" /\ slot["tunnel"] # None
  /\ Becomes(w, [Idle EXCEPT !.pc = "tunnel", !.session = sessionGeneration, !.tun = slot["tunnel"]])
  /\ UNCHANGED <<layer, slot, strategySwitching, desyncScan, instVars, monitorRest>>

\* rebuildGatewayLocked: the new gateway, else the previous configuration
\* again, else none.
RebuildGateway(w) ==
  /\ ~Superseded(w)
  /\ strategySwitching' = FALSE
  /\ \/ \E i \in Instances :
          /\ Startable("tunnel", i, {job[w].tun})
          /\ slot' = [slot EXCEPT !["tunnel"] = i]
          /\ Replace({job[w].tun}, {i}, sessionGeneration)
     \/ /\ slot' = [slot EXCEPT !["tunnel"] = None]
        /\ Replace({job[w].tun}, {}, 0)

\* A tunnel was prepared without the lock and the gateway is rebuilt, or the
\* gateway keeps as it is.
TunnelEnd(w) ==
  /\ At(w, "tunnel")
  /\ Becomes(w, Idle)
  /\ RebuildGateway(w) \/ UNCHANGED <<slot, strategySwitching, up, unserved>>
  /\ UNCHANGED <<layer, desyncScan, ipv4Only, monitorRest>>

-----------------------------------------------------------------------------
\* softRebindLocked.  Outside the TCP layer, or at the same address, only the
\* measurements are due again; otherwise the helper is restarted, whoever else
\* is working on it.
softRebind ==
  /\ running /\ rebinds < MaxRebinds /\ rebinds' = rebinds + 1
  /\ \/ layer # "selective" /\ UNCHANGED <<slot, instVars>>
     \/ /\ layer = "selective" /\ slot["desync"] # None
        /\ \/ UNCHANGED <<slot, instVars>>
           \/ \E i \in Instances :
                /\ Startable("desync", i, {slot["desync"]})
                /\ slot' = [slot EXCEPT !["desync"] = i]
                /\ Replace({slot["desync"]}, {i}, sessionGeneration)
                /\ UNCHANGED ipv4Only
           \/ /\ slot' = [slot EXCEPT !["desync"] = None]
              /\ Replace({slot["desync"]}, {}, 0)
              /\ UNCHANGED ipv4Only
  /\ UNCHANGED <<running, sessionGeneration, layer, strategySwitching, desyncScan,
                 recoveryAttempts, restarts, job, exits>>

-----------------------------------------------------------------------------
RecoverStep(w) == RecoverClose(w) \/ RecoverStart(w) \/ RecoverApply(w) \/ Drop(w)

MonitorStep(w) ==
  \/ ClassifyEnd(w)
  \/ ScanEnd(w) \/ StartWinner(w) \/ VerifyWinner(w) \/ StartOriginal(w) \/ RollbackEnd(w)
  \/ TunnelEnd(w)

Next ==
  \/ Start \/ StartFails \/ Stop
  \/ \E i \in Instances : Exit(i)
  \/ \E w \in Workers : RecoverBegin(w) \/ ClassifyBegin(w) \/ ScanBegin(w) \/ TunnelBegin(w)
  \/ \E w \in Workers : RecoverStep(w) \/ MonitorStep(w)
  \/ RecoverGivesUp \/ softRebind

Spec == Init /\ [][Next]_vars

\* Goroutines that hold work go on with it: every call they make has a deadline.
\* The watch loop ticks every two seconds; the switch and the bound on Workers
\* may block a tick, never all of them.
Fairness ==
  /\ \A w \in Workers : WF_vars(RecoverStep(w) \/ MonitorStep(w))
  /\ SF_vars(\E w \in Workers : RecoverBegin(w))

FairSpec == Spec /\ Fairness

-----------------------------------------------------------------------------
(* Properties *)

\* A step makes what a worker started a component only of the worker's session.
AdoptsOwn ==
  \A k \in Kinds, w \in Workers :
    slot'[k] # slot[k] /\ slot'[k] # None /\ slot'[k] = job[w].next
      => running' /\ job[w].session = sessionGeneration'

\* "Late sessions are closed rather than adopted" (contracts.md): what a
\* goroutine started for one session never becomes a component of another,
\* however many Stops and Starts overtook it and whether or not it still runs.
LateNeverAdopted == [][AdoptsOwn]_vars

\* A resolver that still has the port or the DNS settings is the session's, or
\* one a recoverComponent goroutine is about to hand over or to close: no
\* interleaving of an exit, a restart, Stop and Start loses the last reference
\* to it.
ResolverIsOwned ==
  \A i \in Instances : Kind[i] = "dns" /\ Open(i) =>
    slot["dns"] = i \/ \E w \in Workers : job[w].next = i /\ job[w].pc \in {"apply", "drop"}

\* Once protection is off no helper and no gateway runs, not even one that a
\* worker was starting when Stop came.
StoppedMeansNoProcess ==
  ~running => \A i \in Instances : Kind[i] # "dns" => up[i] = 0

\* "A required component that exits is restarted within a per-session budget"
\* (engine-reliability.md): recoverComponent starts no component more often
\* than the budget allows in one session, whatever other goroutines do to the
\* switch meanwhile.
RestartsWithinBudget == \A k \in Kinds : restarts[k] <= recoveryBudget

\* The status never stays at "transport_recovery": the switch that suspends
\* recovery and monitoring is released, and a component that is reported as
\* recovering is up again or, its budget spent, reported as unavailable.
TransitionEnds == InTransition ~> ~InTransition

\* After Stop everything is given back, including a resolver whose start Stop
\* overtook.
StopLeavesNothing == ~running ~> (running \/ \A i \in Instances : ~Open(i))

\* A resolver that stopped serving is restarted, or its budget was spent on
\* restarts that are over, whatever state the other two components are in.
ResolverComesBack ==
  (running /\ Failed("dns"))
    ~> (~running \/ ~Failed("dns") \/ (recoveryAttempts["dns"] >= recoveryBudget /\ ~Recovering))

\* "While the TCP layer is up the stub answers AAAA with NODATA" (contracts.md).
StubIsIPv4Only ==
  running /\ layer = "selective" /\ Up("dns") => slot["dns"] \in ipv4Only

\* "A required component that exits is restarted within a per-session budget"
\* (engine-reliability.md): a helper that exited is restarted, or its budget is
\* spent.
HelperComesBack ==
  (running /\ Failed("desync"))
    ~> (~running \/ ~Failed("desync") \/ recoveryAttempts["desync"] >= recoveryBudget)

=============================================================================

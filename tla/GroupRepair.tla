---------------------------- MODULE GroupRepair ----------------------------
(***************************************************************************)
(* The monitor of the TCP layer: it probes the canary groups through the   *)
(* gateway and repairs a group that failed in two rounds, by a scan for    *)
(* another helper strategy, by moving the group to the tunnel, or by       *)
(* moving it back.  Probes, scans, verification, tunnel preparation and    *)
(* the selector calls run without Engine.mu; an action is one critical     *)
(* section, or one such call.                                              *)
(*                                                                         *)
(* Every check of a session runs in the session's monitor goroutine, apart *)
(* from the one a soft rebind starts.  groupWork keeps a check from        *)
(* starting while a repair runs.                                           *)
(*                                                                         *)
(* The helper is left out (module Components has it): a scan that finds    *)
(* the helper replaced ends as one without a winner would.                 *)
(***************************************************************************)
EXTENDS Naturals, FiniteSets

CONSTANTS Groups,                \* canary groups
          Persistent,            \* those checked in every round
          Workers,               \* goroutines
          GatewayIds,            \* identities of gateways, 0 for none
          None,
          groupFailureThreshold, \* failed rounds before a repair
          MaxGeneration,         \* bound: session generations
          MaxRebinds,            \* bound: soft rebinds
          MaxFaults              \* bound: exits of a process, errors of the selector API

ASSUME GroupAssumption == /\ Persistent \subseteq Groups
                          /\ None \notin Workers \cup Groups
                          /\ groupFailureThreshold \in Nat \ {0}

\* One more gateway than the engine and the goroutines can hold: a pointer that
\* is still held is not one of a new gateway.
ASSUME IdentityAssumption ==
  /\ 0 \in GatewayIds
  /\ \A held \in [Workers -> GatewayIds], id \in GatewayIds :
       \E i \in GatewayIds \ {0} : i # id /\ \A w \in Workers : held[w] # i

ASSUME GroupBoundAssumption == MaxGeneration \in Nat /\ MaxRebinds \in Nat /\ MaxFaults \in Nat

VARIABLES running, sessionGeneration,
          gateway,            \* Engine.tun, with what its selectors are set to
          tunnelConfig,       \* what a restarted gateway is built from
          strategySwitching, groupWork, desyncScan,
          lastPathCheck,      \* "unset", or whether it is 30 s old
          groups,             \* Engine.groups
          job,                \* the goroutines
          rebinds, faults,
          overlapped          \* history: a repair of this session began beside another one

flagVars == <<strategySwitching, groupWork, desyncScan, lastPathCheck>>
vars == <<running, sessionGeneration, gateway, tunnelConfig, flagVars, groups, job, rebinds, faults,
          overlapped>>

Paths == {"desync", "tunnel"}
AllDesync == [g \in Groups |-> "desync"]

NoGateway == [id |-> 0, open |-> FALSE, up |-> FALSE, tunnel |-> FALSE, paths |-> AllDesync]
NoConfig == [tunnel |-> FALSE, paths |-> AllDesync]

\* failures counts up to the threshold: only that comparison reads it.  scanned
\* and waiting: LastScan and LastEscalation are less than ten minutes old.
NewGroup == [path |-> "desync", failures |-> 0, unreachable |-> FALSE,
             scanned |-> FALSE, waiting |-> FALSE]

Idle == [pc |-> "idle", session |-> 0, main |-> FALSE, group |-> None, due |-> {}, tun |-> 0,
         config |-> NoConfig]

RepairPcs == {"scan", "verify", "rollback", "prepare", "switch", "tunnel_probe",
              "revert", "revert_probe", "revert_end"}
RecoverPcs == {"recover_helper", "recover_close", "recover_start"}
BeginPcs == {"scan_begin", "tunnel_begin", "revert_begin"}
Pcs == {"idle", "check", "probe"} \cup BeginPcs \cup RepairPcs \cup RecoverPcs

ConfigType == [tunnel : BOOLEAN, paths : [Groups -> Paths]]
GatewayType == [id : GatewayIds, open : BOOLEAN, up : BOOLEAN, tunnel : BOOLEAN, paths : [Groups -> Paths]]
FailureCounts == 0..groupFailureThreshold
GroupType == [path : Paths, failures : FailureCounts, unreachable : BOOLEAN,
              scanned : BOOLEAN, waiting : BOOLEAN]
JobType == [pc : Pcs, session : Nat, main : BOOLEAN, group : Groups \cup {None},
            due : SUBSET Groups, tun : GatewayIds, config : ConfigType]

\* Every variable holds a value of its kind; only a goroutine that scans is ever
\* recorded as the scan, and no failure count passes the threshold it is
\* compared with.
TypeOK ==
  /\ running \in BOOLEAN /\ sessionGeneration \in Nat
  /\ gateway \in GatewayType
  /\ tunnelConfig \in ConfigType
  /\ strategySwitching \in BOOLEAN /\ groupWork \in BOOLEAN
  /\ lastPathCheck \in {"unset", "recent", "old"}
  /\ desyncScan \in Workers \cup {None}
  /\ groups \in [Groups -> GroupType]
  /\ job \in [Workers -> JobType]
  /\ rebinds \in Nat /\ faults \in Nat /\ overlapped \in BOOLEAN

Init ==
  /\ running = FALSE /\ sessionGeneration = 0
  /\ gateway = NoGateway /\ tunnelConfig = NoConfig
  /\ strategySwitching = FALSE /\ groupWork = FALSE /\ desyncScan = None /\ lastPathCheck = "unset"
  /\ groups = [g \in Groups |-> NewGroup]
  /\ job = [w \in Workers |-> Idle]
  /\ rebinds = 0 /\ faults = 0 /\ overlapped = FALSE

-----------------------------------------------------------------------------
\* Variant: work of an earlier session passes for current.
AnySession(session) == running

Current(session) == running /\ session = sessionGeneration

At(w, pc) == job[w].pc = pc
Becomes(w, r) == job' = [job EXCEPT ![w] = r]
Goes(w, pc) == Becomes(w, [job[w] EXCEPT !.pc = pc])

\* An identity no goroutine remembers.
FreshId == CHOOSE i \in GatewayIds \ {0} : i # gateway.id /\ \A w \in Workers : job[w].tun # i

\* startSelective: without a tunnel every group is on desync.
Gateway(config) ==
  [id |-> FreshId, open |-> TRUE, up |-> TRUE, tunnel |-> config.tunnel,
   paths |-> [g \in Groups |-> IF config.tunnel THEN config.paths[g] ELSE "desync"]]

groupPaths == [g \in Groups |-> groups[g].path]

GroupBecomes(g, r) == groups' = [groups EXCEPT ![g] = r]

\* Variant: the configuration keeps the paths it had.
ConfigStays == UNCHANGED tunnelConfig

\* The configuration is brought in line with the groups.
ConfigFollows == tunnelConfig' = [tunnelConfig EXCEPT !.paths = [g \in Groups |-> groups'[g].path]]

Opened(r) == [r EXCEPT !.failures = 0, !.unreachable = FALSE]

-----------------------------------------------------------------------------
\* startLocked with the TCP layer, and stopLocked.  Stop does not clear
\* groupWork; the next start does.
Start ==
  /\ ~running /\ sessionGeneration < MaxGeneration
  /\ running' = TRUE /\ sessionGeneration' = sessionGeneration + 1
  /\ groups' = [g \in Groups |-> NewGroup]
  /\ tunnelConfig' = NoConfig /\ gateway' = Gateway(NoConfig)
  /\ strategySwitching' = FALSE /\ groupWork' = FALSE /\ desyncScan' = None /\ lastPathCheck' = "unset"
  /\ overlapped' = FALSE
  /\ UNCHANGED <<job, rebinds, faults>>

Stop ==
  /\ running
  /\ running' = FALSE /\ sessionGeneration' = sessionGeneration + 1
  /\ gateway' = NoGateway /\ tunnelConfig' = NoConfig
  /\ strategySwitching' = FALSE /\ desyncScan' = None /\ lastPathCheck' = "unset"
  /\ UNCHANGED <<groupWork, groups, job, rebinds, faults, overlapped>>

-----------------------------------------------------------------------------
\* checkNetworkSession and checkSelectiveLocked up to the probes.
MayCheck(session) == Current(session) /\ ~strategySwitching /\ ~groupWork

Due(g) == ~(groups[g].unreachable /\ groups[g].waiting)

\* A round takes the persistent groups and the failing ones, every fifth round
\* the others too.
DueGroups(everyFifth) ==
  {g \in Groups : (g \in Persistent \/ everyFifth \/ groups[g].failures > 0) /\ Due(g)}

CheckBegin(w, main) ==
  /\ lastPathCheck' = "recent"
  /\ IF gateway.up
     THEN \E everyFifth \in BOOLEAN :
            Becomes(w, [Idle EXCEPT !.pc = "probe", !.session = sessionGeneration, !.main = main,
                                    !.due = DueGroups(everyFifth), !.tun = gateway.id])
     ELSE Becomes(w, Idle)

MonitorBusy == \E w \in Workers : job[w].main /\ job[w].session = sessionGeneration

\* The monitor's next round.  A check a rebind started waits for the lock, not
\* for the monitor's thirty seconds.
MonitorCheck(w) ==
  /\ At(w, "idle") /\ ~MonitorBusy /\ (\A v \in Workers : ~At(v, "check"))
  /\ MayCheck(sessionGeneration) /\ lastPathCheck # "recent"
  /\ CheckBegin(w, TRUE)
  /\ UNCHANGED <<running, sessionGeneration, gateway, tunnelConfig, strategySwitching, groupWork,
                 desyncScan, groups, rebinds, faults, overlapped>>

\* Its time was taken when the goroutine was started, so any check that began
\* since then makes it return.
RebindCheck(w) ==
  /\ At(w, "check")
  /\ IF MayCheck(job[w].session) /\ lastPathCheck = "unset"
     THEN CheckBegin(w, FALSE)
     ELSE Becomes(w, Idle) /\ UNCHANGED lastPathCheck
  /\ UNCHANGED <<running, sessionGeneration, gateway, tunnelConfig, strategySwitching, groupWork,
                 desyncScan, groups, rebinds, faults, overlapped>>

\* checkSelectiveLocked after the probes.  Neither groupWork nor the time of
\* the last check is looked at again.
ProbeStands(w) == Current(job[w].session) /\ gateway.id = job[w].tun /\ ~strategySwitching

AtMost(n) == IF n > groupFailureThreshold THEN groupFailureThreshold ELSE n

Probed(g, closed, offline) ==
  IF g \notin closed THEN Opened(groups[g])
  ELSE IF offline THEN groups[g]
  ELSE [groups[g] EXCEPT !.failures = AtMost(@ + 1)]

\* A repair of this session, from the decision on.
InRepair(w) == job[w].session = sessionGeneration /\ job[w].pc \in BeginPcs \cup RepairPcs

\* The repair a failing group gets.
RepairFor(r) ==
  IF r.path = "tunnel" THEN "revert_begin"
  ELSE IF ~r.scanned /\ desyncScan = None THEN "scan_begin" ELSE "tunnel_begin"

ProbeResult(w, closed, offline) ==
  LET probed == [g \in Groups |-> IF g \in job[w].due THEN Probed(g, closed, offline) ELSE groups[g]]
      broken == {g \in closed : ~offline /\ probed[g].failures = groupFailureThreshold}
  IN  \/ broken = {} /\ groups' = probed /\ Becomes(w, Idle) /\ UNCHANGED <<groupWork, overlapped>>
      \/ \E g \in broken :
           LET repair == RepairFor(probed[g])
           IN  /\ groups' = [probed EXCEPT ![g].scanned = @ \/ repair = "scan_begin"]
               /\ groupWork' = TRUE
               /\ overlapped' = (overlapped \/ \E v \in Workers : InRepair(v))
               /\ Becomes(w, [job[w] EXCEPT !.pc = repair, !.group = g, !.due = {}, !.tun = 0])

ProbeEnd(w) ==
  /\ At(w, "probe")
  /\ \/ ~ProbeStands(w) /\ Becomes(w, Idle) /\ UNCHANGED <<groups, groupWork, overlapped>>
     \/ /\ ProbeStands(w)
        /\ \E closed \in SUBSET job[w].due, offline \in BOOLEAN : ProbeResult(w, closed, offline)
  /\ UNCHANGED <<running, sessionGeneration, gateway, tunnelConfig, strategySwitching, desyncScan,
                 lastPathCheck, rebinds, faults>>
-----------------------------------------------------------------------------
\* What no repair changes.
sessionRest == <<running, sessionGeneration, lastPathCheck, rebinds, overlapped>>
repairRest == <<sessionRest, faults>>

\* Variant: the flag outlives the repair.
FinishKeepsFlag(w) == Becomes(w, Idle) /\ UNCHANGED groupWork

\* The repair is over, whichever session the flag belongs to by now.
Finish(w) == groupWork' = FALSE /\ Becomes(w, Idle)

GroupOf(w) == groups[job[w].group]

\* recoverDesyncStrategySession.
ScanBegin(w) ==
  /\ At(w, "scan_begin")
  /\ IF Current(job[w].session) /\ ~strategySwitching /\ desyncScan = None /\ gateway.up
     THEN /\ desyncScan' = w
          /\ Becomes(w, [job[w] EXCEPT !.pc = "scan", !.tun = gateway.id])
          /\ UNCHANGED groupWork
     ELSE Finish(w) /\ UNCHANGED desyncScan
  /\ UNCHANGED <<gateway, tunnelConfig, strategySwitching, groups, repairRest>>

\* The result is dropped, shows no winner, or a winner takes the helper's place.
ScanEnd(w) ==
  /\ At(w, "scan")
  /\ \/ /\ ~(Current(job[w].session) /\ desyncScan = w)
        /\ Finish(w) /\ UNCHANGED <<desyncScan, strategySwitching, groups>>
     \/ /\ Current(job[w].session) /\ desyncScan = w
        /\ desyncScan' = None /\ Finish(w)
        /\ \/ UNCHANGED groups
           \/ GroupBecomes(job[w].group, [GroupOf(w) EXCEPT !.failures = groupFailureThreshold])
        /\ UNCHANGED strategySwitching
     \/ /\ Current(job[w].session) /\ desyncScan = w
        /\ gateway.id = job[w].tun /\ ~strategySwitching
        /\ strategySwitching' = TRUE
        /\ Goes(w, "verify") /\ UNCHANGED <<desyncScan, groupWork, groups>>
  /\ UNCHANGED <<gateway, tunnelConfig, repairRest>>

Superseded(w) == ~Current(job[w].session) \/ gateway.id # job[w].tun

\* The session ended or the gateway changed while a helper was starting.
SwapAbandoned(w) ==
  /\ Superseded(w)
  /\ strategySwitching' = FALSE /\ Finish(w)
  /\ UNCHANGED <<desyncScan, groups>>

SwapEnds(w, r) ==
  /\ ~Superseded(w)
  /\ strategySwitching' = FALSE /\ desyncScan' = None /\ Finish(w)
  /\ GroupBecomes(job[w].group, r)

VerifyEnd(w) ==
  /\ At(w, "verify")
  /\ \/ SwapAbandoned(w)
     \/ SwapEnds(w, Opened(GroupOf(w)))
     \/ /\ ~Superseded(w) /\ Goes(w, "rollback")
        /\ UNCHANGED <<strategySwitching, groupWork, desyncScan, groups>>
  /\ UNCHANGED <<gateway, tunnelConfig, repairRest>>

RollbackEnd(w) ==
  /\ At(w, "rollback")
  /\ SwapAbandoned(w) \/ SwapEnds(w, [GroupOf(w) EXCEPT !.failures = groupFailureThreshold])
  /\ UNCHANGED <<gateway, tunnelConfig, repairRest>>

-----------------------------------------------------------------------------
\* escalateGroupSession.
TunnelBegin(w) ==
  /\ At(w, "tunnel_begin")
  /\ IF Current(job[w].session) /\ gateway.id # 0
     THEN /\ groups' = [groups EXCEPT ![job[w].group].waiting = TRUE]
          /\ Becomes(w, [job[w] EXCEPT !.tun = gateway.id,
                                       !.pc = IF gateway.open /\ gateway.tunnel THEN "switch" ELSE "prepare"])
          /\ UNCHANGED groupWork
     ELSE Finish(w) /\ UNCHANGED groups
  /\ UNCHANGED <<gateway, tunnelConfig, strategySwitching, desyncScan, repairRest>>

\* Variant: the tunnel is not remembered for the next restart.
RebuiltOnce(w) ==
  LET config == [tunnel |-> TRUE, paths |-> [groupPaths EXCEPT ![job[w].group] = "tunnel"]]
  IN  /\ gateway' = Gateway(config) /\ tunnelConfig' = [config EXCEPT !.tunnel = FALSE]
      /\ groups' = [groups EXCEPT ![job[w].group].path = "tunnel"]
      /\ Becomes(w, [job[w] EXCEPT !.pc = "tunnel_probe", !.tun = FreshId])
      /\ UNCHANGED groupWork

\* rebuildGatewayLocked: the gateway with a tunnel, else the previous one
\* again, else none.
GatewayRebuilt(w) ==
  LET config == [tunnel |-> TRUE, paths |-> [groupPaths EXCEPT ![job[w].group] = "tunnel"]]
  IN  /\ gateway' = Gateway(config) /\ tunnelConfig' = config
      /\ groups' = [groups EXCEPT ![job[w].group].path = "tunnel"]
      /\ Becomes(w, [job[w] EXCEPT !.pc = "tunnel_probe", !.tun = FreshId])
      /\ UNCHANGED groupWork

RebuildFails(w) ==
  /\ gateway' \in {Gateway(tunnelConfig), NoGateway}
  /\ groups' = [groups EXCEPT ![job[w].group].unreachable = TRUE]
  /\ Finish(w) /\ UNCHANGED tunnelConfig

\* The tunnel was prepared without the lock, or could not be.
PrepareEnd(w) ==
  /\ At(w, "prepare")
  /\ \/ Superseded(w) /\ Finish(w) /\ UNCHANGED <<gateway, tunnelConfig, groups, strategySwitching>>
     \/ /\ ~Superseded(w) /\ Finish(w)
        /\ groups' = [groups EXCEPT ![job[w].group].unreachable = TRUE]
        /\ UNCHANGED <<gateway, tunnelConfig, strategySwitching>>
     \/ /\ ~Superseded(w) /\ strategySwitching' = FALSE
        /\ GatewayRebuilt(w) \/ RebuildFails(w)
  /\ UNCHANGED <<desyncScan, repairRest>>

\* SetGroupPath on the gateway the goroutine remembers.  A closed one refuses; a
\* path that is set already needs no call; otherwise the gateway must have a
\* tunnel, still run, and answer.
Accepts(w) == gateway.id = job[w].tun /\ gateway.open

IsSet(w, path) == gateway.paths[job[w].group] = path

Answers == gateway.up /\ gateway.tunnel

SetGroupPath(w, path) ==
  /\ Accepts(w) /\ (IsSet(w, path) \/ Answers)
  /\ gateway' = [gateway EXCEPT !.paths[job[w].group] = path] /\ UNCHANGED faults

SetFails(w, path) ==
  /\ \/ ~(Accepts(w) /\ (IsSet(w, path) \/ Answers)) /\ UNCHANGED faults
     \/ /\ Accepts(w) /\ ~IsSet(w, path) /\ Answers
        /\ faults < MaxFaults /\ faults' = faults + 1
  /\ UNCHANGED gateway

\* On an error the group is marked without asking which session runs; its
\* record is the one of the goroutine's own session.
SwitchEnd(w) ==
  /\ At(w, "switch")
  /\ \/ SetGroupPath(w, "tunnel") /\ Goes(w, "tunnel_probe") /\ UNCHANGED <<groupWork, groups>>
     \/ /\ SetFails(w, "tunnel") /\ Finish(w)
        /\ groups' = IF Current(job[w].session)
                     THEN [groups EXCEPT ![job[w].group].unreachable = TRUE] ELSE groups
  /\ UNCHANGED <<tunnelConfig, strategySwitching, desyncScan, sessionRest>>

TunnelProbeEnd(w) ==
  /\ At(w, "tunnel_probe")
  /\ Finish(w)
  /\ IF Superseded(w) THEN UNCHANGED <<groups, tunnelConfig>>
     ELSE /\ \/ GroupBecomes(job[w].group, [Opened(GroupOf(w)) EXCEPT !.path = "tunnel"])
             \/ GroupBecomes(job[w].group, [GroupOf(w) EXCEPT !.path = "tunnel", !.unreachable = TRUE])
          /\ ConfigFollows
  /\ UNCHANGED <<gateway, strategySwitching, desyncScan, repairRest>>

-----------------------------------------------------------------------------
\* revertGroupSession: desync again for a group whose tunnel failed.
RevertBegin(w) ==
  /\ At(w, "revert_begin")
  /\ IF Current(job[w].session) /\ gateway.id # 0
     THEN /\ groups' = [groups EXCEPT ![job[w].group].waiting = TRUE]
          /\ Becomes(w, [job[w] EXCEPT !.pc = "revert", !.tun = gateway.id])
          /\ UNCHANGED groupWork
     ELSE Finish(w) /\ UNCHANGED groups
  /\ UNCHANGED <<gateway, tunnelConfig, strategySwitching, desyncScan, repairRest>>

RevertSet(w) ==
  /\ At(w, "revert")
  /\ \/ SetGroupPath(w, "desync") /\ Goes(w, "revert_probe")
     \/ SetFails(w, "desync") /\ Goes(w, "revert_end")
  /\ UNCHANGED <<tunnelConfig, strategySwitching, groupWork, desyncScan, groups, sessionRest>>

\* Variant: a group that does not open is left on desync.
RevertProbeLeaves(w) ==
  /\ At(w, "revert_probe")
  /\ Goes(w, "revert_end")
  /\ UNCHANGED <<gateway, groupWork, groups, tunnelConfig, strategySwitching, desyncScan, repairRest>>

\* The group opens; or it does not and is set back, an error ignored.
RevertProbe(w) ==
  /\ At(w, "revert_probe")
  /\ \/ /\ UNCHANGED <<gateway, faults>> /\ Finish(w)
        /\ IF Superseded(w) THEN UNCHANGED <<groups, tunnelConfig>>
           ELSE /\ GroupBecomes(job[w].group, [Opened(GroupOf(w)) EXCEPT !.path = "desync"])
                /\ ConfigFollows
     \/ /\ SetGroupPath(w, "tunnel") \/ SetFails(w, "tunnel")
        /\ Goes(w, "revert_end") /\ UNCHANGED <<groupWork, groups, tunnelConfig>>
  /\ UNCHANGED <<strategySwitching, desyncScan, sessionRest>>

RevertEnd(w) ==
  /\ At(w, "revert_end")
  /\ Finish(w)
  /\ IF Superseded(w) THEN UNCHANGED <<groups, tunnelConfig>>
     ELSE GroupBecomes(job[w].group, [GroupOf(w) EXCEPT !.unreachable = TRUE]) /\ ConfigFollows
  /\ UNCHANGED <<gateway, strategySwitching, desyncScan, repairRest>>
-----------------------------------------------------------------------------
\* The gateway's process exits.
GatewayExits ==
  /\ gateway.up /\ faults < MaxFaults /\ faults' = faults + 1
  /\ gateway' = [gateway EXCEPT !.up = FALSE]
  /\ UNCHANGED <<running, sessionGeneration, tunnelConfig, flagVars, groups, job, rebinds, overlapped>>

\* recoverComponent, as far as the monitor notices: the switch is held, and a
\* gateway comes back as the configuration at the beginning had it.  It adopts
\* whatever it could start, and it can start one only while none runs.
Recovering == \E w \in Workers : job[w].pc \in RecoverPcs /\ job[w].session = sessionGeneration

RecoverBegin(w, pc) ==
  /\ At(w, "idle") /\ running /\ ~strategySwitching /\ ~Recovering
  /\ strategySwitching' = TRUE
  /\ Becomes(w, [Idle EXCEPT !.pc = pc, !.session = sessionGeneration, !.tun = gateway.id,
                          !.config = tunnelConfig])
  /\ UNCHANGED <<running, sessionGeneration, gateway, tunnelConfig, groupWork, desyncScan, lastPathCheck,
                 groups, rebinds, overlapped>>

RecoverHelper(w) ==
  /\ faults < MaxFaults /\ faults' = faults + 1
  /\ RecoverBegin(w, "recover_helper")

RecoverGateway(w) ==
  /\ ~gateway.up /\ UNCHANGED faults
  /\ RecoverBegin(w, "recover_close")

\* The gateway that had exited is closed.
RecoverClose(w) ==
  /\ At(w, "recover_close")
  /\ gateway' = IF gateway.id = job[w].tun THEN [gateway EXCEPT !.open = FALSE] ELSE gateway
  /\ Goes(w, "recover_start")
  /\ UNCHANGED <<running, sessionGeneration, tunnelConfig, flagVars, groups, rebinds, faults, overlapped>>

RecoverEnd(w) ==
  /\ job[w].pc \in {"recover_helper", "recover_start"}
  /\ Becomes(w, Idle)
  /\ strategySwitching' = IF Current(job[w].session) THEN FALSE ELSE strategySwitching
  /\ \/ UNCHANGED gateway
     \/ /\ At(w, "recover_start") /\ Current(job[w].session) /\ ~gateway.up
        /\ gateway' = Gateway(job[w].config)
  /\ UNCHANGED <<running, sessionGeneration, tunnelConfig, groupWork, desyncScan, lastPathCheck, groups,
                 rebinds, faults, overlapped>>

\* softRebindLocked: the groups start over, and a check is started beside the
\* monitor's own.
softRebind(w) ==
  /\ running /\ rebinds < MaxRebinds /\ rebinds' = rebinds + 1
  /\ lastPathCheck' = "unset"
  /\ groups' = [g \in Groups |-> Opened(groups[g])]
  /\ At(w, "idle") /\ Becomes(w, [Idle EXCEPT !.pc = "check", !.session = sessionGeneration])
  /\ UNCHANGED <<running, sessionGeneration, gateway, tunnelConfig, strategySwitching, groupWork,
                 desyncScan, faults, overlapped>>

\* Thirty seconds have passed since a check began.  Its probes are over by then:
\* eight seconds a handshake, sixteen for the direct controls.
ThirtySeconds ==
  /\ lastPathCheck = "recent" /\ lastPathCheck' = "old"
  /\ \A w \in Workers : ~At(w, "check") /\ ~At(w, "probe")
  /\ UNCHANGED <<running, sessionGeneration, gateway, tunnelConfig, strategySwitching, groupWork,
                 desyncScan, groups, job, rebinds, faults, overlapped>>

\* Ten minutes have passed since the scan, or since the escalation.
TenMinutes(g) ==
  /\ running
  /\ \/ groups[g].scanned /\ groups' = [groups EXCEPT ![g].scanned = FALSE]
     \/ groups[g].waiting /\ groups' = [groups EXCEPT ![g].waiting = FALSE]
  /\ UNCHANGED <<running, sessionGeneration, gateway, tunnelConfig, flagVars, job, rebinds, faults,
                 overlapped>>

-----------------------------------------------------------------------------
WorkerStep(w) ==
  \/ RebindCheck(w) \/ ProbeEnd(w)
  \/ ScanBegin(w) \/ ScanEnd(w) \/ VerifyEnd(w) \/ RollbackEnd(w)
  \/ TunnelBegin(w) \/ PrepareEnd(w) \/ SwitchEnd(w) \/ TunnelProbeEnd(w)
  \/ RevertBegin(w) \/ RevertSet(w) \/ RevertProbe(w) \/ RevertEnd(w)
  \/ RecoverClose(w) \/ RecoverEnd(w)

Next ==
  \/ Start \/ Stop
  \/ \E w \in Workers : MonitorCheck(w) \/ WorkerStep(w)
  \/ \E w \in Workers : RecoverHelper(w) \/ RecoverGateway(w) \/ softRebind(w)
  \/ GatewayExits \/ ThirtySeconds \/ \E g \in Groups : TenMinutes(g)

Spec == Init /\ [][Next]_vars

-----------------------------------------------------------------------------
(* Properties *)

Repairing(w) == job[w].session = sessionGeneration /\ job[w].pc \in RepairPcs

\* "At most one group repair runs at a time" (engine-reliability.md).
OneGroupRepair == running => Cardinality({w \in Workers : Repairing(w)}) <= 1

\* A gateway restarted from the configuration puts every group on the path the
\* status reports for it: escalation, revert and rebuild change both together.
ConfigHasThePaths == running => tunnelConfig.paths = groupPaths

\* No group is reported on the tunnel, and no selector points at it, without a
\* tunnel in the configuration the next gateway is built from.
TunnelIsConfigured ==
  running => \A g \in Groups :
    groups[g].path = "tunnel" \/ gateway.paths[g] = "tunnel" => tunnelConfig.tunnel

\* The path the status reports for a group ("groups[].path", contracts.md) is
\* the one the running gateway uses, whenever no repair of this session is
\* under way and no process and no selector call has failed.
PathsMatch ==
  running /\ gateway.up /\ faults = 0 /\ (\A w \in Workers : ~Repairing(w))
    => \A g \in Groups : groups[g].path = gateway.paths[g]

\* PathsMatch is what the repairs of a session leave behind, the ones that are
\* given up included, as long as they came one after the other ("At most one
\* group repair runs at a time").  Two that overlap may leave a group reported
\* on one path with its selector on the other.
PathsAgree == ~overlapped => PathsMatch

OldWorkKeepsAway ==
  \A w \in Workers :
    job[w].session \notin {0, sessionGeneration} /\ job'[w] # job[w] /\ running'
      => UNCHANGED <<gateway, tunnelConfig, groups, desyncScan, lastPathCheck>>

\* engine-reliability.md: "old probes, scans and tunnel preparation cannot
\* publish into its replacement".  A goroutine whose session is over changes
\* neither the gateway, nor a group, nor the scan of the session that runs now;
\* it may only clear groupWork and strategySwitching, which it does unchecked.
OldWorkChangesNothing == [][OldWorkKeepsAway]_vars

\* groupWork suspends the monitor (checkNetworkSession returns at once), and Stop
\* does not clear it.  While a session runs with the flag set, a goroutine of
\* that session is in a repair, which clears it whichever way it ends: the
\* monitor is never suspended for good.
SuspendedByARepair ==
  running /\ groupWork =>
    \E w \in Workers : InRepair(w)

=============================================================================

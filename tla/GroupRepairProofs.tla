------------------------- MODULE GroupRepairProofs -------------------------
(***************************************************************************)
(* Proofs about module GroupRepair, for any canary groups, any number of   *)
(* goroutines, any threshold and any number of sessions, rebinds and       *)
(* faults.                                                                 *)
(*                                                                         *)
(* The argument: a goroutine whose session is over remembers a gateway     *)
(* that is not the present one (StaleIds), so it can neither set a         *)
(* selector nor close the gateway.  Within a session a tunnel, once        *)
(* configured, stays configured (TunnelFits), and every change of a path   *)
(* the status reports changes the configuration too.  As long as repairs   *)
(* do not overlap and nothing fails, a path and its selector differ only   *)
(* while the one repair under way probes the group (Settled).              *)
(***************************************************************************)
EXTENDS GroupRepair, TLAPS

WorkPcs == BeginPcs \cup RepairPcs

ProbePcs == {"tunnel_probe", "revert_probe"}

\* Those that remember a gateway they found.
HoldPcs == {"prepare", "switch", "revert", "revert_end"} \cup ProbePcs

Of(w) == job[w].session = sessionGeneration

\* A goroutine belongs to this session or an earlier one, an idle one to none;
\* a repair has a group, and from its first step on a gateway.
JobsFit ==
  /\ running => sessionGeneration > 0
  /\ \A w \in Workers :
       /\ job[w].session <= sessionGeneration
       /\ job[w].pc = "idle" => job[w] = Idle
       /\ job[w].pc \in WorkPcs => job[w].group \in Groups
       /\ job[w].pc \in HoldPcs => job[w].tun # 0

\* Without an identity there is no gateway, and without a session none.
GatewayFits ==
  /\ gateway.id = 0 => gateway = NoGateway
  /\ ~running => gateway.id = 0

\* The work of an earlier session remembers another gateway than the present.
StaleIds ==
  \A w \in Workers :
    job[w].session # sessionGeneration => job[w].tun = 0 \/ job[w].tun # gateway.id

\* Whatever is on the tunnel, or is about to be, has a tunnel configured.
TunnelFits ==
  running =>
    /\ gateway.tunnel => tunnelConfig.tunnel
    /\ \A w \in Workers : Of(w) =>
         /\ job[w].pc = "tunnel_probe" => tunnelConfig.tunnel
         /\ job[w].pc \in RecoverPcs /\ job[w].config.tunnel => tunnelConfig.tunnel

\* One recovery at a time, and one repair as long as repairs did not overlap.
OneAtATime ==
  running => \A v, w \in Workers : Of(v) /\ Of(w) /\ v # w =>
    /\ ~(job[v].pc \in RecoverPcs /\ job[w].pc \in RecoverPcs)
    /\ ~overlapped => ~(job[v].pc \in WorkPcs /\ job[w].pc \in WorkPcs)

\* Nothing failed and no repairs overlapped: the gateway, if there is one, is
\* as configured, and a path differs from its selector only while a repair
\* probes the group.
GatewayAsConfigured ==
  gateway.id # 0 => gateway.up /\ gateway.open /\ gateway.tunnel = tunnelConfig.tunnel

Differs(g) == gateway.id # 0 /\ groups[g].path # gateway.paths[g]

OnlyProbed ==
  \A g \in Groups : Differs(g) =>
    \E w \in Workers : Of(w) /\ job[w].pc \in ProbePcs /\ job[w].group = g

RepairsFit ==
  \A w \in Workers : Of(w) =>
    /\ job[w].pc \in ProbePcs => job[w].tun = gateway.id
    /\ job[w].pc = "tunnel_probe" => gateway.paths[job[w].group] = "tunnel"
    /\ job[w].pc = "revert_probe" => gateway.paths[job[w].group] = "desync"
    /\ job[w].pc \in {"revert_begin", "revert", "revert_probe"} => groups[job[w].group].path = "tunnel"
    /\ job[w].pc \in RecoverPcs => gateway.id = 0 /\ job[w].tun = 0 /\ job[w].config = tunnelConfig

Undisturbed == running /\ faults = 0 /\ ~overlapped

Settled == Undisturbed => GatewayAsConfigured /\ OnlyProbed /\ RepairsFit

IInv == /\ TypeOK /\ JobsFit /\ GatewayFits /\ StaleIds
        /\ ConfigHasThePaths /\ TunnelIsConfigured /\ TunnelFits
        /\ SuspendedByARepair /\ OneAtATime /\ Settled

-----------------------------------------------------------------------------
(* The shapes of a step. *)

Turns(w) == job' \in [Workers -> JobType] /\ \A v \in Workers \ {w} : job'[v] = job[v]

Stops(w) == Turns(w) /\ job'[w] = Idle

PathsKept == groups' \in [Groups -> GroupType] /\ \A g \in Groups : groups'[g].path = groups[g].path

Advances(w, pc) ==
  /\ Turns(w) /\ job'[w].pc = pc /\ job'[w].session = job[w].session /\ job'[w].group = job[w].group
  /\ job'[w].tun = job[w].tun /\ job'[w].config = job[w].config

sessionVars == <<running, sessionGeneration, rebinds>>

\* A goroutine is done and changed nothing the others see, or only clears the
\* flag of a repair.  A repair that probes ends like this only when it is too
\* late for its result.
Ends(w) ==
  /\ Stops(w) /\ PathsKept
  /\ groupWork' = FALSE \/ (groupWork' = groupWork /\ job[w].pc \notin WorkPcs)
  /\ job[w].pc \in ProbePcs => Superseded(w)
  /\ faults' \in {faults, faults + 1}
  /\ UNCHANGED <<sessionVars, gateway, tunnelConfig, overlapped>>

\* A check is started, or begins to probe.
Checks(w) ==
  /\ job[w].pc \in {"idle", "check"} /\ PathsKept
  /\ Turns(w) /\ job'[w].pc \in {"check", "probe"} /\ job'[w].session = sessionGeneration
  /\ UNCHANGED <<running, sessionGeneration, gateway, tunnelConfig, groupWork, faults, overlapped>>

\* The probes of a check decide on a repair.
Decides(w) ==
  /\ job[w].pc = "probe" /\ Of(w) /\ PathsKept
  /\ Turns(w) /\ job'[w].pc \in BeginPcs /\ job'[w].session = sessionGeneration
  /\ job'[w].group \in Groups
  /\ job'[w].pc = "revert_begin" => groups[job'[w].group].path = "tunnel"
  /\ groupWork' = TRUE
  /\ overlapped' = (overlapped \/ \E v \in Workers : InRepair(v))
  /\ UNCHANGED <<sessionVars, gateway, tunnelConfig, faults>>

\* A repair goes on with nothing set.
GoesOn(w) ==
  /\ job[w].pc \in WorkPcs \ ProbePcs /\ PathsKept
  /\ Turns(w) /\ job'[w].session = job[w].session /\ job'[w].group = job[w].group
  /\ job'[w].pc \in RepairPcs \ ProbePcs
  /\ job'[w].tun = job[w].tun \/ (running /\ Of(w) /\ job'[w].tun = gateway.id)
  /\ job'[w].pc \in HoldPcs => job'[w].tun # 0
  /\ job'[w].pc = "revert" => job[w].pc = "revert_begin"
  /\ faults' \in {faults, faults + 1}
  /\ UNCHANGED <<sessionVars, gateway, tunnelConfig, groupWork, overlapped>>

\* A repair sets a selector, or sets it back, which may fail.
Sets(w, pc, path, next) ==
  /\ job[w].pc = pc /\ Advances(w, next) /\ SetGroupPath(w, path)
  /\ UNCHANGED <<sessionVars, tunnelConfig, groups, groupWork, overlapped>>

FailsBack(w) ==
  /\ job[w].pc = "revert_probe" /\ Advances(w, "revert_end") /\ SetFails(w, "tunnel")
  /\ UNCHANGED <<sessionVars, tunnelConfig, groups, groupWork, overlapped>>

\* A repair publishes its outcome.
Publishes(w) ==
  /\ job[w].pc \in HoldPcs /\ Of(w) /\ running /\ gateway.id = job[w].tun /\ Stops(w)
  /\ \E path \in Paths :
       /\ groups' \in [Groups -> GroupType]
       /\ \A g \in Groups : groups'[g].path = IF g = job[w].group THEN path ELSE groups[g].path
       /\ \/ job[w].pc = "tunnel_probe" /\ path = "tunnel"
          \/ job[w].pc = "revert_probe" /\ path = "desync"
          \/ job[w].pc = "revert_end" /\ path = groups[job[w].group].path
  /\ ConfigFollows /\ groupWork' = FALSE
  /\ UNCHANGED <<sessionVars, gateway, faults, overlapped>>

\* A gateway with a tunnel, or the attempt at one.
Rebuilds(w) ==
  /\ job[w].pc = "prepare" /\ ~Superseded(w)
  /\ LET config == [tunnel |-> TRUE, paths |-> [groupPaths EXCEPT ![job[w].group] = "tunnel"]]
     IN gateway' = Gateway(config) /\ tunnelConfig' = config
  /\ groups' \in [Groups -> GroupType]
  /\ \A g \in Groups : groups'[g].path = IF g = job[w].group THEN "tunnel" ELSE groups[g].path
  /\ Turns(w) /\ job'[w].pc = "tunnel_probe" /\ job'[w].session = job[w].session
  /\ job'[w].group = job[w].group /\ job'[w].tun = FreshId /\ groupWork' = groupWork
  /\ UNCHANGED <<sessionVars, faults, overlapped>>

FailsToRebuild(w) ==
  /\ job[w].pc = "prepare" /\ ~Superseded(w) /\ PathsKept
  /\ gateway' \in {Gateway(tunnelConfig), NoGateway} /\ Stops(w)
  /\ groupWork' = FALSE /\ UNCHANGED <<sessionVars, tunnelConfig, faults, overlapped>>

\* The three steps of a recovery.
Recovers(w) ==
  /\ job[w].pc = "idle" /\ running /\ ~Recovering
  /\ Turns(w) /\ job'[w].pc \in {"recover_helper", "recover_close"}
  /\ job'[w].session = sessionGeneration /\ job'[w].tun = gateway.id /\ job'[w].config = tunnelConfig
  /\ (~gateway.up /\ faults' = faults) \/ faults' = faults + 1
  /\ UNCHANGED <<sessionVars, gateway, tunnelConfig, groups, groupWork, overlapped>>

Closes(w) ==
  /\ job[w].pc = "recover_close" /\ Advances(w, "recover_start")
  /\ gateway' = IF gateway.id = job[w].tun THEN [gateway EXCEPT !.open = FALSE] ELSE gateway
  /\ UNCHANGED <<sessionVars, tunnelConfig, groups, groupWork, faults, overlapped>>

Restarts(w) ==
  /\ job[w].pc = "recover_start" /\ Of(w) /\ running /\ ~gateway.up
  /\ gateway' = Gateway(job[w].config) /\ Stops(w)
  /\ UNCHANGED <<sessionVars, tunnelConfig, groups, groupWork, faults, overlapped>>

\* Nothing but a flag, or what is not a path, changes.
Rests == PathsKept /\ UNCHANGED <<sessionVars, gateway, tunnelConfig, groupWork, job, faults, overlapped>>

Moves(w) ==
  \/ Ends(w) \/ Checks(w) \/ Decides(w) \/ GoesOn(w)
  \/ Sets(w, "switch", "tunnel", "tunnel_probe") \/ Sets(w, "revert", "desync", "revert_probe")
  \/ Sets(w, "revert_probe", "tunnel", "revert_end") \/ FailsBack(w)
  \/ Publishes(w) \/ Rebuilds(w) \/ FailsToRebuild(w)
  \/ Recovers(w) \/ Closes(w) \/ Restarts(w)

Moved == Rests \/ Start \/ Stop \/ GatewayExits \/ \E w \in Workers : Moves(w)

-----------------------------------------------------------------------------
(* Every step has one of these shapes. *)

\* There is always an identity no goroutine remembers.
LEMMA FreshIdIsFresh ==
  ASSUME TypeOK
  PROVE  /\ FreshId \in GatewayIds /\ FreshId # 0 /\ FreshId # gateway.id
         /\ \A w \in Workers : job[w].tun # FreshId
<1> DEFINE held == [w \in Workers |-> job[w].tun]
<1>1. held \in [Workers -> GatewayIds] /\ gateway.id \in GatewayIds
  BY DEF TypeOK, JobType, GatewayType
<1>2. PICK i \in GatewayIds \ {0} : i # gateway.id /\ \A w \in Workers : held[w] # i
  BY <1>1, IdentityAssumption, Zenon
<1>3. \E j \in GatewayIds \ {0} : j # gateway.id /\ \A w \in Workers : job[w].tun # j
  BY <1>2
<1> QED BY <1>3 DEF FreshId

\* A gateway is built with what it is configured with.
LEMMA GatewayTyped ==
  ASSUME TypeOK, NEW config \in ConfigType
  PROVE  /\ Gateway(config) \in GatewayType
         /\ Gateway(config).id = FreshId /\ Gateway(config).open /\ Gateway(config).up
         /\ Gateway(config).tunnel = config.tunnel
         /\ \A g \in Groups : Gateway(config).paths[g] = IF config.tunnel THEN config.paths[g] ELSE "desync"
<1>1. FreshId \in GatewayIds
  BY FreshIdIsFresh
<1>2. [g \in Groups |-> IF config.tunnel THEN config.paths[g] ELSE "desync"] \in [Groups -> Paths]
  BY DEF ConfigType, Paths
<1>3. config.tunnel \in BOOLEAN
  BY DEF ConfigType
<1> QED BY <1>1, <1>2, <1>3 DEF Gateway, GatewayType

\* The constants of the model have their types.
LEMMA NothingTyped ==
  /\ NoConfig \in ConfigType /\ NoGateway \in GatewayType /\ NewGroup \in GroupType /\ Idle \in JobType
  /\ NoGateway.id = 0 /\ ~NoGateway.open /\ ~NoGateway.up /\ ~NoGateway.tunnel
  /\ \A g \in Groups : NoGateway.paths[g] = "desync" /\ NoConfig.paths[g] = "desync"
  /\ ~NoConfig.tunnel /\ NewGroup.path = "desync"
  /\ Idle.pc = "idle" /\ Idle.session = 0 /\ Idle.tun = 0
<1>1. AllDesync \in [Groups -> Paths] /\ \A g \in Groups : AllDesync[g] = "desync"
  BY DEF AllDesync, Paths
<1>2. 0 \in GatewayIds
  BY IdentityAssumption
<1>3. 0 \in FailureCounts
  BY GroupAssumption DEF FailureCounts
<1>4. NoConfig \in ConfigType /\ ~NoConfig.tunnel /\ NoConfig.paths = AllDesync
  BY <1>1 DEF NoConfig, ConfigType
<1>5. /\ NoGateway \in GatewayType /\ NoGateway.id = 0
      /\ ~NoGateway.open /\ ~NoGateway.up /\ ~NoGateway.tunnel
      /\ NoGateway.paths = AllDesync
  BY <1>1, <1>2 DEF NoGateway, GatewayType
<1>6. NewGroup \in GroupType /\ NewGroup.path = "desync"
  BY <1>3 DEF NewGroup, GroupType, Paths
<1>7. Idle \in JobType /\ Idle.pc = "idle" /\ Idle.session = 0 /\ Idle.tun = 0
  BY <1>2, <1>4, Zenon DEF Idle, JobType, Pcs
<1> QED BY <1>1, <1>4, <1>5, <1>6, <1>7, Zenon

\* One goroutine steps and the others do not.
LEMMA OneTurns ==
  ASSUME TypeOK, NEW w \in Workers, NEW r \in JobType, Becomes(w, r)
  PROVE  Turns(w) /\ job'[w] = r
BY DEF TypeOK, Becomes, Turns

\* A goroutine goes on with what it has.
LEMMA OneAdvances ==
  ASSUME TypeOK, NEW w \in Workers, NEW pc \in Pcs, Goes(w, pc)
  PROVE  Advances(w, pc)
<1> DEFINE r == [job[w] EXCEPT !.pc = pc]
<1>1. job[w] \in JobType
  BY DEF TypeOK
<1>2. r \in JobType
  BY <1>1 DEF JobType
<1>3. /\ r.pc = pc /\ r.session = job[w].session /\ r.group = job[w].group
      /\ r.tun = job[w].tun /\ r.config = job[w].config
  BY <1>1 DEF JobType
<1>4. Becomes(w, r)
  BY DEF Goes
<1> HIDE DEF r
<1>5. Turns(w) /\ job'[w] = r
  BY <1>2, <1>4, OneTurns
<1> QED BY <1>3, <1>5, Zenon DEF Advances

\* What a step does to the record of one group.
LEMMA OneGroupTurns ==
  ASSUME TypeOK, NEW g, NEW r \in GroupType, groups' = [groups EXCEPT ![g] = r]
  PROVE  /\ groups' \in [Groups -> GroupType]
         /\ \A h \in Groups : groups'[h].path = IF h = g THEN r.path ELSE groups[h].path
BY Zenon DEF TypeOK

\* A changed record of a group is one, on the same path but where it is set.
LEMMA GroupTyped ==
  ASSUME TypeOK, NEW g \in Groups
  PROVE  /\ groups[g] \in GroupType /\ groups[g].path \in Paths
         /\ Opened(groups[g]) \in GroupType /\ Opened(groups[g]).path = groups[g].path
         /\ [groups[g] EXCEPT !.failures = groupFailureThreshold] \in GroupType
         /\ [groups[g] EXCEPT !.failures = groupFailureThreshold].path = groups[g].path
         /\ [groups[g] EXCEPT !.unreachable = TRUE] \in GroupType
         /\ [groups[g] EXCEPT !.unreachable = TRUE].path = groups[g].path
         /\ [groups[g] EXCEPT !.waiting = TRUE] \in GroupType
         /\ [groups[g] EXCEPT !.waiting = TRUE].path = groups[g].path
<1>1. groups[g] \in GroupType
  BY DEF TypeOK
<1>2. 0 \in FailureCounts /\ groupFailureThreshold \in FailureCounts
  BY GroupAssumption DEF FailureCounts
<1>3. groups[g].path \in Paths
  BY <1>1 DEF GroupType
<1>4. Opened(groups[g]) \in GroupType /\ Opened(groups[g]).path = groups[g].path
  BY <1>1, <1>2, Zenon DEF Opened, GroupType
<1>5. /\ [groups[g] EXCEPT !.failures = groupFailureThreshold] \in GroupType
      /\ [groups[g] EXCEPT !.failures = groupFailureThreshold].path = groups[g].path
  BY <1>1, <1>2 DEF GroupType
<1>6. /\ [groups[g] EXCEPT !.unreachable = TRUE] \in GroupType
      /\ [groups[g] EXCEPT !.unreachable = TRUE].path = groups[g].path
  BY <1>1, Zenon DEF GroupType
<1>7. /\ [groups[g] EXCEPT !.waiting = TRUE] \in GroupType
      /\ [groups[g] EXCEPT !.waiting = TRUE].path = groups[g].path
  BY <1>1, Zenon DEF GroupType
<1> QED BY <1>1, <1>3, <1>4, <1>5, <1>6, <1>7, Zenon

\* Marking a group leaves the paths alone.
LEMMA MarksKeepPaths ==
  ASSUME TypeOK, NEW g \in Groups,
         \/ UNCHANGED groups
         \/ groups' = [groups EXCEPT ![g].unreachable = TRUE]
         \/ groups' = [groups EXCEPT ![g].waiting = TRUE]
         \/ groups' = [groups EXCEPT ![g] = Opened(groups[g])]
         \/ groups' = [groups EXCEPT ![g] = [groups[g] EXCEPT !.failures = groupFailureThreshold]]
  PROVE  PathsKept
<1>1. CASE UNCHANGED groups
  BY <1>1 DEF PathsKept, TypeOK
<1>2. ASSUME NEW r \in GroupType, groups' = [groups EXCEPT ![g] = r], r.path = groups[g].path
      PROVE  PathsKept
  BY <1>2, OneGroupTurns, Zenon DEF PathsKept
<1>3. CASE groups' = [groups EXCEPT ![g].unreachable = TRUE]
  <2>1. groups' = [groups EXCEPT ![g] = [groups[g] EXCEPT !.unreachable = TRUE]]
    BY <1>3
  <2> QED BY <1>2, <2>1, GroupTyped, Zenon
<1>4. CASE groups' = [groups EXCEPT ![g].waiting = TRUE]
  <2>1. groups' = [groups EXCEPT ![g] = [groups[g] EXCEPT !.waiting = TRUE]]
    BY <1>4
  <2> QED BY <1>2, <2>1, GroupTyped, Zenon
<1> QED BY <1>1, <1>2, <1>3, <1>4, GroupTyped, Zenon

\* A goroutine that finishes.
LEMMA FinishEnds ==
  ASSUME TypeOK, NEW w \in Workers, Finish(w), PathsKept, faults' \in {faults, faults + 1},
         job[w].pc \in ProbePcs => Superseded(w),
         UNCHANGED <<running, sessionGeneration, rebinds, gateway, tunnelConfig, overlapped>>
  PROVE  Ends(w)
<1>1. Stops(w) /\ groupWork' = FALSE
  BY OneTurns, NothingTyped DEF Finish, Stops
<1> QED BY <1>1 DEF Ends, sessionVars

\* A check.
LEMMA CheckMoves ==
  ASSUME IInv, NEW w \in Workers, MonitorCheck(w) \/ RebindCheck(w)
  PROVE  Checks(w) \/ Ends(w)
<1>0. TypeOK /\ Idle \in JobType
  BY NothingTyped DEF IInv
<1>1. /\ job[w].pc \in {"idle", "check"} /\ PathsKept
      /\ UNCHANGED <<running, sessionGeneration, rebinds, gateway, tunnelConfig, groupWork, faults,
                     overlapped>>
  BY <1>0, Zenon DEF MonitorCheck, RebindCheck, At, PathsKept, TypeOK
<1>2. CASE Becomes(w, Idle)
  <2>1. Stops(w)
    BY <1>0, <1>2, OneTurns, Zenon DEF Stops
  <2> QED BY <1>1, <2>1 DEF Ends, sessionVars, WorkPcs, BeginPcs, RepairPcs, ProbePcs
<1>3. ASSUME NEW main \in BOOLEAN, NEW everyFifth \in BOOLEAN,
             Becomes(w, [Idle EXCEPT !.pc = "probe", !.session = sessionGeneration, !.main = main,
                                     !.due = DueGroups(everyFifth), !.tun = gateway.id])
      PROVE  Checks(w)
  <2> DEFINE r == [Idle EXCEPT !.pc = "probe", !.session = sessionGeneration, !.main = main,
                               !.due = DueGroups(everyFifth), !.tun = gateway.id]
  <2>1. sessionGeneration \in Nat /\ gateway.id \in GatewayIds /\ DueGroups(everyFifth) \in SUBSET Groups
    BY <1>0 DEF TypeOK, GatewayType, DueGroups
  <2>2. r \in JobType
    BY <1>0, <2>1, Zenon DEF JobType, Pcs
  <2>3. r.pc = "probe" /\ r.session = sessionGeneration
    BY DEF Idle
  <2>4. Becomes(w, r)
    BY <1>3
  <2> HIDE DEF r
  <2>5. Turns(w) /\ job'[w] = r
    BY <1>0, <2>2, <2>4, OneTurns, Zenon
  <2> QED BY <1>1, <2>3, <2>5, Zenon DEF Checks
<1>4. CASE MonitorCheck(w)
  BY <1>2, <1>3, <1>4, Zenon DEF MonitorCheck, CheckBegin
<1>5. CASE RebindCheck(w)
  BY <1>2, <1>3, <1>5, Zenon DEF RebindCheck, CheckBegin
<1> QED BY <1>4, <1>5

\* A rebind starts a check.
LEMMA RebindMoves ==
  ASSUME IInv, NEW w \in Workers, softRebind(w)
  PROVE  Checks(w)
<1> DEFINE r == [Idle EXCEPT !.pc = "check", !.session = sessionGeneration]
<1>0. TypeOK /\ Idle \in JobType
  BY NothingTyped DEF IInv
<1>1. r \in JobType
  BY <1>0, Zenon DEF JobType, Pcs, TypeOK
<1>2. r.pc = "check" /\ r.session = sessionGeneration
  BY DEF Idle
<1>3. Becomes(w, r) /\ job[w].pc = "idle"
  BY DEF softRebind, At
<1> HIDE DEF r
<1>4. Turns(w) /\ job'[w] = r
  BY <1>0, <1>1, <1>3, OneTurns, Zenon
<1>5. PathsKept
  BY <1>0, GroupTyped, Zenon DEF softRebind, PathsKept
<1> QED BY <1>2, <1>3, <1>4, <1>5, Zenon DEF softRebind, Checks

\* The end of the probes.
LEMMA ProbeMoves ==
  ASSUME IInv, NEW w \in Workers, ProbeEnd(w)
  PROVE  Ends(w) \/ Decides(w)
<1>0. TypeOK /\ Idle \in JobType /\ job[w] \in JobType /\ job[w].pc = "probe"
  BY NothingTyped, Zenon DEF IInv, TypeOK, ProbeEnd, At
<1>1. UNCHANGED <<running, sessionGeneration, rebinds, gateway, tunnelConfig, faults>>
  BY Zenon DEF ProbeEnd
<1>2. ASSUME Becomes(w, Idle), PathsKept, UNCHANGED <<groupWork, overlapped>> PROVE Ends(w)
  <2>1. Stops(w)
    BY <1>0, <1>2, OneTurns, Zenon DEF Stops
  <2> QED BY <1>0, <1>1, <1>2, <2>1, Zenon DEF Ends, sessionVars, WorkPcs, BeginPcs, RepairPcs, ProbePcs
<1>3. CASE ~ProbeStands(w)
  BY <1>0, <1>2, <1>3, Zenon DEF ProbeEnd, PathsKept, TypeOK
<1>4. ASSUME ProbeStands(w), NEW closed \in SUBSET job[w].due, NEW offline \in BOOLEAN,
             ProbeResult(w, closed, offline)
      PROVE  Ends(w) \/ Decides(w)
  <2> DEFINE probed == [g \in Groups |-> IF g \in job[w].due THEN Probed(g, closed, offline) ELSE groups[g]]
             broken == {g \in closed : ~offline /\ probed[g].failures = groupFailureThreshold}
  <2>1. ASSUME NEW g \in Groups PROVE probed[g] \in GroupType /\ probed[g].path = groups[g].path
    <3>1. groups[g] \in GroupType /\ groups[g].failures \in FailureCounts
      BY <1>0, Zenon DEF TypeOK, GroupType
    <3>2. AtMost(groups[g].failures + 1) \in FailureCounts
      BY <3>1, GroupAssumption DEF AtMost, FailureCounts
    <3> DEFINE worse == [groups[g] EXCEPT !.failures = AtMost(groups[g].failures + 1)]
    <3>3. worse \in GroupType /\ worse.path = groups[g].path
      BY <3>1, <3>2 DEF GroupType
    <3>4. probed[g] \in {worse, Opened(groups[g]), groups[g]}
      BY Zenon DEF Probed
    <3> HIDE DEF worse, probed
    <3> QED BY <1>0, <3>1, <3>3, <3>4, GroupTyped, Zenon
  <2>2. probed \in [Groups -> GroupType]
    BY <2>1, Zenon
  <2> HIDE DEF probed
  <2>3. CASE groups' = probed /\ Becomes(w, Idle) /\ UNCHANGED <<groupWork, overlapped>>
    BY <1>2, <2>1, <2>2, <2>3, Zenon DEF PathsKept
  <2>4. ASSUME NEW g \in broken,
               groups' = [probed EXCEPT ![g].scanned =
                             probed[g].scanned \/ RepairFor(probed[g]) = "scan_begin"],
               groupWork' = TRUE, overlapped' = (overlapped \/ \E v \in Workers : InRepair(v)),
               Becomes(w, [job[w] EXCEPT !.pc = RepairFor(probed[g]), !.group = g, !.due = {}, !.tun = 0])
        PROVE  Decides(w)
    <3> DEFINE repair == RepairFor(probed[g])
               r == [job[w] EXCEPT !.pc = repair, !.group = g, !.due = {}, !.tun = 0]
               p == [probed[g] EXCEPT !.scanned = probed[g].scanned \/ repair = "scan_begin"]
    <3>1. g \in Groups
      BY <1>0, <2>4, Zenon DEF JobType
    <3>2. repair \in BeginPcs /\ (repair = "revert_begin" => groups[g].path = "tunnel")
      BY <2>1, <3>1, Zenon DEF RepairFor, BeginPcs
    <3>3. 0 \in GatewayIds
      BY NothingTyped DEF GatewayType
    <3>4. r \in JobType
      <4>1. repair \in Pcs
        BY <3>2, Zenon DEF Pcs
      <4> HIDE DEF repair
      <4> QED BY <1>0, <3>1, <3>3, <4>1, Zenon DEF JobType
    <3>5. r.pc = repair /\ r.session = job[w].session /\ r.group = g
      BY <1>0 DEF JobType
    <3>6. p \in GroupType /\ p.path = probed[g].path
      <4>1. probed[g] \in GroupType /\ (probed[g].scanned \/ repair = "scan_begin") \in BOOLEAN
        BY <2>1, <3>1 DEF GroupType
      <4> HIDE DEF repair
      <4> QED BY <4>1, Zenon DEF GroupType
    <3>7. groups' = [probed EXCEPT ![g] = p]
      BY <2>4, Zenon
    <3> HIDE DEF p
    <3>8. PathsKept
      BY <2>1, <2>2, <3>1, <3>6, <3>7, Zenon DEF PathsKept
    <3>9. Becomes(w, r)
      BY <2>4, Zenon
    <3> HIDE DEF r, repair
    <3>10. Turns(w) /\ job'[w] = r
      BY <1>0, <3>4, <3>9, OneTurns, Zenon
    <3>11. job[w].session = sessionGeneration
      BY <1>4, Zenon DEF ProbeStands, Current
    <3> QED BY <1>0, <1>1, <2>4, <3>1, <3>2, <3>5, <3>8, <3>10, <3>11, Zenon DEF Decides, Of, sessionVars
  <2> QED BY <1>4, <2>3, <2>4, Zenon DEF ProbeResult, probed
<1> QED BY <1>3, <1>4, Zenon DEF ProbeEnd

\* A repair that goes on, its gateway perhaps found just now.
LEMMA WorkGoesOn ==
  ASSUME IInv, NEW w \in Workers, NEW pc \in RepairPcs \ ProbePcs, NEW tun \in {job[w].tun, gateway.id},
         Becomes(w, [job[w] EXCEPT !.pc = pc, !.tun = tun]),
         job[w].pc \in WorkPcs \ ProbePcs, PathsKept, faults' \in {faults, faults + 1},
         tun = job[w].tun \/ Current(job[w].session),
         pc \in HoldPcs => tun # 0, pc = "revert" => job[w].pc = "revert_begin",
         UNCHANGED <<running, sessionGeneration, rebinds, gateway, tunnelConfig, groupWork, overlapped>>
  PROVE  GoesOn(w)
<1> DEFINE r == [job[w] EXCEPT !.pc = pc, !.tun = tun]
<1>0. TypeOK /\ job[w] \in JobType /\ tun \in GatewayIds /\ pc \in Pcs
  BY DEF IInv, TypeOK, JobType, GatewayType, Pcs
<1>1. r \in JobType
  BY <1>0, Zenon DEF JobType
<1>2. r.pc = pc /\ r.session = job[w].session /\ r.group = job[w].group /\ r.tun = tun
  BY <1>0 DEF JobType
<1>3. Becomes(w, r)
  OBVIOUS
<1> HIDE DEF r
<1>4. Turns(w) /\ job'[w] = r
  BY <1>0, <1>1, <1>3, OneTurns, Zenon
<1>5. tun = job[w].tun \/ (running /\ Of(w) /\ tun = gateway.id)
  BY Zenon DEF Current, Of
<1> QED BY <1>2, <1>4, <1>5, Zenon DEF GoesOn, sessionVars

\* The same with the gateway it had.
LEMMA WorkAdvances ==
  ASSUME IInv, NEW w \in Workers, NEW pc \in {"verify", "rollback", "revert_end"}, Goes(w, pc),
         job[w].pc \in {"scan", "verify", "revert"}, PathsKept, faults' \in {faults, faults + 1},
         pc = "revert_end" => job[w].pc = "revert",
         UNCHANGED <<running, sessionGeneration, rebinds, gateway, tunnelConfig, groupWork, overlapped>>
  PROVE  GoesOn(w)
<1>1. TypeOK /\ pc \in Pcs /\ pc \in RepairPcs \ ProbePcs /\ job[w].pc \in WorkPcs \ ProbePcs
  BY Zenon DEF IInv, Pcs, RepairPcs, ProbePcs, WorkPcs
<1>2. Advances(w, pc)
  BY <1>1, OneAdvances, Zenon
<1>3. pc \in HoldPcs => job[w].tun # 0
  BY DEF HoldPcs, ProbePcs, IInv, JobsFit
<1> QED BY <1>1, <1>2, <1>3, Zenon DEF Advances, GoesOn, sessionVars

\* A scan for another strategy.
LEMMA ScanMoves ==
  ASSUME IInv, NEW w \in Workers, ScanBegin(w) \/ ScanEnd(w) \/ VerifyEnd(w) \/ RollbackEnd(w)
  PROVE  Ends(w) \/ GoesOn(w)
<1>0. TypeOK /\ job[w].pc \in {"scan_begin", "scan", "verify", "rollback"}
  BY Zenon DEF IInv, ScanBegin, ScanEnd, VerifyEnd, RollbackEnd, At
<1>1. job[w].group \in Groups /\ job[w].pc \in WorkPcs \ ProbePcs
  BY <1>0, Zenon DEF IInv, JobsFit, WorkPcs, ProbePcs, BeginPcs, RepairPcs
<1>2. UNCHANGED <<running, sessionGeneration, rebinds, gateway, tunnelConfig, faults, overlapped>>
  BY Zenon DEF ScanBegin, ScanEnd, VerifyEnd, RollbackEnd, repairRest, sessionRest
<1>3. \/ UNCHANGED groups
      \/ groups' = [groups EXCEPT ![job[w].group] = Opened(groups[job[w].group])]
      \/ groups' = [groups EXCEPT ![job[w].group] =
                      [groups[job[w].group] EXCEPT !.failures = groupFailureThreshold]]
  BY Zenon DEF ScanBegin, ScanEnd, VerifyEnd, RollbackEnd, SwapAbandoned, SwapEnds, GroupBecomes, GroupOf
<1>4. PathsKept
  BY <1>0, <1>1, <1>3, MarksKeepPaths, Zenon
<1>5. CASE Finish(w)
  BY <1>0, <1>1, <1>2, <1>4, <1>5, FinishEnds, Zenon
<1>6. CASE ScanBegin(w) /\ ~Finish(w)
  <2>1. /\ Becomes(w, [job[w] EXCEPT !.pc = "scan", !.tun = gateway.id]) /\ UNCHANGED groupWork
        /\ Current(job[w].session) /\ job[w].pc = "scan_begin"
    BY <1>6 DEF ScanBegin, At
  <2>2. "scan" \in RepairPcs \ ProbePcs /\ "scan" \notin HoldPcs
    BY Zenon DEF RepairPcs, ProbePcs, HoldPcs
  <2> QED BY <1>1, <1>2, <1>4, <2>1, <2>2, WorkGoesOn, Zenon
<1>7. CASE ScanEnd(w) /\ ~Finish(w)
  <2>1. Goes(w, "verify") /\ UNCHANGED groupWork /\ job[w].pc = "scan"
    BY <1>7, Zenon DEF ScanEnd, At
  <2> QED BY <1>2, <1>4, <2>1, WorkAdvances, Zenon
<1>8. CASE VerifyEnd(w) /\ ~Finish(w)
  <2>1. Goes(w, "rollback") /\ UNCHANGED groupWork /\ job[w].pc = "verify"
    BY <1>8, Zenon DEF VerifyEnd, SwapAbandoned, SwapEnds, At
  <2> QED BY <1>2, <1>4, <2>1, WorkAdvances, Zenon
<1>9. CASE RollbackEnd(w)
  BY <1>5, <1>9, Zenon DEF RollbackEnd, SwapAbandoned, SwapEnds
<1> QED BY <1>5, <1>6, <1>7, <1>8, <1>9, Zenon

\* A repair publishes: the group's new record has the path the selector has.
LEMMA WorkPublishes ==
  ASSUME IInv, NEW w \in Workers, NEW r \in GroupType, GroupBecomes(job[w].group, r), ConfigFollows,
         Finish(w), ~Superseded(w),
         \/ job[w].pc = "tunnel_probe" /\ r.path = "tunnel"
         \/ job[w].pc = "revert_probe" /\ r.path = "desync"
         \/ job[w].pc = "revert_end" /\ r.path = groups[job[w].group].path,
         UNCHANGED <<running, sessionGeneration, rebinds, gateway, faults, overlapped>>
  PROVE  Publishes(w)
<1>0. TypeOK /\ job[w].pc \in HoldPcs /\ r.path \in Paths
  BY Zenon DEF IInv, HoldPcs, ProbePcs, GroupType
<1>1. Stops(w) /\ groupWork' = FALSE
  BY <1>0, OneTurns, NothingTyped, Zenon DEF Finish, Stops
<1>2. /\ groups' \in [Groups -> GroupType]
      /\ \A g \in Groups : groups'[g].path = IF g = job[w].group THEN r.path ELSE groups[g].path
  BY <1>0, OneGroupTurns, Zenon DEF GroupBecomes
<1>3. Of(w) /\ running /\ gateway.id = job[w].tun
  BY DEF Superseded, Current, Of
<1> QED BY <1>0, <1>1, <1>2, <1>3, Zenon DEF Publishes, sessionVars

\* A record on another path.
LEMMA GroupMoved ==
  ASSUME TypeOK, NEW g \in Groups, NEW path \in Paths
  PROVE  /\ [Opened(groups[g]) EXCEPT !.path = path] \in GroupType
         /\ [Opened(groups[g]) EXCEPT !.path = path].path = path
         /\ [groups[g] EXCEPT !.path = path, !.unreachable = TRUE] \in GroupType
         /\ [groups[g] EXCEPT !.path = path, !.unreachable = TRUE].path = path
         /\ [groups[g] EXCEPT !.path = path] \in GroupType
         /\ [groups[g] EXCEPT !.path = path].path = path
<1>1. groups[g] \in GroupType /\ Opened(groups[g]) \in GroupType
  BY GroupTyped, Zenon
<1>2. [Opened(groups[g]) EXCEPT !.path = path] \in GroupType
      /\ [Opened(groups[g]) EXCEPT !.path = path].path = path
  BY <1>1 DEF GroupType
<1>3. [groups[g] EXCEPT !.path = path, !.unreachable = TRUE] \in GroupType
      /\ [groups[g] EXCEPT !.path = path, !.unreachable = TRUE].path = path
  BY <1>1, Zenon DEF GroupType
<1>4. [groups[g] EXCEPT !.path = path] \in GroupType /\ [groups[g] EXCEPT !.path = path].path = path
  BY <1>1, Zenon DEF GroupType
<1> QED BY <1>2, <1>3, <1>4, Zenon

\* The tunnel is prepared and the gateway rebuilt.
LEMMA PrepareMoves ==
  ASSUME IInv, NEW w \in Workers, PrepareEnd(w)
  PROVE  Ends(w) \/ Rebuilds(w) \/ FailsToRebuild(w)
<1>0. TypeOK /\ job[w] \in JobType /\ job[w].pc = "prepare"
  BY Zenon DEF IInv, TypeOK, PrepareEnd, At
<1>1. job[w].group \in Groups
  BY <1>0, Zenon DEF IInv, JobsFit, WorkPcs, RepairPcs
<1>2. UNCHANGED <<running, sessionGeneration, rebinds, faults, overlapped>>
  BY Zenon DEF PrepareEnd, repairRest, sessionRest
<1>3. ASSUME Finish(w), UNCHANGED <<gateway, tunnelConfig>>,
             UNCHANGED groups \/ groups' = [groups EXCEPT ![job[w].group].unreachable = TRUE]
      PROVE  Ends(w)
  <2>1. PathsKept
    BY <1>0, <1>1, <1>3, MarksKeepPaths, Zenon
  <2> QED BY <1>0, <1>2, <1>3, <2>1, FinishEnds, Zenon DEF ProbePcs
<1>4. ASSUME ~Superseded(w), RebuildFails(w) PROVE FailsToRebuild(w)
  <2>1. PathsKept
    BY <1>0, <1>1, <1>4, MarksKeepPaths, Zenon DEF RebuildFails
  <2>2. Stops(w) /\ groupWork' = FALSE
    BY <1>0, <1>4, OneTurns, NothingTyped, Zenon DEF RebuildFails, Finish, Stops
  <2> QED BY <1>0, <1>2, <1>4, <2>1, <2>2, Zenon DEF RebuildFails, FailsToRebuild, sessionVars
<1>5. ASSUME ~Superseded(w), GatewayRebuilt(w) PROVE Rebuilds(w)
  <2> DEFINE r == [job[w] EXCEPT !.pc = "tunnel_probe", !.tun = FreshId]
             p == [groups[job[w].group] EXCEPT !.path = "tunnel"]
  <2>1. r \in JobType
    BY <1>0, FreshIdIsFresh, Zenon DEF JobType, Pcs, RepairPcs
  <2>2. r.pc = "tunnel_probe" /\ r.session = job[w].session /\ r.group = job[w].group /\ r.tun = FreshId
    BY <1>0, Zenon DEF JobType
  <2>3. Becomes(w, r) /\ groupWork' = groupWork
    BY <1>5, Zenon DEF GatewayRebuilt
  <2> HIDE DEF r
  <2>4. Turns(w) /\ job'[w] = r
    BY <1>0, <2>1, <2>3, OneTurns, Zenon
  <2>5. p \in GroupType /\ p.path = "tunnel"
    BY <1>0, <1>1, GroupMoved, Zenon DEF Paths
  <2>6. groups' = [groups EXCEPT ![job[w].group] = p]
    BY <1>5 DEF GatewayRebuilt
  <2> HIDE DEF p
  <2>7. /\ groups' \in [Groups -> GroupType]
        /\ \A g \in Groups : groups'[g].path = IF g = job[w].group THEN "tunnel" ELSE groups[g].path
    BY <1>0, <2>5, <2>6, OneGroupTurns, Zenon
  <2>8. LET config == [tunnel |-> TRUE, paths |-> [groupPaths EXCEPT ![job[w].group] = "tunnel"]]
        IN gateway' = Gateway(config) /\ tunnelConfig' = config
    BY <1>5, Zenon DEF GatewayRebuilt
  <2> QED BY <1>0, <1>2, <1>5, <2>2, <2>3, <2>4, <2>7, <2>8, Zenon DEF Rebuilds, sessionVars
<1> QED BY <1>3, <1>4, <1>5, Zenon DEF PrepareEnd

\* The other steps of an escalation.
LEMMA TunnelMoves ==
  ASSUME IInv, NEW w \in Workers, TunnelBegin(w) \/ SwitchEnd(w) \/ TunnelProbeEnd(w)
  PROVE  Ends(w) \/ GoesOn(w) \/ Sets(w, "switch", "tunnel", "tunnel_probe") \/ Publishes(w)
<1>0. TypeOK /\ job[w].pc \in {"tunnel_begin", "switch", "tunnel_probe"}
  BY Zenon DEF IInv, TunnelBegin, SwitchEnd, TunnelProbeEnd, At
<1>1. job[w].group \in Groups
  BY <1>0, Zenon DEF IInv, JobsFit, WorkPcs, RepairPcs, BeginPcs
<1>2. UNCHANGED <<running, sessionGeneration, rebinds, overlapped>>
  BY Zenon DEF TunnelBegin, SwitchEnd, TunnelProbeEnd, repairRest, sessionRest
<1>3. faults' \in {faults, faults + 1}
  BY Zenon DEF TunnelBegin, SwitchEnd, TunnelProbeEnd, repairRest, SetGroupPath, SetFails
<1>4. CASE TunnelBegin(w)
  <2>1. UNCHANGED <<gateway, tunnelConfig>> /\ job[w].pc = "tunnel_begin"
    BY <1>4, Zenon DEF TunnelBegin, At
  <2>2. PathsKept
    BY <1>0, <1>1, <1>4, MarksKeepPaths, Zenon DEF TunnelBegin
  <2>3. CASE Finish(w)
    BY <1>0, <1>2, <1>3, <2>1, <2>2, <2>3, FinishEnds, Zenon DEF ProbePcs
  <2>4. CASE ~Finish(w)
    <3>1. Current(job[w].session) /\ gateway.id # 0 /\ UNCHANGED groupWork
      BY <1>4, <2>4, Zenon DEF TunnelBegin
    <3>2. PICK pc \in {"switch", "prepare"} : Becomes(w, [job[w] EXCEPT !.pc = pc, !.tun = gateway.id])
      BY <1>4, <2>4, Zenon DEF TunnelBegin
    <3>3. pc \in RepairPcs \ ProbePcs /\ pc # "revert" /\ job[w].pc \in WorkPcs \ ProbePcs
      BY <2>1, <3>2, Zenon DEF RepairPcs, ProbePcs, WorkPcs, BeginPcs
    <3> QED BY <1>2, <1>3, <2>1, <2>2, <3>1, <3>2, <3>3, WorkGoesOn, Zenon
  <2> QED BY <2>3, <2>4, Zenon
<1>5. CASE SwitchEnd(w)
  <2>1. tunnelConfig' = tunnelConfig /\ job[w].pc = "switch"
    BY <1>5, Zenon DEF SwitchEnd, At
  <2>2. CASE SetGroupPath(w, "tunnel") /\ Goes(w, "tunnel_probe") /\ UNCHANGED <<groupWork, groups>>
    <3>1. Advances(w, "tunnel_probe")
      BY <1>0, <2>2, OneAdvances, Zenon DEF Pcs, RepairPcs
    <3> QED BY <1>2, <2>1, <2>2, <3>1, Zenon DEF Sets, sessionVars
  <2>3. ASSUME SetFails(w, "tunnel"), Finish(w),
               UNCHANGED groups \/ groups' = [groups EXCEPT ![job[w].group].unreachable = TRUE]
        PROVE  Ends(w)
    <3>1. PathsKept
      BY <1>0, <1>1, <2>3, MarksKeepPaths, Zenon
    <3> QED BY <1>0, <1>2, <1>3, <2>1, <2>3, <3>1, FinishEnds, Zenon DEF SetFails, ProbePcs
  <2> QED BY <1>5, <2>2, <2>3, Zenon DEF SwitchEnd
<1>6. CASE TunnelProbeEnd(w)
  <2>1. UNCHANGED <<gateway, faults>> /\ job[w].pc = "tunnel_probe" /\ Finish(w)
    BY <1>6, Zenon DEF TunnelProbeEnd, At, repairRest
  <2>2. CASE Superseded(w)
    <3>1. PathsKept /\ UNCHANGED tunnelConfig
      BY <1>0, <1>6, <2>2, Zenon DEF TunnelProbeEnd, PathsKept, TypeOK
    <3> QED BY <1>0, <1>2, <1>3, <2>1, <2>2, <3>1, FinishEnds, Zenon
  <2>3. CASE ~Superseded(w)
    <3>1. PICK r \in GroupType : r.path = "tunnel" /\ GroupBecomes(job[w].group, r)
      BY <1>0, <1>1, <1>6, <2>3, GroupMoved, Zenon DEF TunnelProbeEnd, GroupOf, Paths
    <3>2. ConfigFollows
      BY <1>6, <2>3, Zenon DEF TunnelProbeEnd
    <3> QED BY <1>2, <2>1, <2>3, <3>1, <3>2, WorkPublishes, Zenon
  <2> QED BY <2>2, <2>3
<1> QED BY <1>4, <1>5, <1>6, Zenon

\* A group goes back to desync, or is set back to the tunnel.
LEMMA RevertMoves ==
  ASSUME IInv, NEW w \in Workers, RevertBegin(w) \/ RevertSet(w) \/ RevertProbe(w) \/ RevertEnd(w)
  PROVE  \/ Ends(w) \/ GoesOn(w) \/ Publishes(w) \/ FailsBack(w)
         \/ Sets(w, "revert", "desync", "revert_probe") \/ Sets(w, "revert_probe", "tunnel", "revert_end")
<1>0. TypeOK /\ job[w].pc \in {"revert_begin", "revert", "revert_probe", "revert_end"}
  BY Zenon DEF IInv, RevertBegin, RevertSet, RevertProbe, RevertEnd, At
<1>1. job[w].group \in Groups
  BY <1>0, Zenon DEF IInv, JobsFit, WorkPcs, RepairPcs, BeginPcs
<1>2. UNCHANGED <<running, sessionGeneration, rebinds, overlapped>>
  BY Zenon DEF RevertBegin, RevertSet, RevertProbe, RevertEnd, repairRest, sessionRest
<1>3. faults' \in {faults, faults + 1}
  BY DEF RevertBegin, RevertSet, RevertProbe, RevertEnd, repairRest, SetGroupPath, SetFails
<1>4. CASE RevertBegin(w)
  <2>1. UNCHANGED <<gateway, tunnelConfig>> /\ job[w].pc = "revert_begin"
    BY <1>4, Zenon DEF RevertBegin, At
  <2>2. PathsKept
    BY <1>0, <1>1, <1>4, MarksKeepPaths, Zenon DEF RevertBegin
  <2>3. CASE Finish(w)
    BY <1>0, <1>2, <1>3, <2>1, <2>2, <2>3, FinishEnds, Zenon DEF ProbePcs
  <2>4. CASE ~Finish(w)
    <3>1. /\ Current(job[w].session) /\ gateway.id # 0 /\ UNCHANGED groupWork
          /\ Becomes(w, [job[w] EXCEPT !.pc = "revert", !.tun = gateway.id])
      BY <1>4, <2>4, Zenon DEF RevertBegin
    <3>2. "revert" \in RepairPcs \ ProbePcs /\ job[w].pc \in WorkPcs \ ProbePcs
      BY <2>1, Zenon DEF RepairPcs, ProbePcs, WorkPcs, BeginPcs
    <3> QED BY <1>2, <1>3, <2>1, <2>2, <3>1, <3>2, WorkGoesOn, Zenon
  <2> QED BY <2>3, <2>4, Zenon
<1>5. CASE RevertSet(w)
  <2>1. UNCHANGED <<tunnelConfig, groups, groupWork>> /\ job[w].pc = "revert"
    BY <1>5, Zenon DEF RevertSet, At
  <2>2. CASE SetGroupPath(w, "desync") /\ Goes(w, "revert_probe")
    <3>1. Advances(w, "revert_probe")
      BY <1>0, <2>2, OneAdvances, Zenon DEF Pcs, RepairPcs
    <3> QED BY <1>2, <2>1, <2>2, <3>1, Zenon DEF Sets, sessionVars
  <2>3. CASE SetFails(w, "desync") /\ Goes(w, "revert_end")
    <3>1. PathsKept
      BY <1>0, <2>1, Zenon DEF PathsKept, TypeOK
    <3> QED BY <1>2, <1>3, <2>1, <2>3, <3>1, WorkAdvances, Zenon DEF SetFails
  <2> QED BY <1>5, <2>2, <2>3, Zenon DEF RevertSet
<1>6. CASE RevertProbe(w)
  <2>1. job[w].pc = "revert_probe"
    BY <1>6, Zenon DEF RevertProbe, At
  <2>2. CASE Superseded(w) /\ Finish(w) /\ UNCHANGED <<gateway, faults, groups, tunnelConfig>>
    <3>1. PathsKept
      BY <1>0, <2>2, Zenon DEF PathsKept, TypeOK
    <3> QED BY <1>0, <1>2, <1>3, <2>2, <3>1, FinishEnds, Zenon
  <2>3. CASE /\ ~Superseded(w) /\ Finish(w) /\ UNCHANGED <<gateway, faults>> /\ ConfigFollows
             /\ GroupBecomes(job[w].group, [Opened(GroupOf(w)) EXCEPT !.path = "desync"])
    <3>1. PICK r \in GroupType : r.path = "desync" /\ GroupBecomes(job[w].group, r)
      BY <1>0, <1>1, <2>3, GroupMoved, Zenon DEF GroupOf, Paths
    <3> QED BY <1>2, <2>1, <2>3, <3>1, WorkPublishes, Zenon
  <2>4. ASSUME SetGroupPath(w, "tunnel") \/ SetFails(w, "tunnel"), Goes(w, "revert_end"),
               UNCHANGED <<groupWork, groups, tunnelConfig>>
        PROVE  FailsBack(w) \/ Sets(w, "revert_probe", "tunnel", "revert_end")
    <3>1. Advances(w, "revert_end")
      BY <1>0, <2>4, OneAdvances, Zenon DEF Pcs, RepairPcs
    <3> QED BY <1>2, <2>1, <2>4, <3>1, Zenon DEF FailsBack, Sets, sessionVars
  <2> QED BY <1>6, <2>2, <2>3, <2>4, Zenon DEF RevertProbe
<1>7. CASE RevertEnd(w)
  <2>1. UNCHANGED <<gateway, faults>> /\ job[w].pc = "revert_end" /\ Finish(w)
    BY <1>7, Zenon DEF RevertEnd, At, repairRest
  <2>2. CASE Superseded(w)
    <3>1. PathsKept /\ UNCHANGED tunnelConfig
      BY <1>0, <1>7, <2>2, Zenon DEF RevertEnd, PathsKept, TypeOK
    <3> QED BY <1>0, <1>2, <1>3, <2>1, <2>2, <3>1, FinishEnds, Zenon
  <2>3. CASE ~Superseded(w)
    <3>1. PICK r \in GroupType : r.path = groups[job[w].group].path /\ GroupBecomes(job[w].group, r)
      BY <1>0, <1>1, <1>7, <2>3, GroupTyped, Zenon DEF RevertEnd, GroupOf
    <3>2. ConfigFollows
      BY <1>7, <2>3, Zenon DEF RevertEnd
    <3> QED BY <1>2, <2>1, <2>3, <3>1, <3>2, WorkPublishes, Zenon
  <2> QED BY <2>2, <2>3
<1> QED BY <1>4, <1>5, <1>6, <1>7, Zenon

\* A recovery.
LEMMA RecoverMoves ==
  ASSUME IInv, NEW w \in Workers, RecoverHelper(w) \/ RecoverGateway(w) \/ RecoverClose(w) \/ RecoverEnd(w)
  PROVE  Recovers(w) \/ Closes(w) \/ Restarts(w) \/ Ends(w)
<1>0. TypeOK /\ Idle \in JobType
  BY NothingTyped, Zenon DEF IInv
<1>1. ASSUME NEW pc \in {"recover_helper", "recover_close"}, RecoverBegin(w, pc),
             (~gateway.up /\ faults' = faults) \/ faults' = faults + 1
      PROVE  Recovers(w)
  <2> DEFINE r == [Idle EXCEPT !.pc = pc, !.session = sessionGeneration, !.tun = gateway.id,
                               !.config = tunnelConfig]
  <2>1. /\ pc \in Pcs /\ sessionGeneration \in Nat /\ gateway.id \in GatewayIds
        /\ tunnelConfig \in ConfigType
    BY <1>0 DEF TypeOK, GatewayType, Pcs, RecoverPcs
  <2>2. r \in JobType
    BY <1>0, <2>1, Zenon DEF JobType
  <2>3. r.pc = pc /\ r.session = sessionGeneration /\ r.tun = gateway.id /\ r.config = tunnelConfig
    BY DEF Idle
  <2>4. Becomes(w, r)
    BY <1>1, Zenon DEF RecoverBegin
  <2> HIDE DEF r
  <2>5. Turns(w) /\ job'[w] = r
    BY <1>0, <2>2, <2>4, OneTurns, Zenon
  <2> QED BY <1>1, <2>3, <2>5, Zenon DEF RecoverBegin, Recovers, At, sessionVars
<1>2. CASE RecoverHelper(w)
  BY <1>1, <1>2, Zenon DEF RecoverHelper
<1>3. CASE RecoverGateway(w)
  BY <1>1, <1>3, Zenon DEF RecoverGateway
<1>4. CASE RecoverClose(w)
  <2>1. Advances(w, "recover_start")
    BY <1>0, <1>4, OneAdvances, Zenon DEF RecoverClose, Pcs, RecoverPcs
  <2> QED BY <1>4, <2>1, Zenon DEF RecoverClose, Closes, At, sessionVars, flagVars
<1>5. CASE RecoverEnd(w)
  <2>1. Stops(w) /\ job[w].pc \in {"recover_helper", "recover_start"}
    BY <1>0, <1>5, OneTurns, Zenon DEF RecoverEnd, Stops
  <2>2. UNCHANGED <<running, sessionGeneration, rebinds, tunnelConfig, groups, groupWork, faults,
                    overlapped>>
    BY <1>5, Zenon DEF RecoverEnd
  <2>3. CASE UNCHANGED gateway
    BY <1>0, <2>1, <2>2, <2>3, Zenon
      DEF Ends, PathsKept, TypeOK, sessionVars, WorkPcs, BeginPcs, RepairPcs, ProbePcs
  <2>4. CASE /\ job[w].pc = "recover_start" /\ Current(job[w].session) /\ ~gateway.up
             /\ gateway' = Gateway(job[w].config)
    BY <2>1, <2>2, <2>4, Zenon DEF Restarts, Current, Of, sessionVars
  <2> QED BY <1>5, <2>3, <2>4, Zenon DEF RecoverEnd, At
<1> QED BY <1>2, <1>3, <1>4, <1>5, Zenon

\* Every step has one of the shapes.
LEMMA EveryMove == ASSUME IInv, [Next]_vars PROVE Moved
<1>0. TypeOK
  BY Zenon DEF IInv
<1>1. CASE UNCHANGED vars \/ ThirtySeconds
  BY <1>0, <1>1, Zenon DEF vars, ThirtySeconds, flagVars, Moved, Rests, PathsKept, TypeOK, sessionVars
<1>2. ASSUME NEW g \in Groups, TenMinutes(g) PROVE Rests
  <2>1. groups[g] \in GroupType
    BY <1>0, Zenon DEF TypeOK
  <2>2. \E r \in GroupType : r.path = groups[g].path /\ groups' = [groups EXCEPT ![g] = r]
    <3> DEFINE p == [groups[g] EXCEPT !.scanned = FALSE]
               q == [groups[g] EXCEPT !.waiting = FALSE]
    <3>1. p \in GroupType /\ p.path = groups[g].path
      BY <2>1, Zenon DEF GroupType
    <3>2. q \in GroupType /\ q.path = groups[g].path
      BY <2>1, Zenon DEF GroupType
    <3>3. groups' = [groups EXCEPT ![g] = p] \/ groups' = [groups EXCEPT ![g] = q]
      BY <1>2 DEF TenMinutes
    <3> HIDE DEF p, q
    <3> QED BY <3>1, <3>2, <3>3, Zenon
  <2>3. PathsKept
    BY <1>0, <2>2, OneGroupTurns, Zenon DEF PathsKept
  <2> QED BY <1>2, <2>3, Zenon DEF TenMinutes, flagVars, Rests, sessionVars
<1>3. ASSUME NEW w \in Workers, MonitorCheck(w) \/ WorkerStep(w) PROVE Moves(w)
  <2>1. CASE MonitorCheck(w) \/ RebindCheck(w) \/ ProbeEnd(w)
    BY <2>1, CheckMoves, ProbeMoves, Zenon DEF Moves
  <2>2. CASE ScanBegin(w) \/ ScanEnd(w) \/ VerifyEnd(w) \/ RollbackEnd(w)
    BY <2>2, ScanMoves, Zenon DEF Moves
  <2>3. CASE TunnelBegin(w) \/ PrepareEnd(w) \/ SwitchEnd(w) \/ TunnelProbeEnd(w)
    BY <2>3, TunnelMoves, PrepareMoves, Zenon DEF Moves
  <2>4. CASE RevertBegin(w) \/ RevertSet(w) \/ RevertProbe(w) \/ RevertEnd(w)
    BY <2>4, RevertMoves, Zenon DEF Moves
  <2>5. CASE RecoverClose(w) \/ RecoverEnd(w)
    BY <2>5, RecoverMoves, Zenon DEF Moves
  <2> QED BY <1>3, <2>1, <2>2, <2>3, <2>4, <2>5, Zenon DEF WorkerStep
<1>4. ASSUME NEW w \in Workers, RecoverHelper(w) \/ RecoverGateway(w) \/ softRebind(w) PROVE Moves(w)
  BY <1>4, RecoverMoves, RebindMoves, Zenon DEF Moves
<1> QED BY <1>1, <1>2, <1>3, <1>4, Zenon DEF Next, Moved

-----------------------------------------------------------------------------
(* What the shapes do to gateway and configuration. *)

\* A selector set.
LEMMA SetFacts ==
  ASSUME TypeOK, NEW w \in Workers, NEW path \in Paths, SetGroupPath(w, path)
  PROVE  /\ gateway' \in GatewayType /\ gateway.open /\ gateway.id = job[w].tun
         /\ gateway'.id = gateway.id /\ gateway'.open = gateway.open /\ gateway'.up = gateway.up
         /\ gateway'.tunnel = gateway.tunnel
         /\ \A g \in Groups : gateway'.paths[g] = IF g = job[w].group THEN path ELSE gateway.paths[g]
<1> DEFINE p == [gateway.paths EXCEPT ![job[w].group] = path]
           r == [gateway EXCEPT !.paths = p]
<1>1. gateway \in GatewayType /\ gateway.paths \in [Groups -> Paths]
  BY DEF TypeOK, GatewayType
<1>2. /\ p \in [Groups -> Paths]
      /\ \A g \in Groups : p[g] = IF g = job[w].group THEN path ELSE gateway.paths[g]
  BY <1>1, Zenon
<1>3. gateway' = r /\ gateway.open /\ gateway.id = job[w].tun
  BY DEF SetGroupPath, Accepts
<1> HIDE DEF p
<1>4. r \in GatewayType
  BY <1>1, <1>2, Zenon DEF GatewayType
<1>5. /\ r.id = gateway.id /\ r.open = gateway.open /\ r.up = gateway.up
      /\ r.tunnel = gateway.tunnel /\ r.paths = p
  BY <1>1, Zenon DEF GatewayType
<1> QED BY <1>2, <1>3, <1>4, <1>5, Zenon

\* A gateway closed.
LEMMA CloseFacts ==
  ASSUME TypeOK, NEW w \in Workers, Closes(w)
  PROVE  /\ gateway' \in GatewayType /\ gateway'.id = gateway.id /\ gateway'.up = gateway.up
         /\ gateway'.tunnel = gateway.tunnel /\ gateway'.paths = gateway.paths
         /\ gateway'.open => gateway.open
         /\ gateway.id # job[w].tun => gateway' = gateway
<1> DEFINE r == [gateway EXCEPT !.open = FALSE]
<1>1. gateway \in GatewayType
  BY DEF TypeOK
<1>2. r \in GatewayType
  BY <1>1, Zenon DEF GatewayType
<1>3. /\ r.id = gateway.id /\ r.up = gateway.up /\ r.tunnel = gateway.tunnel
      /\ r.paths = gateway.paths /\ ~r.open
  BY <1>1 DEF GatewayType
<1>4. IF gateway.id = job[w].tun THEN gateway' = r ELSE gateway' = gateway
  BY DEF Closes
<1> HIDE DEF r
<1> QED BY <1>1, <1>2, <1>3, <1>4, Zenon

\* A gateway whose process exits.
LEMMA ExitFacts ==
  ASSUME TypeOK, GatewayExits
  PROVE  /\ gateway' \in GatewayType /\ gateway'.id = gateway.id /\ gateway'.open = gateway.open
         /\ gateway'.tunnel = gateway.tunnel /\ gateway'.paths = gateway.paths
         /\ gateway.up /\ faults' = faults + 1
<1>1. /\ gateway \in GatewayType /\ gateway' = [gateway EXCEPT !.up = FALSE]
      /\ gateway.up /\ faults' = faults + 1
  BY Zenon DEF TypeOK, GatewayExits
<1> QED BY <1>1, Zenon DEF GatewayType

\* A gateway rebuilt with a tunnel, every group on the path it has now.
LEMMA RebuildFacts ==
  ASSUME TypeOK, NEW w \in Workers, Rebuilds(w)
  PROVE  /\ gateway' \in GatewayType /\ tunnelConfig' \in ConfigType
         /\ gateway'.id = FreshId /\ gateway'.up /\ gateway'.open /\ gateway'.tunnel = TRUE
         /\ tunnelConfig'.tunnel = TRUE
         /\ \A g \in Groups : /\ gateway'.paths[g] = groups'[g].path
                              /\ tunnelConfig'.paths[g] = groups'[g].path
<1> DEFINE p == [groupPaths EXCEPT ![job[w].group] = "tunnel"]
           c == [tunnel |-> TRUE, paths |-> p]
<1>1. groupPaths \in [Groups -> Paths] /\ \A g \in Groups : groupPaths[g] = groups[g].path
  BY DEF TypeOK, GroupType, groupPaths
<1>2. /\ p \in [Groups -> Paths]
      /\ \A g \in Groups : p[g] = IF g = job[w].group THEN "tunnel" ELSE groups[g].path
  BY <1>1, Zenon DEF Paths
<1>3. gateway' = Gateway(c) /\ tunnelConfig' = c
  BY Zenon DEF Rebuilds
<1>4. \A g \in Groups : p[g] = groups'[g].path
  BY <1>2, Zenon DEF Rebuilds
<1> HIDE DEF p
<1>5. c \in ConfigType /\ c.tunnel = TRUE /\ c.paths = p
  BY <1>2, Zenon DEF ConfigType
<1> HIDE DEF c
<1> QED BY <1>3, <1>4, <1>5, GatewayTyped

\* A configuration that follows the groups.
LEMMA PublishFacts ==
  ASSUME TypeOK, ConfigFollows, groups' \in [Groups -> GroupType]
  PROVE  /\ tunnelConfig' \in ConfigType /\ tunnelConfig'.tunnel = tunnelConfig.tunnel
         /\ \A g \in Groups : tunnelConfig'.paths[g] = groups'[g].path
<1> DEFINE p == [g \in Groups |-> groups'[g].path]
<1>1. p \in [Groups -> Paths] /\ \A g \in Groups : p[g] = groups'[g].path
  BY DEF GroupType
<1>2. tunnelConfig' = [tunnelConfig EXCEPT !.paths = p] /\ tunnelConfig \in ConfigType
  BY Zenon DEF ConfigFollows, TypeOK
<1> HIDE DEF p
<1> QED BY <1>1, <1>2, Zenon DEF ConfigType

MovingTyped ==
  /\ gateway \in GatewayType /\ tunnelConfig \in ConfigType
  /\ groups \in [Groups -> GroupType] /\ job \in [Workers -> JobType]
  /\ running \in BOOLEAN /\ sessionGeneration \in Nat /\ faults \in Nat
  /\ groupWork \in BOOLEAN /\ overlapped \in BOOLEAN

\* Every step keeps the types of what moves.
LEMMA MovingTypeStep == ASSUME IInv, [Next]_vars PROVE MovingTyped'
<1>0. TypeOK /\ MovingTyped /\ Moved
  BY EveryMove, Zenon DEF IInv, TypeOK, MovingTyped
<1> USE DEF MovingTyped
<1>1. CASE Rests
  BY <1>0, <1>1, Zenon DEF Rests, PathsKept, sessionVars
<1>2. CASE Start
  <2>1. gateway' = Gateway(NoConfig) /\ Gateway(NoConfig) \in GatewayType /\ NoConfig \in ConfigType
    BY <1>0, <1>2, NothingTyped, GatewayTyped, Zenon DEF Start
  <2>2. groups' \in [Groups -> GroupType]
    BY <1>2, NothingTyped, Zenon DEF Start
  <2>3. sessionGeneration' \in Nat /\ faults' \in Nat
    BY <1>0, <1>2 DEF Start
  <2> QED BY <1>0, <1>2, <2>1, <2>2, <2>3, Zenon DEF Start
<1>3. CASE Stop
  <2>1. sessionGeneration' \in Nat /\ faults' \in Nat
    BY <1>0, <1>3 DEF Stop
  <2>2. gateway' \in GatewayType /\ tunnelConfig' \in ConfigType
    BY <1>3, NothingTyped, Zenon DEF Stop
  <2> QED BY <1>0, <1>3, <2>1, <2>2, Zenon DEF Stop
<1>4. CASE GatewayExits
  BY <1>0, <1>4, ExitFacts DEF GatewayExits, flagVars
<1>5. ASSUME NEW w \in Workers, Moves(w) PROVE MovingTyped'
  <2>0. job[w] \in JobType /\ job[w].config \in ConfigType
    BY <1>0, Zenon DEF JobType
  <2>1. CASE Ends(w) \/ Checks(w) \/ GoesOn(w)
    <3>1. groupWork' \in BOOLEAN
      BY <1>0, <2>1, Zenon DEF Ends, Checks, GoesOn
    <3>2. faults' \in Nat
      BY <1>0, <2>1 DEF Ends, Checks, GoesOn
    <3> QED BY <1>0, <2>1, <3>1, <3>2, Zenon
        DEF Ends, Checks, GoesOn, PathsKept, Turns, Stops, sessionVars
  <2>2. CASE Decides(w)
    BY <1>0, <2>2, Zenon DEF Decides, PathsKept, Turns, sessionVars
  <2>3. ASSUME NEW pc, NEW path \in Paths, NEW next, Sets(w, pc, path, next) PROVE MovingTyped'
    <3>1. gateway' \in GatewayType /\ faults' = faults
      BY <1>0, <2>3, SetFacts, Zenon DEF Sets, SetGroupPath
    <3> QED BY <1>0, <2>3, <3>1, Zenon DEF Sets, Advances, Turns, sessionVars
  <2>4. CASE FailsBack(w)
    <3>1. gateway' = gateway /\ faults' \in Nat
      BY <1>0, <2>4, SMTT(30) DEF FailsBack, SetFails
    <3> QED BY <1>0, <2>4, <3>1, Zenon DEF FailsBack, Advances, Turns, sessionVars
  <2>5. CASE Publishes(w)
    <3>1. tunnelConfig' \in ConfigType
      BY <1>0, <2>5, PublishFacts, Zenon DEF Publishes
    <3> QED BY <1>0, <2>5, <3>1, Zenon DEF Publishes, Stops, Turns, sessionVars
  <2>6. CASE Rebuilds(w)
    <3>1. gateway' \in GatewayType /\ tunnelConfig' \in ConfigType
      BY <1>0, <2>6, RebuildFacts, Zenon
    <3> QED BY <1>0, <2>6, <3>1, Zenon DEF Rebuilds, Turns, sessionVars
  <2>7. CASE FailsToRebuild(w)
    <3>1. gateway' \in GatewayType
      BY <1>0, <2>7, NothingTyped, GatewayTyped, Zenon DEF FailsToRebuild
    <3> QED BY <1>0, <2>7, <3>1, Zenon DEF FailsToRebuild, PathsKept, Stops, Turns, sessionVars
  <2>8. CASE Recovers(w)
    BY <1>0, <2>8 DEF Recovers, Turns, sessionVars
  <2>9. CASE Closes(w)
    <3>1. gateway' \in GatewayType
      BY <1>0, <2>9, CloseFacts, Zenon
    <3> QED BY <1>0, <2>9, <3>1, Zenon DEF Closes, Advances, Turns, sessionVars
  <2>10. CASE Restarts(w)
    <3>1. gateway' \in GatewayType
      BY <1>0, <2>0, <2>10, GatewayTyped, Zenon DEF Restarts
    <3> QED BY <1>0, <2>10, <3>1, Zenon DEF Restarts, Stops, Turns, sessionVars
  <2> HIDE DEF MovingTyped
  <2> QED BY <1>5, <2>1, <2>2, <2>3, <2>4, <2>5, <2>6, <2>7, <2>8, <2>9, <2>10, Zenon DEF Moves, Paths
<1> HIDE DEF MovingTyped
<1> QED BY <1>0, <1>1, <1>2, <1>3, <1>4, <1>5, Zenon DEF Moved

\* Every step keeps the types of the flags.
LEMMA FlagTypeStep ==
  ASSUME TypeOK, [Next]_vars
  PROVE  /\ strategySwitching' \in BOOLEAN /\ lastPathCheck' \in {"unset", "recent", "old"}
         /\ desyncScan' \in Workers \cup {None} /\ rebinds' \in Nat
<1> DEFINE Kept == /\ strategySwitching' \in BOOLEAN /\ lastPathCheck' \in {"unset", "recent", "old"}
                   /\ desyncScan' \in Workers \cup {None} /\ rebinds' \in Nat
<1>0. /\ strategySwitching \in BOOLEAN /\ lastPathCheck \in {"unset", "recent", "old"}
      /\ desyncScan \in Workers \cup {None} /\ rebinds \in Nat
  BY DEF TypeOK
<1>1. CASE Start \/ Stop \/ GatewayExits \/ ThirtySeconds \/ \E g \in Groups : TenMinutes(g)
  BY <1>0, <1>1, Zenon DEF Start, Stop, GatewayExits, ThirtySeconds, TenMinutes, flagVars
<1>2. ASSUME NEW w \in Workers, MonitorCheck(w) \/ RebindCheck(w) PROVE Kept
  BY <1>0, <1>2, Zenon DEF MonitorCheck, RebindCheck, CheckBegin
<1>3. ASSUME NEW w \in Workers, ProbeEnd(w) PROVE Kept
  BY <1>0, <1>3, Zenon DEF ProbeEnd
<1>4. ASSUME NEW w \in Workers, ScanBegin(w) PROVE Kept
  BY <1>0, <1>4, Zenon DEF ScanBegin, repairRest, sessionRest
<1>5. ASSUME NEW w \in Workers, ScanEnd(w) PROVE Kept
  BY <1>0, <1>5, Zenon DEF ScanEnd, repairRest, sessionRest
<1>6. ASSUME NEW w \in Workers, VerifyEnd(w) \/ RollbackEnd(w) PROVE Kept
  BY <1>0, <1>6, Zenon DEF VerifyEnd, RollbackEnd, SwapAbandoned, SwapEnds, repairRest, sessionRest
<1>7. ASSUME NEW w \in Workers, TunnelBegin(w) \/ PrepareEnd(w) PROVE Kept
  BY <1>0, <1>7, Zenon DEF TunnelBegin, PrepareEnd, repairRest, sessionRest
<1>8. ASSUME NEW w \in Workers, SwitchEnd(w) \/ TunnelProbeEnd(w) \/ RevertBegin(w) PROVE Kept
  BY <1>0, <1>8, Zenon DEF SwitchEnd, TunnelProbeEnd, RevertBegin, repairRest, sessionRest
<1>9. ASSUME NEW w \in Workers, RevertSet(w) \/ RevertProbe(w) \/ RevertEnd(w) PROVE Kept
  BY <1>0, <1>9, Zenon DEF RevertSet, RevertProbe, RevertEnd, repairRest, sessionRest
<1>10. ASSUME NEW w \in Workers, RecoverClose(w) \/ RecoverEnd(w) PROVE Kept
  BY <1>0, <1>10, Zenon DEF RecoverClose, RecoverEnd, flagVars
<1>11. ASSUME NEW w \in Workers, RecoverHelper(w) \/ RecoverGateway(w) PROVE Kept
  BY <1>0, <1>11, Zenon DEF RecoverHelper, RecoverGateway, RecoverBegin
<1>12. ASSUME NEW w \in Workers, softRebind(w) PROVE Kept
  BY <1>0, <1>12 DEF softRebind
<1>13. CASE UNCHANGED vars
  BY <1>0, <1>13, Zenon DEF vars, flagVars
<1> HIDE DEF Kept
<1>14. Kept
  BY <1>1, <1>2, <1>3, <1>4, <1>5, <1>6, <1>7, <1>8, <1>9, <1>10, <1>11, <1>12, <1>13, Zenon
    DEF Next, WorkerStep, Kept
<1> QED BY <1>14, Zenon DEF Kept

\* Every variable keeps its type.
LEMMA TypeStep == ASSUME IInv, [Next]_vars PROVE TypeOK'
<1>1. TypeOK
  BY DEF IInv
<1> QED BY <1>1, MovingTypeStep, FlagTypeStep, Zenon DEF MovingTyped, TypeOK

-----------------------------------------------------------------------------
(* Whose work it is, and which gateway it remembers. *)

\* What JobsFit and StaleIds say of one goroutine.
JobFits(w) ==
  /\ job[w].session <= sessionGeneration
  /\ job[w].pc = "idle" => job[w] = Idle
  /\ job[w].pc \in WorkPcs => job[w].group \in Groups
  /\ job[w].pc \in HoldPcs => job[w].tun # 0
  /\ job[w].session # sessionGeneration => job[w].tun = 0 \/ job[w].tun # gateway.id

\* A gateway that is new is remembered by nobody, so what goroutines that do
\* not step remember stays right.
LEMMA OthersFit ==
  ASSUME IInv, NEW v \in Workers, job'[v] = job[v],
         sessionGeneration' \in {sessionGeneration, sessionGeneration + 1},
         \/ gateway'.id = FreshId
         \/ gateway'.id = 0
         \/ gateway'.id = gateway.id /\ sessionGeneration' = sessionGeneration
  PROVE  JobFits(v)'
<1>1. /\ TypeOK /\ job[v].tun # FreshId /\ sessionGeneration \in Nat
      /\ job[v].session \in Nat /\ JobFits(v)
  BY FreshIdIsFresh, Zenon DEF IInv, TypeOK, JobType, JobsFit, StaleIds, JobFits
<1>2. job'[v].session <= sessionGeneration'
  BY <1>1 DEF JobFits
<1>3. job'[v].session # sessionGeneration' => job'[v].tun = 0 \/ job'[v].tun # gateway'.id
  BY <1>1, Zenon DEF JobFits
<1> QED BY <1>1, <1>2, <1>3, Zenon DEF JobFits

\* A goroutine at rest.
LEMMA IdleFits == ASSUME NEW w \in Workers, job'[w] = Idle, sessionGeneration' \in Nat PROVE JobFits(w)'
BY NothingTyped DEF JobFits, WorkPcs, BeginPcs, RepairPcs, HoldPcs, ProbePcs

\* Every step keeps them, and gives the gateway an identity as it should.
LEMMA FitStep == ASSUME IInv, [Next]_vars PROVE JobsFit' /\ GatewayFits' /\ StaleIds'
<1>0. /\ TypeOK /\ TypeOK' /\ JobsFit /\ GatewayFits /\ StaleIds /\ Moved
      /\ sessionGeneration \in Nat /\ gateway \in GatewayType /\ running \in BOOLEAN
  BY EveryMove, TypeStep, Zenon DEF IInv, TypeOK
<1>a. FreshId \in GatewayIds /\ FreshId # 0 /\ NoGateway.id = 0
  BY <1>0, FreshIdIsFresh, NothingTyped, Zenon
<1>b. \A w \in Workers : JobFits(w) /\ job[w] \in JobType
  BY <1>0, Zenon DEF JobFits, JobsFit, StaleIds, TypeOK
<1> DEFINE Good == /\ running' => sessionGeneration' > 0
                   /\ GatewayFits'
                   /\ sessionGeneration' \in {sessionGeneration, sessionGeneration + 1}
                   /\ \/ gateway'.id = FreshId
                      \/ gateway'.id = 0
                      \/ gateway'.id = gateway.id /\ sessionGeneration' = sessionGeneration
           Goal == Good /\ \A w \in Workers : JobFits(w)'
<1>c. ASSUME Good, NEW w \in Workers, Turns(w), JobFits(w)' PROVE Goal
  BY <1>c, OthersFit, Zenon DEF Turns
<1>d. ASSUME Good, UNCHANGED job PROVE Goal
  BY <1>d, OthersFit, Zenon
<1>1. ASSUME Rests PROVE Goal
  <2>1. Good /\ UNCHANGED job
    BY <1>0, <1>1, Zenon DEF Rests, sessionVars, GatewayFits, JobsFit
  <2> QED BY <1>d, <2>1, Zenon
<1>2. ASSUME Start PROVE Goal
  <2>1. gateway'.id = FreshId /\ running' /\ sessionGeneration' = sessionGeneration + 1 /\ UNCHANGED job
    BY <1>0, <1>2, NothingTyped, GatewayTyped, Zenon DEF Start
  <2>2. Good
    BY <1>0, <1>a, <2>1 DEF GatewayFits
  <2> QED BY <2>1, <2>2, <1>d, Zenon
<1>3. ASSUME Stop PROVE Goal
  <2>1. Good /\ UNCHANGED job
    BY <1>0, <1>a, <1>3, Zenon DEF Stop, GatewayFits
  <2> QED BY <1>d, <2>1
<1>4. ASSUME GatewayExits PROVE Goal
  <2>1. UNCHANGED <<running, sessionGeneration, job>> /\ gateway'.id = gateway.id /\ gateway.id # 0
    BY <1>0, <1>4, NothingTyped, ExitFacts, Zenon DEF GatewayExits, GatewayFits
  <2>2. Good
    BY <1>0, <2>1, Zenon DEF GatewayFits, JobsFit
  <2> QED BY <1>d, <2>1, <2>2, Zenon
<1>5. ASSUME NEW w \in Workers, Moves(w) PROVE Goal
  <2>0. JobFits(w) /\ job[w] \in JobType /\ sessionGeneration' \in Nat
    BY <1>0, <1>b, Zenon DEF TypeOK
  <2>a. ASSUME UNCHANGED <<running, sessionGeneration, gateway>> PROVE Good
    BY <1>0, <2>a, Zenon DEF GatewayFits, JobsFit
  <2>b. ASSUME UNCHANGED <<running, sessionGeneration>>, gateway'.id = gateway.id, gateway.id # 0 PROVE Good
    BY <1>0, <2>b, Zenon DEF GatewayFits, JobsFit
  <2>c. ASSUME UNCHANGED <<running, sessionGeneration>>, gateway'.id = FreshId, running PROVE Good
    BY <1>0, <1>a, <2>c, Zenon DEF GatewayFits, JobsFit
  <2> HIDE DEF Good, Goal
  <2>1. CASE Ends(w)
    BY <1>c, <2>0, <2>a, <2>1, IdleFits, Zenon DEF Ends, Stops, sessionVars
  <2>2. CASE Checks(w)
    <3>1. JobFits(w)'
      BY <1>0, <2>2 DEF Checks, JobFits, WorkPcs, BeginPcs, RepairPcs, HoldPcs, ProbePcs
    <3> QED BY <1>c, <2>a, <2>2, <3>1, Zenon DEF Checks
  <2>3. CASE Decides(w)
    <3>1. JobFits(w)'
      BY <1>0, <2>3 DEF Decides, JobFits, WorkPcs, BeginPcs, RepairPcs, HoldPcs, ProbePcs, sessionVars
    <3> QED BY <1>c, <2>a, <2>3, <3>1, Zenon DEF Decides, sessionVars
  <2>4. CASE GoesOn(w)
    <3>1. job[w].session <= sessionGeneration /\ job[w].group \in Groups
      BY <2>0, <2>4, Zenon DEF GoesOn, JobFits
    <3>2. /\ UNCHANGED <<running, sessionGeneration, gateway>> /\ Turns(w) /\ job'[w].pc # "idle"
          /\ job'[w].session = job[w].session /\ job'[w].group = job[w].group
          /\ job'[w].pc \in HoldPcs => job'[w].tun # 0
      BY <2>4, Zenon DEF GoesOn, sessionVars, RepairPcs
    <3>3. job'[w].session # sessionGeneration' => job'[w].tun = 0 \/ job'[w].tun # gateway'.id
      BY <2>0, <2>4, <3>2, Zenon DEF GoesOn, JobFits, Of
    <3>4. JobFits(w)'
      BY <3>1, <3>2, <3>3, Zenon DEF JobFits
    <3> QED BY <1>c, <2>a, <3>2, <3>4, Zenon
  <2>5. ASSUME NEW pc \in HoldPcs, NEW path \in Paths, NEW next \in HoldPcs, Sets(w, pc, path, next)
        PROVE  Goal
    <3>1. gateway'.id = gateway.id /\ gateway.id = job[w].tun /\ UNCHANGED <<running, sessionGeneration>>
      BY <1>0, <2>5, SetFacts, Zenon DEF Sets, sessionVars
    <3>2. pc \in WorkPcs /\ next # "idle"
      BY Zenon DEF HoldPcs, ProbePcs, WorkPcs, RepairPcs
    <3>3. JobFits(w)' /\ job[w].tun # 0
      BY <2>0, <2>5, <3>1, <3>2, Zenon DEF Sets, Advances, JobFits
    <3> QED BY <1>c, <2>b, <2>5, <3>1, <3>3, Zenon DEF Sets, Advances
  <2>6. CASE FailsBack(w)
    <3>1. UNCHANGED <<running, sessionGeneration, gateway>>
      BY <2>6, Zenon DEF FailsBack, SetFails, sessionVars
    <3>2. JobFits(w)'
      BY <2>0, <2>6, <3>1, Zenon
        DEF FailsBack, Advances, JobFits, WorkPcs, RepairPcs, HoldPcs, ProbePcs
    <3> QED BY <1>c, <2>a, <2>6, <3>1, <3>2, Zenon DEF FailsBack, Advances
  <2>7. CASE Publishes(w)
    BY <1>c, <2>0, <2>a, <2>7, IdleFits, Zenon DEF Publishes, Stops, sessionVars
  <2>8. CASE Rebuilds(w)
    <3>1. gateway'.id = FreshId /\ UNCHANGED <<running, sessionGeneration>> /\ running /\ Of(w)
      BY <1>0, <2>8, RebuildFacts, Zenon DEF Rebuilds, sessionVars, Superseded, Current, Of
    <3>2. JobFits(w)'
      BY <1>0, <1>a, <2>0, <2>8, <3>1, Zenon DEF Rebuilds, JobFits, WorkPcs, RepairPcs, Of
    <3> QED BY <1>c, <2>c, <2>8, <3>1, <3>2, Zenon DEF Rebuilds
  <2>9. CASE FailsToRebuild(w)
    <3>1. UNCHANGED <<running, sessionGeneration>> /\ running /\ Turns(w) /\ JobFits(w)'
      BY <2>0, <2>9, IdleFits, Zenon DEF FailsToRebuild, sessionVars, Superseded, Current, Stops
    <3>2. CASE gateway' = NoGateway
      BY <1>0, <1>a, <1>c, <3>1, <3>2, Zenon DEF GatewayFits, JobsFit, Good
    <3>3. CASE gateway' = Gateway(tunnelConfig)
      <4>1. gateway'.id = FreshId
        BY <1>0, <3>3, GatewayTyped, Zenon DEF TypeOK
      <4> QED BY <1>c, <2>c, <3>1, <4>1, Zenon
    <3> QED BY <2>9, <3>2, <3>3, Zenon DEF FailsToRebuild
  <2>10. CASE Recovers(w)
    <3>1. JobFits(w)'
      BY <1>0, <2>10 DEF Recovers, JobFits, WorkPcs, BeginPcs, RepairPcs, HoldPcs, ProbePcs, sessionVars
    <3> QED BY <1>c, <2>a, <2>10, <3>1, Zenon DEF Recovers, sessionVars
  <2>11. CASE Closes(w)
    <3>1. gateway'.id = gateway.id /\ UNCHANGED <<running, sessionGeneration>>
      BY <1>0, <2>11, CloseFacts, Zenon DEF Closes, sessionVars
    <3>2. JobFits(w)'
      BY <2>0, <2>11, <3>1, Zenon
        DEF Closes, Advances, JobFits, WorkPcs, BeginPcs, RepairPcs, HoldPcs, ProbePcs
    <3>3. Good
      <4>1. CASE gateway.id = 0
        <5>1. gateway' = gateway
          BY <1>0, <2>11, <4>1, SMTT(30) DEF Closes, GatewayFits, NoGateway
        <5> QED BY <2>a, <3>1, <5>1, Zenon
      <4> QED BY <2>b, <3>1, <4>1, Zenon
    <3> QED BY <1>c, <2>11, <3>2, <3>3, Zenon DEF Closes, Advances
  <2>12. CASE Restarts(w)
    <3>1. gateway'.id = FreshId /\ UNCHANGED <<running, sessionGeneration>> /\ running /\ Turns(w)
      BY <1>0, <2>0, <2>12, GatewayTyped, Zenon DEF Restarts, sessionVars, Stops, JobType
    <3> QED BY <1>c, <2>0, <2>c, <2>12, <3>1, IdleFits, Zenon DEF Restarts, Stops
  <2> QED BY <1>5, <2>1, <2>2, <2>3, <2>4, <2>5, <2>6, <2>7, <2>8, <2>9, <2>10, <2>11, <2>12, Zenon
          DEF Moves, Paths, HoldPcs, ProbePcs
<1> HIDE DEF Goal
<1>6. Goal
  BY <1>0, <1>1, <1>2, <1>3, <1>4, <1>5, Zenon DEF Moved
<1> QED BY <1>6, Zenon DEF Goal, JobFits, JobsFit, StaleIds

-----------------------------------------------------------------------------
(* The configuration and the tunnel. *)

ConfigMatches == \A g \in Groups : tunnelConfig.paths[g] = groups[g].path

\* ConfigMatches compares the paths of the configuration with the groups', one
\* group at a time.
LEMMA MatchingConfig == ASSUME TypeOK PROVE ConfigMatches <=> tunnelConfig.paths = groupPaths
BY Zenon DEF TypeOK, ConfigType, ConfigMatches, groupPaths

\* The same after a step.
LEMMA MatchingConfigNext == ASSUME TypeOK' PROVE ConfigMatches' <=> tunnelConfig.paths' = groupPaths'
BY Zenon DEF TypeOK, ConfigType, ConfigMatches, groupPaths

\* A step that changes the path a group is reported on changes the
\* configuration with it.
LEMMA ConfigStep == ASSUME IInv, [Next]_vars PROVE ConfigHasThePaths'
<1>0. TypeOK /\ TypeOK' /\ Moved
  BY EveryMove, TypeStep, Zenon DEF IInv
<1>1. running => ConfigMatches
  BY <1>0, MatchingConfig, Zenon DEF IInv, ConfigHasThePaths
<1> DEFINE Goal == running' => ConfigMatches'
<1> USE DEF ConfigMatches
<1>2. ASSUME PathsKept, UNCHANGED <<running, tunnelConfig>> PROVE Goal
  BY <1>1, <1>2, Zenon DEF PathsKept
<1>3. ASSUME UNCHANGED <<running, groups, tunnelConfig>> PROVE Goal
  BY <1>1, <1>3, Zenon
<1>4. ASSUME Rests \/ Stop \/ GatewayExits PROVE Goal
  BY <1>2, <1>3, <1>4, Zenon DEF Rests, sessionVars, Stop, GatewayExits
<1>5. ASSUME Start PROVE Goal
  BY <1>0, <1>5, NothingTyped, Zenon DEF Start
<1>6. ASSUME NEW w \in Workers, Moves(w) PROVE Goal
  <2>1. CASE Publishes(w)
    BY <1>0, <2>1, PublishFacts, Zenon DEF Publishes, TypeOK
  <2>2. CASE Rebuilds(w)
    BY <1>0, <2>2, RebuildFacts, Zenon
  <2>3. CASE Ends(w) \/ Checks(w) \/ Decides(w) \/ GoesOn(w) \/ FailsToRebuild(w)
    <3>1. PathsKept /\ UNCHANGED <<running, tunnelConfig>>
      BY <2>3, Zenon DEF Ends, Checks, Decides, GoesOn, FailsToRebuild, sessionVars
    <3> QED BY <1>2, <3>1, Zenon
  <2>4. CASE FailsBack(w) \/ Recovers(w) \/ Closes(w) \/ Restarts(w)
    <3>1. UNCHANGED <<running, groups, tunnelConfig>>
      BY <2>4, Zenon DEF FailsBack, Recovers, Closes, Restarts, sessionVars
    <3> QED BY <1>3, <3>1, Zenon
  <2>5. ASSUME NEW pc, NEW path, NEW next, Sets(w, pc, path, next) PROVE Goal
    <3>1. UNCHANGED <<running, groups, tunnelConfig>>
      BY <2>5, Zenon DEF Sets, sessionVars
    <3> QED BY <1>3, <3>1
  <2> HIDE DEF Goal
  <2> QED BY <1>6, <2>1, <2>2, <2>3, <2>4, <2>5, Zenon DEF Moves
<1> HIDE DEF Goal
<1>7. Goal
  BY <1>0, <1>4, <1>5, <1>6, Zenon DEF Moved
<1> QED BY <1>0, <1>7, MatchingConfigNext, Zenon DEF Goal, ConfigHasThePaths

\* What TunnelFits says of one goroutine.
TunnelHeld(w) ==
  Of(w) => /\ job[w].pc = "tunnel_probe" => tunnelConfig.tunnel
           /\ job[w].pc \in RecoverPcs /\ job[w].config.tunnel => tunnelConfig.tunnel

\* Whatever step puts something on the tunnel, a tunnel is configured: it was
\* there before, or the step is the rebuild that configures it.
LEMMA TunnelStep == ASSUME IInv, [Next]_vars PROVE TunnelIsConfigured' /\ TunnelFits'
<1>0. TypeOK /\ TypeOK' /\ Moved /\ JobsFit
  BY EveryMove, TypeStep, Zenon DEF IInv
<1> DEFINE Reported == \A g \in Groups : groups[g].path = "tunnel" => tunnelConfig.tunnel
           Selected == \A g \in Groups : gateway.paths[g] = "tunnel" => tunnelConfig.tunnel
           Built == gateway.tunnel => tunnelConfig.tunnel
           Held == \A w \in Workers : TunnelHeld(w)
           Goal == running' => Reported' /\ Selected' /\ Built' /\ Held'
           SessionKept == running' = running /\ sessionGeneration' = sessionGeneration
           GatewayKept == gateway'.tunnel = gateway.tunnel /\ gateway'.paths = gateway.paths
           ConfigKept == tunnelConfig' = tunnelConfig
<1>1. running => Reported /\ Selected /\ Built /\ Held
  BY Zenon DEF IInv, TunnelIsConfigured, TunnelFits, TunnelHeld
<1>a. ASSUME PathsKept, SessionKept, ConfigKept, GatewayKept, running' => Held' PROVE Goal
  BY <1>1, <1>a, Zenon DEF PathsKept
<1>b. ASSUME NEW w \in Workers, Turns(w), SessionKept, tunnelConfig.tunnel => tunnelConfig'.tunnel,
             running' => TunnelHeld(w)'
      PROVE  running' => Held'
  <2> SUFFICES ASSUME running', NEW v \in Workers PROVE TunnelHeld(v)'
    OBVIOUS
  <2>1. CASE v = w
    BY <1>b, <2>1, Zenon
  <2>2. CASE v # w
    <3>1. job'[v] = job[v] /\ TunnelHeld(v)
      BY <1>1, <1>b, <2>2, Zenon DEF Turns
    <3> QED BY <1>b, <3>1, Zenon DEF TunnelHeld, Of
  <2> QED BY <2>1, <2>2, Zenon
<1>c. ASSUME NEW w \in Workers, job'[w].pc \notin RecoverPcs \cup {"tunnel_probe"} PROVE TunnelHeld(w)'
  BY <1>c, Zenon DEF TunnelHeld
<1>d. ASSUME NEW w \in Workers, job'[w] = Idle PROVE TunnelHeld(w)'
  BY <1>d, NothingTyped, Zenon DEF TunnelHeld, RecoverPcs
<1>e. ASSUME UNCHANGED groups PROVE PathsKept
  BY <1>0, <1>e, Zenon DEF PathsKept, TypeOK
<1>2. ASSUME Rests PROVE Goal
  <2>1. UNCHANGED <<running, sessionGeneration, gateway, tunnelConfig, job>> /\ PathsKept
    BY <1>2, Zenon DEF Rests, sessionVars
  <2> QED BY <1>1, <2>1, Zenon DEF TunnelHeld, Of, PathsKept
<1>3. ASSUME GatewayExits PROVE Goal
  <2>1. UNCHANGED <<running, sessionGeneration, tunnelConfig, job, groups>> /\ GatewayKept
    BY <1>0, <1>3, ExitFacts, Zenon DEF GatewayExits
  <2> QED BY <1>1, <2>1, Zenon DEF TunnelHeld, Of
<1>4. ASSUME Stop PROVE Goal
  BY <1>4, Zenon DEF Stop
<1>5. ASSUME Start PROVE Goal
  <2>1. /\ ~gateway'.tunnel /\ \A g \in Groups : gateway'.paths[g] = "desync" /\ groups'[g].path = "desync"
        /\ UNCHANGED job /\ sessionGeneration' = sessionGeneration + 1
    BY <1>0, <1>5, NothingTyped, GatewayTyped, Zenon DEF Start
  <2>2. \A w \in Workers : job'[w].session # sessionGeneration'
    BY <1>0, <2>1 DEF JobsFit, TypeOK, JobType
  <2> QED BY <2>1, <2>2, Zenon DEF TunnelHeld, Of
<1>6. ASSUME NEW w \in Workers, Moves(w) PROVE Goal
  <2>0. job[w] \in JobType /\ job[w].config \in ConfigType /\ tunnelConfig \in ConfigType
    BY <1>0, Zenon DEF TypeOK, JobType
  <2>1. CASE Ends(w) \/ Checks(w) \/ Decides(w) \/ GoesOn(w)
    <3>1. PathsKept /\ SessionKept /\ ConfigKept /\ GatewayKept /\ Turns(w)
      BY <2>1, Zenon DEF Ends, Checks, Decides, GoesOn, Stops, sessionVars
    <3>2. TunnelHeld(w)'
      <4>1. CASE Ends(w)
        BY <1>d, <4>1, Zenon DEF Ends, Stops
      <4>2. CASE ~Ends(w)
        <5>1. job'[w].pc \notin RecoverPcs \cup {"tunnel_probe"}
          BY <2>1, <4>2, Zenon
            DEF Checks, Decides, GoesOn, RecoverPcs, BeginPcs, RepairPcs, ProbePcs
        <5> QED BY <1>c, <5>1, Zenon
      <4> QED BY <4>1, <4>2, Zenon
    <3> QED BY <1>a, <1>b, <3>1, <3>2, Zenon
  <2>2. ASSUME NEW pc, NEW path \in Paths, NEW next \in {"tunnel_probe", "revert_end"}, path = "tunnel",
               pc \in WorkPcs, Sets(w, pc, path, next)
        PROVE  Goal
    <3>1. /\ SessionKept /\ ConfigKept /\ UNCHANGED groups /\ Turns(w) /\ job'[w].pc = next
          /\ SetGroupPath(w, path) /\ job[w].group \in Groups
      BY <1>0, <2>2, Zenon DEF Sets, Advances, sessionVars, JobsFit
    <3>2. running => tunnelConfig.tunnel
      BY <1>1, <2>2, <3>1, Zenon DEF SetGroupPath, IsSet, Answers
    <3>3. running' => TunnelHeld(w)'
      BY <3>1, <3>2, Zenon DEF TunnelHeld
    <3>4. running' => Held'
      BY <1>b, <3>1, <3>3, Zenon
    <3> QED BY <3>1, <3>2, <3>4, Zenon
  <2>3. CASE Sets(w, "revert", "desync", "revert_probe")
    <3>1. SessionKept /\ ConfigKept /\ UNCHANGED groups /\ Turns(w) /\ job'[w].pc = "revert_probe"
      BY <2>3, Zenon DEF Sets, Advances, sessionVars
    <3>2. /\ gateway'.tunnel = gateway.tunnel
          /\ \A g \in Groups : gateway'.paths[g] \in {gateway.paths[g], "desync"}
      BY <1>0, <2>3, SetFacts, Zenon DEF Sets, Paths
    <3>3. TunnelHeld(w)'
      BY <1>c, <3>1, Zenon DEF RecoverPcs
    <3>4. running' => Held'
      BY <1>b, <3>1, <3>3, Zenon
    <3> QED BY <1>1, <3>1, <3>2, <3>4, Zenon
  <2>4. CASE FailsBack(w)
    <3>1. PathsKept /\ SessionKept /\ ConfigKept /\ GatewayKept /\ Turns(w) /\ job'[w].pc = "revert_end"
      BY <1>e, <2>4, Zenon DEF FailsBack, SetFails, Advances, sessionVars
    <3>2. TunnelHeld(w)'
      BY <1>c, <3>1, Zenon DEF RecoverPcs
    <3> QED BY <1>a, <1>b, <3>1, <3>2, Zenon
  <2>5. CASE Publishes(w)
    <3>1. tunnelConfig'.tunnel = tunnelConfig.tunnel /\ SessionKept /\ GatewayKept /\ Turns(w)
      BY <1>0, <2>5, PublishFacts, Zenon DEF Publishes, Stops, sessionVars, TypeOK
    <3>2. running' => Held'
      BY <1>b, <1>d, <2>5, <3>1, Zenon DEF Publishes, Stops
    <3>3. job[w].group \in Groups
      BY <1>0, <2>5, Zenon DEF Publishes, JobsFit, HoldPcs, ProbePcs, WorkPcs, RepairPcs
    <3>4. running /\ job[w].pc = "tunnel_probe" => tunnelConfig.tunnel
      BY <1>1, <2>5, Zenon DEF Publishes, TunnelHeld
    <3>5. running' => Reported'
      BY <1>1, <2>5, <3>1, <3>3, <3>4, Zenon DEF Publishes, Paths
    <3> QED BY <1>1, <3>1, <3>2, <3>5, Zenon
  <2>6. CASE Rebuilds(w)
    BY <1>0, <2>6, RebuildFacts, Zenon DEF TunnelHeld
  <2>7. CASE FailsToRebuild(w)
    <3>1. SessionKept /\ ConfigKept /\ PathsKept /\ Turns(w) /\ TunnelHeld(w)'
      BY <1>d, <2>7, Zenon DEF FailsToRebuild, Stops, sessionVars
    <3>2. Selected' /\ Built'
      <4>1. CASE gateway' = NoGateway
        <5>1. ~gateway'.tunnel /\ \A g \in Groups : gateway'.paths[g] = "desync"
          BY <4>1, NothingTyped, Zenon
        <5> QED BY <5>1, Zenon
      <4>2. CASE gateway' = Gateway(tunnelConfig)
        <5>1. /\ gateway'.tunnel = tunnelConfig.tunnel
              /\ \A g \in Groups :
                   gateway'.paths[g] = IF tunnelConfig.tunnel THEN tunnelConfig.paths[g] ELSE "desync"
          BY <1>0, <2>0, <4>2, GatewayTyped, Zenon
        <5> QED BY <3>1, <5>1, Zenon
      <4> QED BY <2>7, <4>1, <4>2, Zenon DEF FailsToRebuild
    <3>3. running' => Held'
      BY <1>b, <3>1, Zenon
    <3> QED BY <1>1, <3>1, <3>2, <3>3, Zenon DEF PathsKept
  <2>8. CASE Recovers(w)
    <3>1. PathsKept /\ SessionKept /\ ConfigKept /\ GatewayKept /\ Turns(w)
      BY <1>e, <2>8, Zenon DEF Recovers, sessionVars
    <3>2. TunnelHeld(w)'
      BY <2>8, <3>1, Zenon DEF Recovers, TunnelHeld
    <3> QED BY <1>a, <1>b, <3>1, <3>2
  <2>9. CASE Closes(w)
    <3>1. PathsKept /\ SessionKept /\ ConfigKept /\ GatewayKept /\ Turns(w)
      BY <1>0, <1>e, <2>9, CloseFacts, Zenon DEF Closes, Advances, sessionVars
    <3>2. running' => TunnelHeld(w)'
      BY <1>1, <2>9, <3>1, Zenon DEF Closes, Advances, TunnelHeld, Of, RecoverPcs
    <3> QED BY <1>a, <1>b, <3>1, <3>2, Zenon
  <2>10. CASE Restarts(w)
    <3>1. SessionKept /\ ConfigKept /\ UNCHANGED groups /\ Turns(w) /\ TunnelHeld(w)'
      BY <1>d, <2>10, Zenon DEF Restarts, Stops, sessionVars
    <3>2. job[w].config.tunnel => tunnelConfig.tunnel
      BY <1>1, <2>10, Zenon DEF Restarts, TunnelHeld, RecoverPcs
    <3>3. Selected' /\ Built'
      BY <1>0, <2>0, <2>10, <3>1, <3>2, GatewayTyped, Zenon DEF Restarts
    <3>4. running' => Held'
      BY <1>b, <3>1, Zenon
    <3> QED BY <1>1, <3>1, <3>3, <3>4, Zenon
  <2> HIDE DEF Goal
  <2> QED BY <1>6, <2>1, <2>2, <2>3, <2>4, <2>5, <2>6, <2>7, <2>8, <2>9, <2>10, Zenon
          DEF Moves, Paths, WorkPcs, RepairPcs
<1> HIDE DEF Goal
<1>7. Goal
  BY <1>0, <1>2, <1>3, <1>4, <1>5, <1>6, Zenon DEF Moved
<1> QED BY <1>7, Zenon DEF Goal, TunnelIsConfigured, TunnelFits, TunnelHeld

-----------------------------------------------------------------------------
(* The flag of a repair. *)

\* A repair that goes on keeps its place, one that ends clears the flag, and
\* what is no repair leaves both alone.
LEMMA SuspendStep == ASSUME IInv, [Next]_vars PROVE SuspendedByARepair'
<1>0. TypeOK /\ TypeOK' /\ Moved /\ SuspendedByARepair
  BY EveryMove, TypeStep, Zenon DEF IInv
<1> DEFINE Goal == running' /\ groupWork' => \E w \in Workers : InRepair(w)'
<1>a. ASSUME NEW w \in Workers, Turns(w), UNCHANGED <<running, sessionGeneration, groupWork>>,
             InRepair(w) => InRepair(w)'
      PROVE  Goal
  <2> SUFFICES ASSUME running', groupWork' PROVE \E v \in Workers : InRepair(v)'
    OBVIOUS
  <2>1. PICK v \in Workers : InRepair(v)
    BY <1>0, <1>a, Zenon DEF SuspendedByARepair
  <2>2. CASE v = w
    BY <1>a, <2>1, <2>2, Zenon
  <2>3. CASE v # w
    BY <1>a, <2>1, <2>3, Zenon DEF Turns, InRepair
  <2> QED BY <2>2, <2>3, Zenon
<1>1. ASSUME Rests \/ GatewayExits PROVE Goal
  <2>1. UNCHANGED <<running, sessionGeneration, groupWork, job>>
    BY <1>1, Zenon DEF Rests, GatewayExits, sessionVars, flagVars
  <2> QED BY <1>0, <2>1, Zenon DEF SuspendedByARepair, InRepair
<1>2. ASSUME Start \/ Stop PROVE Goal
  BY <1>2, Zenon DEF Start, Stop
<1>3. ASSUME NEW w \in Workers, Moves(w) PROVE Goal
  <2>1. CASE Ends(w) \/ Publishes(w) \/ FailsToRebuild(w)
    <3>1. CASE groupWork' = FALSE
      BY <3>1, Zenon
    <3>2. CASE groupWork' # FALSE
      <4>1. /\ Turns(w) /\ UNCHANGED <<running, sessionGeneration, groupWork>> /\ job[w].pc \notin WorkPcs
        BY <2>1, <3>2, Zenon DEF Ends, Publishes, FailsToRebuild, Stops, sessionVars
      <4> QED BY <1>a, <4>1, Zenon DEF InRepair, WorkPcs
    <3> QED BY <3>1, <3>2, Zenon
  <2>2. CASE Checks(w) \/ Recovers(w) \/ Closes(w) \/ Restarts(w)
    <3>1. /\ Turns(w) /\ UNCHANGED <<running, sessionGeneration, groupWork>> /\ job[w].pc \notin WorkPcs
      BY <2>2, Zenon
        DEF Checks, Recovers, Closes, Restarts, Advances, Stops, sessionVars, WorkPcs, BeginPcs,
        RepairPcs
    <3> QED BY <1>a, <3>1 DEF InRepair, WorkPcs
  <2>3. CASE Decides(w)
    <3>1. InRepair(w)'
      BY <2>3, Zenon DEF Decides, InRepair, sessionVars
    <3> QED BY <3>1, Zenon
  <2>4. CASE GoesOn(w) \/ FailsBack(w) \/ Rebuilds(w)
    <3>1. /\ Turns(w) /\ UNCHANGED <<running, sessionGeneration, groupWork>>
          /\ job'[w].pc \in RepairPcs /\ job'[w].session = job[w].session
      BY <2>4, Zenon DEF GoesOn, FailsBack, Rebuilds, Advances, sessionVars, RepairPcs
    <3> QED BY <1>a, <3>1, Zenon DEF InRepair
  <2>5. ASSUME NEW pc, NEW path, NEW next \in RepairPcs, Sets(w, pc, path, next) PROVE Goal
    <3>1. /\ Turns(w) /\ UNCHANGED <<running, sessionGeneration, groupWork>>
          /\ job'[w].pc \in RepairPcs /\ job'[w].session = job[w].session
      BY <2>5, Zenon DEF Sets, Advances, sessionVars
    <3> QED BY <1>a, <3>1, Zenon DEF InRepair
  <2> HIDE DEF Goal
  <2> QED BY <1>3, <2>1, <2>2, <2>3, <2>4, <2>5, Zenon DEF Moves, RepairPcs
<1> HIDE DEF Goal
<1>4. Goal
  BY <1>0, <1>1, <1>2, <1>3, Zenon DEF Moved
<1> QED BY <1>4, Zenon DEF Goal, SuspendedByARepair

-----------------------------------------------------------------------------
(* One repair, one recovery. *)

\* What OneAtATime says of two goroutines.
Apart(v, w) ==
  Of(v) /\ Of(w) =>
    /\ ~(job[v].pc \in RecoverPcs /\ job[w].pc \in RecoverPcs)
    /\ ~overlapped => ~(job[v].pc \in WorkPcs /\ job[w].pc \in WorkPcs)

\* A recovery waits for the one before; a second repair is an overlap.
LEMMA OneStep == ASSUME IInv, [Next]_vars PROVE OneAtATime'
<1>0. TypeOK /\ TypeOK' /\ Moved /\ OneAtATime /\ JobsFit
  BY EveryMove, TypeStep, Zenon DEF IInv
<1>1. running => \A v, w \in Workers : v # w => Apart(v, w)
  BY <1>0, Zenon DEF OneAtATime, Apart
<1> DEFINE Goal == running' => \A v, w \in Workers : v # w => Apart(v, w)'
           SessionKept == running' = running /\ sessionGeneration' = sessionGeneration
\* The goroutine that steps is as far from the others as it was.
<1>a. ASSUME NEW w \in Workers, Turns(w), SessionKept, overlapped' = overlapped,
             job'[w].session # sessionGeneration \/ job'[w].session = job[w].session
               \/ job'[w].pc \notin RecoverPcs \cup WorkPcs,
             job'[w].pc \in RecoverPcs => job[w].pc \in RecoverPcs,
             job'[w].pc \in WorkPcs => job[w].pc \in WorkPcs
      PROVE  Goal
  <2> SUFFICES ASSUME running', NEW u \in Workers, NEW v \in Workers, u # v PROVE Apart(u, v)'
    BY Zenon
  <2>1. Apart(u, v) /\ Apart(v, u)
    BY <1>1, <1>a, Zenon
  <2>2. (u # w => job'[u] = job[u]) /\ (v # w => job'[v] = job[v])
    BY <1>a, Zenon DEF Turns
  <2>3. CASE u = w
    BY <1>a, <2>1, <2>2, <2>3, Zenon DEF Apart, Of
  <2>4. CASE v = w
    BY <1>a, <2>1, <2>2, <2>4, Zenon DEF Apart, Of
  <2>5. CASE u # w /\ v # w
    BY <1>a, <2>1, <2>2, <2>5, Zenon DEF Apart, Of
  <2> QED BY <2>3, <2>4, <2>5, Zenon
<1>2. ASSUME Rests \/ GatewayExits PROVE Goal
  <2>1. UNCHANGED <<running, sessionGeneration, overlapped, job>>
    BY <1>2, Zenon DEF Rests, GatewayExits, sessionVars
  <2> QED BY <1>1, <2>1, Zenon DEF Apart, Of
<1>3. ASSUME Stop PROVE Goal
  BY <1>3, Zenon DEF Stop
<1>4. ASSUME Start PROVE Goal
  <2>1. UNCHANGED job /\ sessionGeneration' = sessionGeneration + 1
    BY <1>4, Zenon DEF Start
  <2>2. \A w \in Workers : job'[w].session # sessionGeneration'
    BY <1>0, <2>1, SMTT(30) DEF JobsFit, TypeOK, JobType
  <2> QED BY <2>2, Zenon DEF Apart, Of
<1>5. ASSUME NEW w \in Workers, Moves(w) PROVE Goal
  <2>1. CASE Ends(w) \/ Publishes(w) \/ FailsToRebuild(w) \/ Restarts(w)
    <3>1. Turns(w) /\ SessionKept /\ overlapped' = overlapped /\ job'[w].pc = "idle"
      BY <2>1, NothingTyped, Zenon DEF Ends, Publishes, FailsToRebuild, Restarts, Stops, sessionVars
    <3> QED BY <1>a, <3>1, Zenon DEF RecoverPcs, WorkPcs, BeginPcs, RepairPcs
  <2>2. CASE Checks(w)
    <3>1. Turns(w) /\ SessionKept /\ overlapped' = overlapped /\ job'[w].pc \in {"check", "probe"}
      BY <2>2, Zenon DEF Checks
    <3> QED BY <1>a, <3>1, Zenon DEF RecoverPcs, WorkPcs, BeginPcs, RepairPcs
  <2>3. CASE Decides(w)
    <3>1. /\ Turns(w) /\ SessionKept /\ job'[w].pc \in WorkPcs \ RecoverPcs
          /\ overlapped => overlapped'
          /\ ~overlapped' => \A v \in Workers : ~InRepair(v)
      BY <1>0, <2>3, Zenon DEF Decides, sessionVars, WorkPcs, BeginPcs, RecoverPcs, TypeOK
    <3> SUFFICES ASSUME running', NEW u \in Workers, NEW v \in Workers, u # v PROVE Apart(u, v)'
      OBVIOUS
    <3>2. Apart(u, v) /\ (u # w => job'[u] = job[u]) /\ (v # w => job'[v] = job[v])
      BY <1>1, <3>1, Zenon DEF Turns
    <3>3. ~overlapped' => ~(Of(u) /\ job[u].pc \in WorkPcs) /\ ~(Of(v) /\ job[v].pc \in WorkPcs)
      BY <3>1, Zenon DEF InRepair, WorkPcs, Of
    <3>4. CASE u = w
      BY <3>1, <3>2, <3>3, <3>4, Zenon DEF Apart, Of
    <3>5. CASE v = w
      BY <3>1, <3>2, <3>3, <3>5, Zenon DEF Apart, Of
    <3>6. CASE u # w /\ v # w
      BY <3>1, <3>2, <3>3, <3>6, Zenon DEF Apart, Of
    <3> QED BY <3>4, <3>5, <3>6, Zenon
  <2>4. CASE GoesOn(w) \/ FailsBack(w) \/ Rebuilds(w)
    <3>1. /\ Turns(w) /\ SessionKept /\ overlapped' = overlapped /\ job[w].pc \in WorkPcs
          /\ job'[w].pc \in WorkPcs \ RecoverPcs /\ job'[w].session = job[w].session
      BY <2>4, Zenon
        DEF GoesOn, FailsBack, Rebuilds, Advances, sessionVars, RepairPcs, WorkPcs, RecoverPcs
    <3> QED BY <1>a, <3>1, Zenon
  <2>5. ASSUME NEW pc \in RepairPcs, NEW path, NEW next \in RepairPcs, Sets(w, pc, path, next) PROVE Goal
    <3>1. /\ Turns(w) /\ SessionKept /\ overlapped' = overlapped /\ job[w].pc \in WorkPcs
          /\ job'[w].pc \in WorkPcs \ RecoverPcs /\ job'[w].session = job[w].session
      BY <2>5, Zenon DEF Sets, Advances, sessionVars, WorkPcs, RepairPcs, RecoverPcs
    <3> QED BY <1>a, <3>1, Zenon
  <2>6. CASE Closes(w)
    <3>1. /\ Turns(w) /\ SessionKept /\ overlapped' = overlapped /\ job[w].pc \in RecoverPcs
          /\ job'[w].pc \in RecoverPcs \ WorkPcs /\ job'[w].session = job[w].session
      BY <2>6, Zenon DEF Closes, Advances, sessionVars, RecoverPcs, WorkPcs, BeginPcs, RepairPcs
    <3> QED BY <1>a, <3>1, Zenon
  <2>7. CASE Recovers(w)
    <3>1. /\ Turns(w) /\ SessionKept /\ overlapped' = overlapped /\ job'[w].pc \in RecoverPcs \ WorkPcs
          /\ \A v \in Workers : ~(job[v].pc \in RecoverPcs /\ Of(v))
      BY <2>7, Zenon DEF Recovers, Recovering, Of, sessionVars, RecoverPcs, WorkPcs, BeginPcs, RepairPcs
    <3> SUFFICES ASSUME running', NEW u \in Workers, NEW v \in Workers, u # v PROVE Apart(u, v)'
      OBVIOUS
    <3>2. Apart(u, v) /\ (u # w => job'[u] = job[u]) /\ (v # w => job'[v] = job[v])
      BY <1>1, <3>1, Zenon DEF Turns
    <3>3. CASE u = w
      BY <3>1, <3>2, <3>3, Zenon DEF Apart, Of
    <3>4. CASE v = w
      BY <3>1, <3>2, <3>4, Zenon DEF Apart, Of
    <3>5. CASE u # w /\ v # w
      BY <3>1, <3>2, <3>5, Zenon DEF Apart, Of
    <3> QED BY <3>3, <3>4, <3>5, Zenon
  <2> HIDE DEF Goal
  <2> QED BY <1>5, <2>1, <2>2, <2>3, <2>4, <2>5, <2>6, <2>7, Zenon DEF Moves, RepairPcs
<1> HIDE DEF Goal
<1>6. Goal
  BY <1>0, <1>2, <1>3, <1>4, <1>5, Zenon DEF Moved
<1> QED BY <1>6, Zenon DEF Goal, OneAtATime, Apart

-----------------------------------------------------------------------------
(* Paths and selectors. *)

\* What RepairsFit says of one goroutine.
RepairFits(w) ==
  Of(w) =>
    /\ job[w].pc \in ProbePcs => job[w].tun = gateway.id
    /\ job[w].pc = "tunnel_probe" => gateway.paths[job[w].group] = "tunnel"
    /\ job[w].pc = "revert_probe" => gateway.paths[job[w].group] = "desync"
    /\ job[w].pc \in {"revert_begin", "revert", "revert_probe"} => groups[job[w].group].path = "tunnel"
    /\ job[w].pc \in RecoverPcs => gateway.id = 0 /\ job[w].tun = 0 /\ job[w].config = tunnelConfig

SettledNow == GatewayAsConfigured /\ OnlyProbed /\ \A w \in Workers : RepairFits(w)

\* A gateway built from the configuration has every group on its path.
LEMMA BuiltSettled ==
  ASSUME TypeOK, ConfigMatches, \A g \in Groups : groups[g].path = "tunnel" => tunnelConfig.tunnel,
         gateway' = Gateway(tunnelConfig), tunnelConfig' = tunnelConfig, PathsKept
  PROVE  GatewayAsConfigured' /\ \A g \in Groups : ~Differs(g)'
<1>1. tunnelConfig \in ConfigType /\ \A g \in Groups : groups[g].path \in Paths
  BY Zenon DEF TypeOK, GroupType
<1>2. /\ gateway'.up /\ gateway'.open /\ gateway'.tunnel = tunnelConfig.tunnel
      /\ \A g \in Groups :
           gateway'.paths[g] = IF tunnelConfig.tunnel THEN tunnelConfig.paths[g] ELSE "desync"
  BY <1>1, GatewayTyped, Zenon
<1>3. GatewayAsConfigured'
  BY <1>2, Zenon DEF GatewayAsConfigured
<1>4. \A g \in Groups : gateway'.paths[g] = groups[g].path
  BY <1>1, <1>2, Zenon DEF ConfigMatches, Paths
<1> QED BY <1>3, <1>4, Zenon DEF Differs, PathsKept

\* One goroutine steps, and gateway, configuration and paths stay.
LEMMA KeptSettled ==
  ASSUME SettledNow, NEW w \in Workers, Turns(w), PathsKept,
         ~(Of(w) /\ job[w].pc \in ProbePcs), RepairFits(w)',
         \A v \in Workers : job[v].pc \in WorkPcs => job[v].group \in Groups,
         UNCHANGED <<sessionGeneration, gateway, tunnelConfig>>
  PROVE  SettledNow'
<1>1. GatewayAsConfigured'
  BY Zenon DEF SettledNow, GatewayAsConfigured
<1>2. ASSUME NEW g \in Groups, Differs(g)'
      PROVE  \E v \in Workers : Of(v)' /\ job'[v].pc \in ProbePcs /\ job'[v].group = g
  <2>1. Differs(g)
    BY <1>2, Zenon DEF Differs, PathsKept
  <2>2. PICK v \in Workers : Of(v) /\ job[v].pc \in ProbePcs /\ job[v].group = g
    BY <2>1, Zenon DEF SettledNow, OnlyProbed
  <2>3. job'[v] = job[v]
    BY <2>2, Zenon DEF Turns
  <2> QED BY <2>2, <2>3, Zenon DEF Of
<1>3. ASSUME NEW v \in Workers, v # w PROVE RepairFits(v)'
  <2>1. job'[v] = job[v] /\ RepairFits(v)
    BY <1>3, Zenon DEF Turns, SettledNow
  <2>2. job[v].pc \in {"revert_begin", "revert", "revert_probe"} =>
          groups'[job[v].group].path = groups[job[v].group].path
    BY Zenon DEF WorkPcs, BeginPcs, RepairPcs, PathsKept
  <2> QED BY <2>1, <2>2, Zenon DEF RepairFits, Of
<1> QED BY <1>1, <1>2, <1>3, Zenon DEF SettledNow, OnlyProbed

\* The one repair of the session steps: the others are neither in a repair nor,
\* as there is a gateway, in a recovery.
LEMMA OthersSettled ==
  ASSUME IInv, SettledNow, running, ~overlapped, NEW w \in Workers, Turns(w), Of(w), job[w].pc \in WorkPcs,
         gateway.id # 0, NEW v \in Workers, v # w, UNCHANGED sessionGeneration
  PROVE  /\ RepairFits(v)'
         /\ ~(Of(v) /\ job[v].pc \in ProbePcs)
<1>1. job'[v] = job[v]
  BY Zenon DEF Turns
<1>2. Of(v) => job[v].pc \notin WorkPcs /\ job[v].pc \notin RecoverPcs
  BY Zenon DEF IInv, OneAtATime, SettledNow, RepairFits
<1> QED BY <1>1, <1>2, Zenon DEF RepairFits, Of, WorkPcs, BeginPcs, RepairPcs, ProbePcs

\* As long as nothing fails and no repairs overlap, a step leaves a path and its
\* selector apart only for the group it goes on to probe.
LEMMA SettledStep == ASSUME IInv, [Next]_vars PROVE Settled'
<1>0. TypeOK /\ TypeOK' /\ Moved /\ JobsFit /\ GatewayFits /\ StaleIds
  BY EveryMove, TypeStep, Zenon DEF IInv
<1>1. running => ConfigMatches /\ \A g \in Groups : groups[g].path = "tunnel" => tunnelConfig.tunnel
  BY <1>0, MatchingConfig, Zenon DEF IInv, ConfigHasThePaths, TunnelIsConfigured
<1>2. Undisturbed => SettledNow
  BY Zenon DEF IInv, Settled, SettledNow, RepairsFit, RepairFits
<1>3. /\ faults \in Nat /\ overlapped \in BOOLEAN
      /\ \A v \in Workers : job[v].pc \in WorkPcs => job[v].group \in Groups
  BY <1>0, Zenon DEF TypeOK, JobsFit
<1> DEFINE Goal == Undisturbed' => SettledNow'
<1>4. ASSUME Rests PROVE Goal
  <2>1. /\ UNCHANGED <<running, sessionGeneration, gateway, tunnelConfig, job, faults, overlapped>>
        /\ PathsKept
    BY <1>4, Zenon DEF Rests, sessionVars
  <2>2. CASE Undisturbed
    <3>1. SettledNow
      BY <1>2, <2>2, Zenon
    <3>2. GatewayAsConfigured' /\ OnlyProbed'
      BY <2>1, <3>1, Zenon DEF SettledNow, GatewayAsConfigured, OnlyProbed, Differs, PathsKept, Of
    <3>3. ASSUME NEW v \in Workers PROVE RepairFits(v)'
      <4>1. job[v].pc \in {"revert_begin", "revert", "revert_probe"} =>
              groups'[job[v].group].path = groups[job[v].group].path
        BY <1>3, <2>1, Zenon DEF WorkPcs, BeginPcs, RepairPcs, PathsKept
      <4> QED BY <2>1, <3>1, <4>1, Zenon DEF SettledNow, RepairFits, Of
    <3> QED BY <3>2, <3>3, Zenon DEF SettledNow
  <2> QED BY <2>1, <2>2, Zenon DEF Undisturbed
<1>5. ASSUME Stop \/ GatewayExits PROVE Goal
  BY <1>3, <1>5, SMTT(30) DEF Stop, GatewayExits, Undisturbed
<1>6. ASSUME Start PROVE Goal
  <2>1. /\ gateway' = Gateway(NoConfig) /\ tunnelConfig' = NoConfig /\ UNCHANGED job
        /\ sessionGeneration' = sessionGeneration + 1 /\ groups' = [g \in Groups |-> NewGroup]
    BY <1>6, Zenon DEF Start
  <2>2. /\ gateway'.up /\ gateway'.open /\ gateway'.tunnel = NoConfig.tunnel
        /\ \A g \in Groups : gateway'.paths[g] = "desync"
    BY <1>0, <2>1, NothingTyped, GatewayTyped, Zenon
  <2>3. GatewayAsConfigured' /\ OnlyProbed'
    BY <2>1, <2>2, NothingTyped, Zenon DEF GatewayAsConfigured, OnlyProbed, Differs
  <2>4. \A v \in Workers : job'[v].session # sessionGeneration'
    BY <1>0, <2>1, SMTT(30) DEF JobsFit, TypeOK, JobType
  <2> QED BY <2>3, <2>4, Zenon DEF SettledNow, RepairFits, Of
<1>7. ASSUME NEW w \in Workers, Moves(w) PROVE Goal
  <2> SUFFICES ASSUME Undisturbed' PROVE SettledNow'
    BY Zenon
  <2>0. /\ running' /\ faults' = 0 /\ ~overlapped'
        /\ running = running' /\ UNCHANGED sessionGeneration
    BY <1>7, Zenon
      DEF Undisturbed, Moves, Ends, Checks, Decides, GoesOn, Sets, FailsBack, Publishes, Rebuilds,
                FailsToRebuild, Recovers, Closes, Restarts, sessionVars
  <2>a. faults' \in {faults, faults + 1}
    BY <1>7, Zenon
      DEF Moves, Ends, Checks, Decides, GoesOn, Sets, SetGroupPath, FailsBack, SetFails, Publishes,
      Rebuilds,
                FailsToRebuild, Recovers, Closes, Restarts
  <2>b. overlapped => overlapped'
    BY <1>7, Zenon DEF Moves, Ends, Checks, Decides, GoesOn, Sets, FailsBack, Publishes, Rebuilds,
                FailsToRebuild, Recovers, Closes, Restarts
  <2>c. SettledNow /\ running /\ ~overlapped /\ faults = 0 /\ faults' = faults
    BY <1>2, <1>3, <2>0, <2>a, <2>b DEF Undisturbed
  <2>d. RepairFits(w) /\ job[w] \in JobType
    BY <1>0, <2>c, Zenon DEF SettledNow, TypeOK
  <2>e. ASSUME UNCHANGED groups PROVE PathsKept
    BY <1>0, <2>e, Zenon DEF PathsKept, TypeOK
  <2>1. CASE Ends(w)
    <3>1. ~(Of(w) /\ job[w].pc \in ProbePcs)
      BY <2>1, <2>c, <2>d, Zenon DEF Ends, Superseded, Current, RepairFits, Of
    <3>2. RepairFits(w)'
      BY <2>1, NothingTyped, Zenon DEF Ends, Stops, RepairFits, ProbePcs, RecoverPcs
    <3> QED BY <1>3, <2>0, <2>1, <2>c, <3>1, <3>2, KeptSettled, Zenon DEF Ends, Stops
  <2>2. CASE Checks(w)
    <3>1. job[w].pc \notin ProbePcs /\ RepairFits(w)'
      BY <2>2, Zenon DEF Checks, RepairFits, ProbePcs, RecoverPcs
    <3> QED BY <1>3, <2>0, <2>2, <2>c, <3>1, KeptSettled, Zenon DEF Checks
  <2>3. CASE Decides(w)
    <3>1. job[w].pc \notin ProbePcs /\ RepairFits(w)'
      BY <2>3, Zenon DEF Decides, PathsKept, RepairFits, ProbePcs, RecoverPcs, BeginPcs
    <3> QED BY <1>3, <2>0, <2>3, <2>c, <3>1, KeptSettled, Zenon DEF Decides
  <2>4. CASE GoesOn(w)
    <3>1. /\ Of(w)' => Of(w)
          /\ job'[w].pc \in {"revert_begin", "revert", "revert_probe"} =>
               job[w].pc = "revert_begin" /\ groups'[job'[w].group].path = groups[job[w].group].path
      BY <1>3, <2>0, <2>4, Zenon DEF GoesOn, PathsKept, Of, RepairPcs, ProbePcs
    <3>2. job'[w].pc \notin ProbePcs \cup RecoverPcs
      BY <2>4, Zenon DEF GoesOn, RepairPcs, RecoverPcs
    <3>3. RepairFits(w)'
      BY <2>d, <3>1, <3>2, Zenon DEF RepairFits, ProbePcs
    <3> QED BY <1>3, <2>0, <2>4, <2>c, <3>3, KeptSettled, Zenon DEF GoesOn
  <2>5. ASSUME NEW pc \in {"switch", "revert", "revert_probe"}, NEW path \in Paths, NEW next \in RepairPcs,
               Sets(w, pc, path, next),
               \/ pc = "switch" /\ path = "tunnel" /\ next = "tunnel_probe"
               \/ pc = "revert" /\ path = "desync" /\ next = "revert_probe"
               \/ pc = "revert_probe" /\ path = "tunnel" /\ next = "revert_end"
        PROVE  SettledNow'
    <3>1. /\ gateway.open /\ gateway.id = job[w].tun
          /\ gateway'.id = gateway.id /\ gateway'.open = gateway.open /\ gateway'.up = gateway.up
          /\ gateway'.tunnel = gateway.tunnel
          /\ \A g \in Groups : gateway'.paths[g] = IF g = job[w].group THEN path ELSE gateway.paths[g]
      BY <1>0, <2>5, SetFacts, Zenon DEF Sets
    <3>2. /\ job[w].pc = pc /\ Turns(w) /\ job'[w].pc = next /\ job'[w].session = job[w].session
          /\ job'[w].group = job[w].group /\ job'[w].tun = job[w].tun /\ UNCHANGED <<groups, tunnelConfig>>
      BY <2>5, Zenon DEF Sets, Advances
    <3>3. job[w].pc \in HoldPcs /\ job[w].pc \in WorkPcs
      BY <3>2, Zenon DEF HoldPcs, ProbePcs, WorkPcs, RepairPcs
    <3>4. gateway.id # 0 /\ Of(w) /\ job[w].group \in Groups
      BY <1>0, <3>1, <3>3, Zenon DEF JobsFit, StaleIds, Of
    <3>5. \A v \in Workers : v # w => RepairFits(v)' /\ ~(Of(v) /\ job[v].pc \in ProbePcs)
      BY <2>0, <2>c, <3>2, <3>3, <3>4, OthersSettled, Zenon
    <3>6. GatewayAsConfigured'
      BY <2>c, <3>1, <3>2, Zenon DEF SettledNow, GatewayAsConfigured
    <3>7. pc \in {"revert", "revert_probe"} => groups[job[w].group].path = "tunnel"
      BY <2>d, <3>2, <3>4, Zenon DEF RepairFits
    <3>8. RepairFits(w)'
      BY <2>5, <3>1, <3>2, <3>4, <3>7, Zenon DEF RepairFits, RecoverPcs, ProbePcs
    <3>9. ASSUME NEW g \in Groups, Differs(g)' PROVE g = job[w].group /\ next \in ProbePcs
      <4>1. CASE g = job[w].group
        BY <2>5, <3>1, <3>2, <3>7, <3>9, <4>1, Zenon DEF Differs, ProbePcs
      <4>2. CASE g # job[w].group
        <5>1. Differs(g)
          BY <3>1, <3>2, <3>9, <4>2, Zenon DEF Differs
        <5> QED BY <2>c, <3>5, <4>2, <5>1, Zenon DEF SettledNow, OnlyProbed
      <4> QED BY <4>1, <4>2, Zenon
    <3>10. OnlyProbed'
      BY <2>0, <3>2, <3>4, <3>9, Zenon DEF OnlyProbed, Of
    <3> QED BY <3>5, <3>6, <3>8, <3>10, Zenon DEF SettledNow
  <2>6. CASE FailsBack(w)
    <3>1. /\ UNCHANGED <<groups, tunnelConfig, gateway>> /\ Turns(w) /\ job'[w].pc = "revert_end"
          /\ job[w].pc = "revert_probe"
      BY <2>6, Zenon DEF FailsBack, SetFails, Advances
    <3>2. RepairFits(w)'
      BY <3>1, Zenon DEF RepairFits, ProbePcs, RecoverPcs
    <3>3. ~Of(w)
      <4> SUFFICES ASSUME Of(w) PROVE FALSE
        BY Zenon
      <4>1. job[w].tun # 0 /\ job[w].group \in Groups
        BY <1>0, <3>1, Zenon DEF JobsFit, HoldPcs, ProbePcs, WorkPcs, RepairPcs
      <4>2. job[w].tun = gateway.id /\ groups[job[w].group].path = "tunnel"
        BY <2>d, <3>1, Zenon DEF RepairFits, ProbePcs
      <4>3. gateway.up /\ gateway.open /\ gateway.tunnel = tunnelConfig.tunnel
        BY <2>c, <4>1, <4>2, Zenon DEF SettledNow, GatewayAsConfigured
      <4>4. tunnelConfig.tunnel
        BY <1>1, <2>c, <4>1, <4>2, Zenon
      <4>5. Accepts(w) /\ Answers
        BY <4>2, <4>3, <4>4, Zenon DEF Accepts, Answers
      <4>6. faults' = faults + 1
        BY <2>6, <4>5, Zenon DEF FailsBack, SetFails
      <4> QED BY <2>0, <2>c, <4>6
    <3> QED BY <1>3, <2>0, <2>c, <2>e, <3>1, <3>2, <3>3, KeptSettled, Zenon
  <2>7. CASE Publishes(w)
    <3>1. /\ tunnelConfig'.tunnel = tunnelConfig.tunnel /\ gateway' = gateway /\ Turns(w) /\ job'[w] = Idle
          /\ Of(w) /\ gateway.id = job[w].tun /\ job[w].pc \in HoldPcs
      BY <1>0, <2>7, PublishFacts, Zenon DEF Publishes, Stops, TypeOK
    <3>2. job[w].pc \in WorkPcs
      BY <3>1, Zenon DEF HoldPcs, ProbePcs, WorkPcs, RepairPcs
    <3>3. gateway.id # 0 /\ job[w].group \in Groups
      BY <1>0, <3>1, <3>2, Zenon DEF JobsFit
    <3>4. \A v \in Workers : v # w => RepairFits(v)' /\ ~(Of(v) /\ job[v].pc \in ProbePcs)
      BY <2>0, <2>c, <3>1, <3>2, <3>3, OthersSettled, Zenon
    <3>5. GatewayAsConfigured'
      BY <2>c, <3>1, Zenon DEF SettledNow, GatewayAsConfigured
    <3>6. RepairFits(w)'
      BY <3>1, NothingTyped, Zenon DEF RepairFits, ProbePcs, RecoverPcs
    <3>7. ASSUME NEW g \in Groups PROVE ~Differs(g)'
      <4>1. ~Differs(g) \/ (job[w].pc \in ProbePcs /\ job[w].group = g)
        BY <2>c, <3>4, Zenon DEF SettledNow, OnlyProbed
      <4>2. CASE g # job[w].group
        BY <2>7, <3>1, <4>1, <4>2, Zenon DEF Publishes, Differs
      <4>3. CASE g = job[w].group /\ job[w].pc \in ProbePcs
        <5>1. groups'[g].path = gateway.paths[g]
          BY <2>7, <2>d, <3>1, <4>3, Zenon DEF Publishes, RepairFits, ProbePcs
        <5> QED BY <3>1, <5>1, Zenon DEF Differs
      <4>4. CASE g = job[w].group /\ job[w].pc \notin ProbePcs
        <5>1. groups'[g].path = groups[g].path
          BY <2>7, <4>4, Zenon DEF Publishes, ProbePcs
        <5> QED BY <3>1, <4>1, <4>4, <5>1, Zenon DEF Differs
      <4> QED BY <4>2, <4>3, <4>4, Zenon
    <3> QED BY <3>4, <3>5, <3>6, <3>7, Zenon DEF SettledNow, OnlyProbed
  <2>8. CASE Rebuilds(w)
    <3>1. /\ gateway'.id = FreshId /\ gateway'.up /\ gateway'.open /\ gateway'.tunnel = tunnelConfig'.tunnel
          /\ \A g \in Groups : gateway'.paths[g] = groups'[g].path
      BY <1>0, <2>8, RebuildFacts, Zenon
    <3>2. /\ Turns(w) /\ Of(w) /\ gateway.id = job[w].tun /\ job[w].pc = "prepare"
          /\ job'[w].pc = "tunnel_probe" /\ job'[w].tun = FreshId /\ job'[w].group = job[w].group
      BY <2>8, Zenon DEF Rebuilds, Superseded, Current, Of
    <3>3. job[w].pc \in WorkPcs /\ gateway.id # 0 /\ job[w].group \in Groups
      BY <1>0, <3>2, Zenon DEF JobsFit, WorkPcs, RepairPcs, HoldPcs
    <3>4. \A v \in Workers : v # w => RepairFits(v)'
      BY <2>0, <2>c, <3>2, <3>3, OthersSettled, Zenon
    <3>5. gateway'.paths[job[w].group] = "tunnel"
      BY <2>8, <3>1, <3>3, Zenon DEF Rebuilds
    <3>6. RepairFits(w)'
      BY <3>1, <3>2, <3>5, Zenon DEF RepairFits, ProbePcs, RecoverPcs
    <3>7. GatewayAsConfigured' /\ OnlyProbed'
      BY <3>1, Zenon DEF GatewayAsConfigured, OnlyProbed, Differs
    <3> QED BY <3>4, <3>6, <3>7, Zenon DEF SettledNow
  <2>9. CASE FailsToRebuild(w)
    <3>1. /\ Turns(w) /\ job'[w] = Idle /\ Of(w) /\ gateway.id = job[w].tun /\ job[w].pc = "prepare"
          /\ PathsKept /\ tunnelConfig' = tunnelConfig
      BY <2>9, Zenon DEF FailsToRebuild, Stops, Superseded, Current, Of
    <3>2. job[w].pc \in WorkPcs /\ gateway.id # 0
      BY <1>0, <3>1, Zenon DEF JobsFit, WorkPcs, RepairPcs, HoldPcs
    <3>3. \A v \in Workers : v # w => RepairFits(v)'
      BY <2>0, <2>c, <3>1, <3>2, OthersSettled, Zenon
    <3>4. RepairFits(w)'
      BY <3>1, NothingTyped, Zenon DEF RepairFits, ProbePcs, RecoverPcs
    <3>5. GatewayAsConfigured' /\ \A g \in Groups : ~Differs(g)'
      <4>1. CASE gateway' = NoGateway
        BY <4>1, NothingTyped, Zenon DEF GatewayAsConfigured, Differs
      <4>2. CASE gateway' = Gateway(tunnelConfig)
        BY <1>0, <1>1, <2>c, <3>1, <4>2, BuiltSettled, Zenon
      <4> QED BY <2>9, <4>1, <4>2, Zenon DEF FailsToRebuild
    <3> QED BY <3>3, <3>4, <3>5, Zenon DEF SettledNow, OnlyProbed
  <2>10. CASE Recovers(w)
    <3>1. /\ UNCHANGED <<groups, tunnelConfig, gateway>> /\ Turns(w) /\ ~gateway.up /\ job[w].pc = "idle"
          /\ job'[w].tun = gateway.id /\ job'[w].config = tunnelConfig
          /\ job'[w].pc \in {"recover_helper", "recover_close"}
      BY <2>0, <2>10, <2>c, SMTT(30) DEF Recovers
    <3>2. gateway.id = 0
      BY <2>c, <3>1, Zenon DEF SettledNow, GatewayAsConfigured
    <3>3. RepairFits(w)'
      BY <3>1, <3>2, Zenon DEF RepairFits, ProbePcs
    <3> QED BY <1>3, <2>0, <2>c, <2>e, <3>1, <3>3, KeptSettled, Zenon DEF ProbePcs
  <2>11. CASE Closes(w)
    <3>1. /\ UNCHANGED <<groups, tunnelConfig>> /\ Turns(w) /\ job[w].pc = "recover_close"
          /\ job'[w].pc = "recover_start" /\ job'[w].session = job[w].session
          /\ job'[w].tun = job[w].tun /\ job'[w].config = job[w].config
      BY <2>11, Zenon DEF Closes, Advances
    <3>2. gateway.id = 0 \/ gateway.id # job[w].tun
      BY <1>0, <2>d, <3>1, Zenon DEF RepairFits, RecoverPcs, StaleIds, Of
    <3>3. gateway' = gateway
      <4>1. CASE gateway.id = 0
        BY <1>0, <2>11, <4>1 DEF Closes, GatewayFits, NoGateway
      <4>2. CASE gateway.id # job[w].tun
        BY <2>11, <4>2, Zenon DEF Closes
      <4> QED BY <3>2, <4>1, <4>2, Zenon
    <3>4. RepairFits(w)'
      BY <2>0, <2>d, <3>1, <3>3, Zenon DEF RepairFits, ProbePcs, RecoverPcs, Of
    <3> QED BY <1>3, <2>0, <2>c, <2>e, <3>1, <3>3, <3>4, KeptSettled, Zenon DEF ProbePcs
  <2>12. CASE Restarts(w)
    <3>1. /\ UNCHANGED <<groups, tunnelConfig>> /\ Turns(w) /\ job'[w] = Idle /\ job[w].pc = "recover_start"
          /\ Of(w) /\ ~gateway.up /\ gateway' = Gateway(job[w].config)
      BY <2>12, Zenon DEF Restarts, Stops
    <3>2. gateway.id = 0 /\ job[w].config = tunnelConfig
      BY <2>d, <3>1, Zenon DEF RepairFits, RecoverPcs
    <3>3. GatewayAsConfigured' /\ \A g \in Groups : ~Differs(g)'
      BY <1>0, <1>1, <2>c, <2>e, <3>1, <3>2, BuiltSettled, Zenon
    <3>4. ASSUME NEW v \in Workers, v # w PROVE RepairFits(v)'
      <4>1. job'[v] = job[v] /\ RepairFits(v)
        BY <2>c, <3>1, <3>4, Zenon DEF Turns, SettledNow
      <4>2. Of(v) => job[v].pc \notin RecoverPcs
        BY <2>c, <3>1, <3>4, Zenon DEF IInv, OneAtATime, RecoverPcs
      <4>3. Of(v) => job[v].pc \notin ProbePcs
        BY <1>0, <3>2, <4>1, Zenon DEF RepairFits, JobsFit, HoldPcs
      <4> QED BY <2>0, <3>1, <4>1, <4>2, <4>3, Zenon DEF RepairFits, Of, ProbePcs
    <3>5. RepairFits(w)'
      BY <3>1, NothingTyped, Zenon DEF RepairFits, ProbePcs, RecoverPcs
    <3> QED BY <3>3, <3>4, <3>5, Zenon DEF SettledNow, OnlyProbed
  <2> QED BY <1>7, <2>1, <2>2, <2>3, <2>4, <2>5, <2>6, <2>7, <2>8, <2>9, <2>10, <2>11, <2>12, Zenon
          DEF Moves, Paths, RepairPcs
<1> HIDE DEF Goal
<1>8. Goal
  BY <1>0, <1>4, <1>5, <1>6, <1>7, Zenon DEF Moved
<1> QED BY <1>8, Zenon DEF Goal, Settled, SettledNow, RepairsFit, RepairFits

-----------------------------------------------------------------------------
(* Work of an earlier session. *)

\* A step of a goroutine whose session is over, whichever it is.
LEMMA OldStep ==
  ASSUME IInv, NEW w \in Workers, MonitorCheck(w) \/ WorkerStep(w),
         job[w].session \notin {0, sessionGeneration}
  PROVE  UNCHANGED <<gateway, tunnelConfig, groups, desyncScan, lastPathCheck>>
<1>0. /\ ~Current(job[w].session) /\ Superseded(w) /\ job[w].pc # "idle"
      /\ gateway.id = job[w].tun => gateway = NoGateway
  BY NothingTyped, Zenon DEF IInv, JobsFit, StaleIds, GatewayFits, Current, Superseded
<1>1. ~Accepts(w)
  BY <1>0, NothingTyped, Zenon DEF Accepts
<1>2. CASE MonitorCheck(w) \/ RebindCheck(w) \/ ProbeEnd(w)
  BY <1>0, <1>2, Zenon DEF MonitorCheck, RebindCheck, MayCheck, ProbeEnd, ProbeStands, At
<1>3. CASE ScanBegin(w) \/ ScanEnd(w) \/ VerifyEnd(w) \/ RollbackEnd(w)
  BY <1>0, <1>3, Zenon
    DEF ScanBegin, ScanEnd, VerifyEnd, RollbackEnd, SwapAbandoned, SwapEnds, repairRest, sessionRest
<1>4. CASE TunnelBegin(w) \/ PrepareEnd(w) \/ TunnelProbeEnd(w)
  BY <1>0, <1>4, Zenon DEF TunnelBegin, PrepareEnd, TunnelProbeEnd, repairRest, sessionRest
<1>5. CASE SwitchEnd(w)
  BY <1>0, <1>1, <1>5, Zenon DEF SwitchEnd, SetGroupPath, SetFails, sessionRest
<1>6. CASE RevertBegin(w) \/ RevertEnd(w)
  BY <1>0, <1>6, Zenon DEF RevertBegin, RevertEnd, repairRest, sessionRest
<1>7. CASE RevertSet(w) \/ RevertProbe(w)
  BY <1>0, <1>1, <1>7, Zenon DEF RevertSet, RevertProbe, SetGroupPath, SetFails, sessionRest
<1>8. CASE RecoverClose(w)
  <2>1. gateway' = gateway
    BY <1>0, <1>8, SMTT(30) DEF RecoverClose, NoGateway
  <2> QED BY <1>8, <2>1, Zenon DEF RecoverClose, flagVars
<1>9. CASE RecoverEnd(w)
  BY <1>0, <1>9, Zenon DEF RecoverEnd
<1> QED BY <1>2, <1>3, <1>4, <1>5, <1>6, <1>7, <1>8, <1>9, Zenon DEF WorkerStep

\* One goroutine steps in a step.
LEMMA OneSteps ==
  ASSUME TypeOK, NEW w \in Workers, MonitorCheck(w) \/ WorkerStep(w), NEW v \in Workers, v # w
  PROVE  job'[v] = job[v]
<1>1. ASSUME NEW r, Becomes(w, r) PROVE job'[v] = job[v]
  BY <1>1, Zenon DEF Becomes, TypeOK
<1>2. ASSUME NEW pc, Goes(w, pc) PROVE job'[v] = job[v]
  BY <1>1, <1>2, Zenon DEF Goes
<1>3. ASSUME Finish(w) PROVE job'[v] = job[v]
  BY <1>1, <1>3, Zenon DEF Finish
<1>4. CASE MonitorCheck(w) \/ RebindCheck(w)
  BY <1>1, <1>4, Zenon DEF MonitorCheck, RebindCheck, CheckBegin
<1>5. CASE ProbeEnd(w)
  BY <1>1, <1>5, Zenon DEF ProbeEnd, ProbeResult
<1>6. CASE ScanBegin(w) \/ ScanEnd(w)
  BY <1>1, <1>2, <1>3, <1>6 DEF ScanBegin, ScanEnd
<1>7. CASE VerifyEnd(w) \/ RollbackEnd(w)
  BY <1>2, <1>3, <1>7, Zenon DEF VerifyEnd, RollbackEnd, SwapAbandoned, SwapEnds
<1>8. CASE TunnelBegin(w) \/ PrepareEnd(w)
  BY <1>1, <1>3, <1>8, Zenon DEF TunnelBegin, PrepareEnd, GatewayRebuilt, RebuildFails
<1>9. CASE SwitchEnd(w) \/ TunnelProbeEnd(w)
  BY <1>2, <1>3, <1>9, Zenon DEF SwitchEnd, TunnelProbeEnd
<1>10. CASE RevertBegin(w) \/ RevertSet(w) \/ RevertProbe(w) \/ RevertEnd(w)
  BY <1>1, <1>2, <1>3, <1>10, Zenon DEF RevertBegin, RevertSet, RevertProbe, RevertEnd
<1>11. CASE RecoverClose(w) \/ RecoverEnd(w)
  BY <1>1, <1>2, <1>11, Zenon DEF RecoverClose, RecoverEnd
<1> QED BY <1>4, <1>5, <1>6, <1>7, <1>8, <1>9, <1>10, <1>11, Zenon DEF WorkerStep

\* The work of an earlier session changes nothing of the present one.
LEMMA OldWorkStep == ASSUME IInv, Next PROVE OldWorkKeepsAway
<1> SUFFICES ASSUME NEW w \in Workers, job[w].session \notin {0, sessionGeneration}, job'[w] # job[w]
             PROVE  UNCHANGED <<gateway, tunnelConfig, groups, desyncScan, lastPathCheck>>
  BY Zenon DEF OldWorkKeepsAway
<1>0. TypeOK /\ job[w].pc # "idle"
  BY NothingTyped, Zenon DEF IInv, JobsFit
<1>1. CASE Start \/ Stop \/ GatewayExits \/ ThirtySeconds \/ \E g \in Groups : TenMinutes(g)
  BY <1>1, Zenon DEF Start, Stop, GatewayExits, ThirtySeconds, TenMinutes
<1>2. ASSUME NEW v \in Workers, MonitorCheck(v) \/ WorkerStep(v) PROVE v = w
  BY <1>0, <1>2, OneSteps, Zenon
<1>3. ASSUME NEW v \in Workers, RecoverHelper(v) \/ RecoverGateway(v) \/ softRebind(v) PROVE FALSE
  <2>1. v # w /\ \E r : job' = [job EXCEPT ![v] = r]
    BY <1>0, <1>3, Zenon DEF RecoverHelper, RecoverGateway, RecoverBegin, softRebind, At, Becomes
  <2> QED BY <1>0, <2>1, Zenon DEF TypeOK
<1> QED BY <1>1, <1>2, <1>3, OldStep, Zenon DEF Next

-----------------------------------------------------------------------------
(* The results. *)

\* Nothing is open and no repair runs before the first start.
LEMMA InitIInv == Init => IInv
<1> SUFFICES ASSUME Init PROVE IInv
  OBVIOUS
<1>1. \A w \in Workers : job[w] = Idle
  BY Zenon DEF Init
<1>2. TypeOK
  BY NothingTyped, GroupAssumption, Zenon DEF Init, TypeOK
<1>3. JobsFit /\ GatewayFits /\ StaleIds
  BY <1>1, NothingTyped
    DEF Init, JobsFit, GatewayFits, StaleIds, WorkPcs, BeginPcs, RepairPcs, HoldPcs, ProbePcs
<1>4. ~running
  BY Zenon DEF Init
<1> QED BY <1>2, <1>3, <1>4, Zenon
    DEF IInv, ConfigHasThePaths, TunnelIsConfigured, TunnelFits, SuspendedByARepair,
                                OneAtATime, Settled, Undisturbed

\* IInv is inductive.
LEMMA Invariance == IInv /\ [Next]_vars => IInv'
<1> SUFFICES ASSUME IInv, [Next]_vars PROVE IInv'
  OBVIOUS
<1> QED BY TypeStep, FitStep, ConfigStep, TunnelStep, SuspendStep, OneStep, SettledStep, Zenon
    DEF IInv

\* IInv holds in every reachable state.
LEMMA IInvHolds == Spec => []IInv
BY InitIInv, Invariance, PTL DEF Spec

\* However many goroutines, groups and faults: no failure count passes the
\* threshold it is compared with, and only a goroutine is ever recorded as the
\* scan (checkSelectiveLocked, recoverDesyncStrategySession).
THEOREM RepairsTyped == Spec => []TypeOK
<1>1. IInv => TypeOK
  BY DEF IInv
<1> QED BY <1>1, IInvHolds, PTL

\* Whatever repairs, rebuilds, recoveries and faults there were, a gateway
\* restarted from the configuration puts every group on the path the status
\* reports (escalateGroupSession, revertGroupSession and rebuildGatewayLocked
\* change both in one critical section).
THEOREM RestartKeepsPaths == Spec => []ConfigHasThePaths
<1>1. IInv => ConfigHasThePaths
  BY Zenon DEF IInv
<1> QED BY <1>1, IInvHolds, PTL

\* Nothing is on the tunnel without a tunnel in the configuration: a session
\* never takes a tunnel out of it again, and a selector is moved to the tunnel
\* only on a gateway built with one (Gateway.SetGroupPath).
THEOREM NoPathWithoutTunnel == Spec => []TunnelIsConfigured
<1>1. IInv => TunnelIsConfigured
  BY Zenon DEF IInv
<1> QED BY <1>1, IInvHolds, PTL

\* A session that runs with groupWork set has a repair under way which will
\* clear it: no order of stop, start and late ends of old repairs leaves the
\* monitor suspended (checkNetworkSession returns while the flag is set).
THEOREM FlagHasARepair == Spec => []SuspendedByARepair
<1>1. IInv => SuspendedByARepair
  BY Zenon DEF IInv
<1> QED BY <1>1, IInvHolds, PTL

\* As long as no two repairs of the session overlapped and nothing failed, the
\* path the status reports is the path of the running gateway once no repair is
\* under way (escalateGroupSession, revertGroupSession).
THEOREM StatusTellsThePath == Spec => []PathsAgree
<1>1. IInv => PathsAgree
  <2> SUFFICES ASSUME IInv, ~overlapped, running, gateway.up, faults = 0, \A w \in Workers : ~Repairing(w),
                      NEW g \in Groups
               PROVE  groups[g].path = gateway.paths[g]
    BY Zenon DEF PathsAgree, PathsMatch
  <2>1. gateway.id # 0
    BY NothingTyped, Zenon DEF IInv, GatewayFits
  <2>2. ~Differs(g)
    BY DEF IInv, Settled, Undisturbed, OnlyProbed, Repairing, Of, ProbePcs, RepairPcs
  <2> QED BY <2>1, <2>2, Zenon DEF Differs
<1> QED BY <1>1, IInvHolds, PTL

\* "Old probes, scans and tunnel preparation cannot publish into its
\* replacement" (engine-reliability.md), for any number of sessions: the
\* gateway a goroutine of an earlier session remembers is never the present one.
THEOREM OldWorkIsHarmless == Spec => OldWorkChangesNothing
<1>1. IInv /\ [Next]_vars => [OldWorkKeepsAway]_vars
  BY OldWorkStep
<1> QED BY <1>1, IInvHolds, PTL DEF Spec, OldWorkChangesNothing

=============================================================================

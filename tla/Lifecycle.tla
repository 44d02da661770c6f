------------------------------ MODULE Lifecycle ------------------------------
(***************************************************************************)
(* The engine's lifecycle: the public operations Start, Stop, Repair and   *)
(* CrashCleanup, and the goroutines that rebuild or rebind a session on    *)
(* their own when the physical network changes or the machine wakes up     *)
(* (selfHeal, netwatch, power.Watch and the two-minute reprobe loop).      *)
(*                                                                         *)
(* An action is what one goroutine does between taking Engine.mu and       *)
(* giving it back; what it does without the lock (sleeping, looking the    *)
(* network up) is an action of its own.  The states "starting" and         *)
(* "stopping" exist only while the lock is held and "degraded" is treated  *)
(* as "active" by every guard of this module, so neither is a value of     *)
(* state here.                                                             *)
(*                                                                         *)
(* A network is identified by the address the machine has on it; its       *)
(* fingerprint is a hash of that address, so the address stands for both.  *)
(***************************************************************************)
EXTENDS Naturals

CONSTANTS Addrs,          \* addresses the machine can get on some network
          Offline,        \* no usable address: the fingerprint "offline"
          Iface,          \* the physical interface that carries an address
          None,           \* a nil pointer or an unset string
          Heals,          \* goroutines running selfHeal
          MaxLifecycle,   \* bound: public operations
          MaxMoves,       \* bound: changes of the physical network
          MaxResumes      \* bound: wake-ups

ASSUME NetworkAssumption == /\ Offline \notin Addrs
                            /\ None \notin Addrs \cup {Offline}
                            /\ Iface \in [Addrs -> STRING]

ASSUME BoundAssumption == MaxLifecycle \in Nat /\ MaxMoves \in Nat /\ MaxResumes \in Nat

VARIABLES
  state, protection,          \* Engine.state, Engine.protection
  lifecycleGeneration,        \* bumped by every public operation
  sessionGeneration,          \* bumped whenever a session begins or is cancelled
  healing,                    \* Engine.healing: a rebuild is between stop and start
  layer,                      \* Engine.layer
  networkFingerprint,         \* the identity the session is bound to
  captured,                   \* captureInfo.Egress: the address the engine believes in
  snapshot,                   \* the address in the capture session's own snapshot
  connIP,                     \* desyncConfig.ConnIP, the helper's source address
  helper,                     \* e.des is not nil
  heal,                       \* the selfHeal goroutines
  watch,                      \* the session's netwatch goroutine
  reprobe,                    \* the session's reprobe goroutine
  net, moves, resumes,        \* the physical network, and how often it changed
  userOff                     \* history: the last accepted request was for "off"

engineVars == <<state, protection, lifecycleGeneration, sessionGeneration, healing>>
bindVars   == <<layer, networkFingerprint, captured, snapshot, connIP, helper>>
envVars    == <<net, moves, resumes>>
vars       == <<engineVars, bindVars, heal, watch, reprobe, envVars, userOff>>

Fingerprints == Addrs \cup {Offline}
Layers       == {None, "dns_only", "selective", "fallback"}
Reasons      == {"network_change", "power_resume"}

IdleHeal    == [pc |-> "idle", reason |-> None, generation |-> 0, session |-> 0, fp |-> None]
NoWatch     == [pc |-> "gone", prev |-> None, candidate |-> None]
NoReprobe   == [pc |-> "gone", fp |-> None]

FlagsOK ==
  /\ protection \in BOOLEAN
  /\ healing \in BOOLEAN
  /\ helper \in BOOLEAN
  /\ userOff \in BOOLEAN

HealType    == [pc : {"idle", "requested", "settling", "lookup", "decide", "restart"},
                reason : Reasons \cup {None},
                generation : Nat, session : Nat,
                fp : Fingerprints \cup {None}]
WatchType   == [pc : {"gone", "init", "poll", "debounce"},
                prev : Fingerprints \cup {None}, candidate : Fingerprints \cup {None}]
ReprobeType == [pc : {"gone", "wait", "apply"}, fp : Fingerprints \cup {None}]

SessionOK ==
  /\ state \in {"stopped", "active"}
  /\ sessionGeneration \in Nat
  /\ layer \in Layers
  /\ networkFingerprint \in Fingerprints \cup {None}
  /\ captured \in Addrs \cup {None}
  /\ snapshot \in Addrs \cup {None}
  /\ connIP \in Addrs \cup {None}
  /\ watch \in WatchType
  /\ reprobe \in ReprobeType

\* Every variable holds a value of its kind; in particular the engine never
\* records "offline" as the address it captured (capture.Start and TakeSnapshot
\* need an interface with a gateway).
TypeOK ==
  /\ FlagsOK
  /\ SessionOK
  /\ lifecycleGeneration \in Nat
  /\ heal \in [Heals -> HealType]
  /\ net \in Fingerprints
  /\ moves \in Nat
  /\ resumes \in Nat

Init ==
  /\ state = "stopped" /\ protection = FALSE
  /\ lifecycleGeneration = 0 /\ sessionGeneration = 0
  /\ healing = FALSE
  /\ layer = None /\ networkFingerprint = None
  /\ captured = None /\ snapshot = None /\ connIP = None /\ helper = FALSE
  /\ heal = [h \in Heals |-> IdleHeal]
  /\ watch = NoWatch /\ reprobe = NoReprobe
  /\ net \in Addrs /\ moves = 0 /\ resumes = 0
  /\ userOff = TRUE

-----------------------------------------------------------------------------
\* currentSessionLocked: the session an asynchronous result was computed for
\* is still the one that runs.
Current(session) == session = sessionGeneration /\ protection /\ state = "active"

\* A goroutine captured its session's context: cancelSessionLocked cancels it
\* and bumps the generation in the same critical section.
Cancelled(session) == session # sessionGeneration

Known(fp) == fp \notin {None, Offline}

physicalNetworkChanged(next) ==
  Known(networkFingerprint) /\ Known(next) /\ networkFingerprint # next

-----------------------------------------------------------------------------
\* startLocked on a stopped engine.  The capture stage needs a physical
\* interface with a gateway; job, capture or resolver may fail, which cancels
\* the session again.  The filtering verdict picks the layer, and a TCP layer
\* that cannot start leaves "fallback".
StartSucceeds ==
  /\ net \in Addrs
  /\ state' = "active" /\ protection' = TRUE
  /\ sessionGeneration' = sessionGeneration + 1
  /\ networkFingerprint' = net
  /\ captured' = net /\ snapshot' = net
  /\ layer' \in {"dns_only", "selective", "fallback"}
  /\ helper' = (layer' = "selective")
  /\ connIP' = (IF layer' = "selective" THEN net ELSE None)
  /\ watch' = [pc |-> "init", prev |-> None, candidate |-> None]
  /\ reprobe' = [pc |-> "wait", fp |-> None]

StartFails ==
  /\ state' = "stopped" /\ protection' = FALSE
  /\ sessionGeneration' = sessionGeneration + 2
  /\ layer' = None
  /\ captured' = None /\ snapshot' = None /\ connIP' = None /\ helper' = FALSE
  /\ watch' = NoWatch /\ reprobe' = NoReprobe
  /\ UNCHANGED networkFingerprint

startLocked == state = "stopped" /\ (StartSucceeds \/ StartFails)

\* stopLocked: cancels the session, runs the cleanup hooks (the layer hook
\* closes helper and gateway) and forgets the sessions.  layer and
\* networkFingerprint keep their last value.
Teardown ==
  /\ state' = "stopped" /\ protection' = FALSE
  /\ sessionGeneration' = sessionGeneration + 1
  /\ captured' = None /\ snapshot' = None /\ connIP' = None /\ helper' = FALSE
  /\ watch' = NoWatch /\ reprobe' = NoReprobe
  /\ UNCHANGED <<layer, networkFingerprint>>

stopLocked ==
  \/ state # "stopped" /\ Teardown
  \/ state = "stopped" /\ UNCHANGED <<state, protection, sessionGeneration, bindVars, watch, reprobe>>

-----------------------------------------------------------------------------
\* Variant: a public operation leaves healing as it is.
PublicRequestKeepsHealing ==
  /\ lifecycleGeneration < MaxLifecycle
  /\ lifecycleGeneration' = lifecycleGeneration + 1
  /\ UNCHANGED <<healing, heal, envVars>>

\* Public operations.  Each one first bumps lifecycleGeneration and clears
\* healing, whether or not it then does anything.
PublicRequest ==
  /\ lifecycleGeneration < MaxLifecycle
  /\ lifecycleGeneration' = lifecycleGeneration + 1
  /\ healing' = FALSE
  /\ UNCHANGED <<heal, envVars>>

\* Variant: Start on a running engine takes the session down.
StartOver ==
  /\ PublicRequest
  /\ \/ startLocked
     \/ state = "active" /\ Teardown
  /\ userOff' = FALSE

Start ==
  /\ PublicRequest
  /\ \/ startLocked
     \/ state = "active" /\ UNCHANGED <<state, protection, sessionGeneration, bindVars, watch, reprobe>>
  /\ userOff' = FALSE

\* A mode other than "auto" is refused after the generation was bumped.
StartBadMode ==
  /\ PublicRequest
  /\ UNCHANGED <<state, protection, sessionGeneration, bindVars, watch, reprobe, userOff>>

Stop ==
  /\ PublicRequest
  /\ stopLocked
  /\ userOff' = TRUE

\* Repair stops first when something runs, then restores what an earlier
\* process left behind; the latter does not touch the lifecycle.
Repair ==
  /\ PublicRequest
  /\ stopLocked
  /\ userOff' = TRUE

CrashCleanup ==
  /\ PublicRequest
  /\ Teardown
  /\ userOff' = TRUE

-----------------------------------------------------------------------------
\* selfHeal(reason, generation, session), started as a goroutine.
requestHeal(h, reason) ==
  /\ heal[h].pc = "idle"
  /\ heal' = [heal EXCEPT ![h] = [pc |-> "requested", reason |-> reason,
                                  generation |-> lifecycleGeneration,
                                  session |-> sessionGeneration, fp |-> None]]

Valid(h) == heal[h].generation = lifecycleGeneration /\ Current(heal[h].session)

HoldsHealMu(h) == heal[h].pc \in {"settling", "lookup", "decide", "restart"}

HealQuits(h) ==
  /\ heal' = [heal EXCEPT ![h] = IdleHeal]
  /\ UNCHANGED <<engineVars, bindVars, watch, reprobe>>

HealMoves(h, pc) ==
  /\ heal' = [heal EXCEPT ![h].pc = pc]
  /\ UNCHANGED <<engineVars, bindVars, watch, reprobe>>

\* Takes healMu, checks, drops the DNS cache and starts the settle timer.
HealBegin(h) ==
  /\ heal[h].pc = "requested"
  /\ \A g \in Heals : ~HoldsHealMu(g)
  /\ \/ Valid(h) /\ HealMoves(h, "settling")
     \/ ~Valid(h) /\ HealQuits(h)
  /\ UNCHANGED <<envVars, userOff>>

\* The timer fires or the session's context is cancelled.
HealSettled(h) ==
  /\ heal[h].pc = "settling"
  /\ \/ ~Cancelled(heal[h].session) /\ Valid(h) /\ HealMoves(h, "lookup")
     \/ (Cancelled(heal[h].session) \/ ~Valid(h)) /\ HealQuits(h)
  /\ UNCHANGED <<envVars, userOff>>

\* netinfo.Lookup, without the lock.
HealLookup(h) ==
  /\ heal[h].pc = "lookup"
  /\ heal' = [heal EXCEPT ![h].pc = "decide", ![h].fp = net]
  /\ UNCHANGED <<engineVars, bindVars, watch, reprobe, envVars, userOff>>

\* softRebindLocked outside the TCP layer: only the identity is replaced and
\* a new measurement requested.
RebindMeasure(fp) ==
  /\ layer # "selective"
  /\ networkFingerprint' = fp
  /\ UNCHANGED <<layer, captured, snapshot, connIP, helper>>

\* softRebindLocked in the TCP layer on the interface it was built on: the
\* helper is restarted when the address it should use differs from the one
\* captureInfo holds.
CanRebindSoft ==
  /\ layer = "selective" /\ helper /\ captured # None
  /\ net \in Addrs /\ Iface[net] = Iface[captured]

RebindSoft(fp) ==
  /\ CanRebindSoft
  /\ IF net # captured
     THEN connIP' = net /\ helper' \in BOOLEAN
     ELSE UNCHANGED <<connIP, helper>>
  /\ captured' = net
  /\ networkFingerprint' = fp
  /\ UNCHANGED <<layer, snapshot>>

softRebind(fp) == RebindMeasure(fp) \/ RebindSoft(fp)

Needed(h) == heal[h].reason = "power_resume" \/ physicalNetworkChanged(heal[h].fp)

HealRebinds(h) ==
  /\ softRebind(heal[h].fp)
  /\ heal' = [heal EXCEPT ![h] = IdleHeal]
  /\ UNCHANGED <<engineVars, watch, reprobe>>

\* The first half of a rebuild.  The goroutine keeps the generation of the
\* stopped session to recognise it after its 400 ms sleep.
HealStops(h) ==
  /\ layer = "selective" /\ ~CanRebindSoft
  /\ Teardown
  /\ healing' = TRUE
  /\ heal' = [heal EXCEPT ![h].pc = "restart", ![h].session = sessionGeneration + 1]
  /\ UNCHANGED lifecycleGeneration

HealDecide(h) ==
  /\ heal[h].pc = "decide"
  /\ \/ ~(Valid(h) /\ Needed(h)) /\ HealQuits(h)
     \/ Valid(h) /\ Needed(h) /\ (HealRebinds(h) \/ HealStops(h))
  /\ UNCHANGED <<envVars, userOff>>

MayRestart(h) ==
  /\ heal[h].generation = lifecycleGeneration
  /\ heal[h].session = sessionGeneration
  /\ state = "stopped"

\* Variant: healing is not cleared when the rebuild is over.
HealRestartKeepsHealing(h) ==
  /\ heal[h].pc = "restart"
  /\ heal' = [heal EXCEPT ![h] = IdleHeal]
  /\ \/ MayRestart(h) /\ startLocked
     \/ ~MayRestart(h) /\ UNCHANGED <<state, protection, sessionGeneration, bindVars, watch, reprobe>>
  /\ UNCHANGED <<healing, lifecycleGeneration, envVars, userOff>>

\* Variant: the generation is not compared again after the sleep.
HealRestartUnchecked(h) ==
  /\ heal[h].pc = "restart"
  /\ healing' = FALSE
  /\ heal' = [heal EXCEPT ![h] = IdleHeal]
  /\ \/ startLocked
     \/ state = "active" /\ UNCHANGED <<state, protection, sessionGeneration, bindVars, watch, reprobe>>
  /\ UNCHANGED <<lifecycleGeneration, envVars, userOff>>

\* The second half, after the sleep.
HealRestart(h) ==
  /\ heal[h].pc = "restart"
  /\ healing' = FALSE
  /\ heal' = [heal EXCEPT ![h] = IdleHeal]
  /\ \/ MayRestart(h) /\ startLocked
     \/ ~MayRestart(h) /\ UNCHANGED <<state, protection, sessionGeneration, bindVars, watch, reprobe>>
  /\ UNCHANGED <<lifecycleGeneration, envVars, userOff>>

HealStep(h) ==
  HealBegin(h) \/ HealSettled(h) \/ HealLookup(h) \/ HealDecide(h) \/ HealRestart(h)

-----------------------------------------------------------------------------
\* netwatch: samples the fingerprint, and reports a change that is still there
\* after the debounce.  Only the running session's goroutine is kept: one
\* whose context is cancelled can at most call requestSessionHeal with a
\* session that is no longer current.
WatchInit ==
  /\ watch.pc = "init"
  /\ watch' = [pc |-> "poll", prev |-> net, candidate |-> None]
  /\ UNCHANGED <<engineVars, bindVars, heal, reprobe, envVars, userOff>>

WatchPoll ==
  /\ watch.pc = "poll"
  /\ net \notin {watch.prev, Offline}
  /\ watch' = [watch EXCEPT !.pc = "debounce", !.candidate = net]
  /\ UNCHANGED <<engineVars, bindVars, heal, reprobe, envVars, userOff>>

WatchDebounce ==
  /\ watch.pc = "debounce"
  /\ \/ /\ net = watch.candidate
        /\ \E h \in Heals : requestHeal(h, "network_change")
        /\ watch' = [pc |-> "poll", prev |-> net, candidate |-> None]
     \/ /\ net # watch.candidate
        /\ watch' = [watch EXCEPT !.pc = "poll", !.candidate = None]
        /\ UNCHANGED heal
  /\ UNCHANGED <<engineVars, bindVars, reprobe, envVars, userOff>>

\* power.Watch of the running session.
PowerResume ==
  /\ protection
  /\ resumes < MaxResumes /\ resumes' = resumes + 1
  /\ \E h \in Heals : requestHeal(h, "power_resume")
  /\ UNCHANGED <<engineVars, bindVars, watch, reprobe, net, moves, userOff>>

\* silentReprobeSession: the lookup runs without the lock, the comparison
\* with it.
ReprobeLookup ==
  /\ reprobe.pc = "wait"
  /\ reprobe' = [pc |-> "apply", fp |-> net]
  /\ UNCHANGED <<engineVars, bindVars, heal, watch, envVars, userOff>>

\* Variant: the reprobe loop notices a change and asks for nothing.
ReprobeApplyIgnores ==
  /\ reprobe.pc = "apply"
  /\ reprobe' = [pc |-> "wait", fp |-> None]
  /\ UNCHANGED <<engineVars, bindVars, heal, watch, envVars, userOff>>

ReprobeApply ==
  /\ reprobe.pc = "apply"
  /\ reprobe' = [pc |-> "wait", fp |-> None]
  /\ \/ physicalNetworkChanged(reprobe.fp) /\ \E h \in Heals : requestHeal(h, "network_change")
     \/ ~physicalNetworkChanged(reprobe.fp) /\ UNCHANGED heal
  /\ UNCHANGED <<engineVars, bindVars, watch, envVars, userOff>>

-----------------------------------------------------------------------------
\* What the other goroutines of a session do to the state above.
\* checkDNSLayerLocked turns the TCP layer on, with the address in
\* captureInfo; attachLocked then reloads captureInfo from the capture session.
TCPLayerStart ==
  /\ protection /\ layer \in {"dns_only", "fallback"}
  /\ \/ /\ layer' = "selective" /\ helper' = TRUE
        /\ connIP' = captured /\ captured' = snapshot
     \/ /\ layer' = "fallback" /\ helper' = FALSE
        /\ connIP' = None /\ UNCHANGED captured
  /\ UNCHANGED <<networkFingerprint, snapshot, engineVars, heal, watch, reprobe, envVars, userOff>>

\* A gateway restarted by recoverComponent or rebuilt for a tunnel is attached
\* again, and captureInfo reloaded.
GatewayAttached ==
  /\ protection /\ layer = "selective"
  /\ captured' = snapshot
  /\ UNCHANGED <<layer, networkFingerprint, snapshot, connIP, helper>>
  /\ UNCHANGED <<engineVars, heal, watch, reprobe, envVars, userOff>>

\* recoverComponent restarts a helper that a rebind could not.
HelperRecovered ==
  /\ protection /\ layer = "selective" /\ ~helper
  /\ helper' = TRUE
  /\ UNCHANGED <<layer, networkFingerprint, captured, snapshot, connIP>>
  /\ UNCHANGED <<engineVars, heal, watch, reprobe, envVars, userOff>>

\* The machine joins another network, gets another address or loses it.
NetworkMoves ==
  /\ moves < MaxMoves /\ moves' = moves + 1
  /\ net' \in Fingerprints \ {net}
  /\ UNCHANGED <<engineVars, bindVars, heal, watch, reprobe, resumes, userOff>>

-----------------------------------------------------------------------------
Next ==
  \/ Start \/ StartBadMode \/ Stop \/ Repair \/ CrashCleanup
  \/ \E h \in Heals : HealStep(h)
  \/ WatchInit \/ WatchPoll \/ WatchDebounce \/ PowerResume
  \/ ReprobeLookup \/ ReprobeApply
  \/ TCPLayerStart \/ GatewayAttached \/ HelperRecovered
  \/ NetworkMoves

Spec == Init /\ [][Next]_vars

\* Goroutines are scheduled, timers fire and the reprobe ticker ticks.  Users,
\* the network, wake-ups and repairs of the TCP layer owe us nothing.  The two
\* actions that start a selfHeal goroutine get strong fairness because Heals
\* bounds their number and the code does not.
Fairness ==
  /\ \A h \in Heals : WF_vars(HealStep(h))
  /\ WF_vars(ReprobeLookup) /\ SF_vars(ReprobeApply)
  /\ WF_vars(WatchInit) /\ WF_vars(WatchPoll) /\ SF_vars(WatchDebounce)

FairSpec == Spec /\ Fairness

-----------------------------------------------------------------------------
(* Properties *)

\* Once the user stopped, repaired or the service cleaned up, protection stays
\* off until the next Start, even if a selfHeal goroutine was asleep between
\* its own stop and start at that moment (heal.go checks the lifecycle
\* generation again after the sleep).
StopWins == userOff => ~protection /\ state = "stopped"

\* The "network_heal" transition a status reader sees (Engine.healing) is shown
\* exactly while a goroutine is asleep that will still start protection again:
\* no public request, and no second rebuild, leaves it stuck or hides it.
HealingIsPending ==
  healing <=> \E h \in Heals : heal[h].pc = "restart" /\ MayRestart(h)

P == INSTANCE Protection WITH wanted <- ~userOff, on <- protection, pending <- healing

\* The engine implements the promise of module Protection: it comes back by
\* itself only to finish a rebuild that no public request interrupted.
ImplementsProtection == P!PSpec

\* A rebuild that stopped protection is decided: started again, failed, or
\* abandoned to a newer request.
HealingEnds == healing ~> ~healing

\* When the machine stays on one network and protection stays on, the session
\* ends up bound to that network, however the changes, the debounce of
\* netwatch, the settle delay and the reprobe loop interleaved before
\* (contracts.md: "DNS-only sessions re-measure every five minutes and after a
\* network change").
BoundEventually ==
  \A a \in Addrs : <>[](net = a /\ protection) => <>[](networkFingerprint = a)

\* The same with wake-ups: a lookup that found no network may have left the
\* session at the offline identity, and nothing else keeps it from being bound
\* to the network the machine stays on.
BoundOrOffline ==
  \A a \in Addrs : <>[](net = a /\ protection) =>
                    <>[](networkFingerprint = a \/ (resumes > 0 /\ networkFingerprint = Offline))

\* engine-reliability.md: "On the same interface only the helper restarts with
\* the new source address".  A rebind that keeps the TCP layer leaves the
\* helper with the address the machine has now.
SoftRebindMovesHelper ==
  [][\A h \in Heals :
       heal[h].pc = "decide" /\ heal'[h].pc = "idle" /\ RebindSoft(heal[h].fp)
         => connIP' = net]_vars

=============================================================================

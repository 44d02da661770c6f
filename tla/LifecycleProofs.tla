--------------------------- MODULE LifecycleProofs --------------------------
(***************************************************************************)
(* Proofs about module Lifecycle, for every set of networks, any number of *)
(* selfHeal goroutines and any bound on the public operations, and about   *)
(* module SystemDNS, the settings a session's resolver changes, for any    *)
(* services, settings, crashes and failed operations.                      *)
(*                                                                         *)
(* Lifecycle: a rebuild may start protection only if the lifecycle         *)
(* generation it was requested with is still current. Public operations    *)
(* only ever raise that counter, so no goroutine can hold a generation     *)
(* that is still to come (GenerationsPast); healMu lets one goroutine at a *)
(* time past its first check (HealMutex); hence Engine.healing describes   *)
(* that goroutine exactly, and is never set after the user asked for off.  *)
(*                                                                         *)
(* SystemDNS: the user's settings survive a crash at any step as long as   *)
(* Repair does not overlap a resolver session. What is on disk agrees with *)
(* what the running operation has in memory (GuardKnows, RestoreKnows),    *)
(* because only one operation runs at a time (OneAtATime); the record      *)
(* never holds anything but the user's settings (RecordIsOriginal),        *)
(* because it is taken only when no record exists, and then every service  *)
(* still has the user's setting.                                           *)
(***************************************************************************)
EXTENDS Lifecycle, SystemDNS, TLAPS

ProtectionIsState == protection <=> state = "active"

HealMutex == \A g, h \in Heals : HoldsHealMu(g) /\ HoldsHealMu(h) => g = h

GenerationsPast == \A h \in Heals : heal[h].generation <= lifecycleGeneration

PendingIsWanted == healing => ~userOff

IInv == /\ TypeOK
        /\ ProtectionIsState
        /\ HealMutex
        /\ GenerationsPast
        /\ HealingIsPending
        /\ PendingIsWanted
        /\ StopWins

-----------------------------------------------------------------------------
\* The initial state of the engine satisfies the inductive invariant.
LEMMA InitIInv == Init => IInv
<1> SUFFICES ASSUME Init PROVE IInv
  OBVIOUS
<1>1. TypeOK
  <2>1. FlagsOK
    BY Zenon DEF Init, FlagsOK
  <2>2. SessionOK
    BY Zenon DEF Init, SessionOK, NoWatch, NoReprobe, WatchType, ReprobeType, Fingerprints, Layers
  <2> QED BY <2>1, <2>2, Zenon DEF Init, TypeOK, IdleHeal, HealType, Fingerprints, Reasons
<1>2. ProtectionIsState /\ StopWins /\ PendingIsWanted
  BY Zenon DEF Init, ProtectionIsState, StopWins, PendingIsWanted
<1>3. \A h \in Heals : heal[h].pc = "idle" /\ heal[h].generation = 0
  BY Zenon DEF Init, IdleHeal
<1>4. HealMutex /\ GenerationsPast
  BY <1>3 DEF Init, HealMutex, GenerationsPast, HoldsHealMu
<1>5. HealingIsPending
  BY <1>3, Zenon DEF Init, HealingIsPending
<1> QED BY <1>1, <1>2, <1>4, <1>5, Zenon DEF IInv

\* Starting, stopping and tearing down keep the session's variables well typed.
LEMMA StartStopType ==
  ASSUME TypeOK, startLocked \/ stopLocked \/ Teardown
  PROVE  SessionOK' /\ protection' \in BOOLEAN /\ helper' \in BOOLEAN
<1>1. CASE StartSucceeds
  <2>1. SessionOK'
    BY <1>1 DEF TypeOK, SessionOK, StartSucceeds, Fingerprints, Layers, WatchType, ReprobeType
  <2> QED BY <1>1, <2>1, Zenon DEF StartSucceeds
<1>2. CASE StartFails
  <2>1. SessionOK'
    BY <1>2 DEF TypeOK, SessionOK, StartFails, Layers, WatchType, ReprobeType, NoWatch, NoReprobe
  <2> QED BY <1>2, <2>1, Zenon DEF StartFails
<1>3. CASE Teardown
  <2>1. SessionOK'
    BY <1>3 DEF TypeOK, SessionOK, Teardown, WatchType, ReprobeType, NoWatch, NoReprobe
  <2> QED BY <1>3, <2>1, Zenon DEF Teardown
<1>4. CASE UNCHANGED <<state, protection, sessionGeneration, bindVars, watch, reprobe>>
  BY <1>4, Zenon DEF TypeOK, SessionOK, FlagsOK, bindVars
<1> QED BY <1>1, <1>2, <1>3, <1>4, Zenon DEF startLocked, stopLocked

-----------------------------------------------------------------------------
(* Types: one step per action. *)

\* Every step of the engine and of its environment keeps the variables typed.
LEMMA TypeStep == ASSUME TypeOK, [Next]_vars PROVE TypeOK'
<1> USE DEF TypeOK
<1>1. ASSUME PublicRequest, userOff' \in BOOLEAN,
             SessionOK', protection' \in BOOLEAN, helper' \in BOOLEAN
      PROVE  TypeOK'
  <2>1. FlagsOK'
    BY <1>1, Zenon DEF FlagsOK, PublicRequest
  <2> QED BY <1>1, <2>1 DEF PublicRequest, envVars
<1>2. CASE Start
  <2>1. CASE startLocked
    BY <1>1, <1>2, <2>1, StartStopType, Zenon DEF Start
  <2>2. CASE UNCHANGED <<state, protection, sessionGeneration, bindVars, watch, reprobe>>
    <3>1. SessionOK' /\ protection' \in BOOLEAN /\ helper' \in BOOLEAN
      BY <2>2, Zenon DEF SessionOK, FlagsOK, bindVars
    <3> QED BY <1>1, <1>2, <3>1, Zenon DEF Start
  <2> QED BY <1>2, <2>1, <2>2, Zenon DEF Start
<1>3. CASE StartBadMode
  <2>1. SessionOK' /\ protection' \in BOOLEAN /\ helper' \in BOOLEAN
    BY <1>3, Zenon DEF StartBadMode, SessionOK, FlagsOK, bindVars
  <2>2. userOff' \in BOOLEAN
    BY <1>3, Zenon DEF StartBadMode, FlagsOK
  <2> QED BY <1>1, <1>3, <2>1, <2>2, Zenon DEF StartBadMode
<1>4. CASE Stop \/ Repair \/ CrashCleanup
  BY <1>1, <1>4, StartStopType, Zenon DEF Stop, Repair, CrashCleanup
<1>5. ASSUME NEW h \in Heals, HealStep(h) PROVE TypeOK'
  <2>1. heal[h] \in HealType
    OBVIOUS
  <2>2. \A r \in HealType : [heal EXCEPT ![h] = r] \in [Heals -> HealType]
    OBVIOUS
  <2>3. IdleHeal \in HealType
    BY Zenon DEF IdleHeal, HealType
  <2>4. CASE HealQuits(h) /\ UNCHANGED <<envVars, userOff>>
    BY <2>2, <2>3, <2>4, Zenon DEF HealQuits, envVars, engineVars, bindVars, FlagsOK, SessionOK
  <2>5. ASSUME NEW pc \in {"settling", "lookup"}, HealMoves(h, pc), UNCHANGED <<envVars, userOff>>
        PROVE  TypeOK'
    <3>1. heal' \in [Heals -> HealType]
      BY <2>1, <2>5, Zenon DEF HealMoves, HealType
    <3> QED BY <3>1, <2>5, Zenon DEF HealMoves, envVars, engineVars, bindVars, FlagsOK, SessionOK
  <2>6. CASE HealLookup(h)
    <3>1. heal' \in [Heals -> HealType]
      BY <2>1, <2>6, Zenon DEF HealLookup, HealType, Fingerprints
    <3> QED BY <3>1, <2>6, Zenon DEF HealLookup, envVars, engineVars, bindVars, FlagsOK, SessionOK
  <2>7. CASE HealRebinds(h) /\ UNCHANGED <<envVars, userOff>>
    <3>1. heal[h].fp \in Fingerprints \cup {None}
      BY <2>1, Zenon DEF HealType
    <3>2. SessionOK'
      BY <2>7, <3>1, Zenon
        DEF HealRebinds, softRebind, RebindMeasure, RebindSoft, CanRebindSoft, engineVars, SessionOK
    <3>3. helper' \in BOOLEAN
      BY <2>7, Zenon DEF HealRebinds, softRebind, RebindMeasure, RebindSoft, FlagsOK
    <3>4. FlagsOK'
      BY <2>7, <3>3, Zenon DEF HealRebinds, engineVars, FlagsOK
    <3> QED BY <2>2, <2>3, <2>7, <3>2, <3>4, Zenon DEF HealRebinds, engineVars, envVars
  <2>8. CASE HealStops(h) /\ UNCHANGED <<envVars, userOff>>
    <3>1. SessionOK' /\ protection' \in BOOLEAN /\ helper' \in BOOLEAN
      BY <2>8, StartStopType, Zenon DEF HealStops
    <3>2. FlagsOK'
      BY <2>8, <3>1, Zenon DEF HealStops, FlagsOK
    <3>3. heal' \in [Heals -> HealType]
      <4>1. sessionGeneration + 1 \in Nat
        BY DEF SessionOK
      <4>2. [heal[h] EXCEPT !.pc = "restart", !.session = sessionGeneration + 1] \in HealType
        BY <2>1, <4>1, Zenon DEF HealType
      <4> QED BY <2>2, <2>8, <4>2, Zenon DEF HealStops
    <3> QED BY <2>8, <3>1, <3>2, <3>3, Zenon DEF HealStops, envVars
  <2>9. CASE HealRestart(h)
    <3>1. SessionOK' /\ protection' \in BOOLEAN /\ helper' \in BOOLEAN
      <4>1. CASE startLocked
        BY <4>1, StartStopType, Zenon
      <4>2. CASE UNCHANGED <<state, protection, sessionGeneration, bindVars, watch, reprobe>>
        BY <4>2, Zenon DEF SessionOK, FlagsOK, bindVars
      <4> QED BY <2>9, <4>1, <4>2, Zenon DEF HealRestart
    <3>2. FlagsOK'
      BY <2>9, <3>1, Zenon DEF HealRestart, FlagsOK
    <3> QED BY <2>2, <2>3, <2>9, <3>1, <3>2, Zenon DEF HealRestart, envVars
  <2> QED BY <1>5, <2>4, <2>5, <2>6, <2>7, <2>8, <2>9, Zenon
          DEF HealStep, HealBegin, HealSettled, HealDecide
<1>6. ASSUME NEW h \in Heals, NEW reason \in Reasons, requestHeal(h, reason)
      PROVE  heal' \in [Heals -> HealType]
  BY <1>6, Zenon DEF requestHeal, HealType, SessionOK
<1>a. \A pc \in {"poll", "debounce"}, p, c \in Fingerprints \cup {None} :
        [pc |-> pc, prev |-> p, candidate |-> c] \in WatchType
  BY Zenon DEF WatchType
<1>b. /\ watch.prev \in Fingerprints \cup {None}
      /\ net \in Fingerprints \cup {None} /\ None \in Fingerprints \cup {None}
      /\ watch = [pc |-> watch.pc, prev |-> watch.prev, candidate |-> watch.candidate]
  BY Zenon DEF SessionOK, WatchType
<1>7. CASE WatchInit \/ WatchPoll
  <2>1. watch' \in WatchType
    <3>1. watch' \in { [pc |-> "poll", prev |-> net, candidate |-> None],
                       [pc |-> "debounce", prev |-> watch.prev, candidate |-> net] }
      BY <1>7, <1>b, Zenon DEF WatchInit, WatchPoll
    <3> QED BY <1>a, <1>b, <3>1, Zenon
  <2>2. SessionOK' /\ FlagsOK'
    BY <1>7, <2>1, Zenon DEF WatchInit, WatchPoll, engineVars, bindVars, FlagsOK, SessionOK
  <2> QED BY <1>7, <2>2, Zenon DEF WatchInit, WatchPoll, engineVars, envVars
<1>8. CASE WatchDebounce
  <2>1. heal' \in [Heals -> HealType]
    BY <1>6, <1>8, Zenon DEF WatchDebounce, Reasons
  <2>2. watch' \in WatchType
    <3>1. watch' \in { [pc |-> "poll", prev |-> net, candidate |-> None],
                       [pc |-> "poll", prev |-> watch.prev, candidate |-> None] }
      BY <1>8, <1>b, Zenon DEF WatchDebounce
    <3> QED BY <1>a, <1>b, <3>1, Zenon
  <2>3. SessionOK'
    BY <1>8, <2>2, Zenon DEF WatchDebounce, engineVars, bindVars, SessionOK
  <2> QED BY <1>8, <2>1, <2>3, Zenon DEF WatchDebounce, engineVars, bindVars, envVars, FlagsOK
<1>9. CASE PowerResume
  <2>1. heal' \in [Heals -> HealType]
    BY <1>6, <1>9, Zenon DEF PowerResume, Reasons
  <2>2. SessionOK' /\ FlagsOK'
    BY <1>9, Zenon DEF PowerResume, engineVars, bindVars, SessionOK, FlagsOK
  <2> QED BY <1>9, <2>1, <2>2 DEF PowerResume, engineVars
<1>10. CASE ReprobeLookup
  BY <1>10
    DEF ReprobeLookup, engineVars, bindVars, envVars, FlagsOK, SessionOK, ReprobeType, Fingerprints
<1>11. CASE ReprobeApply
  <2>1. heal' \in [Heals -> HealType]
    BY <1>6, <1>11, Zenon DEF ReprobeApply, Reasons
  <2>2. SessionOK' /\ FlagsOK'
    BY <1>11, Zenon DEF ReprobeApply, engineVars, bindVars, SessionOK, FlagsOK, ReprobeType
  <2> QED BY <1>11, <2>1, <2>2, Zenon DEF ReprobeApply, engineVars, envVars
<1>12. CASE TCPLayerStart \/ GatewayAttached \/ HelperRecovered
  <2>1. SessionOK'
    BY <1>12, Zenon DEF TCPLayerStart, GatewayAttached, HelperRecovered, engineVars, SessionOK, Layers
  <2>2. FlagsOK'
    BY <1>12, Zenon DEF TCPLayerStart, GatewayAttached, HelperRecovered, engineVars, FlagsOK
  <2> QED BY <1>12, <2>1, <2>2, Zenon
      DEF TCPLayerStart, GatewayAttached, HelperRecovered, engineVars, envVars
<1>13. CASE NetworkMoves
  BY <1>13 DEF NetworkMoves, engineVars, bindVars, FlagsOK, SessionOK
<1>14. CASE UNCHANGED vars
  BY <1>14, Zenon DEF vars, engineVars, bindVars, envVars, FlagsOK, SessionOK
<1> QED BY <1>2, <1>3, <1>4, <1>5, <1>7, <1>8, <1>9, <1>10, <1>11, <1>12, <1>13, <1>14, Zenon DEF Next

-----------------------------------------------------------------------------
(* The other conjuncts of IInv, by the kind of step. *)

\* Every way to start or stop leaves protection and state in agreement, and
\* the ways to stop leave both off.
LEMMA StartStopState ==
  ASSUME TypeOK, ProtectionIsState, startLocked \/ stopLocked \/ Teardown
  PROVE  /\ ProtectionIsState'
         /\ stopLocked \/ Teardown => state' = "stopped" /\ ~protection'
BY Zenon DEF TypeOK, SessionOK, FlagsOK, ProtectionIsState, startLocked, stopLocked,
       StartSucceeds, StartFails, Teardown

\* A public operation outdates every selfHeal goroutine: it raises the
\* generation above all those handed out and clears healing.
LEMMA PublicStep ==
  ASSUME IInv, PublicRequest
  PROVE  HealMutex' /\ GenerationsPast' /\ HealingIsPending' /\ PendingIsWanted'
<1>1. /\ heal' = heal /\ healing' = FALSE
      /\ \A h \in Heals : heal[h].generation \in Nat
      /\ lifecycleGeneration \in Nat
  BY Zenon DEF IInv, TypeOK, HealType, PublicRequest
<1>2. \A h \in Heals : heal[h].generation < lifecycleGeneration'
  BY <1>1 DEF IInv, GenerationsPast, PublicRequest
<1>3. \A h \in Heals : heal'[h].generation # lifecycleGeneration'
  BY <1>1, <1>2 DEF PublicRequest
<1>4. HealMutex'
  BY <1>1, Zenon DEF IInv, HealMutex, HoldsHealMu
<1>5. GenerationsPast'
  BY <1>1, <1>2 DEF GenerationsPast, PublicRequest
<1>6. HealingIsPending'
  BY <1>1, <1>3, Zenon DEF HealingIsPending, MayRestart
<1> QED BY <1>1, <1>4, <1>5, <1>6, Zenon DEF PendingIsWanted

\* A step that leaves the lifecycle and the selfHeal goroutines alone.
LEMMA QuietStep ==
  ASSUME IInv, UNCHANGED <<engineVars, heal, userOff>>
  PROVE  /\ ProtectionIsState' /\ HealMutex' /\ GenerationsPast'
         /\ HealingIsPending' /\ PendingIsWanted' /\ StopWins'
BY Zenon DEF IInv, engineVars, ProtectionIsState, HealMutex, HoldsHealMu, GenerationsPast,
       HealingIsPending, MayRestart, PendingIsWanted, StopWins

\* A selfHeal goroutine moves on without touching the lifecycle, outside the
\* sleep between its stop and its start.
LEMMA HealPcStep ==
  ASSUME IInv, UNCHANGED <<engineVars, userOff>>,
         NEW h \in Heals, NEW r \in HealType, heal' = [heal EXCEPT ![h] = r],
         heal[h].pc # "restart", r.pc # "restart",
         r.generation <= lifecycleGeneration,
         \/ r.pc \notin {"settling", "lookup", "decide"}
         \/ HoldsHealMu(h)
         \/ \A g \in Heals : ~HoldsHealMu(g)
  PROVE  /\ ProtectionIsState' /\ HealMutex' /\ GenerationsPast'
         /\ HealingIsPending' /\ PendingIsWanted' /\ StopWins'
<1>1. heal \in [Heals -> HealType] /\ r.pc \in {"idle", "requested", "settling", "lookup", "decide"}
  BY Zenon DEF IInv, TypeOK, HealType
<1>2. \A g \in Heals : heal'[g] = IF g = h THEN r ELSE heal[g]
  BY <1>1, Zenon
<1>3. ProtectionIsState' /\ PendingIsWanted' /\ StopWins'
  BY Zenon DEF IInv, engineVars, ProtectionIsState, PendingIsWanted, StopWins
<1>4. HealMutex'
  BY <1>1, <1>2, Zenon DEF IInv, HealMutex, HoldsHealMu
<1>5. GenerationsPast'
  BY <1>2, Zenon DEF IInv, GenerationsPast, engineVars
<1>6. \A g \in Heals : heal'[g].pc = "restart" /\ MayRestart(g)' <=> heal[g].pc = "restart" /\ MayRestart(g)
  BY <1>2, Zenon DEF MayRestart, engineVars
<1>7. HealingIsPending'
  BY <1>6, Zenon DEF IInv, HealingIsPending, engineVars
<1> QED BY <1>3, <1>4, <1>5, <1>7, Zenon

-----------------------------------------------------------------------------
\* A rebuild's stop publishes healing, and only for a goroutine that nobody
\* outdated: the one that holds healMu.
LEMMA HealStopsStep ==
  ASSUME IInv, NEW h \in Heals, heal[h].pc = "decide", Valid(h), HealStops(h), UNCHANGED userOff
  PROVE  /\ ProtectionIsState' /\ HealMutex' /\ GenerationsPast'
         /\ HealingIsPending' /\ PendingIsWanted' /\ StopWins'
<1>1. heal \in [Heals -> HealType] /\ sessionGeneration \in Nat
  BY Zenon DEF IInv, TypeOK, SessionOK
<1>2. /\ heal'[h].pc = "restart" /\ heal'[h].session = sessionGeneration + 1
      /\ heal'[h].generation = heal[h].generation
      /\ \A g \in Heals \ {h} : heal'[g] = heal[g]
  BY <1>1, Zenon DEF HealStops, HealType
<1>3. state' = "stopped" /\ protection' = FALSE /\ healing' = TRUE
      /\ sessionGeneration' = sessionGeneration + 1 /\ lifecycleGeneration' = lifecycleGeneration
  BY Zenon DEF HealStops, Teardown
<1>4. HealMutex'
  BY <1>2, Zenon DEF IInv, HealMutex, HoldsHealMu
<1>5. GenerationsPast'
  BY <1>2, <1>3, Zenon DEF IInv, GenerationsPast
<1>6. HealingIsPending'
  BY <1>2, <1>3, Zenon DEF HealingIsPending, MayRestart, Valid
<1>7. ~userOff
  BY Zenon DEF IInv, StopWins, Valid, Current
<1> QED BY <1>3, <1>4, <1>5, <1>6, <1>7, Zenon DEF ProtectionIsState, PendingIsWanted, StopWins

\* A rebuild's start happens only while healing was shown, hence while the
\* user wants protection; no other goroutine can be waiting to start.
LEMMA HealRestartStep ==
  ASSUME IInv, NEW h \in Heals, HealRestart(h)
  PROVE  /\ ProtectionIsState' /\ HealMutex' /\ GenerationsPast'
         /\ HealingIsPending' /\ PendingIsWanted' /\ StopWins'
<1>1. heal \in [Heals -> HealType] /\ lifecycleGeneration \in Nat
  BY Zenon DEF IInv, TypeOK
<1>2. heal'[h] = IdleHeal /\ \A g \in Heals \ {h} : heal'[g] = heal[g]
  BY <1>1, Zenon DEF HealRestart
<1>3. heal[h].pc = "restart" /\ healing' = FALSE
      /\ lifecycleGeneration' = lifecycleGeneration /\ userOff' = userOff
  BY Zenon DEF HealRestart
<1>4. HealMutex'
  BY <1>2 DEF IInv, HealMutex, HoldsHealMu, IdleHeal
<1>5. GenerationsPast'
  BY <1>1, <1>2, <1>3 DEF IInv, GenerationsPast, IdleHeal
<1>6. \A g \in Heals : heal'[g].pc # "restart"
  BY <1>2, <1>3 DEF IInv, HealMutex, HoldsHealMu, IdleHeal
<1>7. HealingIsPending'
  BY <1>3, <1>6, Zenon DEF HealingIsPending
<1>8. CASE MayRestart(h) /\ startLocked
  <2>1. ~userOff
    BY <1>3, <1>8, Zenon DEF IInv, HealingIsPending, PendingIsWanted
  <2>2. ProtectionIsState'
    BY <1>8, StartStopState, Zenon DEF IInv
  <2> QED BY <1>3, <1>4, <1>5, <1>7, <2>1, <2>2, Zenon DEF PendingIsWanted, StopWins
<1>9. CASE UNCHANGED <<state, protection>>
  BY <1>3, <1>4, <1>5, <1>7, <1>9, Zenon DEF IInv, ProtectionIsState, PendingIsWanted, StopWins
<1> QED BY <1>8, <1>9, Zenon DEF HealRestart

-----------------------------------------------------------------------------
\* A new selfHeal goroutine carries the present generation and does not hold
\* healMu.
LEMMA RequestStep ==
  ASSUME IInv, UNCHANGED <<engineVars, userOff>>,
         NEW h \in Heals, NEW reason \in Reasons, requestHeal(h, reason)
  PROVE  /\ ProtectionIsState' /\ HealMutex' /\ GenerationsPast'
         /\ HealingIsPending' /\ PendingIsWanted' /\ StopWins'
<1> DEFINE r == [pc |-> "requested", reason |-> reason, generation |-> lifecycleGeneration,
                 session |-> sessionGeneration, fp |-> None]
<1>1. r \in HealType /\ r.pc = "requested" /\ r.generation <= lifecycleGeneration
  BY DEF IInv, TypeOK, SessionOK, HealType
<1>2. heal[h].pc # "restart" /\ heal' = [heal EXCEPT ![h] = r]
  BY Zenon DEF requestHeal
<1> HIDE DEF r
<1> QED BY <1>1, <1>2, HealPcStep, Zenon

\* Every step of a selfHeal goroutine keeps the invariant.
LEMMA HealStepInv ==
  ASSUME IInv, NEW h \in Heals, HealStep(h)
  PROVE  /\ ProtectionIsState' /\ HealMutex' /\ GenerationsPast'
         /\ HealingIsPending' /\ PendingIsWanted' /\ StopWins'
<1>1. heal[h] \in HealType /\ heal \in [Heals -> HealType] /\ net \in Fingerprints
      /\ lifecycleGeneration \in Nat /\ heal[h].generation <= lifecycleGeneration
  BY Zenon DEF IInv, TypeOK, GenerationsPast
<1>2. IdleHeal \in HealType /\ IdleHeal.pc = "idle" /\ IdleHeal.generation <= lifecycleGeneration
  BY <1>1 DEF IdleHeal, HealType
<1>3. ASSUME heal[h].pc # "restart", heal' = [heal EXCEPT ![h] = IdleHeal],
             UNCHANGED <<engineVars, userOff>>
      PROVE  /\ ProtectionIsState' /\ HealMutex' /\ GenerationsPast'
             /\ HealingIsPending' /\ PendingIsWanted' /\ StopWins'
  BY <1>2, <1>3, HealPcStep, Zenon
<1>4. ASSUME NEW pc \in {"settling", "lookup"}, heal[h].pc # "restart", HealMoves(h, pc),
             UNCHANGED userOff, HoldsHealMu(h) \/ \A g \in Heals : ~HoldsHealMu(g)
      PROVE  /\ ProtectionIsState' /\ HealMutex' /\ GenerationsPast'
             /\ HealingIsPending' /\ PendingIsWanted' /\ StopWins'
  <2> DEFINE r == [heal[h] EXCEPT !.pc = pc]
  <2>1. r \in HealType /\ r.pc # "restart" /\ r.generation <= lifecycleGeneration
    BY <1>1, Zenon DEF HealType
  <2>2. heal' = [heal EXCEPT ![h] = r] /\ UNCHANGED <<engineVars, userOff>>
    BY <1>1, <1>4, Zenon DEF HealMoves
  <2> HIDE DEF r
  <2> QED BY <1>4, <2>1, <2>2, HealPcStep, Zenon
<1>5. CASE HealBegin(h)
  BY <1>3, <1>4, <1>5, Zenon DEF HealBegin, HealQuits
<1>6. CASE HealSettled(h)
  BY <1>3, <1>4, <1>6, Zenon DEF HealSettled, HealQuits, HoldsHealMu
<1>7. CASE HealLookup(h)
  <2> DEFINE r == [heal[h] EXCEPT !.pc = "decide", !.fp = net]
  <2>1. r \in HealType /\ r.pc # "restart" /\ r.generation <= lifecycleGeneration
    BY <1>1, Zenon DEF HealType
  <2>2. heal' = [heal EXCEPT ![h] = r] /\ UNCHANGED <<engineVars, userOff>>
        /\ heal[h].pc # "restart" /\ HoldsHealMu(h)
    BY <1>1, <1>7, Zenon DEF HealLookup, HoldsHealMu
  <2> HIDE DEF r
  <2> QED BY <2>1, <2>2, HealPcStep, Zenon
<1>8. CASE HealDecide(h)
  BY <1>3, <1>8, HealStopsStep, Zenon DEF HealDecide, HealQuits, HealRebinds
<1>9. CASE HealRestart(h)
  BY <1>9, HealRestartStep, Zenon
<1> QED BY <1>5, <1>6, <1>7, <1>8, <1>9, Zenon DEF HealStep

\* IInv is inductive.
LEMMA NextIInv == ASSUME IInv, [Next]_vars PROVE IInv'
<1>1. TypeOK'
  BY TypeStep, Zenon DEF IInv
<1> SUFFICES /\ ProtectionIsState' /\ HealMutex' /\ GenerationsPast'
             /\ HealingIsPending' /\ PendingIsWanted' /\ StopWins'
  BY <1>1, Zenon DEF IInv
<1>2. CASE Start
  <2>1. ProtectionIsState'
    BY <1>2, StartStopState DEF IInv, Start, ProtectionIsState
  <2> QED BY <1>2, <2>1, PublicStep, Zenon DEF Start, StopWins
<1>3. CASE StartBadMode
  BY <1>3, PublicStep, Zenon DEF IInv, StartBadMode, ProtectionIsState, StopWins
<1>4. CASE Stop \/ Repair \/ CrashCleanup
  BY <1>4, PublicStep, StartStopState, Zenon DEF IInv, Stop, Repair, CrashCleanup, StopWins
<1>5. CASE \E h \in Heals : HealStep(h)
  BY <1>5, HealStepInv, Zenon
<1>6. CASE WatchDebounce \/ PowerResume \/ ReprobeApply
  BY <1>6, RequestStep, QuietStep, Zenon DEF WatchDebounce, PowerResume, ReprobeApply, Reasons
<1>7. CASE WatchInit \/ WatchPoll \/ ReprobeLookup \/ NetworkMoves
  BY <1>7, QuietStep, Zenon DEF WatchInit, WatchPoll, ReprobeLookup, NetworkMoves
<1>8. CASE TCPLayerStart \/ GatewayAttached \/ HelperRecovered
  BY <1>8, QuietStep, Zenon DEF TCPLayerStart, GatewayAttached, HelperRecovered
<1>9. CASE UNCHANGED vars
  BY <1>9, QuietStep, Zenon DEF vars
<1> QED BY <1>2, <1>3, <1>4, <1>5, <1>6, <1>7, <1>8, <1>9, Zenon DEF Next

-----------------------------------------------------------------------------
\* The inductive invariant holds in every reachable state.
THEOREM Invariance == Spec => []IInv
<1>1. Init => IInv
  BY InitIInv, Zenon
<1>2. IInv /\ [Next]_vars => IInv'
  BY NextIInv, Zenon
<1> QED BY <1>1, <1>2, PTL DEF Spec

\* Type correctness of the lifecycle.
THEOREM TypeCorrect == Spec => []TypeOK
<1>1. IInv => TypeOK
  BY Zenon DEF IInv
<1> QED BY <1>1, Invariance, PTL

\* Stop, Repair and CrashCleanup are final: whatever selfHeal goroutines are
\* asleep, protection stays off until the next Start.
THEOREM StopIsFinal == Spec => []StopWins
<1>1. IInv => StopWins
  BY Zenon DEF IInv
<1> QED BY <1>1, Invariance, PTL

\* Engine.healing is set exactly while a goroutine will still start protection.
THEOREM HealingIsExact == Spec => []HealingIsPending
<1>1. IInv => HealingIsPending
  BY Zenon DEF IInv
<1> QED BY <1>1, Invariance, PTL

-----------------------------------------------------------------------------
\* A step of the engine is a step of module Protection, or leaves what the
\* user can see of protection as it was.
LEMMA StepSimulation == ASSUME IInv, [Next]_vars PROVE [P!PNext]_(P!pvars)
<1> USE DEF P!PNext, P!pvars
<1>0. protection \in BOOLEAN /\ userOff \in BOOLEAN /\ protection' \in BOOLEAN /\ userOff' \in BOOLEAN
  BY TypeStep, Zenon DEF IInv, TypeOK, FlagsOK
<1>1. CASE Start
  <2>1. protection => protection'
    BY <1>1, Zenon DEF IInv, ProtectionIsState, Start, startLocked
  <2> QED BY <1>0, <1>1, <2>1, Zenon DEF Start, PublicRequest, P!UserOn
<1>2. CASE StartBadMode
  BY <1>2, Zenon DEF StartBadMode, PublicRequest, P!UserRefused
<1>3. CASE Stop \/ Repair \/ CrashCleanup
  <2>1. protection' = FALSE
    BY <1>0, <1>3, StartStopState, Zenon DEF IInv, Stop, Repair, CrashCleanup
  <2> QED BY <1>3, <2>1, Zenon DEF Stop, Repair, CrashCleanup, PublicRequest, P!UserOff
<1>4. ASSUME NEW h \in Heals, HealStep(h) PROVE [P!PNext]_(P!pvars)
  <2>1. CASE UNCHANGED <<engineVars, userOff>>
    BY <2>1, Zenon DEF engineVars
  <2>2. CASE HealStops(h) /\ Valid(h) /\ UNCHANGED userOff
    <3>1. protection /\ ~userOff
      BY <2>2, Zenon DEF IInv, StopWins, Valid, Current
    <3> QED BY <2>2, <3>1, Zenon DEF HealStops, Teardown, P!RebuildBegin
  <2>3. CASE HealRestart(h)
    <3>1. CASE MayRestart(h)
      <4>1. healing
        BY <2>3, <3>1, Zenon DEF IInv, HealingIsPending, HealRestart
      <4> QED BY <1>0, <2>3, <4>1, Zenon DEF HealRestart, P!RebuildEnd
    <3>2. CASE ~MayRestart(h)
      BY <2>3, <3>2, Zenon DEF HealRestart, P!UserRefused
    <3> QED BY <3>1, <3>2, Zenon
  <2> QED BY <1>4, <2>1, <2>2, <2>3, Zenon
          DEF HealStep, HealBegin, HealSettled, HealLookup, HealDecide, HealQuits, HealMoves, HealRebinds
<1>5. CASE UNCHANGED <<engineVars, userOff>>
  BY <1>5, Zenon DEF engineVars
<1> QED BY <1>1, <1>2, <1>3, <1>4, <1>5, Zenon
        DEF Next, vars, WatchInit, WatchPoll, WatchDebounce, PowerResume, ReprobeLookup, ReprobeApply,
            TCPLayerStart, GatewayAttached, HelperRecovered, NetworkMoves

\* The engine with all its background goroutines implements Protection: it
\* comes back by itself only to finish a rebuild no request interrupted.
THEOREM Refinement == Spec => ImplementsProtection
<1>1. Init => P!PInit
  BY Zenon DEF Init, P!PInit
<1>2. IInv /\ [Next]_vars => [P!PNext]_(P!pvars)
  BY StepSimulation, Zenon
<1> QED BY <1>1, <1>2, Invariance, PTL DEF Spec, ImplementsProtection, P!PSpec


-----------------------------------------------------------------------------
(* The DNS settings. *)

OneAtATime == /\ At("guard", "idle") \/ At("repair", "idle")
              /\ At("repair", "idle") \/ At("repair", "load") \/ At("repair", "restore") \/ At("repair", "flush")

RecordIsOriginal == snap # NoRecord => \A s \in DOMAIN snap : Mine(s) => snap[s] = Original[s]

GuardKnows ==
  /\ At("guard", "read") => snap = NoRecord
  /\ At("guard", "save") => snap = NoRecord /\ job["guard"].mem = dns
  /\ At("guard", "set") => snap # NoRecord /\ DOMAIN snap = Services

RestoreKnows ==
  \A a \in Actors :
    /\ At(a, "restore") =>
         /\ snap # NoRecord /\ job[a].mem = snap
         /\ job[a].todo \subseteq DOMAIN snap /\ job[a].pending \subseteq DOMAIN snap
         /\ \A s \in DOMAIN snap \ (job[a].todo \cup job[a].pending) : Mine(s) => dns[s] = Original[s]
    /\ At(a, "flush") => snap = NoRecord

DNSInv == /\ DNSTypeOK
        /\ OneAtATime
        /\ RecordIsOriginal
        /\ GuardKnows
        /\ RestoreKnows
        /\ UndoIsRecorded
        /\ NeverReplaced

-----------------------------------------------------------------------------
\* Nothing is recorded and nothing has been changed at first.
LEMMA DNSInitInv == DNSInit => DNSInv
<1> SUFFICES ASSUME DNSInit PROVE DNSInv
  OBVIOUS
<1>1. Idle \in JobType
  BY Zenon DEF Idle, JobType, Pcs
<1>2. DNSTypeOK
  BY <1>1, SettingsAssumption, Zenon DEF DNSInit, DNSTypeOK
<1>3. \A a \in Actors : job[a].pc = "idle"
  BY Zenon DEF DNSInit, Idle
<1>4. OneAtATime /\ GuardKnows /\ RestoreKnows
  BY <1>3, Zenon DEF OneAtATime, GuardKnows, RestoreKnows, At, Actors
<1>5. RecordIsOriginal /\ UndoIsRecorded /\ NeverReplaced
  BY Zenon DEF DNSInit, RecordIsOriginal, UndoIsRecorded, NeverReplaced
<1> QED BY <1>2, <1>4, <1>5, Zenon DEF DNSInv

\* The operations keep their bookkeeping typed.
LEMMA JobStep == ASSUME DNSTypeOK, [DNSNext]_dnsVars PROVE job' \in [Actors -> JobType]
<1> USE DEF DNSTypeOK
<1>1. Idle \in JobType /\ dns \in Records
  BY Zenon DEF Idle, JobType, Pcs, Records
<1>2. \A a \in Actors : job[a] \in JobType
  OBVIOUS
<1>3. ASSUME NEW a \in Actors, NEW j, Become(a, j), j \in JobType PROVE job' \in [Actors -> JobType]
  BY <1>3, Zenon DEF Become
<1>4. "guard" \in Actors /\ "repair" \in Actors
  BY Zenon DEF Actors
<1>5. \A a \in Actors : \A s \in job[a].todo :
        /\ [job[a] EXCEPT !.todo = @ \ {s}] \in JobType
        /\ [job[a] EXCEPT !.todo = @ \ {s}, !.pending = @ \cup {s}] \in JobType
        /\ [job[a] EXCEPT !.todo = @ \ {s}, !.applied = @ \cup {s}] \in JobType
  BY <1>2 DEF JobType
<1>6. /\ [job["guard"] EXCEPT !.pc = "read"] \in JobType
      /\ [job["guard"] EXCEPT !.pc = "set", !.todo = Services] \in JobType
  BY <1>2, <1>4 DEF JobType, Pcs
<1>7. [Idle EXCEPT !.pc = "save", !.mem = dns] \in JobType
  BY <1>1, Zenon DEF JobType, Pcs
<1>8. \A b \in BOOLEAN : [Idle EXCEPT !.pc = "load", !.armed = b] \in JobType
  BY <1>1, Zenon DEF JobType, Pcs
<1>9. Leftover \in BOOLEAN
  BY Zenon DEF Leftover
<1>10. [Idle EXCEPT !.pc = "flush", !.todo = Services] \in JobType
  BY <1>1, Zenon DEF JobType, Pcs
<1>11. snap # NoRecord => [Idle EXCEPT !.pc = "restore", !.mem = snap, !.todo = DOMAIN snap] \in JobType
  <2>1. snap # NoRecord => snap \in Records /\ DOMAIN snap \in SUBSET Services
    BY Zenon DEF Records
  <2> HIDE DEF Records
  <2> QED BY <1>1, <2>1, Zenon DEF JobType, Pcs
<1>12. CASE ApplyBegin
  BY <1>3, <1>4, <1>6, <1>12, Zenon DEF ApplyBegin, Goes
<1>13. CASE ApplyRead
  BY <1>1, <1>3, <1>4, <1>7, <1>13, Zenon DEF ApplyRead
<1>14. CASE ApplySave
  BY <1>1, <1>3, <1>4, <1>6, <1>14, Zenon DEF ApplySave
<1>15. CASE ApplySet
  BY <1>3, <1>4, <1>5, <1>15, Zenon DEF ApplySet
<1>16. CASE ApplyEnd
  BY <1>1, <1>3, <1>4, <1>8, <1>16, Zenon DEF ApplyEnd
<1>17. CASE CloseBegin
  BY <1>3, <1>4, <1>8, <1>17, Zenon DEF CloseBegin
<1>18. CASE RepairBegin
  BY <1>3, <1>4, <1>8, <1>9, <1>18, Zenon DEF RepairBegin
<1>19. ASSUME NEW a \in Actors, RestoreStep(a) PROVE job' \in [Actors -> JobType]
  <2>1. CASE RestoreLoad(a)
    BY <1>1, <1>3, <1>10, <1>11, <2>1, Zenon DEF RestoreLoad
  <2>2. CASE RestoreSet(a)
    BY <1>3, <1>5, <2>2, Zenon DEF RestoreSet
  <2>3. CASE RestoreRecord(a)
    BY <1>1, <1>3, <2>3, Zenon DEF RestoreRecord
  <2>4. CASE FlushLeftover(a)
    BY <1>3, <1>5, <2>4, Zenon DEF FlushLeftover
  <2>5. CASE FlushEnd(a)
    BY <1>1, <1>3, <2>5, Zenon DEF FlushEnd
  <2> QED BY <1>19, <2>1, <2>2, <2>3, <2>4, <2>5, Zenon DEF RestoreStep
<1>20. CASE Crash
  BY <1>1, <1>20, Zenon DEF Crash
<1>21. CASE UNCHANGED dnsVars
  BY <1>21, Zenon DEF dnsVars
<1> QED BY <1>12, <1>13, <1>14, <1>15, <1>16, <1>17, <1>18, <1>19, <1>20, <1>21, Zenon DEF DNSNext

\* The types are kept by every step.
LEMMA DNSTypeStep ==
  ASSUME DNSInv, [DNSNext]_dnsVars
  PROVE  DNSTypeOK'
<1> USE DEF DNSInv, DNSTypeOK
<1>1. job' \in [Actors -> JobType]
  BY JobStep, Zenon
<1>2. session' \in {"none", "up", "applied"}
  BY Zenon
    DEF DNSNext, RestoreStep, dnsVars, ApplyBegin, ApplyRead, ApplySave, ApplySet, ApplyEnd,
    CloseBegin, RepairBegin,
         RestoreLoad, RestoreSet, RestoreRecord, FlushLeftover, FlushEnd, Crash
<1>3. closed' = closed \/ closed' = TRUE \/ closed' = FALSE
  BY Zenon
    DEF DNSNext, RestoreStep, dnsVars, ApplyBegin, ApplyRead, ApplySave, ApplySet, ApplyEnd,
    CloseBegin, RepairBegin,
         RestoreLoad, RestoreSet, RestoreRecord, FlushLeftover, FlushEnd, Crash
<1>3a. closed' \in BOOLEAN
  BY <1>3, Zenon
<1>4. crashes' \in Nat /\ failures' \in Nat
  <2>1. \A s, v : SetDNS(s, v) => failures' = failures
    BY Zenon DEF SetDNS
  <2>2. Fails => failures' = failures + 1
    BY Zenon DEF Fails
  <2>3. \A a \in Actors : RestoreStep(a) => failures' = failures \/ failures' = failures + 1
    BY <2>1, <2>2, Zenon
      DEF RestoreStep, RestoreLoad, RestoreSet, RestoreRecord, FlushLeftover, FlushEnd
  <2>4. failures' = failures \/ failures' = failures + 1
    BY <2>1, <2>2, <2>3, Zenon
      DEF DNSNext, dnsVars, ApplyBegin, ApplyRead, ApplySave, ApplySet, ApplyEnd, CloseBegin,
                            RepairBegin, Crash
  <2>5. \A a \in Actors : RestoreStep(a) => crashes' = crashes
    BY Zenon DEF RestoreStep, RestoreLoad, RestoreSet, RestoreRecord, FlushLeftover, FlushEnd
  <2>6. crashes' = crashes \/ crashes' = crashes + 1
    BY <2>5, Zenon
      DEF DNSNext, dnsVars, ApplyBegin, ApplyRead, ApplySave, ApplySet, ApplyEnd, CloseBegin,
      RepairBegin, Crash
  <2> QED BY <2>4, <2>6
<1>5. \A a \in Actors : /\ job[a].todo \subseteq Services /\ job[a].pending \subseteq Services
                       /\ job[a].mem \in Records \cup {NoRecord}
  BY Zenon DEF JobType
<1>6. \A a \in Actors : At(a, "restore") =>
        /\ \A s \in job[a].todo \cup job[a].pending : job[a].mem[s] \in Settings
        /\ [s \in job[a].pending |-> job[a].mem[s]] \in Records
  <2>1. \A a \in Actors : At(a, "restore") => job[a].mem \in [DOMAIN snap -> Settings]
    BY Zenon DEF RestoreKnows, Records
  <2>2. \A a \in Actors : At(a, "restore") =>
          \A s \in job[a].todo \cup job[a].pending : job[a].mem[s] \in Settings
    BY <2>1, Zenon DEF RestoreKnows
  <2> QED BY <1>5, <2>2 DEF Records
<1>7. "guard" \in Actors
  BY Zenon DEF Actors
<1>8. dns' \in [Services -> Settings]
  <2>1. ASSUME NEW s \in Services, NEW v \in Settings, SetDNS(s, v) PROVE dns' \in [Services -> Settings]
    BY <2>1, Zenon DEF SetDNS
  <2>2. CASE ApplySet
    BY <1>5, <1>7, <2>1, <2>2, SettingsAssumption, Zenon DEF ApplySet
  <2>3. ASSUME NEW a \in Actors, RestoreSet(a) PROVE dns' \in [Services -> Settings]
    BY <1>5, <1>6, <2>1, <2>3, Zenon DEF RestoreSet
  <2>4. ASSUME NEW a \in Actors, FlushLeftover(a) PROVE dns' \in [Services -> Settings]
    BY <1>5, <2>1, <2>4, SettingsAssumption, Zenon DEF FlushLeftover
  <2>5. ASSUME ~ApplySet, \A a \in Actors : ~RestoreSet(a) /\ ~FlushLeftover(a) PROVE UNCHANGED dns
    BY <2>5, Zenon
      DEF DNSNext, RestoreStep, dnsVars, ApplyBegin, ApplyRead, ApplySave, ApplyEnd,
      CloseBegin, RepairBegin,
                RestoreLoad, RestoreRecord, FlushEnd, Crash
  <2> QED BY <2>2, <2>3, <2>4, <2>5, Zenon
<1>9. snap' \in Records \cup {NoRecord}
  <2>1. CASE ApplySave
    BY <1>5, <1>7, <2>1, Zenon DEF ApplySave
  <2>2. ASSUME NEW a \in Actors, RestoreRecord(a) PROVE snap' \in Records \cup {NoRecord}
    BY <1>6, <2>2, Zenon DEF RestoreRecord
  <2>3. ASSUME ~ApplySave, \A a \in Actors : ~RestoreRecord(a) PROVE UNCHANGED snap
    BY <2>3, Zenon
      DEF DNSNext, RestoreStep, dnsVars, ApplyBegin, ApplyRead, ApplySet, ApplyEnd, CloseBegin,
      RepairBegin,
                RestoreLoad, RestoreSet, FlushLeftover, FlushEnd, Crash
  <2> QED BY <2>1, <2>2, <2>3, Zenon
<1> QED BY <1>1, <1>2, <1>3a, <1>4, <1>8, <1>9, Zenon

-----------------------------------------------------------------------------
\* What is known of the record and the services, without the types.
RecordKnown == OneAtATime /\ RecordIsOriginal /\ GuardKnows /\ RestoreKnows /\ UndoIsRecorded /\ NeverReplaced

\* A step that changes neither the services nor the record, and leaves every
\* operation idle or about to load the record, disturbs nothing.
LEMMA DNSQuietStep ==
  ASSUME DNSInv, DNSTypeOK', UNCHANGED <<dns, snap>>,
         \A a \in Actors : job'[a] = job[a] \/ job'[a].pc \in {"idle", "load"},
         OneAtATime'
  PROVE  RecordKnown'
<1> USE DEF DNSInv
<1>1. \A a \in Actors, pc \in {"read", "save", "set", "restore", "flush"} : At(a, pc)' => At(a, pc) /\ job'[a] = job[a]
  BY Zenon DEF At
<1>2. GuardKnows'
  BY <1>1, Zenon DEF GuardKnows, Actors
<1>3. RestoreKnows'
  BY <1>1 DEF RestoreKnows, At
<1> QED BY <1>2, <1>3, Zenon DEF RecordKnown, RecordIsOriginal, UndoIsRecorded, NeverReplaced

\* dns.Start and the guard's apply.
LEMMA ApplyStep ==
  ASSUME ConcurrentRepair = FALSE, DNSInv, DNSTypeOK',
         ApplyBegin \/ ApplyRead \/ ApplySave \/ ApplySet \/ ApplyEnd
  PROVE  RecordKnown'
<1> USE DEF DNSInv
<1>1. \A j : Become("guard", j) => job'["guard"] = j /\ job'["repair"] = job["repair"]
  BY Zenon DEF Become, DNSTypeOK, Actors
<1>2. Idle.pc = "idle"
  BY Zenon DEF Idle
<1>3. At("guard", "idle") \/ At("repair", "idle")
  BY Zenon DEF OneAtATime
<1>4. At("repair", "idle") /\ (At("guard", "idle") \/ At("guard", "read") \/ At("guard", "save") \/ At("guard", "set"))
  BY <1>3, Zenon
    DEF ApplyBegin, ApplyRead, ApplySave, ApplySet, ApplyEnd, MayBegin, At, Actors
<1>5. job'["repair"] = job["repair"]
  BY <1>1, Zenon DEF ApplyBegin, ApplyRead, ApplySave, ApplySet, ApplyEnd, Goes
<1>6. OneAtATime' /\ At("repair", "idle")'
  BY <1>4, <1>5, Zenon DEF OneAtATime, At
<1>7. snap = NoRecord => \A s \in Services : Mine(s) => dns[s] = Original[s]
  BY Zenon DEF UndoIsRecorded
<1>8. CASE ApplyBegin
  <2>1. CASE snap = NoRecord /\ Goes("guard", "read") /\ UNCHANGED session
    <3>1. job'["guard"].pc = "read"
      BY <1>1, <2>1 DEF Goes, DNSTypeOK, JobType, Actors
    <3>2. RestoreKnows' /\ GuardKnows'
      BY <1>6, <1>8, <2>1, <3>1, Zenon DEF ApplyBegin, RestoreKnows, GuardKnows, At, Actors
    <3> QED BY <1>6, <1>8, <3>2, Zenon
        DEF RecordKnown, ApplyBegin, RecordIsOriginal, UndoIsRecorded, NeverReplaced
  <2>2. CASE UNCHANGED job
    BY <1>6, <1>8, <2>2, DNSQuietStep, Zenon DEF ApplyBegin
  <2> QED BY <1>8, <2>1, <2>2, Zenon DEF ApplyBegin
<1>9. CASE ApplyRead
  <2>1. CASE Become("guard", [Idle EXCEPT !.pc = "save", !.mem = dns])
    <3> DEFINE j == [Idle EXCEPT !.pc = "save", !.mem = dns]
    <3>a. j.pc = "save" /\ j.mem = dns
      BY Zenon DEF Idle
    <3>b. Become("guard", j)
      BY <2>1, Zenon
    <3> HIDE DEF j
    <3>1. job'["guard"].pc = "save" /\ job'["guard"].mem = dns
      BY <1>1, <3>a, <3>b, Zenon
    <3>2. RestoreKnows' /\ GuardKnows'
      BY <1>6, <1>9, <3>1, Zenon DEF ApplyRead, RestoreKnows, GuardKnows, At, Actors
    <3> QED BY <1>6, <1>9, <3>2, Zenon
        DEF RecordKnown, ApplyRead, RecordIsOriginal, UndoIsRecorded, NeverReplaced
  <2>2. CASE Become("guard", Idle)
    BY <1>1, <1>2, <1>6, <1>9, <2>2, DNSQuietStep, Zenon DEF ApplyRead, Actors
  <2> QED BY <1>9, <2>1, <2>2, Zenon DEF ApplyRead
<1>10. CASE ApplySave
  <2>1. CASE /\ snap' = job["guard"].mem
             /\ Become("guard", [job["guard"] EXCEPT !.pc = "set", !.todo = Services])
    <3> DEFINE j == [job["guard"] EXCEPT !.pc = "set", !.todo = Services]
    <3>a. j.pc = "set"
      BY Zenon DEF DNSTypeOK, JobType, Actors
    <3>b. Become("guard", j)
      BY <2>1, Zenon
    <3> HIDE DEF j
    <3>1. job'["guard"].pc = "set"
      BY <1>1, <3>a, <3>b, Zenon
    <3>2. snap' = dns /\ dns' = dns /\ snap = NoRecord
      BY <1>10, <2>1, Zenon DEF ApplySave, GuardKnows
    <3>3. snap' # NoRecord /\ DOMAIN snap' = Services
      BY <3>2, RecordAssumption, Zenon DEF DNSTypeOK
    <3>4. RestoreKnows' /\ GuardKnows'
      BY <1>6, <3>1, <3>3, Zenon DEF RestoreKnows, GuardKnows, At, Actors
    <3>5. RecordIsOriginal' /\ UndoIsRecorded' /\ NeverReplaced'
      BY <1>7, <3>2, <3>3, Zenon DEF RecordIsOriginal, UndoIsRecorded, NeverReplaced
    <3> QED BY <1>6, <3>4, <3>5, Zenon DEF RecordKnown
  <2>2. CASE Become("guard", Idle) /\ UNCHANGED snap
    BY <1>1, <1>2, <1>6, <1>10, <2>2, DNSQuietStep, Zenon DEF ApplySave, Actors
  <2> QED BY <1>10, <2>1, <2>2, Zenon DEF ApplySave
<1>11. CASE ApplySet
  <2>1. PICK s \in job["guard"].todo :
          \/ SetDNS(s, Stub) /\ Become("guard", [job["guard"] EXCEPT !.todo = @ \ {s}, !.applied = @ \cup {s}])
          \/ UNCHANGED dns /\ Become("guard", [job["guard"] EXCEPT !.todo = @ \ {s}])
    BY <1>11, Zenon DEF ApplySet
  <2>2. s \in Services
    BY Zenon DEF DNSTypeOK, JobType, Actors
  <2> DEFINE j == [job["guard"] EXCEPT !.todo = @ \ {s}, !.applied = @ \cup {s}]
             k == [job["guard"] EXCEPT !.todo = @ \ {s}]
  <2>a. At("guard", "set")
    BY <1>11, Zenon DEF ApplySet
  <2>b. j.pc = "set" /\ k.pc = "set"
    BY <2>a, Zenon DEF At, DNSTypeOK, JobType, Actors
  <2>c. Become("guard", j) \/ Become("guard", k)
    BY <2>1, Zenon
  <2>3. job'["guard"].pc = "set" /\ At("guard", "set")
    <3> HIDE DEF j, k
    <3> QED BY <1>1, <2>a, <2>b, <2>c, Zenon
  <2>4. snap' = snap /\ snap # NoRecord /\ DOMAIN snap = Services
    BY <1>11, <2>3, Zenon DEF ApplySet, GuardKnows
  <2>5. \A t \in Services : dns'[t] = dns[t] \/ dns'[t] = Stub
    BY <2>1, <2>2, Zenon DEF SetDNS, DNSTypeOK
  <2>6. RestoreKnows' /\ GuardKnows'
    BY <1>6, <2>3, <2>4, Zenon DEF RestoreKnows, GuardKnows, At, Actors
  <2>7. RecordIsOriginal' /\ UndoIsRecorded' /\ NeverReplaced'
    BY <2>4, <2>5, Zenon DEF RecordIsOriginal, UndoIsRecorded, NeverReplaced
  <2> QED BY <1>6, <2>6, <2>7, Zenon DEF RecordKnown
<1>12. CASE ApplyEnd
  <2>1. job'["guard"].pc \in {"idle", "load"}
    <3> DEFINE j == [Idle EXCEPT !.pc = "load", !.armed = TRUE]
    <3>a. j.pc = "load"
      BY Zenon DEF Idle
    <3>b. Become("guard", Idle) \/ Become("guard", j)
      BY <1>12, Zenon DEF ApplyEnd
    <3> HIDE DEF j
    <3> QED BY <1>1, <1>2, <3>a, <3>b, Zenon
  <2> QED BY <1>5, <1>6, <1>12, <2>1, DNSQuietStep, Zenon DEF ApplyEnd, Actors
<1> QED BY <1>8, <1>9, <1>10, <1>11, <1>12, Zenon

\* session.Close and Repair begin, and the daemon dies.
LEMMA BeginStep ==
  ASSUME ConcurrentRepair = FALSE, DNSInv, DNSTypeOK', CloseBegin \/ RepairBegin \/ Crash
  PROVE  RecordKnown'
<1> USE DEF DNSInv
<1>1. \A a, b \in Actors : \A j : Become(a, j) => job'[a] = j /\ (b # a => job'[b] = job[b])
  BY Zenon DEF Become, DNSTypeOK
<1>2. Idle.pc = "idle"
  BY Zenon DEF Idle
<1>3. CASE CloseBegin
  <2> DEFINE j == [Idle EXCEPT !.pc = "load", !.armed = TRUE]
  <2>1. j.pc = "load"
    BY Zenon DEF Idle
  <2>2. Become("guard", j) \/ UNCHANGED job
    BY <1>3, Zenon DEF CloseBegin
  <2>3. At("guard", "idle") /\ At("repair", "idle") /\ UNCHANGED <<dns, snap>>
    BY <1>3, Zenon DEF CloseBegin, MayBegin, Actors
  <2> HIDE DEF j
  <2>4. job'["repair"] = job["repair"] /\ (job'["guard"] = job["guard"] \/ job'["guard"].pc = "load")
    BY <1>1, <2>1, <2>2, Zenon DEF Actors
  <2> QED BY <2>3, <2>4, DNSQuietStep, Zenon DEF OneAtATime, At, Actors
<1>4. CASE RepairBegin
  <2> DEFINE j == [Idle EXCEPT !.pc = "load", !.armed = Leftover]
  <2>1. j.pc = "load"
    BY Zenon DEF Idle
  <2>2. Become("repair", j)
    BY <1>4, Zenon DEF RepairBegin
  <2>3. At("guard", "idle") /\ UNCHANGED <<dns, snap>>
    BY <1>4, Zenon DEF RepairBegin, MayBegin, Actors
  <2> HIDE DEF j
  <2>4. job'["guard"] = job["guard"] /\ job'["repair"].pc = "load"
    BY <1>1, <2>1, <2>2, Zenon DEF Actors
  <2> QED BY <2>3, <2>4, DNSQuietStep, Zenon DEF OneAtATime, At, Actors
<1>5. CASE Crash
  <2>1. \A a \in Actors : job'[a].pc = "idle"
    BY <1>2, <1>5, Zenon DEF Crash
  <2> QED BY <1>5, <2>1, DNSQuietStep, Zenon DEF Crash, OneAtATime, At, Actors
<1> QED BY <1>3, <1>4, <1>5, Zenon

\* restoreSystemDNSWith, for the guard and for Repair.
LEMMA RestoreKnown ==
  ASSUME DNSInv, DNSTypeOK', NEW a \in Actors, RestoreStep(a)
  PROVE  RecordKnown'
<1> USE DEF DNSInv
<1>1. \A j : Become(a, j) => job'[a] = j /\ \A b \in Actors : b # a => job'[b] = job[b]
  BY Zenon DEF Become, DNSTypeOK
<1>2. Idle.pc = "idle"
  BY Zenon DEF Idle
<1>3. At(a, "load") \/ At(a, "restore") \/ At(a, "flush")
  BY Zenon DEF RestoreStep, RestoreLoad, RestoreSet, RestoreRecord, FlushLeftover, FlushEnd
<1>4. \A b \in Actors : b # a => job[b].pc = "idle"
  BY <1>3, Zenon DEF OneAtATime, At, Actors
<1>5. \A b \in Actors : b # a => job'[b] = job[b] /\ job'[b].pc = "idle"
  <2>1. \E j : Become(a, j)
    BY Zenon DEF RestoreStep, RestoreLoad, RestoreSet, RestoreRecord, FlushLeftover, FlushEnd
  <2> QED BY <1>1, <1>4, <2>1, Zenon
<1>6. ASSUME job'[a].pc \in {"idle", "load", "restore", "flush"} PROVE OneAtATime' /\ GuardKnows'
  BY <1>5, <1>6, Zenon DEF OneAtATime, GuardKnows, At, Actors
<1>7. job[a] \in JobType
  BY Zenon DEF DNSTypeOK
<1>8. CASE RestoreLoad(a)
  <2>1. UNCHANGED <<dns, snap>>
    BY <1>8, Zenon DEF RestoreLoad
  <2> DEFINE j == [Idle EXCEPT !.pc = "restore", !.mem = snap, !.todo = DOMAIN snap]
             k == [Idle EXCEPT !.pc = "flush", !.todo = Services]
  <2>2. j.pc = "restore" /\ j.mem = snap /\ j.todo = DOMAIN snap /\ j.pending = {} /\ k.pc = "flush"
    BY Zenon DEF Idle
  <2>3. \/ snap # NoRecord /\ Become(a, j)
        \/ snap = NoRecord /\ Become(a, k)
        \/ Become(a, Idle)
    BY <1>8, Zenon DEF RestoreLoad
  <2> HIDE DEF j, k
  <2>4. /\ job'[a].pc \in {"idle", "restore", "flush"}
        /\ job'[a].pc = "flush" => snap = NoRecord
        /\ job'[a].pc = "restore" => snap # NoRecord /\ job'[a].mem = snap /\ job'[a].todo = DOMAIN snap
                                   /\ job'[a].pending = {}
    BY <1>1, <1>2, <2>2, <2>3, Zenon
  <2>5. RestoreKnows'
    BY <1>5, <2>1, <2>4, Zenon DEF RestoreKnows, At
  <2> QED BY <1>6, <2>1, <2>4, <2>5, Zenon
      DEF RecordKnown, RecordIsOriginal, UndoIsRecorded, NeverReplaced
<1>9. CASE RestoreSet(a)
  <2>1. PICK s \in job[a].todo :
          \/ SetDNS(s, job[a].mem[s]) /\ Become(a, [job[a] EXCEPT !.todo = @ \ {s}])
          \/ UNCHANGED dns /\ Become(a, [job[a] EXCEPT !.todo = @ \ {s}, !.pending = @ \cup {s}])
    BY <1>9, Zenon DEF RestoreSet
  <2> DEFINE j == [job[a] EXCEPT !.todo = @ \ {s}]
             k == [job[a] EXCEPT !.todo = @ \ {s}, !.pending = @ \cup {s}]
  <2>2. At(a, "restore") /\ UNCHANGED snap
    BY <1>9, Zenon DEF RestoreSet
  <2>3. /\ j.pc = "restore" /\ j.mem = job[a].mem /\ j.todo = job[a].todo \ {s} /\ j.pending = job[a].pending
        /\ k.pc = "restore" /\ k.mem = job[a].mem /\ k.todo = job[a].todo \ {s}
        /\ k.pending = job[a].pending \cup {s}
    BY <1>7, <2>2, Zenon DEF JobType, At
  <2>4. \/ SetDNS(s, job[a].mem[s]) /\ Become(a, j)
        \/ UNCHANGED dns /\ Become(a, k)
    BY <2>1, Zenon
  <2> HIDE DEF j, k
  <2>5. /\ job'[a].pc = "restore" /\ job'[a].mem = snap /\ job'[a].todo = job[a].todo \ {s}
        /\ \/ SetDNS(s, snap[s]) /\ job'[a].pending = job[a].pending
           \/ UNCHANGED dns /\ job'[a].pending = job[a].pending \cup {s}
    BY <1>1, <2>2, <2>3, <2>4, Zenon DEF RestoreKnows
  <2>6. /\ snap # NoRecord /\ s \in DOMAIN snap /\ s \in Services
        /\ job[a].todo \subseteq DOMAIN snap /\ job[a].pending \subseteq DOMAIN snap
        /\ \A t \in DOMAIN snap \ (job[a].todo \cup job[a].pending) : Mine(t) => dns[t] = Original[t]
    BY <1>7, <2>2, Zenon DEF RestoreKnows, JobType
  <2>7. \A t \in Services : dns'[t] = dns[t] \/ (t = s /\ dns'[t] = snap[s])
    BY <2>5, <2>6, Zenon DEF SetDNS, DNSTypeOK
  <2>8. job'[a].pending = job[a].pending => dns'[s] = snap[s] \/ s \in job[a].pending
    BY <2>5, <2>6, Zenon DEF SetDNS, DNSTypeOK
  <2>9. Mine(s) => snap[s] = Original[s]
    BY <2>6, Zenon DEF RecordIsOriginal
  <2>10. DOMAIN snap \subseteq Services
    BY <2>6, Zenon DEF DNSTypeOK, Records
  <2>11. \A t \in DOMAIN snap \ (job'[a].todo \cup job'[a].pending) : Mine(t) => dns'[t] = Original[t]
    BY <2>5, <2>6, <2>7, <2>8, <2>9, <2>10, Zenon
  <2>12. RestoreKnows'
    BY <1>5, <2>2, <2>5, <2>6, <2>11 DEF RestoreKnows, At, Mine
  <2>13. RecordIsOriginal' /\ UndoIsRecorded' /\ NeverReplaced'
    BY <2>2, <2>7, <2>9, Zenon DEF RecordIsOriginal, UndoIsRecorded, NeverReplaced
  <2> QED BY <1>6, <2>5, <2>12, <2>13, Zenon DEF RecordKnown
<1>10. CASE RestoreRecord(a)
  <2>1. job'[a] = Idle /\ UNCHANGED dns
    BY <1>1, <1>10, Zenon DEF RestoreRecord
  <2>2. RestoreKnows' /\ OneAtATime' /\ GuardKnows'
    BY <1>2, <1>5, <1>6, <2>1, Zenon DEF RestoreKnows, At
  <2>3. At(a, "restore") /\ job[a].todo = {}
    BY <1>10, Zenon DEF RestoreRecord
  <2>4. /\ snap # NoRecord /\ job[a].mem = snap /\ job[a].pending \subseteq DOMAIN snap
        /\ \A t \in DOMAIN snap \ job[a].pending : Mine(t) => dns[t] = Original[t]
    BY <2>3, Zenon DEF RestoreKnows
  <2>5. CASE UNCHANGED snap
    BY <2>1, <2>2, <2>5, Zenon DEF RecordKnown, RecordIsOriginal, UndoIsRecorded, NeverReplaced
  <2>6. CASE job[a].pending = {} /\ snap' = NoRecord
    <3>1. \A t \in Services : Mine(t) => dns[t] = Original[t]
      BY <2>4, <2>6, Zenon DEF UndoIsRecorded
    <3> QED BY <2>1, <2>2, <2>6, <3>1, Zenon
        DEF RecordKnown, RecordIsOriginal, UndoIsRecorded, NeverReplaced
  <2>7. CASE job[a].pending # {} /\ snap' = [s \in job[a].pending |-> job[a].mem[s]]
    <3>1. snap' # NoRecord
      BY <2>4, <2>7, RecordAssumption DEF DNSTypeOK, Records
    <3>2. DOMAIN snap' = job[a].pending /\ \A t \in job[a].pending : snap'[t] = snap[t]
      BY <2>4, <2>7, Zenon
    <3>3. RecordIsOriginal' /\ UndoIsRecorded' /\ NeverReplaced'
      BY <2>1, <2>4, <3>1, <3>2, Zenon DEF RecordIsOriginal, UndoIsRecorded, NeverReplaced
    <3> QED BY <2>2, <3>3, Zenon DEF RecordKnown
  <2> QED BY <1>10, <2>5, <2>6, <2>7, Zenon DEF RestoreRecord
<1>11. CASE FlushLeftover(a)
  <2>1. PICK s \in job[a].todo :
          /\ Become(a, [job[a] EXCEPT !.todo = @ \ {s}])
          /\ \/ dns[s] = Stub /\ SetDNS(s, DHCP)
             \/ UNCHANGED dns
    BY <1>11, Zenon DEF FlushLeftover
  <2> DEFINE j == [job[a] EXCEPT !.todo = @ \ {s}]
  <2>2. At(a, "flush") /\ UNCHANGED snap
    BY <1>11, Zenon DEF FlushLeftover
  <2>3. j.pc = "flush" /\ Become(a, j)
    BY <1>7, <2>1, <2>2, Zenon DEF JobType, At
  <2> HIDE DEF j
  <2>4. job'[a].pc = "flush" /\ snap = NoRecord
    BY <1>1, <2>2, <2>3, Zenon DEF RestoreKnows
  <2>5. \A t \in Services : Mine(t) => dns'[t] = dns[t]
    BY <1>7, <2>1, <2>4, Zenon DEF SetDNS, UndoIsRecorded, Mine, DNSTypeOK, JobType
  <2>6. RestoreKnows'
    BY <1>5, <2>2, <2>4, Zenon DEF RestoreKnows, At
  <2> QED BY <1>6, <2>2, <2>4, <2>5, <2>6, Zenon
      DEF RecordKnown, RecordIsOriginal, UndoIsRecorded, NeverReplaced
<1>12. CASE FlushEnd(a)
  BY <1>1, <1>2, <1>5, <1>6, <1>12, DNSQuietStep, Zenon DEF FlushEnd
<1> QED BY <1>8, <1>9, <1>10, <1>11, <1>12, Zenon DEF RestoreStep

-----------------------------------------------------------------------------
\* Everything the argument needs holds throughout, whatever fails and whenever
\* the daemon dies.
THEOREM DNSInvariance ==
  ASSUME ConcurrentRepair = FALSE
  PROVE  DNSSpec => []DNSInv
<1>1. DNSInv /\ [DNSNext]_dnsVars => DNSInv'
  <2> SUFFICES ASSUME DNSInv, [DNSNext]_dnsVars PROVE DNSInv'
    OBVIOUS
  <2>1. DNSTypeOK'
    BY DNSTypeStep, Zenon
  <2>2. CASE UNCHANGED dnsVars
    BY <2>2, Zenon
      DEF dnsVars, DNSInv, DNSTypeOK, OneAtATime, RecordIsOriginal, GuardKnows, RestoreKnows,
      UndoIsRecorded,
                NeverReplaced, At
  <2>3. CASE DNSNext
    <3>1. RecordKnown'
      BY <2>1, <2>3, ApplyStep, BeginStep, RestoreKnown, Zenon DEF DNSNext
    <3> QED BY <2>1, <3>1, Zenon DEF DNSInv, RecordKnown
  <2> QED BY <2>2, <2>3, Zenon
<1> QED BY <1>1, DNSInitInv, PTL DEF DNSSpec

\* A crash never loses the user's setting of a service: whatever a service is
\* left at, applySystemDNSWith and restoreSystemDNSWith keep the setting in the
\* undo record until it is back.
THEOREM UndoSurvives ==
  ASSUME ConcurrentRepair = FALSE
  PROVE  DNSSpec => []UndoIsRecorded
<1>1. DNSInv => UndoIsRecorded
  BY Zenon DEF DNSInv
<1> QED BY <1>1, DNSInvariance, PTL

\* No sequence of failed restores, crashes and repairs hands a service the user
\* had configured to DHCP.
THEOREM SettingsKept ==
  ASSUME ConcurrentRepair = FALSE
  PROVE  DNSSpec => []NeverReplaced
<1>1. DNSInv => NeverReplaced
  BY Zenon DEF DNSInv
<1> QED BY <1>1, DNSInvariance, PTL
=============================================================================

-------------------------- MODULE ComponentsProofs --------------------------
(***************************************************************************)
(* Proofs about module Components, for every set of instances and workers, *)
(* any budget and any number of sessions, exits and rebinds.               *)
(*                                                                         *)
(* The argument: a worker's session is never newer than the engine's, and  *)
(* a worker of the engine's own session works while protection is on       *)
(* (JobsArePast), so what it starts under the session's context is started *)
(* before Stop.  The session's one watch loop makes at most one restart at *)
(* a time (OneRestart); hence from the close on the resolver it replaces   *)
(* stays closed until it is replaced (ReplacedIsClosed), and no reference  *)
(* to a resolver is lost.                                                  *)
(***************************************************************************)
EXTENDS Components, TLAPS

\* No worker has a session still to come, and one of the current session works
\* while protection is on.
JobsArePast ==
  \A w \in Workers : ~At(w, "idle") =>
    job[w].session <= sessionGeneration /\ (job[w].session = sessionGeneration => running)

\* The engine holds a resolver while protection is on, and nothing otherwise.
SlotsFit == IF running THEN slot["dns"] # None ELSE \A k \in Kinds : slot[k] = None

\* An instance has one starter.
OwnInstances ==
  \A v, w \in Workers : v # w /\ job[v].next = job[w].next => job[w].next = None

Restarts(w) == job[w].pc \in RecoverPcs /\ job[w].session = sessionGeneration

OneRestart == \A v, w \in Workers : Restarts(v) /\ Restarts(w) => v = w

\* What a restart has at its steps: nothing of its own before it starts
\* something, and then an instance of the component it restarts.
RestartFits ==
  \A w \in Workers :
    /\ job[w].pc \in RecoverPcs => job[w].kind \in Kinds
    /\ job[w].pc \in {"close", "start"} => job[w].next = None
    /\ At(w, "apply") /\ job[w].next # None => Kind[job[w].next] = job[w].kind

ReplacedIsClosed ==
  \A w \in Workers : Restarts(w) /\ job[w].kind = "dns" =>
    /\ At(w, "close") => job[w].old = slot["dns"]
    /\ ~At(w, "close") => slot["dns"] = None \/ ~Open(slot["dns"])

RestartsAreCounted ==
  \A k \in Kinds : restarts[k] <= recoveryAttempts[k] /\ restarts[k] <= recoveryBudget

IInv == /\ TypeOK
        /\ JobsArePast /\ SlotsFit /\ OwnInstances
        /\ OneRestart /\ RestartFits /\ ReplacedIsClosed
        /\ ResolverIsOwned /\ StoppedMeansNoProcess
        /\ RestartsAreCounted

-----------------------------------------------------------------------------
(* How the workers move. *)

\* The worker goes on for the same session and component, or is done.
Moves(w, r) == /\ job' = [job EXCEPT ![w] = r] /\ r \in JobType
               /\ r = Idle \/ (r.session = job[w].session /\ r.kind = job[w].kind)

\* A worker that is done, or begins, holds a record of its type.
LEMMA JobRecords ==
  ASSUME NEW s \in Nat, NEW k \in Kinds \cup {None}, NEW i \in Instances \cup {None},
         NEW j \in Instances \cup {None}, NEW pc \in Pcs
  PROVE  /\ Idle \in JobType /\ Idle.pc = "idle" /\ Idle.next = None
         /\ [Idle EXCEPT !.pc = pc, !.session = s, !.kind = k, !.old = i] \in JobType
         /\ [Idle EXCEPT !.pc = pc, !.session = s, !.old = i, !.tun = j] \in JobType
         /\ [Idle EXCEPT !.pc = pc, !.session = s, !.tun = j] \in JobType
         /\ [Idle EXCEPT !.pc = pc, !.session = s] \in JobType
BY Zenon DEF Idle, JobType, Pcs

\* A step changes what it names of a worker's record and keeps the rest.
LEMMA JobFields ==
  ASSUME NEW r \in JobType, NEW pc \in Pcs, NEW n \in Instances \cup {None}
  PROVE  /\ \A s \in {[r EXCEPT !.pc = pc], [r EXCEPT !.pc = pc, !.next = n],
                      [r EXCEPT !.pc = pc, !.old = None],
                      [r EXCEPT !.pc = pc, !.old = None, !.failed = TRUE]} :
              s \in JobType /\ s.pc = pc /\ s.session = r.session /\ s.kind = r.kind
         /\ [r EXCEPT !.pc = pc].next = r.next
         /\ [r EXCEPT !.pc = pc, !.next = n].next = n
         /\ [r EXCEPT !.pc = pc, !.old = None].next = r.next
         /\ [r EXCEPT !.pc = pc, !.old = None, !.failed = TRUE].next = r.next
<1>1. [r EXCEPT !.pc = pc] \in JobType /\ [r EXCEPT !.pc = pc, !.next = n] \in JobType
  BY Zenon DEF JobType
<1>2. [r EXCEPT !.pc = pc, !.old = None] \in JobType
  BY Zenon DEF JobType
<1>3. [r EXCEPT !.pc = pc, !.old = None, !.failed = TRUE] \in JobType
  BY Zenon DEF JobType
<1>4. \A s \in {[r EXCEPT !.pc = pc], [r EXCEPT !.pc = pc, !.next = n],
                 [r EXCEPT !.pc = pc, !.old = None], [r EXCEPT !.pc = pc, !.old = None, !.failed = TRUE]} :
         s.pc = pc /\ s.session = r.session /\ s.kind = r.kind
  BY Zenon DEF JobType
<1>5. /\ [r EXCEPT !.pc = pc].next = r.next
      /\ [r EXCEPT !.pc = pc, !.next = n].next = n
      /\ [r EXCEPT !.pc = pc, !.old = None].next = r.next
      /\ [r EXCEPT !.pc = pc, !.old = None, !.failed = TRUE].next = r.next
  BY DEF JobType
<1> QED BY <1>1, <1>2, <1>3, <1>4, <1>5

\* The three steps that start a component without the lock.
Starting(w) == RecoverStart(w) \/ StartWinner(w) \/ StartOriginal(w)

\* What such a step does: the new instance is one nobody had, and it serves the
\* worker's session.
Started(w, k, r) ==
  /\ job' = [job EXCEPT ![w] = r] /\ ~At(w, "idle")
  /\ r.session = job[w].session /\ r.kind = job[w].kind
  /\ \/ r.pc = "apply" /\ At(w, "start") /\ k = job[w].kind
     \/ r.pc \in {"verify", "restored"} /\ job[w].pc \in {"winner", "rollback"} /\ k = "desync"
  /\ \/ r.next = job[w].next /\ UNCHANGED <<up, unserved>>
     \/ /\ r.next \in Instances /\ Kind[r.next] = k /\ ~Open(r.next)
        /\ \A v \in Workers : job[v].next # r.next
        /\ \A l \in Kinds : slot[l] # r.next
        /\ k = "dns" \/ job[w].session = sessionGeneration
        /\ up' = [up EXCEPT ![r.next] = job[w].session] /\ unserved' = unserved
  /\ ipv4Only' \subseteq ipv4Only
  /\ UNCHANGED <<engineVars, exits, rebinds>>

\* A step that starts a component without the lock does just that.
LEMMA StartingMoves ==
  ASSUME TypeOK, RestartFits, NEW w \in Workers, Starting(w)
  PROVE  \E k \in Kinds, r \in JobType : Started(w, k, r)
<1>1. PICK k \in Kinds, pc \in {"apply", "verify", "restored"} :
        /\ StartsOwn(w, k, pc)
        /\ \/ pc = "apply" /\ At(w, "start") /\ k = job[w].kind
           \/ pc # "apply" /\ (At(w, "winner") \/ At(w, "rollback")) /\ k = "desync"
  BY DEF Starting, RecoverStart, StartWinner, StartOriginal, RestartFits, RecoverPcs, At, Kinds
<1>2. /\ ~At(w, "idle")
      /\ \/ pc = "apply" /\ At(w, "start") /\ k = job[w].kind
         \/ pc \in {"verify", "restored"} /\ job[w].pc \in {"winner", "rollback"} /\ k = "desync"
  BY <1>1, Zenon DEF At, RecoverPcs
<1>3. job[w] \in JobType /\ pc \in Pcs /\ ipv4Only' \subseteq ipv4Only
      /\ UNCHANGED <<engineVars, exits, rebinds>>
  BY <1>1 DEF TypeOK, Pcs, RecoverPcs, MonitorPcs, StartsOwn, instVars
<1>4. CASE Goes(w, pc) /\ UNCHANGED instVars
  <2> DEFINE r == [job[w] EXCEPT !.pc = pc]
  <2>1. /\ r \in JobType /\ r.pc = pc /\ r.session = job[w].session /\ r.kind = job[w].kind
        /\ r.next = job[w].next
    BY <1>3, JobFields, ZenonT(30)
  <2>2. job' = [job EXCEPT ![w] = r]
    BY <1>4 DEF Goes, Becomes
  <2> HIDE DEF r
  <2> QED BY <1>2, <1>3, <1>4, <2>1, <2>2, Zenon DEF Started, instVars
<1>5. CASE \E i \in Instances :
             /\ Startable(k, i, {}) /\ ContextAllows(k, job[w].session)
             /\ Replace({}, {i}, job[w].session)
             /\ ipv4Only' = ipv4Only \ {i}
             /\ Becomes(w, [job[w] EXCEPT !.pc = pc, !.next = i])
  <2>1. PICK i \in Instances :
             /\ Startable(k, i, {}) /\ ContextAllows(k, job[w].session)
             /\ Replace({}, {i}, job[w].session)
             /\ Becomes(w, [job[w] EXCEPT !.pc = pc, !.next = i])
    BY <1>5
  <2> DEFINE r == [job[w] EXCEPT !.pc = pc, !.next = i]
  <2>2. r \in JobType /\ r.pc = pc /\ r.session = job[w].session /\ r.kind = job[w].kind /\ r.next = i
    BY <1>3, Zenon DEF JobType
  <2>3. job' = [job EXCEPT ![w] = r]
    BY <2>1 DEF Becomes
  <2>4. /\ Kind[i] = k /\ ~Open(i)
        /\ \A v \in Workers : job[v].next # i
        /\ \A l \in Kinds : slot[l] # i
    BY <2>1 DEF Startable, Referenced
  <2>5. up' = [up EXCEPT ![i] = job[w].session] /\ unserved' = unserved
    BY <2>1, Zenon DEF Replace, TypeOK
  <2>6. k = "dns" \/ job[w].session = sessionGeneration
    BY <2>1 DEF ContextAllows
  <2> HIDE DEF r
  <2> QED BY <1>2, <1>3, <2>2, <2>3, <2>4, <2>5, <2>6, Zenon DEF Started
<1> QED BY <1>1, <1>4, <1>5 DEF StartsOwn

\* A worker that gives up is done, or closes what it started.
LEMMA DropsMoves ==
  ASSUME TypeOK, NEW w \in Workers, Drops(w)
  PROVE  \E r \in JobType :
           /\ Moves(w, r)
           /\ r = Idle \/ (r.pc = "drop" /\ r.session = job[w].session /\ r.next = job[w].next)
           /\ job[w].next # None => r.pc = "drop"
<1>1. job[w] \in JobType /\ "drop" \in Pcs
  BY Zenon DEF TypeOK, Pcs
<1>2. CASE job[w].next = None /\ Becomes(w, Idle)
  BY <1>2, JobRecords, <1>1, Zenon DEF Becomes, Moves
<1>3. CASE job[w].next # None /\ Goes(w, "drop")
  BY <1>1, <1>3, JobFields, Zenon DEF Becomes, Moves, Goes
<1> QED BY <1>2, <1>3 DEF Drops

\* The close of a restart.
LEMMA RecoverCloseMoves ==
  ASSUME TypeOK, NEW w \in Workers, RecoverClose(w)
  PROVE  \E r \in JobType :
           /\ Moves(w, r) /\ r # Idle /\ r.session = job[w].session /\ r.kind = job[w].kind
           /\ r.pc \in {"start", "apply"} /\ r.next = job[w].next
<1>1. job[w] \in JobType /\ "start" \in Pcs /\ "apply" \in Pcs
  BY DEF TypeOK, Pcs, RecoverPcs
<1>2. CASE Becomes(w, [job[w] EXCEPT !.pc = "start", !.old = None])
  <2> DEFINE r == [job[w] EXCEPT !.pc = "start", !.old = None]
  <2>1. /\ r \in JobType /\ r.pc = "start" /\ r.session = job[w].session
        /\ r.kind = job[w].kind /\ r.next = job[w].next
    BY <1>1, JobFields
  <2>2. r # Idle /\ Moves(w, r)
    BY <1>2, <2>1, Zenon DEF Idle, Moves, Becomes
  <2> HIDE DEF r
  <2> QED BY <2>1, <2>2
<1>3. CASE Becomes(w, [job[w] EXCEPT !.pc = "apply", !.old = None, !.failed = TRUE])
  <2> DEFINE r == [job[w] EXCEPT !.pc = "apply", !.old = None, !.failed = TRUE]
  <2>1. /\ r \in JobType /\ r.pc = "apply" /\ r.session = job[w].session
        /\ r.kind = job[w].kind /\ r.next = job[w].next
    BY <1>1, JobFields, ZenonT(30)
  <2>2. r # Idle /\ Moves(w, r)
    BY <1>3, <2>1, Zenon DEF Idle, Moves, Becomes
  <2> HIDE DEF r
  <2> QED BY <2>1, <2>2
<1> QED BY <1>2, <1>3 DEF RecoverClose

\* The end of a scan.
LEMMA ScanEndMoves ==
  ASSUME TypeOK, NEW w \in Workers, ScanEnd(w)
  PROVE  \E r \in JobType :
           /\ Moves(w, r)
           /\ r = Idle \/ (r.pc = "winner" /\ r.session = job[w].session /\ r.next = job[w].next)
<1>1. job[w] \in JobType /\ "winner" \in Pcs
  BY DEF TypeOK, Pcs, MonitorPcs
<1>2. CASE Becomes(w, Idle)
  BY <1>1, <1>2, JobRecords DEF Becomes, Moves
<1>3. CASE Becomes(w, [job[w] EXCEPT !.pc = "winner", !.old = None])
  <2> DEFINE r == [job[w] EXCEPT !.pc = "winner", !.old = None]
  <2>1. /\ r \in JobType /\ r.pc = "winner" /\ r.session = job[w].session
        /\ r.kind = job[w].kind /\ r.next = job[w].next
    BY <1>1, JobFields, Zenon
  <2>2. Moves(w, r)
    BY <1>3, <2>1 DEF Moves, Becomes
  <2> HIDE DEF r
  <2> QED BY <2>1, <2>2, Zenon
<1> QED BY <1>2, <1>3 DEF ScanEnd

\* The measurement of a winner, and the end of a rollback.
LEMMA SwapMoves ==
  ASSUME TypeOK, NEW w \in Workers, VerifyWinner(w) \/ RollbackEnd(w)
  PROVE  \E r \in JobType :
           /\ Moves(w, r)
           /\ \/ r = Idle
              \/ r.pc = "drop" /\ r.session = job[w].session /\ r.next = job[w].next
              \/ r.pc = "rollback" /\ r.session = job[w].session /\ r.next = None
<1>1. job[w] \in JobType /\ "rollback" \in Pcs /\ None \in Instances \cup {None}
  BY DEF TypeOK, Pcs, MonitorPcs
<1>2. CASE Drops(w)
  BY <1>2, DropsMoves
<1>3. CASE Becomes(w, Idle)
  BY <1>1, <1>3, JobRecords DEF Becomes, Moves
<1>4. CASE Becomes(w, [job[w] EXCEPT !.pc = "rollback", !.next = None])
  <2> DEFINE r == [job[w] EXCEPT !.pc = "rollback", !.next = None]
  <2>1. /\ r \in JobType /\ r.pc = "rollback" /\ r.session = job[w].session
        /\ r.kind = job[w].kind /\ r.next = None
    BY <1>1, Zenon DEF JobType
  <2>2. Moves(w, r)
    BY <1>4, <2>1 DEF Moves, Becomes
  <2> HIDE DEF r
  <2> QED BY <2>1, <2>2
<1> QED BY <1>2, <1>3, <1>4 DEF VerifyWinner, RollbackEnd, SwapAbandoned, SwapAdopts

\* A worker begins: the monitor with a check, the watch loop with a restart.
Begins(w, r) ==
  /\ At(w, "idle") /\ running /\ r.session = sessionGeneration /\ r.next = None
  /\ r.pc \in MonitorPcs \/ (r.pc = "close" /\ r.kind \in Kinds /\ ~Recovering)

\* A worker goes on: for the same session and component, with the instance it
\* has, none, or a new one.
GoesOn(w, r) ==
  /\ ~At(w, "idle") /\ r.session = job[w].session /\ r.kind = job[w].kind
  /\ r.pc # "close" /\ (r.pc \in RecoverPcs => job[w].pc \in RecoverPcs)
  /\ r.pc = "start" => r.next = None
  /\ r.pc = "apply" /\ r.next # None => Kind[r.next] = r.kind
  /\ r.next \in {job[w].next, None} \/ \A v \in Workers : job[v].next # r.next

WorkerMoves(w) ==
  \E r \in JobType : job' = [job EXCEPT ![w] = r] /\ (r = Idle \/ Begins(w, r) \/ GoesOn(w, r))

\* Sessions change when no worker moves, and get newer; otherwise one worker
\* moves, if any.
Moved ==
  \/ /\ job' = job /\ sessionGeneration' \in Nat
     /\ sessionGeneration' > sessionGeneration \/ UNCHANGED <<sessionGeneration, running>>
  \/ UNCHANGED <<sessionGeneration, running>> /\ \E w \in Workers : WorkerMoves(w)

\* Every step that begins a check or a restart.
LEMMA BeginsMoves ==
  ASSUME TypeOK, NEW w \in Workers,
         RecoverBegin(w) \/ ClassifyBegin(w) \/ ScanBegin(w) \/ TunnelBegin(w)
  PROVE  WorkerMoves(w) /\ UNCHANGED <<sessionGeneration, running>>
<1>0. /\ sessionGeneration \in Nat /\ \A k \in Kinds : slot[k] \in Instances \cup {None}
      /\ UNCHANGED <<sessionGeneration, running>> /\ At(w, "idle") /\ running
  BY DEF TypeOK, RecoverBegin, ClassifyBegin, ScanBegin, TunnelBegin, monitorRest
<1>1. CASE RecoverBegin(w)
  <2> DEFINE f == failedComponent
             r == [Idle EXCEPT !.pc = "close", !.session = sessionGeneration, !.kind = f, !.old = slot[f]]
  <2>1. f \in Kinds
    BY <1>1 DEF RecoverBegin, failedComponent, Kinds
  <2>2. job' = [job EXCEPT ![w] = r] /\ ~Recovering
    BY <1>1 DEF RecoverBegin, Becomes
  <2> HIDE DEF f
  <2>3. r \in JobType /\ r.pc = "close" /\ r.session = sessionGeneration /\ r.next = None /\ r.kind = f
    BY <1>0, <2>1, Zenon DEF Idle, JobType, Pcs, RecoverPcs
  <2> HIDE DEF r
  <2> QED BY <1>0, <2>1, <2>2, <2>3, Zenon DEF WorkerMoves, Begins
<1>2. CASE ClassifyBegin(w)
  <2>1. PICK pc \in {"classify", "retry"} :
          job' = [job EXCEPT ![w] = [Idle EXCEPT !.pc = pc, !.session = sessionGeneration]]
    BY <1>2 DEF ClassifyBegin, Becomes
  <2> DEFINE r == [Idle EXCEPT !.pc = pc, !.session = sessionGeneration]
  <2>2. r \in JobType /\ r.pc \in MonitorPcs /\ r.session = sessionGeneration /\ r.next = None
    BY <1>0, Zenon DEF Idle, JobType, Pcs, MonitorPcs
  <2>3. job' = [job EXCEPT ![w] = r]
    BY <2>1
  <2> HIDE DEF r
  <2> QED BY <1>0, <2>2, <2>3, Zenon DEF WorkerMoves, Begins
<1>3. CASE ScanBegin(w)
  <2> DEFINE r == [Idle EXCEPT !.pc = "scan", !.session = sessionGeneration,
                               !.old = slot["desync"], !.tun = slot["tunnel"]]
  <2>1. slot["desync"] \in Instances \cup {None} /\ slot["tunnel"] \in Instances \cup {None}
    BY <1>0 DEF Kinds
  <2>2. r \in JobType /\ r.pc \in MonitorPcs /\ r.session = sessionGeneration /\ r.next = None
    BY <1>0, <2>1, Zenon DEF Idle, JobType, Pcs, MonitorPcs
  <2>3. job' = [job EXCEPT ![w] = r]
    BY <1>3 DEF ScanBegin, Becomes
  <2> HIDE DEF r
  <2> QED BY <1>0, <2>2, <2>3, Zenon DEF WorkerMoves, Begins
<1>4. CASE TunnelBegin(w)
  <2> DEFINE r == [Idle EXCEPT !.pc = "tunnel", !.session = sessionGeneration, !.tun = slot["tunnel"]]
  <2>1. slot["tunnel"] \in Instances \cup {None}
    BY <1>0 DEF Kinds
  <2>2. r \in JobType /\ r.pc \in MonitorPcs /\ r.session = sessionGeneration /\ r.next = None
    BY <1>0, <2>1, Zenon DEF Idle, JobType, Pcs, MonitorPcs
  <2>3. job' = [job EXCEPT ![w] = r]
    BY <1>4 DEF TunnelBegin, Becomes
  <2> HIDE DEF r
  <2> QED BY <1>0, <2>2, <2>3, Zenon DEF WorkerMoves, Begins
<1> QED BY <1>1, <1>2, <1>3, <1>4, <1>0, Zenon

\* Every step of a worker that is at work.
LEMMA WorksMoves ==
  ASSUME TypeOK, RestartFits, NEW w \in Workers, RecoverStep(w) \/ MonitorStep(w)
  PROVE  WorkerMoves(w) /\ UNCHANGED <<sessionGeneration, running>>
<1>0. Idle \in JobType
  BY DEF Idle, JobType, Pcs
<1>1. CASE Starting(w)
  <2>1. PICK k \in Kinds, r \in JobType : Started(w, k, r)
    BY <1>1, StartingMoves
  <2>2. GoesOn(w, r)
    BY <2>1 DEF Started, GoesOn, RestartFits, At, RecoverPcs
  <2> QED BY <2>1, <2>2, Zenon DEF WorkerMoves, Started, engineVars
<1>2. CASE RecoverClose(w)
  <2>1. PICK r \in JobType :
          /\ Moves(w, r) /\ r # Idle /\ r.session = job[w].session /\ r.kind = job[w].kind
          /\ r.pc \in {"start", "apply"} /\ r.next = job[w].next
    BY <1>2, RecoverCloseMoves
  <2>2. GoesOn(w, r) /\ UNCHANGED <<sessionGeneration, running>>
    BY <1>2, <2>1 DEF RecoverClose, GoesOn, RestartFits, At, RecoverPcs, engineVars
  <2> QED BY <2>1, <2>2, Zenon DEF WorkerMoves, Moves
<1>3. CASE Drops(w) /\ ~At(w, "idle") /\ UNCHANGED <<sessionGeneration, running>>
  <2>1. PICK r \in JobType :
          /\ Moves(w, r)
          /\ r = Idle \/ (r.pc = "drop" /\ r.session = job[w].session /\ r.next = job[w].next)
    BY <1>3, DropsMoves
  <2>2. r = Idle \/ GoesOn(w, r)
    BY <1>3, <2>1 DEF Moves, GoesOn, RecoverPcs
  <2> QED BY <1>3, <2>1, <2>2, Zenon DEF WorkerMoves, Moves
<1>4. CASE Becomes(w, Idle) /\ UNCHANGED <<sessionGeneration, running>>
  BY <1>0, <1>4, Zenon DEF WorkerMoves, Becomes
<1>5. CASE RecoverApply(w)
  BY <1>3, <1>4, <1>5 DEF RecoverApply, At
<1>6. CASE ScanEnd(w)
  <2>1. PICK r \in JobType :
          /\ Moves(w, r)
          /\ r = Idle \/ (r.pc = "winner" /\ r.session = job[w].session /\ r.next = job[w].next)
    BY <1>6, ScanEndMoves
  <2>2. r = Idle \/ GoesOn(w, r)
    BY <1>6, <2>1 DEF Moves, GoesOn, RecoverPcs, ScanEnd, At
  <2> QED BY <1>6, <2>1, <2>2, Zenon DEF WorkerMoves, Moves, ScanEnd, monitorRest
<1>7. CASE VerifyWinner(w) \/ RollbackEnd(w)
  <2>1. PICK r \in JobType :
          /\ Moves(w, r)
          /\ \/ r = Idle
             \/ r.pc = "drop" /\ r.session = job[w].session /\ r.next = job[w].next
             \/ r.pc = "rollback" /\ r.session = job[w].session /\ r.next = None
    BY <1>7, SwapMoves
  <2>2. r = Idle \/ GoesOn(w, r)
    BY <1>7, <2>1 DEF Moves, GoesOn, RecoverPcs, VerifyWinner, RollbackEnd, At
  <2> QED BY <1>7, <2>1, <2>2, Zenon DEF WorkerMoves, Moves, VerifyWinner, RollbackEnd, monitorRest
<1>8. CASE Drop(w) \/ ClassifyEnd(w) \/ TunnelEnd(w)
  BY <1>4, <1>8 DEF Drop, ClassifyEnd, TunnelEnd, monitorRest, engineVars
<1> QED BY <1>1, <1>2, <1>5, <1>6, <1>7, <1>8 DEF RecoverStep, MonitorStep, Starting

\* Every step moves one worker at most, as described.
LEMMA EveryMove == ASSUME TypeOK, RestartFits, [Next]_vars PROVE Moved
<1>1. CASE Start \/ StartFails \/ Stop
  BY <1>1 DEF Start, StartFails, Stop, Moved, TypeOK
<1>2. CASE RecoverGivesUp \/ softRebind \/ UNCHANGED vars
  BY <1>2 DEF RecoverGivesUp, softRebind, vars, engineVars, Moved, TypeOK
<1>3. ASSUME NEW i \in Instances, Exit(i) PROVE Moved
  BY <1>3 DEF Exit, engineVars, Moved, TypeOK
<1>4. ASSUME NEW w \in Workers, RecoverBegin(w) \/ ClassifyBegin(w) \/ ScanBegin(w) \/ TunnelBegin(w)
      PROVE  Moved
  BY <1>4, BeginsMoves DEF Moved
<1>5. ASSUME NEW w \in Workers, RecoverStep(w) \/ MonitorStep(w) PROVE Moved
  BY <1>5, WorksMoves DEF Moved
<1> QED BY <1>1, <1>2, <1>3, <1>4, <1>5 DEF Next

-----------------------------------------------------------------------------
(* Types. *)

\* Every step keeps the workers typed.
LEMMA JobTypeStep == ASSUME TypeOK, RestartFits, [Next]_vars PROVE job' \in [Workers -> JobType]
BY EveryMove DEF Moved, WorkerMoves, TypeOK

\* The instances.
InstancesOK == up \in [Instances -> Nat] /\ unserved \subseteq Instances /\ ipv4Only \subseteq Instances

\* The flags of the engine, and its counters.
FlagsOK ==
  /\ running \in BOOLEAN /\ sessionGeneration \in Nat
  /\ layer \in {None, "dns_only", "fallback", "selective"}
  /\ strategySwitching \in BOOLEAN /\ desyncScan \in Workers \cup {None}
  /\ exits \in Nat /\ rebinds \in Nat

CountsOK == recoveryAttempts \in [Kinds -> 0..recoveryBudget + 1] /\ restarts \in [Kinds -> Nat]

\* Every step keeps the instances typed.
LEMMA InstanceTypeStep == ASSUME IInv, [Next]_vars PROVE InstancesOK'
<1> USE InstanceAssumption, BudgetAssumption
    DEF IInv, TypeOK, SlotsFit, InstancesOK, Kinds, engineVars, instVars, monitorRest
<1>1. CASE Start
  BY <1>1 DEF Start, StartOnlyDNS, StartWithTCP, SessionReset, Replace, Startable
<1>2. CASE StartFails
  BY <1>2 DEF StartFails, SessionReset
<1>3. CASE Stop
  BY <1>3 DEF Stop, Replace
<1>4. ASSUME NEW i \in Instances, Exit(i) PROVE InstancesOK'
  BY <1>4 DEF Exit
<1>5. ASSUME NEW w \in Workers, RecoverBegin(w) PROVE InstancesOK'
  BY <1>5 DEF RecoverBegin, At, Becomes, Idle, MayRestart, failedComponent
<1>6. ASSUME NEW w \in Workers, ClassifyBegin(w) PROVE InstancesOK'
  BY <1>6 DEF ClassifyBegin, At, Becomes, Idle
<1>7. ASSUME NEW w \in Workers, ScanBegin(w) PROVE InstancesOK'
  BY <1>7 DEF ScanBegin, At, Becomes, Idle
<1>8. ASSUME NEW w \in Workers, TunnelBegin(w) PROVE InstancesOK'
  BY <1>8 DEF TunnelBegin, At, Becomes, Idle
<1>9. ASSUME NEW w \in Workers, RecoverClose(w) PROVE InstancesOK'
  BY <1>9 DEF RecoverClose, At, Becomes, Replace
<1>10. ASSUME NEW w \in Workers, Starting(w) PROVE InstancesOK'
  <2>1. PICK k \in Kinds, r \in JobType : Started(w, k, r)
    BY <1>10, StartingMoves
  <2> QED BY <2>1 DEF Started, JobType
<1>11. ASSUME NEW w \in Workers, RecoverApply(w) PROVE InstancesOK'
  BY <1>11 DEF RecoverApply, At, SameSession, Current, Drops, Becomes, Goes, Idle
<1>12. ASSUME NEW w \in Workers, Drop(w) PROVE InstancesOK'
  BY <1>12 DEF Drop, At, Replace, Becomes, Idle
<1>13. ASSUME NEW w \in Workers, ClassifyEnd(w) PROVE InstancesOK'
  <2>1. ASSUME Current(job[w].session), NEW t \in Instances, NEW h \in Instances, LayerStarts(t, h)
        PROVE  InstancesOK'
    BY <2>1 DEF Current, LayerStarts, Replace
  <2>2. CASE LayerFails
    BY <1>13, <2>2 DEF LayerFails
  <2>3. CASE UNCHANGED instVars
    BY <1>13, <2>3
  <2> QED BY <1>13, <2>1, <2>2, <2>3 DEF ClassifyEnd
<1>14. ASSUME NEW w \in Workers, ScanEnd(w) PROVE InstancesOK'
  BY <1>14 DEF ScanEnd, At, Current, Becomes, Idle, ScanStands, Replace
<1>15. ASSUME NEW w \in Workers, VerifyWinner(w) PROVE InstancesOK'
  BY <1>15
    DEF VerifyWinner, At, SwapAbandoned, SwapAdopts, Superseded, Current, Drops, Becomes, Goes, Idle,
    Replace
<1>16. ASSUME NEW w \in Workers, RollbackEnd(w) PROVE InstancesOK'
  BY <1>16
    DEF RollbackEnd, At, SwapAbandoned, SwapAdopts, Superseded, Current, Drops, Becomes, Goes, Idle
<1>17. ASSUME NEW w \in Workers, TunnelEnd(w) PROVE InstancesOK'
  BY <1>17 DEF TunnelEnd, At, Becomes, Idle, RebuildGateway, Superseded, Current, Replace, Startable
<1>18. CASE RecoverGivesUp
  BY <1>18 DEF RecoverGivesUp, JustSpent, failedComponent
<1>19. CASE softRebind
  BY <1>19 DEF softRebind, Replace, Startable
<1>20. CASE UNCHANGED vars
  BY <1>20 DEF vars
<1> HIDE DEF IInv, InstancesOK
<1> QED BY <1>1, <1>2, <1>3, <1>4, <1>5, <1>6, <1>7, <1>8, <1>9, <1>10, <1>11, <1>12, <1>13, <1>14,
    <1>15, <1>16, <1>17, <1>18, <1>19, <1>20, Zenon
    DEF Next, RecoverStep, MonitorStep, Starting

\* Every step keeps the engine's components typed.
LEMMA SlotTypeStep == ASSUME IInv, [Next]_vars PROVE slot' \in [Kinds -> Instances \cup {None}]
<1> USE InstanceAssumption, BudgetAssumption DEF IInv, TypeOK, engineVars, instVars, monitorRest
<1>1. CASE Start
  BY <1>1, Zenon DEF Start, StartOnlyDNS, StartWithTCP, SessionReset
<1>2. CASE StartFails
  BY <1>2 DEF StartFails, SessionReset
<1>3. CASE Stop
  BY <1>3 DEF Stop
<1>4. ASSUME NEW i \in Instances, Exit(i) PROVE slot' \in [Kinds -> Instances \cup {None}]
  BY <1>4 DEF Exit
<1>5. ASSUME NEW w \in Workers, RecoverBegin(w) PROVE slot' \in [Kinds -> Instances \cup {None}]
  BY <1>5 DEF RecoverBegin
<1>6. ASSUME NEW w \in Workers, ClassifyBegin(w) PROVE slot' \in [Kinds -> Instances \cup {None}]
  BY <1>6 DEF ClassifyBegin
<1>7. ASSUME NEW w \in Workers, ScanBegin(w) PROVE slot' \in [Kinds -> Instances \cup {None}]
  BY <1>7 DEF ScanBegin
<1>8. ASSUME NEW w \in Workers, TunnelBegin(w) PROVE slot' \in [Kinds -> Instances \cup {None}]
  BY <1>8 DEF TunnelBegin
<1>9. ASSUME NEW w \in Workers, RecoverClose(w) PROVE slot' \in [Kinds -> Instances \cup {None}]
  BY <1>9 DEF RecoverClose
<1>10. ASSUME NEW w \in Workers, Starting(w) PROVE slot' \in [Kinds -> Instances \cup {None}]
  <2>1. PICK k \in Kinds, r \in JobType : Started(w, k, r)
    BY <1>10, StartingMoves
  <2> QED BY <2>1 DEF Started
<1>11. ASSUME NEW w \in Workers, RecoverApply(w) PROVE slot' \in [Kinds -> Instances \cup {None}]
  <2>1. job[w].next \in Instances \cup {None}
    BY DEF JobType
  <2> QED BY <1>11, <2>1 DEF RecoverApply
<1>12. ASSUME NEW w \in Workers, Drop(w) PROVE slot' \in [Kinds -> Instances \cup {None}]
  BY <1>12 DEF Drop
<1>13. ASSUME NEW w \in Workers, ClassifyEnd(w) PROVE slot' \in [Kinds -> Instances \cup {None}]
  BY <1>13, Zenon DEF ClassifyEnd, LayerFails, LayerStarts
<1>14. ASSUME NEW w \in Workers, ScanEnd(w) PROVE slot' \in [Kinds -> Instances \cup {None}]
  BY <1>14 DEF ScanEnd
<1>15. ASSUME NEW w \in Workers, VerifyWinner(w) PROVE slot' \in [Kinds -> Instances \cup {None}]
  <2>1. job[w].next \in Instances \cup {None}
    BY DEF JobType
  <2> QED BY <1>15, <2>1 DEF VerifyWinner, SwapAbandoned, SwapAdopts
<1>16. ASSUME NEW w \in Workers, RollbackEnd(w) PROVE slot' \in [Kinds -> Instances \cup {None}]
  <2>1. job[w].next \in Instances \cup {None}
    BY DEF JobType
  <2> QED BY <1>16, <2>1 DEF RollbackEnd, SwapAbandoned, SwapAdopts
<1>17. ASSUME NEW w \in Workers, TunnelEnd(w) PROVE slot' \in [Kinds -> Instances \cup {None}]
  BY <1>17, Zenon DEF TunnelEnd, RebuildGateway
<1>18. CASE RecoverGivesUp
  BY <1>18 DEF RecoverGivesUp
<1>19. CASE softRebind
  BY <1>19, Zenon DEF softRebind
<1>20. CASE UNCHANGED vars
  BY <1>20 DEF vars
<1> HIDE DEF IInv
<1> QED BY <1>1, <1>2, <1>3, <1>4, <1>5, <1>6, <1>7, <1>8, <1>9, <1>10, <1>11, <1>12, <1>13, <1>14,
    <1>15, <1>16, <1>17, <1>18, <1>19, <1>20, Zenon
    DEF Next, RecoverStep, MonitorStep, Starting

\* Every step keeps the counts of restarts typed.
LEMMA CountTypeStep == ASSUME IInv, [Next]_vars PROVE CountsOK'
<1> USE InstanceAssumption, BudgetAssumption
    DEF IInv, TypeOK, CountsOK, engineVars, instVars, monitorRest
<1>1. CASE Start
  BY <1>1 DEF Start, StartOnlyDNS, StartWithTCP, SessionReset
<1>2. CASE StartFails
  BY <1>2 DEF StartFails, SessionReset
<1>3. CASE Stop
  BY <1>3 DEF Stop
<1>4. ASSUME NEW i \in Instances, Exit(i) PROVE CountsOK'
  BY <1>4 DEF Exit
<1>5. ASSUME NEW w \in Workers, RecoverBegin(w) PROVE CountsOK'
  <2>1. failedComponent \in Kinds
    BY <1>5 DEF RecoverBegin, failedComponent, Kinds
  <2>2. recoveryAttempts[failedComponent] + 1 \in 0..recoveryBudget + 1
    BY <1>5, <2>1 DEF RecoverBegin, MayRestart
  <2> QED BY <1>5, <2>1, <2>2 DEF RecoverBegin
<1>6. ASSUME NEW w \in Workers, ClassifyBegin(w) PROVE CountsOK'
  BY <1>6 DEF ClassifyBegin
<1>7. ASSUME NEW w \in Workers, ScanBegin(w) PROVE CountsOK'
  BY <1>7 DEF ScanBegin
<1>8. ASSUME NEW w \in Workers, TunnelBegin(w) PROVE CountsOK'
  BY <1>8 DEF TunnelBegin
<1>9. ASSUME NEW w \in Workers, RecoverClose(w) PROVE CountsOK'
  BY <1>9 DEF RecoverClose
<1>10. ASSUME NEW w \in Workers, Starting(w) PROVE CountsOK'
  <2>1. PICK k \in Kinds, r \in JobType : Started(w, k, r)
    BY <1>10, StartingMoves
  <2> QED BY <2>1 DEF Started
<1>11. ASSUME NEW w \in Workers, RecoverApply(w) PROVE CountsOK'
  BY <1>11 DEF RecoverApply
<1>12. ASSUME NEW w \in Workers, Drop(w) PROVE CountsOK'
  BY <1>12 DEF Drop
<1>13. ASSUME NEW w \in Workers, ClassifyEnd(w) PROVE CountsOK'
  BY <1>13 DEF ClassifyEnd, LayerFails, LayerStarts
<1>14. ASSUME NEW w \in Workers, ScanEnd(w) PROVE CountsOK'
  BY <1>14 DEF ScanEnd
<1>15. ASSUME NEW w \in Workers, VerifyWinner(w) PROVE CountsOK'
  BY <1>15 DEF VerifyWinner, SwapAbandoned, SwapAdopts
<1>16. ASSUME NEW w \in Workers, RollbackEnd(w) PROVE CountsOK'
  BY <1>16 DEF RollbackEnd, SwapAbandoned, SwapAdopts
<1>17. ASSUME NEW w \in Workers, TunnelEnd(w) PROVE CountsOK'
  BY <1>17 DEF TunnelEnd, RebuildGateway
<1>18. CASE RecoverGivesUp
  <2>1. failedComponent \in Kinds
    BY <1>18 DEF RecoverGivesUp, failedComponent, Kinds
  <2>2. recoveryAttempts[failedComponent] + 1 \in 0..recoveryBudget + 1
    BY <1>18, <2>1 DEF RecoverGivesUp, JustSpent
  <2> QED BY <1>18, <2>1, <2>2 DEF RecoverGivesUp
<1>19. CASE softRebind
  BY <1>19 DEF softRebind
<1>20. CASE UNCHANGED vars
  BY <1>20 DEF vars
<1> HIDE DEF IInv, CountsOK
<1> QED BY <1>1, <1>2, <1>3, <1>4, <1>5, <1>6, <1>7, <1>8, <1>9, <1>10, <1>11, <1>12, <1>13, <1>14,
    <1>15, <1>16, <1>17, <1>18, <1>19, <1>20, Zenon
    DEF Next, RecoverStep, MonitorStep, Starting

\* Every step keeps the flags typed.
LEMMA FlagTypeStep == ASSUME IInv, [Next]_vars PROVE FlagsOK'
<1> USE InstanceAssumption, BudgetAssumption DEF IInv, TypeOK, FlagsOK, engineVars, instVars, monitorRest
<1>1. CASE Start
  <2>1. strategySwitching' \in BOOLEAN /\ desyncScan' \in Workers \cup {None}
    BY <1>1, Zenon DEF Start, SessionReset
  <2>2. layer' \in {None, "dns_only", "fallback", "selective"}
    BY <1>1, Zenon DEF Start, StartOnlyDNS, StartWithTCP
  <2>3. running' \in BOOLEAN /\ sessionGeneration' \in Nat
    BY <1>1 DEF Start
  <2> QED BY <1>1, <2>1, <2>2, <2>3 DEF Start
<1>2. CASE StartFails
  <2>1. strategySwitching' \in BOOLEAN /\ desyncScan' \in Workers \cup {None}
    BY <1>2, Zenon DEF StartFails, SessionReset
  <2>2. layer' \in {None, "dns_only", "fallback", "selective"}
    BY <1>2 DEF StartFails
  <2>3. running' \in BOOLEAN /\ sessionGeneration' \in Nat
    BY <1>2 DEF StartFails
  <2> QED BY <1>2, <2>1, <2>2, <2>3 DEF StartFails
<1>3. CASE Stop
  <2>1. strategySwitching' \in BOOLEAN /\ desyncScan' \in Workers \cup {None}
    BY <1>3, Zenon DEF Stop
  <2>2. layer' \in {None, "dns_only", "fallback", "selective"}
    BY <1>3 DEF Stop
  <2>3. sessionGeneration' \in Nat
    BY <1>3 DEF Stop
  <2>4. running' \in BOOLEAN
    BY <1>3, Zenon DEF Stop
  <2> QED BY <1>3, <2>1, <2>2, <2>3, <2>4 DEF Stop
<1>4. ASSUME NEW i \in Instances, Exit(i) PROVE FlagsOK'
  BY <1>4 DEF Exit
<1>5. ASSUME NEW w \in Workers, RecoverBegin(w) PROVE FlagsOK'
  BY <1>5 DEF RecoverBegin
<1>6. ASSUME NEW w \in Workers, ClassifyBegin(w) PROVE FlagsOK'
  BY <1>6 DEF ClassifyBegin
<1>7. ASSUME NEW w \in Workers, ScanBegin(w) PROVE FlagsOK'
  BY <1>7 DEF ScanBegin
<1>8. ASSUME NEW w \in Workers, TunnelBegin(w) PROVE FlagsOK'
  BY <1>8 DEF TunnelBegin
<1>9. ASSUME NEW w \in Workers, RecoverClose(w) PROVE FlagsOK'
  BY <1>9 DEF RecoverClose
<1>10. ASSUME NEW w \in Workers, Starting(w) PROVE FlagsOK'
  <2>1. PICK k \in Kinds, r \in JobType : Started(w, k, r)
    BY <1>10, StartingMoves
  <2> QED BY <2>1 DEF Started
<1>11. ASSUME NEW w \in Workers, RecoverApply(w) PROVE FlagsOK'
  BY <1>11, Zenon DEF RecoverApply
<1>12. ASSUME NEW w \in Workers, Drop(w) PROVE FlagsOK'
  BY <1>12 DEF Drop
<1>13. ASSUME NEW w \in Workers, ClassifyEnd(w) PROVE FlagsOK'
  BY <1>13, Zenon DEF ClassifyEnd, LayerFails, LayerStarts
<1>14. ASSUME NEW w \in Workers, ScanEnd(w) PROVE FlagsOK'
  BY <1>14, Zenon DEF ScanEnd
<1>15. ASSUME NEW w \in Workers, VerifyWinner(w) PROVE FlagsOK'
  BY <1>15, Zenon DEF VerifyWinner, SwapAbandoned, SwapAdopts
<1>16. ASSUME NEW w \in Workers, RollbackEnd(w) PROVE FlagsOK'
  BY <1>16, Zenon DEF RollbackEnd, SwapAbandoned, SwapAdopts
<1>17. ASSUME NEW w \in Workers, TunnelEnd(w) PROVE FlagsOK'
  BY <1>17, Zenon DEF TunnelEnd, RebuildGateway
<1>18. CASE RecoverGivesUp
  BY <1>18 DEF RecoverGivesUp
<1>19. CASE softRebind
  BY <1>19 DEF softRebind
<1>20. CASE UNCHANGED vars
  BY <1>20 DEF vars
<1> HIDE DEF IInv, FlagsOK
<1> QED BY <1>1, <1>2, <1>3, <1>4, <1>5, <1>6, <1>7, <1>8, <1>9, <1>10, <1>11, <1>12, <1>13, <1>14,
    <1>15, <1>16, <1>17, <1>18, <1>19, <1>20, Zenon
    DEF Next, RecoverStep, MonitorStep, Starting

-----------------------------------------------------------------------------
(* The invariant: one step per action. *)

\* Every step keeps the workers in the past.
LEMMA PastStep == ASSUME IInv, [Next]_vars PROVE JobsArePast'
<1>1. /\ job \in [Workers -> JobType] /\ sessionGeneration \in Nat /\ JobsArePast /\ JobsArePast /\ Moved
  BY EveryMove DEF IInv, TypeOK
<1>2. CASE job' = job
  BY <1>1, <1>2, SMTT(30) DEF Moved, JobsArePast, At, JobType
<1>3. ASSUME NEW w \in Workers, NEW r \in JobType, UNCHANGED <<sessionGeneration, running>>,
             job' = [job EXCEPT ![w] = r], r = Idle \/ Begins(w, r) \/ GoesOn(w, r)
      PROVE  JobsArePast'
  BY <1>1, <1>3 DEF Begins, GoesOn, Idle, JobsArePast, At, JobType
<1> QED BY <1>1, <1>2, <1>3 DEF Moved, WorkerMoves

\* Every step keeps the resolver of a session, and an empty engine without one.
LEMMA SlotsStep == ASSUME IInv, [Next]_vars PROVE SlotsFit'
<1> USE InstanceAssumption, BudgetAssumption
    DEF IInv, TypeOK, JobType, Pcs, RecoverPcs, MonitorPcs, Kinds, SlotsFit, engineVars, instVars,
    monitorRest
<1>1. CASE Start
  BY <1>1 DEF Start, StartOnlyDNS, StartWithTCP, SessionReset, Replace, Startable
<1>2. CASE StartFails
  BY <1>2 DEF StartFails, SessionReset
<1>3. CASE Stop
  BY <1>3 DEF Stop, Replace
<1>4. ASSUME NEW i \in Instances, Exit(i) PROVE SlotsFit'
  BY <1>4 DEF Exit
<1>5. ASSUME NEW w \in Workers, RecoverBegin(w) PROVE SlotsFit'
  BY <1>5 DEF RecoverBegin, At, Becomes, Idle, MayRestart, failedComponent
<1>6. ASSUME NEW w \in Workers, ClassifyBegin(w) PROVE SlotsFit'
  BY <1>6 DEF ClassifyBegin, At, Becomes, Idle
<1>7. ASSUME NEW w \in Workers, ScanBegin(w) PROVE SlotsFit'
  BY <1>7 DEF ScanBegin, At, Becomes, Idle
<1>8. ASSUME NEW w \in Workers, TunnelBegin(w) PROVE SlotsFit'
  BY <1>8 DEF TunnelBegin, At, Becomes, Idle
<1>9. ASSUME NEW w \in Workers, RecoverClose(w) PROVE SlotsFit'
  BY <1>9 DEF RecoverClose, At, Becomes, Replace
<1>10. ASSUME NEW w \in Workers, Starting(w) PROVE SlotsFit'
  <2>1. PICK k \in Kinds, r \in JobType : Started(w, k, r)
    BY <1>10, StartingMoves
  <2> QED BY <2>1 DEF Started
<1>11. ASSUME NEW w \in Workers, RecoverApply(w) PROVE SlotsFit'
  BY <1>11 DEF RecoverApply, At, SameSession, Current, Drops, Becomes, Goes, Idle
<1>12. ASSUME NEW w \in Workers, Drop(w) PROVE SlotsFit'
  BY <1>12 DEF Drop, At, Replace, Becomes, Idle
<1>13. ASSUME NEW w \in Workers, ClassifyEnd(w) PROVE SlotsFit'
  BY <1>13
    DEF ClassifyEnd, At, Becomes, Idle, Current, TurnsOn, LayerFails, LayerStarts, Replace, Startable
<1>14. ASSUME NEW w \in Workers, ScanEnd(w) PROVE SlotsFit'
  BY <1>14 DEF ScanEnd, At, Current, Becomes, Idle, ScanStands, Replace
<1>15. ASSUME NEW w \in Workers, VerifyWinner(w) PROVE SlotsFit'
  BY <1>15
    DEF VerifyWinner, At, SwapAbandoned, SwapAdopts, Superseded, Current, Drops, Becomes, Goes, Idle,
    Replace
<1>16. ASSUME NEW w \in Workers, RollbackEnd(w) PROVE SlotsFit'
  BY <1>16, Zenon
    DEF RollbackEnd, At, SwapAbandoned, SwapAdopts, Superseded, Current, Drops, Becomes, Goes, Idle
<1>17. ASSUME NEW w \in Workers, TunnelEnd(w) PROVE SlotsFit'
  BY <1>17 DEF TunnelEnd, At, Becomes, Idle, RebuildGateway, Superseded, Current, Replace, Startable
<1>18. CASE RecoverGivesUp
  BY <1>18 DEF RecoverGivesUp, JustSpent, failedComponent
<1>19. CASE softRebind
  BY <1>19 DEF softRebind, Replace, Startable
<1>20. CASE UNCHANGED vars
  BY <1>20 DEF vars
<1> HIDE DEF IInv, SlotsFit
<1> QED BY <1>1, <1>2, <1>3, <1>4, <1>5, <1>6, <1>7, <1>8, <1>9, <1>10, <1>11, <1>12, <1>13, <1>14,
    <1>15, <1>16, <1>17, <1>18, <1>19, <1>20, Zenon
    DEF Next, RecoverStep, MonitorStep, Starting

\* Every step keeps an instance to one starter.
LEMMA OwnStep == ASSUME IInv, [Next]_vars PROVE OwnInstances'
<1>1. /\ job \in [Workers -> JobType] /\ sessionGeneration \in Nat /\ OwnInstances /\ JobsArePast /\ Moved
  BY EveryMove DEF IInv, TypeOK
<1>2. CASE job' = job
  BY <1>1, <1>2, Zenon DEF Moved, OwnInstances
<1>3. ASSUME NEW w \in Workers, NEW r \in JobType, UNCHANGED <<sessionGeneration, running>>,
             job' = [job EXCEPT ![w] = r], r = Idle \/ Begins(w, r) \/ GoesOn(w, r)
      PROVE  OwnInstances'
  BY <1>1, <1>3 DEF Begins, GoesOn, Idle, OwnInstances
<1> QED BY <1>1, <1>2, <1>3 DEF Moved, WorkerMoves

\* Every step keeps the restarts of a session to one.
LEMMA OneRestartStep == ASSUME IInv, [Next]_vars PROVE OneRestart'
<1>1. /\ job \in [Workers -> JobType] /\ sessionGeneration \in Nat /\ OneRestart /\ JobsArePast /\ Moved
  BY EveryMove DEF IInv, TypeOK
<1>2. CASE job' = job
  BY <1>1, <1>2, SMTT(30)
    DEF Moved, OneRestart, Restarts, Recovering, RecoverPcs, MonitorPcs, JobsArePast, At, JobType
<1>3. ASSUME NEW w \in Workers, NEW r \in JobType, UNCHANGED <<sessionGeneration, running>>,
             job' = [job EXCEPT ![w] = r], r = Idle \/ Begins(w, r) \/ GoesOn(w, r)
      PROVE  OneRestart'
  BY <1>1, <1>3
    DEF Begins, GoesOn, Idle, OneRestart, Restarts, Recovering, RecoverPcs, MonitorPcs, JobsArePast, At,
    JobType
<1> QED BY <1>1, <1>2, <1>3 DEF Moved, WorkerMoves

\* Every step keeps to a restart what it has.
LEMMA RestartFitsStep == ASSUME IInv, [Next]_vars PROVE RestartFits'
<1>1. /\ job \in [Workers -> JobType] /\ sessionGeneration \in Nat /\ RestartFits /\ JobsArePast /\ Moved
  BY EveryMove DEF IInv, TypeOK
<1>2. CASE job' = job
  BY <1>1, <1>2, Zenon DEF Moved, RestartFits, RecoverPcs, MonitorPcs, At, JobType
<1>3. ASSUME NEW w \in Workers, NEW r \in JobType, UNCHANGED <<sessionGeneration, running>>,
             job' = [job EXCEPT ![w] = r], r = Idle \/ Begins(w, r) \/ GoesOn(w, r)
      PROVE  RestartFits'
  BY <1>1, <1>3 DEF Begins, GoesOn, Idle, RestartFits, RecoverPcs, MonitorPcs, At, JobType
<1> QED BY <1>1, <1>2, <1>3 DEF Moved, WorkerMoves

\* What the monitor's steps leave alone: the session, the resolver it has, and
\* every restart.  They open no resolver.
Monitor(w) ==
  \/ ClassifyBegin(w) \/ ScanBegin(w) \/ TunnelBegin(w)
  \/ ClassifyEnd(w) \/ ScanEnd(w) \/ VerifyWinner(w) \/ RollbackEnd(w) \/ TunnelEnd(w)

NoResolverOpens ==
  \A i \in Instances : Kind[i] = "dns" \/ slot["dns"] = i => (Open(i)' => Open(i))

MonitorKeeps(w) ==
  /\ sessionGeneration' = sessionGeneration /\ slot'["dns"] = slot["dns"]
  /\ NoResolverOpens
  /\ \A v \in Workers : v # w => job'[v] = job[v]
  /\ job[w].pc \notin RecoverPcs \cup {"drop"} /\ job'[w].pc \notin RecoverPcs

\* The monitor touches neither the resolver nor a restart.
LEMMA MonitorStaysOff ==
  ASSUME IInv, NEW w \in Workers, Monitor(w)
  PROVE  MonitorKeeps(w)
<1>0. /\ job \in [Workers -> JobType] /\ slot \in [Kinds -> Instances \cup {None}]
      /\ up \in [Instances -> Nat] /\ "dns" \in Kinds
  BY Zenon DEF IInv, TypeOK, Kinds
<1>1. sessionGeneration' = sessionGeneration
  BY DEF Monitor, ClassifyBegin, ScanBegin, TunnelBegin, ClassifyEnd, ScanEnd, VerifyWinner, RollbackEnd,
         TunnelEnd, monitorRest
<1>2. slot'["dns"] = slot["dns"] /\ NoResolverOpens
  <2> USE <1>0 DEF Open, NoResolverOpens
  <2>1. CASE ClassifyBegin(w) \/ ScanBegin(w) \/ TunnelBegin(w)
    BY <2>1 DEF ClassifyBegin, ScanBegin, TunnelBegin, instVars
  <2>2. CASE ClassifyEnd(w)
    <3>1. CASE UNCHANGED <<slot, up, unserved>>
      BY <3>1
    <3>2. ASSUME NEW t \in Instances, NEW h \in Instances, LayerStarts(t, h)
          PROVE  slot'["dns"] = slot["dns"] /\ NoResolverOpens
      BY <3>2 DEF LayerStarts, Replace, Startable, Referenced
    <3> QED BY <2>2, <3>1, <3>2 DEF ClassifyEnd, LayerFails, instVars
  <2>3. CASE ScanEnd(w)
    BY <2>3 DEF ScanEnd, Replace
  <2>4. CASE VerifyWinner(w) \/ RollbackEnd(w)
    BY <2>4 DEF VerifyWinner, RollbackEnd, SwapAbandoned, SwapAdopts, Replace
  <2>5. CASE TunnelEnd(w)
    <3>1. CASE UNCHANGED <<slot, up, unserved>>
      BY <3>1
    <3>2. CASE RebuildGateway(w)
      BY <3>2 DEF RebuildGateway, Replace, Startable, Referenced
    <3> QED BY <2>5, <3>1, <3>2 DEF TunnelEnd
  <2> QED BY <2>1, <2>2, <2>3, <2>4, <2>5, Zenon DEF Monitor
<1>3. \E r \in JobType : job' = [job EXCEPT ![w] = r] /\ r.pc \notin RecoverPcs
  <2>1. Idle \in JobType /\ Idle.pc \notin RecoverPcs
    BY DEF Idle, JobType, Pcs, RecoverPcs
  <2>2. CASE ClassifyBegin(w)
    <3>1. \A pc \in {"classify", "retry"} :
            /\ [Idle EXCEPT !.pc = pc, !.session = sessionGeneration].pc \notin RecoverPcs
            /\ [Idle EXCEPT !.pc = pc, !.session = sessionGeneration] \in JobType
      BY Zenon DEF IInv, TypeOK, Idle, JobType, Pcs, MonitorPcs, RecoverPcs
    <3> QED BY <2>2, <3>1, Zenon DEF ClassifyBegin, Becomes
  <2>3. CASE ScanBegin(w)
    <3> DEFINE r == [Idle EXCEPT !.pc = "scan", !.session = sessionGeneration,
                                 !.old = slot["desync"], !.tun = slot["tunnel"]]
    <3>1. r \in JobType /\ r.pc \notin RecoverPcs
      BY <1>0, Zenon DEF IInv, TypeOK, Idle, JobType, Pcs, MonitorPcs, RecoverPcs, Kinds
    <3> QED BY <2>3, <3>1, Zenon DEF ScanBegin, Becomes
  <2>4. CASE TunnelBegin(w)
    <3> DEFINE r == [Idle EXCEPT !.pc = "tunnel", !.session = sessionGeneration, !.tun = slot["tunnel"]]
    <3>1. r \in JobType /\ r.pc \notin RecoverPcs
      BY <1>0, Zenon DEF IInv, TypeOK, Idle, JobType, Pcs, MonitorPcs, RecoverPcs, Kinds
    <3> QED BY <2>4, <3>1, Zenon DEF TunnelBegin, Becomes
  <2>5. CASE ClassifyEnd(w) \/ TunnelEnd(w)
    BY <2>1, <2>5 DEF ClassifyEnd, TunnelEnd, Becomes
  <2>6. CASE ScanEnd(w)
    BY <2>1, <2>6, ScanEndMoves DEF Moves, IInv, RecoverPcs
  <2>7. CASE VerifyWinner(w) \/ RollbackEnd(w)
    BY <2>1, <2>7, SwapMoves, Zenon DEF Moves, IInv, RecoverPcs
  <2> QED BY <2>2, <2>3, <2>4, <2>5, <2>6, <2>7 DEF Monitor
<1>4. job[w].pc \notin RecoverPcs \cup {"drop"}
  BY DEF Monitor, ClassifyBegin, ScanBegin, TunnelBegin, ClassifyEnd, ScanEnd, VerifyWinner, RollbackEnd,
         TunnelEnd, At, RecoverPcs
<1> QED BY <1>0, <1>1, <1>2, <1>3, <1>4 DEF MonitorKeeps

\* A rebind touches neither the resolver nor a restart.
LEMMA RebindStaysOff ==
  ASSUME IInv, softRebind
  PROVE  /\ sessionGeneration' = sessionGeneration /\ slot'["dns"] = slot["dns"]
         /\ NoResolverOpens /\ job' = job
<1> USE DEF IInv, TypeOK, Kinds, Open, NoResolverOpens, instVars
<1>1. CASE UNCHANGED <<slot, instVars>>
  BY <1>1 DEF softRebind
<1>2. ASSUME NEW i \in Instances, Startable("desync", i, {slot["desync"]}),
             slot' = [slot EXCEPT !["desync"] = i], Replace({slot["desync"]}, {i}, sessionGeneration)
      PROVE  slot'["dns"] = slot["dns"] /\ NoResolverOpens
  BY <1>2 DEF Replace, Startable, Referenced
<1>3. CASE slot' = [slot EXCEPT !["desync"] = None] /\ Replace({slot["desync"]}, {}, 0)
  BY <1>3 DEF softRebind, Replace
<1> QED BY <1>1, <1>2, <1>3, Zenon DEF softRebind

\* Every step keeps the resolver that is being replaced closed.
LEMMA ReplacedStep == ASSUME IInv, [Next]_vars PROVE ReplacedIsClosed'
<1> USE InstanceAssumption DEF IInv, TypeOK, Pcs, Kinds, ReplacedIsClosed, Restarts, Open, At
<1>1. CASE Start
  <2>1. job' = job /\ sessionGeneration' = sessionGeneration + 1
    BY <1>1 DEF Start
  <2> QED BY <2>1 DEF JobsArePast, RecoverPcs
<1>2. CASE StartFails
  BY <1>2 DEF StartFails, JobsArePast, RecoverPcs
<1>3. CASE Stop
  <2>1. job' = job /\ sessionGeneration' = sessionGeneration + 1
    BY <1>3 DEF Stop
  <2> QED BY <2>1 DEF JobsArePast, RecoverPcs
<1>4. ASSUME NEW i \in Instances, Exit(i) PROVE ReplacedIsClosed'
  <2>1. up[i] # 0 /\ UNCHANGED <<sessionGeneration, slot, job>>
        /\ \A j \in Instances : j # i => (Open(j)' <=> Open(j))
    BY <1>4 DEF Exit, engineVars
  <2> QED BY <2>1 DEF RecoverPcs
<1>5. ASSUME NEW w \in Workers, RecoverBegin(w) PROVE ReplacedIsClosed'
  BY <1>5, Zenon DEF RecoverBegin, Becomes, Idle, Recovering, instVars, JobType, RecoverPcs
<1>6. ASSUME NEW w \in Workers, Monitor(w) PROVE ReplacedIsClosed'
  BY <1>6, MonitorStaysOff DEF MonitorKeeps, NoResolverOpens
<1>7. ASSUME NEW w \in Workers, RecoverClose(w) PROVE ReplacedIsClosed'
  <2>1. PICK r \in JobType :
            /\ Moves(w, r) /\ r # Idle /\ r.session = job[w].session /\ r.kind = job[w].kind
            /\ r.pc \in {"start", "apply"} /\ r.next = job[w].next
    BY <1>7, RecoverCloseMoves, Zenon
  <2> QED BY <1>7, <2>1 DEF RecoverClose, Moves, Replace, OneRestart, RecoverPcs, engineVars
<1>8. ASSUME NEW w \in Workers, Starting(w) PROVE ReplacedIsClosed'
  <2>1. PICK k \in Kinds, r \in JobType : Started(w, k, r)
    BY <1>8, StartingMoves
  <2> QED BY <2>1 DEF Started, RecoverPcs, engineVars
<1>9. ASSUME NEW w \in Workers, RecoverApply(w) PROVE ReplacedIsClosed'
  BY <1>9, SMTT(30)
    DEF RecoverApply, SameSession, Current, Drops, Becomes, Goes, Idle, RecoverPcs, OneRestart,
              RestartFits, JobType, instVars
<1>10. ASSUME NEW w \in Workers, Drop(w) PROVE ReplacedIsClosed'
  BY <1>10 DEF Drop, Replace, Becomes, Idle, RecoverPcs, engineVars
<1>11. CASE RecoverGivesUp
  BY <1>11 DEF RecoverGivesUp, instVars
<1>12. CASE softRebind
  BY <1>12, RebindStaysOff DEF NoResolverOpens
<1>13. CASE UNCHANGED vars
  BY <1>13 DEF vars, engineVars, instVars
<1> HIDE DEF IInv, ReplacedIsClosed
<1> QED
  BY <1>1, <1>2, <1>3, <1>4, <1>5, <1>6, <1>7, <1>8, <1>9, <1>10, <1>11, <1>12, <1>13
  DEF Next, RecoverStep, MonitorStep, Starting, Monitor

\* Every step keeps a reference to each resolver that is open.
LEMMA OwnedStep == ASSUME IInv, [Next]_vars PROVE ResolverIsOwned'
<1> USE InstanceAssumption DEF IInv, TypeOK, Kinds, ResolverIsOwned, Open, At
<1>1. CASE Start
  <2>1. job' = job /\ slot["dns"] = None
    BY <1>1 DEF Start, SlotsFit
  <2>2. PICK d \in Instances :
          /\ slot'["dns"] = d
          /\ \A i \in Instances : Kind[i] = "dns" /\ Open(i)' => i = d \/ Open(i)
    <3>1. PICK d \in Instances :
            \/ \E l \in {"dns_only", "fallback"} : StartOnlyDNS(d, l)
            \/ \E t, h \in Instances : StartWithTCP(d, t, h)
      BY <1>1 DEF Start
    <3>2. CASE \E l \in {"dns_only", "fallback"} : StartOnlyDNS(d, l)
      BY <3>2 DEF StartOnlyDNS, Replace
    <3>3. ASSUME NEW t \in Instances, NEW h \in Instances, StartWithTCP(d, t, h)
          PROVE  slot'["dns"] = d /\ \A i \in Instances : Kind[i] = "dns" /\ Open(i)' => i = d \/ Open(i)
      BY <3>3 DEF StartWithTCP, Startable, Replace
    <3> QED BY <3>1, <3>2, <3>3
  <2> QED BY <2>1, <2>2
<1>2. CASE StartFails
  BY <1>2 DEF StartFails, instVars
<1>3. CASE Stop
  BY <1>3 DEF Stop, Replace
<1>4. ASSUME NEW i \in Instances, Exit(i) PROVE ResolverIsOwned'
  BY <1>4 DEF Exit, engineVars
<1>5. ASSUME NEW w \in Workers, RecoverBegin(w) PROVE ResolverIsOwned'
  BY <1>5, Zenon DEF RecoverBegin, Becomes, Idle, instVars
<1>6. ASSUME NEW w \in Workers, Monitor(w) PROVE ResolverIsOwned'
  BY <1>6, MonitorStaysOff DEF MonitorKeeps, NoResolverOpens, RecoverPcs
<1>7. ASSUME NEW w \in Workers, RecoverClose(w) PROVE ResolverIsOwned'
  BY <1>7, SMTT(30) DEF RecoverClose, Becomes, Replace, engineVars
<1>8. ASSUME NEW w \in Workers, Starting(w) PROVE ResolverIsOwned'
  <2>1. PICK k \in Kinds, r \in JobType : Started(w, k, r)
    BY <1>8, StartingMoves
  <2> SUFFICES ASSUME NEW i \in Instances, Kind[i] = "dns", Open(i)'
               PROVE  \/ slot'["dns"] = i
                      \/ \E v \in Workers : job'[v].next = i /\ job'[v].pc \in {"apply", "drop"}
    BY Zenon DEF ResolverIsOwned
  <2>2. CASE Open(i)
    BY <2>1, <2>2, Zenon DEF Started, engineVars
  <2>3. CASE ~Open(i)
    <3>1. r.next = i /\ r.pc = "apply"
      BY <2>1, <2>3 DEF Started
    <3> QED BY <2>1, <3>1, SMTT(30) DEF Started
  <2> QED BY <2>2, <2>3
<1>9. ASSUME NEW w \in Workers, RecoverApply(w) PROVE ResolverIsOwned'
  BY <1>9 DEF RecoverApply, SameSession, Current, Drops, Becomes, Goes, Idle, RestartFits, SlotsFit,
              ReplacedIsClosed, Restarts, RecoverPcs, JobType, instVars
<1>10. ASSUME NEW w \in Workers, Drop(w) PROVE ResolverIsOwned'
  <2>1. /\ slot' = slot /\ \A v \in Workers : v # w => job'[v] = job[v]
        /\ \A i \in Instances : Open(i)' => Open(i) /\ i # job[w].next
    BY <1>10 DEF Drop, Replace, Becomes, engineVars
  <2> QED BY <2>1
<1>11. CASE RecoverGivesUp
  BY <1>11 DEF RecoverGivesUp, instVars
<1>12. CASE softRebind
  BY <1>12, RebindStaysOff DEF NoResolverOpens
<1>13. CASE UNCHANGED vars
  BY <1>13 DEF vars, engineVars, instVars
<1> HIDE DEF IInv, ResolverIsOwned
<1> QED
  BY <1>1, <1>2, <1>3, <1>4, <1>5, <1>6, <1>7, <1>8, <1>9, <1>10, <1>11, <1>12, <1>13, Zenon
  DEF Next, RecoverStep, MonitorStep, Starting, Monitor

\* Every step keeps helper and gateway from running while protection is off.
LEMMA NoProcessStep == ASSUME IInv, [Next]_vars PROVE StoppedMeansNoProcess'
<1> USE InstanceAssumption, BudgetAssumption
    DEF IInv, TypeOK, JobType, Pcs, RecoverPcs, MonitorPcs, Kinds, StoppedMeansNoProcess, JobsArePast,
    At, engineVars, instVars, monitorRest
<1>1. CASE Start
  BY <1>1 DEF Start, StartOnlyDNS, StartWithTCP, SessionReset, Replace, Startable
<1>2. CASE StartFails
  BY <1>2 DEF StartFails, SessionReset
<1>3. CASE Stop
  BY <1>3 DEF Stop, Replace
<1>4. ASSUME NEW i \in Instances, Exit(i) PROVE StoppedMeansNoProcess'
  BY <1>4 DEF Exit
<1>5. ASSUME NEW w \in Workers, RecoverBegin(w) PROVE StoppedMeansNoProcess'
  BY <1>5 DEF RecoverBegin, At, Becomes, Idle, MayRestart, failedComponent
<1>6. ASSUME NEW w \in Workers, ClassifyBegin(w) PROVE StoppedMeansNoProcess'
  BY <1>6 DEF ClassifyBegin, At, Becomes, Idle
<1>7. ASSUME NEW w \in Workers, ScanBegin(w) PROVE StoppedMeansNoProcess'
  BY <1>7 DEF ScanBegin, At, Becomes, Idle
<1>8. ASSUME NEW w \in Workers, TunnelBegin(w) PROVE StoppedMeansNoProcess'
  BY <1>8 DEF TunnelBegin, At, Becomes, Idle
<1>9. ASSUME NEW w \in Workers, RecoverClose(w) PROVE StoppedMeansNoProcess'
  BY <1>9, Zenon DEF RecoverClose, At, Becomes, Replace
<1>10. ASSUME NEW w \in Workers, Starting(w) PROVE StoppedMeansNoProcess'
  <2>1. PICK k \in Kinds, r \in JobType : Started(w, k, r)
    BY <1>10, StartingMoves
  <2> QED BY <2>1, SMTT(30) DEF Started
<1>11. ASSUME NEW w \in Workers, RecoverApply(w) PROVE StoppedMeansNoProcess'
  BY <1>11, Zenon DEF RecoverApply, At, SameSession, Current, Drops, Becomes, Goes, Idle
<1>12. ASSUME NEW w \in Workers, Drop(w) PROVE StoppedMeansNoProcess'
  BY <1>12, Zenon DEF Drop, At, Replace, Becomes, Idle
<1>13. ASSUME NEW w \in Workers, ClassifyEnd(w) PROVE StoppedMeansNoProcess'
  BY <1>13
    DEF ClassifyEnd, At, Becomes, Idle, Current, TurnsOn, LayerFails, LayerStarts, Replace, Startable
<1>14. ASSUME NEW w \in Workers, ScanEnd(w) PROVE StoppedMeansNoProcess'
  BY <1>14 DEF ScanEnd, At, Current, Becomes, Idle, ScanStands, Replace
<1>15. ASSUME NEW w \in Workers, VerifyWinner(w) PROVE StoppedMeansNoProcess'
  BY <1>15
    DEF VerifyWinner, At, SwapAbandoned, SwapAdopts, Superseded, Current, Drops, Becomes, Goes, Idle,
    Replace
<1>16. ASSUME NEW w \in Workers, RollbackEnd(w) PROVE StoppedMeansNoProcess'
  BY <1>16, Zenon
    DEF RollbackEnd, At, SwapAbandoned, SwapAdopts, Superseded, Current, Drops, Becomes, Goes, Idle
<1>17. ASSUME NEW w \in Workers, TunnelEnd(w) PROVE StoppedMeansNoProcess'
  BY <1>17, Zenon
    DEF TunnelEnd, At, Becomes, Idle, RebuildGateway, Superseded, Current, Replace, Startable
<1>18. CASE RecoverGivesUp
  BY <1>18, Zenon DEF RecoverGivesUp, JustSpent, failedComponent
<1>19. CASE softRebind
  BY <1>19 DEF softRebind, Replace, Startable
<1>20. CASE UNCHANGED vars
  BY <1>20 DEF vars
<1> HIDE DEF IInv, StoppedMeansNoProcess
<1> QED BY <1>1, <1>2, <1>3, <1>4, <1>5, <1>6, <1>7, <1>8, <1>9, <1>10, <1>11, <1>12, <1>13, <1>14,
    <1>15, <1>16, <1>17, <1>18, <1>19, <1>20, Zenon
    DEF Next, RecoverStep, MonitorStep, Starting

\* Every step counts the restarts it begins.
LEMMA CountedStep == ASSUME IInv, [Next]_vars PROVE RestartsAreCounted'
<1> USE InstanceAssumption, BudgetAssumption
    DEF IInv, TypeOK, JobType, Pcs, RecoverPcs, MonitorPcs, Kinds, RestartsAreCounted, RestartFits,
    engineVars, instVars, monitorRest
<1>1. CASE Start
  BY <1>1 DEF Start, StartOnlyDNS, StartWithTCP, SessionReset, Replace, Startable
<1>2. CASE StartFails
  BY <1>2 DEF StartFails, SessionReset
<1>3. CASE Stop
  BY <1>3 DEF Stop, Replace
<1>4. ASSUME NEW i \in Instances, Exit(i) PROVE RestartsAreCounted'
  BY <1>4 DEF Exit
<1>5. ASSUME NEW w \in Workers, RecoverBegin(w) PROVE RestartsAreCounted'
  BY <1>5 DEF RecoverBegin, At, Becomes, Idle, MayRestart, failedComponent
<1>6. ASSUME NEW w \in Workers, ClassifyBegin(w) PROVE RestartsAreCounted'
  BY <1>6 DEF ClassifyBegin, At, Becomes, Idle
<1>7. ASSUME NEW w \in Workers, ScanBegin(w) PROVE RestartsAreCounted'
  BY <1>7 DEF ScanBegin, At, Becomes, Idle
<1>8. ASSUME NEW w \in Workers, TunnelBegin(w) PROVE RestartsAreCounted'
  BY <1>8 DEF TunnelBegin, At, Becomes, Idle
<1>9. ASSUME NEW w \in Workers, RecoverClose(w) PROVE RestartsAreCounted'
  BY <1>9, Zenon DEF RecoverClose, At, Becomes, Replace
<1>10. ASSUME NEW w \in Workers, Starting(w) PROVE RestartsAreCounted'
  <2>1. PICK k \in Kinds, r \in JobType : Started(w, k, r)
    BY <1>10, StartingMoves
  <2> QED BY <2>1, Zenon DEF Started
<1>11. ASSUME NEW w \in Workers, RecoverApply(w) PROVE RestartsAreCounted'
  BY <1>11, Zenon DEF RecoverApply, At, SameSession, Current, Drops, Becomes, Goes, Idle
<1>12. ASSUME NEW w \in Workers, Drop(w) PROVE RestartsAreCounted'
  BY <1>12, Zenon DEF Drop, At, Replace, Becomes, Idle
<1>13. ASSUME NEW w \in Workers, ClassifyEnd(w) PROVE RestartsAreCounted'
  BY <1>13
    DEF ClassifyEnd, At, Becomes, Idle, Current, TurnsOn, LayerFails, LayerStarts, Replace, Startable
<1>14. ASSUME NEW w \in Workers, ScanEnd(w) PROVE RestartsAreCounted'
  BY <1>14 DEF ScanEnd, At, Current, Becomes, Idle, ScanStands, Replace
<1>15. ASSUME NEW w \in Workers, VerifyWinner(w) PROVE RestartsAreCounted'
  BY <1>15
    DEF VerifyWinner, At, SwapAbandoned, SwapAdopts, Superseded, Current, Drops, Becomes, Goes, Idle,
    Replace
<1>16. ASSUME NEW w \in Workers, RollbackEnd(w) PROVE RestartsAreCounted'
  BY <1>16, Zenon
    DEF RollbackEnd, At, SwapAbandoned, SwapAdopts, Superseded, Current, Drops, Becomes, Goes, Idle
<1>17. ASSUME NEW w \in Workers, TunnelEnd(w) PROVE RestartsAreCounted'
  BY <1>17, Zenon
    DEF TunnelEnd, At, Becomes, Idle, RebuildGateway, Superseded, Current, Replace, Startable
<1>18. CASE RecoverGivesUp
  BY <1>18, SMTT(30) DEF RecoverGivesUp, JustSpent, failedComponent
<1>19. CASE softRebind
  BY <1>19 DEF softRebind, Replace, Startable
<1>20. CASE UNCHANGED vars
  BY <1>20 DEF vars
<1> HIDE DEF IInv, RestartsAreCounted
<1> QED BY <1>1, <1>2, <1>3, <1>4, <1>5, <1>6, <1>7, <1>8, <1>9, <1>10, <1>11, <1>12, <1>13, <1>14,
    <1>15, <1>16, <1>17, <1>18, <1>19, <1>20, Zenon
    DEF Next, RecoverStep, MonitorStep, Starting

\* Every step adopts only what a worker of the current session started.
LEMMA AdoptStep == ASSUME IInv, Next PROVE AdoptsOwn
<1> USE InstanceAssumption, BudgetAssumption
    DEF IInv, TypeOK, OwnInstances, SlotsFit, AdoptsOwn, Referenced, engineVars, instVars, monitorRest
<1>1. CASE Start
  BY <1>1 DEF Start, StartOnlyDNS, StartWithTCP, SessionReset, Replace, Startable
<1>2. CASE StartFails
  BY <1>2 DEF StartFails, SessionReset
<1>3. CASE Stop
  BY <1>3 DEF Stop, Replace
<1>4. ASSUME NEW i \in Instances, Exit(i) PROVE AdoptsOwn
  BY <1>4 DEF Exit
<1>5. ASSUME NEW w \in Workers, RecoverBegin(w) PROVE AdoptsOwn
  BY <1>5 DEF RecoverBegin, At, Becomes, Idle, MayRestart, failedComponent
<1>6. ASSUME NEW w \in Workers, ClassifyBegin(w) PROVE AdoptsOwn
  BY <1>6 DEF ClassifyBegin, At, Becomes, Idle
<1>7. ASSUME NEW w \in Workers, ScanBegin(w) PROVE AdoptsOwn
  BY <1>7 DEF ScanBegin, At, Becomes, Idle
<1>8. ASSUME NEW w \in Workers, TunnelBegin(w) PROVE AdoptsOwn
  BY <1>8 DEF TunnelBegin, At, Becomes, Idle
<1>9. ASSUME NEW w \in Workers, RecoverClose(w) PROVE AdoptsOwn
  BY <1>9, Zenon DEF RecoverClose, At, Becomes, Replace
<1>10. ASSUME NEW w \in Workers, Starting(w) PROVE AdoptsOwn
  <2>1. PICK k \in Kinds, r \in JobType : Started(w, k, r)
    BY <1>10, StartingMoves
  <2> QED BY <2>1 DEF Started
<1>11. ASSUME NEW w \in Workers, RecoverApply(w) PROVE AdoptsOwn
  BY <1>11, Zenon DEF RecoverApply, At, SameSession, Current, Drops, Becomes, Goes, Idle
<1>12. ASSUME NEW w \in Workers, Drop(w) PROVE AdoptsOwn
  BY <1>12, Zenon DEF Drop, At, Replace, Becomes, Idle
<1>13. ASSUME NEW w \in Workers, ClassifyEnd(w) PROVE AdoptsOwn
  BY <1>13
    DEF ClassifyEnd, At, Becomes, Idle, Current, TurnsOn, LayerFails, LayerStarts, Replace, Startable
<1>14. ASSUME NEW w \in Workers, ScanEnd(w) PROVE AdoptsOwn
  BY <1>14 DEF ScanEnd, At, Current, Becomes, Idle, ScanStands, Replace
<1>15. ASSUME NEW w \in Workers, VerifyWinner(w) PROVE AdoptsOwn
  BY <1>15
    DEF VerifyWinner, At, SwapAbandoned, SwapAdopts, Superseded, Current, Drops, Becomes, Goes, Idle,
    Replace
<1>16. ASSUME NEW w \in Workers, RollbackEnd(w) PROVE AdoptsOwn
  BY <1>16, Zenon
    DEF RollbackEnd, At, SwapAbandoned, SwapAdopts, Superseded, Current, Drops, Becomes, Goes, Idle
<1>17. ASSUME NEW w \in Workers, TunnelEnd(w) PROVE AdoptsOwn
  BY <1>17, Zenon
    DEF TunnelEnd, At, Becomes, Idle, RebuildGateway, Superseded, Current, Replace, Startable
<1>18. CASE RecoverGivesUp
  BY <1>18, Zenon DEF RecoverGivesUp, JustSpent, failedComponent
<1>19. CASE softRebind
  BY <1>19 DEF softRebind, Replace, Startable
<1> HIDE DEF IInv, AdoptsOwn
<1> QED BY <1>1, <1>2, <1>3, <1>4, <1>5, <1>6, <1>7, <1>8, <1>9, <1>10, <1>11, <1>12, <1>13, <1>14,
    <1>15, <1>16, <1>17, <1>18, <1>19, Zenon
    DEF Next, RecoverStep, MonitorStep, Starting

-----------------------------------------------------------------------------
(* The theorems. *)

\* The engine begins with protection off, nothing started and no worker.
LEMMA InitIInv == Init => IInv
<1> SUFFICES ASSUME Init PROVE IInv
  OBVIOUS
<1> USE InstanceAssumption, BudgetAssumption DEF Init
<1>1. job \in [Workers -> JobType] /\ \A w \in Workers : job[w].pc = "idle" /\ job[w].next = None
  <2>1. Idle \in JobType /\ Idle.pc = "idle" /\ Idle.next = None
    BY DEF Idle, JobType, Pcs
  <2> QED BY <2>1
<1>2. TypeOK
  <2>1. InstancesOK /\ slot \in [Kinds -> Instances \cup {None}]
    BY DEF InstancesOK
  <2>2. CountsOK
    BY DEF CountsOK
  <2>3. FlagsOK
    BY Zenon DEF FlagsOK
  <2> QED BY <1>1, <2>1, <2>2, <2>3 DEF TypeOK, InstancesOK, CountsOK, FlagsOK
<1>3. JobsArePast /\ OwnInstances /\ OneRestart /\ RestartFits /\ ReplacedIsClosed
  BY <1>1
    DEF JobsArePast, OwnInstances, OneRestart, Restarts, RestartFits, ReplacedIsClosed, At, RecoverPcs
<1>4. SlotsFit /\ ResolverIsOwned /\ StoppedMeansNoProcess
  BY DEF SlotsFit, ResolverIsOwned, Open, StoppedMeansNoProcess
<1>5. RestartsAreCounted
  BY DEF RestartsAreCounted
<1> QED BY <1>2, <1>3, <1>4, <1>5 DEF IInv

\* The inductive invariant holds in every state of the engine and its workers.
LEMMA Invariance == Spec => []IInv
<1>1. ASSUME IInv, [Next]_vars PROVE TypeOK'
  BY <1>1, JobTypeStep, InstanceTypeStep, SlotTypeStep, CountTypeStep, FlagTypeStep
     DEF IInv, TypeOK, InstancesOK, CountsOK, FlagsOK
<1>2. IInv /\ [Next]_vars => IInv'
  BY <1>1, PastStep, SlotsStep, OwnStep, OneRestartStep, RestartFitsStep, ReplacedStep, OwnedStep,
     NoProcessStep, CountedStep DEF IInv
<1> QED BY <1>2, InitIInv, PTL DEF Spec

\* The engine, its components and its workers keep their types; no count of
\* restarts runs past the budget by more than the one step that reports it.
THEOREM ComponentsTyped == Spec => []TypeOK
<1>1. IInv => TypeOK
  BY DEF IInv
<1> QED BY <1>1, Invariance, PTL

\* For any number of workers, sessions and exits, a resolver that holds the port
\* or the DNS settings is the session's, or a worker's that will hand it over or
\* close it (recoverComponent).
THEOREM ResolverIsNeverLost == Spec => []ResolverIsOwned
<1>1. IInv => ResolverIsOwned
  BY DEF IInv
<1> QED BY <1>1, Invariance, PTL

\* With protection off no helper and no gateway runs, whatever workers were
\* starting one when Stop cancelled the session's context (stopLocked).
THEOREM StopEndsProcesses == Spec => []StoppedMeansNoProcess
<1>1. IInv => StoppedMeansNoProcess
  BY DEF IInv
<1> QED BY <1>1, Invariance, PTL

\* recoverComponent keeps to its budget in every session, for any budget.
THEOREM BudgetIsKept == Spec => []RestartsWithinBudget
<1>1. IInv => RestartsWithinBudget
  BY DEF IInv, RestartsAreCounted, RestartsWithinBudget
<1> QED BY <1>1, Invariance, PTL

\* No step adopts what a worker of another session started, however many Stops
\* and Starts overtook the worker (recoverComponent, "Late sessions are closed
\* rather than adopted").
THEOREM LateIsClosed == Spec => LateNeverAdopted
<1>1. IInv /\ [Next]_vars => [AdoptsOwn]_vars
  BY AdoptStep
<1> QED BY <1>1, Invariance, PTL DEF Spec, LateNeverAdopted

=============================================================================

------------------------------ MODULE Strategy ------------------------------
(***************************************************************************)
(* The strategy of the local helper: the candidates, the scan that tries   *)
(* them with isolated helpers, the verification of the winner with the     *)
(* real helper and the gateway, the store that keeps it for a network in a *)
(* file, and the starts that deploy what the store has.                    *)
(*                                                                         *)
(* A strategy is a list of arguments.  It is tried and deployed behind an  *)
(* untouched first group (PassThroughFirst) and stored without it.         *)
(***************************************************************************)
EXTENDS Naturals, Sequences, FiniteSets

CONSTANTS Native,       \* NativeScanCandidates; the first is the safe default
          Specs,        \* the strategies of the signed ruleset
          Darwin,       \* BOOLEAN: the TTL operations are not supported
          Workers,      \* trial helpers of a scan
          Networks,     \* network identities
          None,
          Controls, Quorum,  \* control hosts of a trial, and how many must open
          MaxSessions, MaxScans, MaxRepairs  \* bounds

ASSUME StrategyAssumption ==
  /\ Native \in Seq([id : STRING, pass : BOOLEAN, args : Seq(STRING)]) /\ Native # <<>>
  /\ Specs \in Seq([id : STRING, here : BOOLEAN, args : Seq(STRING)])
  /\ Darwin \in BOOLEAN /\ Workers # {} /\ Controls \in Nat /\ Quorum \in 1..Controls
  /\ MaxSessions \in Nat /\ MaxScans \in Nat /\ MaxRepairs \in Nat

VARIABLES
  on,         \* the engine runs a session with the helper
  session,    \* Engine.sessionGeneration
  network,    \* the identity the policy store holds
  helper,     \* Engine.desyncConfig: the strategy of the helper, or None
  store,      \* Engine.strategyStore: a map of networks, or None
  disk,       \* its file: a map of networks, or None
  scan,       \* recoverDesyncStrategySession: how far, for which session
  trial,      \* the workers of the scan
  feed,       \* the producer: the next candidate, 0 when it has closed the jobs
  budget,     \* the context of the scan
  best,       \* the first candidate received that passed
  same,       \* e.des = original and e.tun = dataplane
  proved,     \* history: strategies whose trial opened the canary and the quorum
  verified,   \* history: strategies the real helper and the gateway verified
  tried,      \* history: candidates whose trial ended
  repairs, scans, kept  \* repairs and scans so far; the last repair failed to delete

scanVars  == <<scan, trial, feed, budget, best, tried>>
storeVars == <<store, disk>>
countVars == <<repairs, scans, kept>>
vars      == <<on, session, network, helper, storeVars, scanVars, same, proved, verified, countVars>>

-----------------------------------------------------------------------------
(* chain.go: the arguments. *)

\* The elements of s at the indices in I, in order.
Pick(s, I) == [k \in 1..Cardinality(I) |-> s[CHOOSE i \in I : Cardinality({j \in I : j <= i}) = k]]

Name(arg) == IF arg = "--timeout=3" THEN "--timeout" ELSE arg
Inline(arg) == arg = "--timeout=3"

\* Process-wide options, the ones that take a value, and all a ruleset may use.
Global   == {"--no-domain", "--timeout"}
Flags    == {"--split", "--tlsrec", "--auto", "--oob", "--ttl", "--timeout", "--no-domain"}
Valued   == Flags \ {"--no-domain"}
Values   == {"1", "3", "1+s", "torst", "torst,ssl_err"}
TTLFlags == {"--ttl", "--timeout"}

\* What each argument is: a process-wide flag, its value, or part of a group.
GlobalKinds(args) ==
  LET kind[i \in DOMAIN args] ==
        IF i > 1 /\ kind[i - 1] = "takes" THEN "value"
        ELSE IF Name(args[i]) \notin Global THEN "group"
        ELSE IF Name(args[i]) \in Valued /\ ~Inline(args[i]) THEN "takes"
        ELSE "flag"
  IN  kind

PassThroughFirst(s) ==
  LET kind   == GlobalKinds(s.args)
      groups == {i \in DOMAIN s.args : kind[i] = "group"}
  IN  IF s.pass \/ groups = {} THEN s
      ELSE [id |-> s.id, pass |-> TRUE,
            args |-> Pick(s.args, DOMAIN s.args \ groups)
                       \o <<"--auto", "torst,ssl_err">> \o Pick(s.args, groups)]

PassThroughAt(args) ==
  {i \in DOMAIN args : i < Len(args) /\ args[i] = "--auto" /\ args[i + 1] = "torst,ssl_err"}

\* Variant: the last such group is taken out, which may be the strategy's own.
strategyForCacheLast(s) ==
  LET at == PassThroughAt(s.args)
      i  == CHOOSE j \in at : \A k \in at : k <= j
  IN  IF ~s.pass \/ at = {} THEN s
      ELSE [id |-> s.id, pass |-> FALSE, args |-> Pick(s.args, DOMAIN s.args \ {i, i + 1})]

strategyForCache(s) ==
  LET at == PassThroughAt(s.args)
      i  == CHOOSE j \in at : \A k \in at : j <= k
  IN  IF ~s.pass \/ at = {} THEN s
      ELSE [id |-> s.id, pass |-> FALSE, args |-> Pick(s.args, DOMAIN s.args \ {i, i + 1})]

UsableOnOS(s) == ~Darwin \/ \A i \in DOMAIN s.args : Name(s.args[i]) \notin TTLFlags

\* Flags from the list, each with its value where it takes one.
ValidateStrategyArgs(args) ==
  LET value[i \in DOMAIN args] ==  \* argument i is the value of the one before
        /\ i > 1 /\ ~value[i - 1]
        /\ args[i - 1] \in Valued
  IN  /\ args # <<>>
      /\ \A i \in DOMAIN args :
           IF value[i] THEN args[i] \in Values
           ELSE /\ Name(args[i]) \in Flags
                /\ args[i] \in Valued => i < Len(args)
      /\ UsableOnOS([args |-> args])

\* The strategy of a signed entry, with the process-wide options of the others.
FromSpec(spec) ==
  LET timed == \E i \in DOMAIN spec.args : Name(spec.args[i]) = "--timeout"
  IN  [id |-> spec.id, pass |-> FALSE,
       args |-> <<"--no-domain">> \o (IF Darwin \/ timed THEN <<>> ELSE <<"--timeout", "3">>) \o spec.args]

\* CandidatesFrom and MergeCandidates: entries that are valid and for this
\* system, after the built-in ones; the first of each name.
CandidatesFrom ==
  LET ok   == {i \in DOMAIN Specs : Specs[i].here /\ ValidateStrategyArgs(Specs[i].args)}
      all  == Native \o [i \in 1..Cardinality(ok) |-> FromSpec(Pick(Specs, ok)[i])]
  IN  Pick(all, {i \in DOMAIN all : \A j \in 1..(i - 1) : all[j].id # all[i].id})

\* What a scan tries: not the strategy in use, and as it would be deployed.
Candidates(skip) ==
  LET use == {i \in DOMAIN CandidatesFrom : CandidatesFrom[i].id # skip}
  IN  [i \in 1..Cardinality(use) |-> PassThroughFirst(Pick(CandidatesFrom, use)[i])]

Default == PassThroughFirst(Native[1])

-----------------------------------------------------------------------------
(* State. *)

Ids == {CandidatesFrom[i].id : i \in DOMAIN CandidatesFrom}

CandidatesOf == [id \in Ids |-> Candidates(id)]

Empty   == [n \in Networks |-> None]
NoTrial == [pc |-> "none", at |-> 0, proc |-> FALSE]
NoScan  == [pc |-> "idle", session |-> 0, skip |-> None, since |-> 0]

\* A strategy in use or in the store, with the number of repairs before it was
\* learned.
Learned(s, since) == [strategy |-> s, since |-> since]

Cands == CandidatesOf[scan.skip]

Current(s) == on /\ session = s

Init ==
  /\ on = FALSE /\ session = 0 /\ network \in Networks
  /\ helper = None
  /\ store = None /\ disk = None
  /\ scan = NoScan /\ trial = [w \in Workers |-> NoTrial] /\ feed = 0
  /\ budget = "over" /\ best = None /\ tried = {} /\ same = TRUE
  /\ proved = {} /\ verified = {}
  /\ repairs = 0 /\ scans = 0 /\ kept = FALSE

-----------------------------------------------------------------------------
(* strategy_store.go. *)

\* saveLocked: a temporary file is renamed over the old one, so that the file is
\* the old or the new one if it fails, or if the process dies in between.
Save(next) == store' = next /\ disk' \in {disk, next}

\* OpenStrategyStore: the file, an empty store if there is none, or none at all
\* if the file cannot be read.
Opened == IF store # None THEN {store} ELSE {None, IF disk = None THEN Empty ELSE disk}

\* Lookup of the strategy a session starts with; an entry past its time is
\* deleted, and the file saved.
Lookup(st, n) ==
  LET entry == IF st = None THEN None ELSE st[n]
      start == IF entry # None /\ UsableOnOS(entry.strategy)
               THEN Learned(PassThroughFirst(entry.strategy), entry.since)
               ELSE Learned(Default, repairs)
  IN  \/ store' = st /\ UNCHANGED disk /\ helper' = start
      \/ entry # None /\ Save([st EXCEPT ![n] = None]) /\ helper' = Learned(Default, repairs)

\* Put: what was verified is stored for the identity the policy holds now.
Put(s, since) ==
  IF store = None THEN UNCHANGED storeVars
  ELSE Save([store EXCEPT ![network] = Learned(strategyForCache(s), since)])

-----------------------------------------------------------------------------
(* The engine. *)

Start ==
  /\ ~on /\ session < MaxSessions
  /\ on' = TRUE /\ session' = session + 1
  /\ network' \in Networks
  /\ \E st \in Opened : Lookup(st, network')
  /\ UNCHANGED <<scanVars, same, proved, verified, countVars>>

\* The context of the session ends, and with it the budget of its scan.
Ended == budget' = IF scan.session = session THEN "over" ELSE budget

Stop ==
  /\ on /\ on' = FALSE /\ helper' = None
  /\ Ended
  /\ UNCHANGED <<session, network, storeVars, scan, trial, feed, best, tried, same,
                 proved, verified, countVars>>

\* Engine.Repair: the session ends, ClearLearnedState deletes the file or fails
\* to, and the store is dropped.
Repair ==
  /\ repairs < MaxRepairs /\ repairs' = repairs + 1
  /\ on' = FALSE /\ helper' = None /\ Ended
  /\ store' = None
  /\ \/ disk' = None /\ kept' = FALSE
     \/ disk' = disk /\ kept' = (disk # None)
  /\ UNCHANGED <<session, network, scan, trial, feed, best, tried, same, proved, verified, scans>>

\* The process dies, and the helpers of its job with it.
Crash ==
  /\ on /\ on' = FALSE /\ helper' = None /\ store' = None
  /\ scan' = NoScan /\ trial' = [w \in Workers |-> NoTrial] /\ feed' = 0
  /\ budget' = "over" /\ best' = None /\ tried' = {} /\ proved' = {} /\ same' = TRUE
  /\ UNCHANGED <<session, network, disk, verified, countVars>>

\* A self-heal or the reprobe loop reads the identity of the network.
ObserveNetwork ==
  /\ on /\ network' \in Networks \ {network}
  /\ UNCHANGED <<on, session, helper, storeVars, scanVars, same, proved, verified, countVars>>

\* A rebind or a recovery replaces the helper, or the gateway is replaced.
Replaced ==
  /\ on /\ scan.pc # "idle" /\ same
  /\ same' = FALSE
  /\ UNCHANGED <<on, session, network, helper, storeVars, scanVars, proved, verified, countVars>>

-----------------------------------------------------------------------------
(* Scan. *)

ScanBegin ==
  /\ on /\ scan.pc = "idle" /\ scans < MaxScans
  /\ scans' = scans + 1 /\ same' = TRUE
  /\ scan' = [pc |-> "scanning", session |-> session, skip |-> helper.strategy.id, since |-> repairs]
  /\ trial' = [w \in Workers |-> [NoTrial EXCEPT !.pc = "idle"]]
  /\ feed' = 1 /\ budget' = "open" /\ best' = None /\ tried' = {} /\ proved' = {}
  /\ UNCHANGED <<on, session, network, helper, storeVars, verified, repairs, kept>>

\* A worker whose candidate arrives after the end of the budget returns.
TakeJob(w) ==
  /\ trial[w].pc = "idle" /\ feed \in 1..Len(Cands)
  /\ feed' = feed + 1
  /\ trial' = [trial EXCEPT ![w] = IF budget = "over" THEN NoTrial
                                   ELSE [pc |-> "start", at |-> feed, proc |-> FALSE]]
  /\ UNCHANGED <<on, session, network, helper, storeVars, scan, budget, best, tried, same,
                 proved, verified, countVars>>

ProducerEnds ==
  /\ feed > 0 /\ (budget = "over" \/ feed > Len(Cands))
  /\ feed' = 0
  /\ UNCHANGED <<on, session, network, helper, storeVars, scan, trial, budget, best, tried, same,
                 proved, verified, countVars>>

WorkerQuits(w) ==
  /\ trial[w].pc = "idle" /\ feed = 0
  /\ trial' = [trial EXCEPT ![w] = NoTrial]
  /\ UNCHANGED <<on, session, network, helper, storeVars, scan, feed, budget, best, tried, same,
                 proved, verified, countVars>>

BudgetEnds ==
  /\ scan.pc = "scanning" /\ budget = "open"
  /\ budget' = "over"
  /\ UNCHANGED <<on, session, network, helper, storeVars, scan, trial, feed, best, tried, same,
                 proved, verified, countVars>>

TrialStart(w) ==
  /\ trial[w].pc = "start" /\ budget = "open"
  /\ trial' = [trial EXCEPT ![w].pc = "probe", ![w].proc = TRUE]
  /\ UNCHANGED <<on, session, network, helper, storeVars, scan, feed, budget, best, tried, same,
                 proved, verified, countVars>>

\* What the probes of a trial found: the canary opened, in time or late; how many
\* controls opened, and how many in time; whether the trial's own time was over
\* at the end.
Findings ==
  {f \in [canary : BOOLEAN, inTime : BOOLEAN, passed : 0..Controls, timely : 0..Controls, over : BOOLEAN] :
     /\ f.inTime => f.canary
     /\ f.timely <= f.passed
     /\ ~f.over => f.inTime = f.canary /\ f.timely = f.passed}

\* Variant: the quorum of the controls alone decides.
VerdictQuorumOnly(f, scanOver) ==
  \/ f.passed >= Quorum /\ ~f.over
  \/ f.timely >= Quorum /\ ~scanOver

\* scanTrial: every canary in time, and a quorum of the controls: within the
\* trial's time, or each of them in time although the trial then ran over.
Verdict(f, scanOver) ==
  /\ f.inTime
  /\ \/ f.passed >= Quorum /\ ~f.over
     \/ f.timely >= Quorum /\ ~scanOver

\* scanTrial closes its helper and returns the verdict.
TrialEnds(w, ok) ==
  /\ tried' = tried \cup {trial[w].at}
  /\ trial' = [trial EXCEPT ![w] = IF ok THEN [@ EXCEPT !.pc = "won", !.proc = FALSE]
                                   ELSE [NoTrial EXCEPT !.pc = "idle"]]
  /\ UNCHANGED <<on, session, network, helper, storeVars, scan, feed, budget, best, same,
                 verified, countVars>>

TrialFails(w) ==
  /\ trial[w].pc = "start"
  /\ TrialEnds(w, FALSE)
  /\ UNCHANGED proved

TrialProbed(w) ==
  /\ trial[w].pc = "probe"
  /\ \E f \in Findings :
       /\ budget = "over" => f.over
       /\ proved' = IF f.inTime /\ f.timely >= Quorum THEN proved \cup {Cands[trial[w].at]} ELSE proved
       /\ TrialEnds(w, Verdict(f, budget = "over"))

\* A candidate that passed ends the budget of the others, and its worker; the
\* first one received is the strategy found.
TrialWins(w) ==
  /\ trial[w].pc = "won"
  /\ trial' = [trial EXCEPT ![w] = NoTrial]
  /\ budget' = "over"
  /\ best' = IF best = None THEN Cands[trial[w].at] ELSE best
  /\ UNCHANGED <<on, session, network, helper, storeVars, scan, feed, tried, same, proved,
                 verified, countVars>>

-----------------------------------------------------------------------------
(* recoverDesyncStrategySession after the scan. *)

ScanDone == scan' = NoScan /\ same' = TRUE /\ best' = None /\ tried' = {} /\ proved' = {} /\ budget' = "over" /\ feed' = 0

\* The results are complete when the last worker is gone.  A scan whose session
\* ended finds nothing; one whose helper or gateway was replaced is dropped.
ScanReturns ==
  /\ scan.pc = "scanning" /\ \A w \in Workers : trial[w].pc = "none"
  /\ IF Current(scan.session) /\ same /\ best # None /\ UsableOnOS(best)
     THEN scan' = [scan EXCEPT !.pc = "verify"] /\ budget' = "over" /\ feed' = 0
          /\ UNCHANGED <<best, tried, proved, same>>
     ELSE ScanDone
  /\ UNCHANGED <<on, session, network, helper, storeVars, trial, verified, countVars>>

\* Variant: the engine is not asked again whether the session is the current one.
StandsAlways == on

Stands == Current(scan.session) /\ same

\* The real helper runs the winner; it, the controls and the gateway are probed
\* without the lock.  A result that still stands is adopted and stored.
VerifyPasses ==
  /\ scan.pc = "verify" /\ Stands
  /\ helper' = Learned(best, scan.since)
  /\ verified' = verified \cup {best}
  /\ Put(best, scan.since)
  /\ ScanDone
  /\ UNCHANGED <<on, session, network, trial, countVars>>

\* It does not stand, or the verification failed and the helper is started as
\* it was.
VerifyFails ==
  /\ scan.pc = "verify"
  /\ ScanDone
  /\ UNCHANGED <<on, session, network, helper, storeVars, trial, verified, countVars>>

-----------------------------------------------------------------------------
Next ==
  \/ Start \/ Stop \/ Repair \/ Crash \/ ObserveNetwork \/ Replaced
  \/ ScanBegin \/ ProducerEnds \/ BudgetEnds
  \/ \E w \in Workers : TakeJob(w) \/ WorkerQuits(w) \/ TrialStart(w) \/ TrialFails(w) \/ TrialProbed(w)
                       \/ TrialWins(w)
  \/ ScanReturns \/ VerifyPasses \/ VerifyFails

Spec == Init /\ [][Next]_vars

-----------------------------------------------------------------------------
(* Properties. *)

\* The scan's verdict, when the scan returns: what it found opened the canary and
\* a quorum of the controls in time, whichever worker reported first and whether
\* or not the budget ended meanwhile; "exhausted" means that every candidate was
\* tried; and no trial helper runs on (scan.go, "Return only after every owned
\* trial is reaped").
ScanVerdict ==
  /\ best # None => best \in proved
  /\ scan.pc = "scanning" /\ best = None /\ budget = "open" /\ (\A w \in Workers : trial[w].pc = "none")
       => tried = DOMAIN Cands
  /\ scan.pc # "scanning" => \A w \in Workers : ~trial[w].proc

\* In use, in the store and in its file, as a start would wrap it, there is only
\* the default or, argument for argument, what the real helper and the gateway
\* verified (strategyForCache: "startup re-applies the pass-through-first
\* wrapper").
DeployedAsVerified ==
  LET Sound(s) == s = Default \/ s \in verified
      Holds(st) == st = None \/ \A n \in Networks : st[n] # None => Sound(PassThroughFirst(st[n].strategy))
  IN  (on => Sound(helper.strategy)) /\ Holds(store) /\ Holds(disk)

\* After a repair that could delete the file, nothing learned before it is in
\* the store, in the file or in use, whatever scan was in flight
\* (Engine.Repair, ClearLearnedState: "deletes persisted desync strategy").
RepairForgets ==
  LET Fresh(st) == st = None \/ \A n \in Networks : st[n] # None => st[n].since = repairs
  IN  ~kept => Fresh(store) /\ Fresh(disk) /\ (on => helper.since = repairs)

=============================================================================

--------------------------- MODULE StrategyProofs ---------------------------
(***************************************************************************)
(* Proofs about module Strategy, for any lists of built-in and signed      *)
(* strategies, any networks, any number of workers, and any number of      *)
(* sessions, scans and repairs.                                            *)
(*                                                                         *)
(* The verdict of a scan: while its budget lasts a candidate is still to   *)
(* be sent, in the hands of a worker, or tried, and no worker returns      *)
(* before the producer has closed the jobs (NoneLost); so when all have    *)
(* returned every candidate was tried. ScanVerdict alone says nothing of   *)
(* the jobs under way.                                                     *)
(*                                                                         *)
(* A repair forgets: what the store and its file hold was stored with the  *)
(* repairs that came before its scan (StoresFit, Forgotten), and a scan    *)
(* whose session still runs began after the last repair (ScanIsRecent), so *)
(* a late result is either dropped or recent.                              *)
(*                                                                         *)
(* What a start deploys: the store holds only what was verified, without   *)
(* the wrapper (StoresFit), so a start deploys what was verified if the    *)
(* wrapper comes back as it was (RoundTrip). What the loops over the       *)
(* arguments compute is an induction over data, so RoundTrip is a          *)
(* hypothesis.                                                             *)
(***************************************************************************)
EXTENDS Strategy, FiniteSetTheorems, TLAPS

-----------------------------------------------------------------------------
(* The lists. *)

\* Pick has an element for each index, and takes nothing else.
LEMMA PickIsFrom ==
  ASSUME NEW s, NEW I \in SUBSET Nat, IsFiniteSet(I), NEW k \in 1..Cardinality(I)
  PROVE  \E i \in I : Pick(s, I)[k] = s[i]
<1> DEFINE upTo(i) == {j \in I : j <= i}
           n == Cardinality(I)
           rank == [i \in I |-> Cardinality(upTo(i))]
<1>0. n \in Nat
  BY FS_CardinalityType, Zenon
<1>1. \A i \in I : IsFiniteSet(upTo(i)) /\ Cardinality(upTo(i)) \in 1..n
  <2> TAKE i \in I
  <2>1. upTo(i) \in SUBSET I /\ i \in upTo(i)
    OBVIOUS
  <2>2. IsFiniteSet(upTo(i)) /\ Cardinality(upTo(i)) <= n
    BY <2>1, FS_Subset, Zenon
  <2>3. Cardinality(upTo(i)) \in Nat /\ Cardinality(upTo(i)) # 0
    BY <2>1, <2>2, FS_CardinalityType, FS_EmptySet, Zenon
  <2> HIDE DEF upTo
  <2> QED BY <1>0, <2>2, <2>3
<1>2. \A i, j \in I : i < j => rank[i] < rank[j]
  <2> SUFFICES ASSUME NEW i \in I, NEW j \in I, i < j PROVE rank[i] < rank[j]
    OBVIOUS
  <2>1. upTo(i) \in SUBSET upTo(j) /\ j \in upTo(j) /\ j \notin upTo(i)
    <3>1. \A k1 \in I : k1 <= i => k1 <= j
      OBVIOUS
    <3>2. ~(j <= i) /\ j <= j
      OBVIOUS
    <3> QED BY <3>1, <3>2, Zenon
  <2>2. Cardinality(upTo(i)) <= Cardinality(upTo(j)) /\ Cardinality(upTo(i)) # Cardinality(upTo(j))
    BY <1>1, <2>1, FS_Subset, Zenon
  <2>3. Cardinality(upTo(i)) \in Nat /\ Cardinality(upTo(j)) \in Nat
    BY <1>0, <1>1
  <2>4. rank[i] = Cardinality(upTo(i)) /\ rank[j] = Cardinality(upTo(j))
    OBVIOUS
  <2> HIDE DEF upTo, rank
  <2> QED BY <2>2, <2>3, <2>4
<1>3. \E i \in I : Cardinality(upTo(i)) = k
  <2> SUFFICES ASSUME \A i \in I : Cardinality(upTo(i)) # k PROVE FALSE
    OBVIOUS
  <2> DEFINE T == (1..n) \ {k}
  <2>1. rank \in [I -> T]
    BY <1>1, Zenon
  <2>2. IsFiniteSet(1..n) /\ Cardinality(1..n) = n
    <3>1. n >= 1
      BY <1>0
    <3> HIDE DEF n
    <3> QED BY <1>0, <3>1, FS_Interval
  <2>3. IsFiniteSet(T) /\ Cardinality(T) < n
    <3>1. IsFiniteSet(T) /\ Cardinality(T) = Cardinality(1..n) - 1
      BY <2>2, FS_RemoveElement, Zenon
    <3> HIDE DEF T, n
    <3> QED BY <1>0, <2>2, <3>1
  <2>4. \E x, y \in I : x # y /\ rank[x] = rank[y]
    <3> HIDE DEF rank, T, n
    <3>1. Cardinality(T) < Cardinality(I)
      BY <2>3, Zenon DEF n
    <3> QED BY <2>1, <2>3, <3>1, FS_PigeonHole, Zenon
  <2>x. PICK x, y \in I : x # y /\ rank[x] = rank[y]
    BY <2>4, Zenon
  <2>5. rank[x] \in Nat /\ rank[y] \in Nat /\ x \in Nat /\ y \in Nat
    BY <1>0, <1>1
  <2>6. x < y \/ y < x
    BY <2>x, <2>5
  <2> HIDE DEF rank
  <2> QED BY <1>2, <2>x, <2>5, <2>6
<1> QED BY <1>3, Zenon DEF Pick

\* The first index is taken first.
LEMMA PickFirst ==
  ASSUME NEW s, NEW I \in SUBSET (Nat \ {0}), IsFiniteSet(I), 1 \in I
  PROVE  1 \in DOMAIN Pick(s, I) /\ Pick(s, I)[1] = s[1]
<1> DEFINE upTo(i) == {j \in I : j <= i}
<1>1. upTo(1) = {1}
  <2>1. \A j \in I : j <= 1 => j = 1
    OBVIOUS
  <2>2. 1 <= 1
    OBVIOUS
  <2> QED BY <2>1, <2>2, Zenon
<1>2. Cardinality(upTo(1)) = 1
  BY <1>1, FS_Singleton, Zenon
<1>3. ASSUME NEW i \in I, Cardinality(upTo(i)) = 1 PROVE i = 1
  <2>1. i \in upTo(i) /\ 1 \in upTo(i)
    OBVIOUS
  <2>2. IsFiniteSet(upTo(i))
    BY FS_Subset, Zenon
  <2>3. PICK x : upTo(i) = {x}
    BY <1>3, <2>2, FS_Singleton, Zenon
  <2> QED BY <2>1, <2>3, Zenon
<1>4. (CHOOSE i \in I : Cardinality(upTo(i)) = 1) = 1
  BY <1>2, <1>3, Zenon
<1>5. 1 \in 1..Cardinality(I)
  <2>1. Cardinality(I) \in Nat /\ Cardinality(I) # 0
    BY FS_CardinalityType, FS_EmptySet, Zenon
  <2> QED BY <2>1
<1> QED BY <1>4, <1>5, Zenon DEF Pick

\* The candidates are a list that begins with the default.
LEMMA CandidatesAreAList ==
  /\ \E n \in Nat : DOMAIN CandidatesFrom = 1..n
  /\ 1 \in DOMAIN CandidatesFrom /\ CandidatesFrom[1] = Native[1]
<1> DEFINE ok   == {i \in DOMAIN Specs : Specs[i].here /\ ValidateStrategyArgs(Specs[i].args)}
           m    == Cardinality(ok)
           more == [i \in 1..m |-> FromSpec(Pick(Specs, ok)[i])]
           all  == Native \o more
           I    == {i \in DOMAIN all : \A j \in 1..(i - 1) : all[j].id # all[i].id}
<1>1. DOMAIN Specs = 1..Len(Specs) /\ Len(Specs) \in Nat
  BY StrategyAssumption
<1>2. m \in Nat
  <2>1. IsFiniteSet(1..Len(Specs))
    BY <1>1, FS_Interval
  <2>2. ok \in SUBSET (1..Len(Specs))
    BY <1>1, Zenon
  <2> HIDE DEF ok
  <2> QED BY <2>1, <2>2, FS_Subset, FS_CardinalityType, Zenon
<1> HIDE DEF ok, m
<1>3. all \in Seq({Native[i] : i \in DOMAIN Native} \cup {more[i] : i \in 1..m})
      /\ Len(all) = Len(Native) + m /\ all[1] = Native[1] /\ Len(Native) \in Nat \ {0}
  <2> DEFINE R == {Native[i] : i \in DOMAIN Native} \cup {more[i] : i \in 1..m}
  <2>1. Native \in Seq(R) /\ Len(Native) \in Nat \ {0}
    BY StrategyAssumption
  <2>2. more \in Seq(R) /\ Len(more) = m
    BY <1>2
  <2> HIDE DEF R, more
  <2> QED BY <2>1, <2>2
<1> HIDE DEF more, all
<1>4. DOMAIN all = 1..Len(all) /\ Len(all) \in Nat \ {0}
  BY <1>2, <1>3
<1>5. I \in SUBSET (Nat \ {0}) /\ 1 \in I /\ I \in SUBSET (1..Len(all))
  BY <1>4
<1>6. IsFiniteSet(I)
  <2>1. IsFiniteSet(1..Len(all))
    BY <1>4, FS_Interval
  <2> HIDE DEF I
  <2> QED BY <1>5, <2>1, FS_Subset, Zenon
<1>7. CandidatesFrom = Pick(all, I)
  BY Zenon DEF CandidatesFrom, all, more, ok, m
<1> HIDE DEF I
<1>8. Cardinality(I) \in Nat
  BY <1>6, FS_CardinalityType, Zenon
<1>9. 1 \in DOMAIN CandidatesFrom /\ CandidatesFrom[1] = Native[1]
  BY <1>3, <1>5, <1>6, <1>7, PickFirst, Zenon
<1>10. DOMAIN CandidatesFrom = 1..Cardinality(I)
  BY <1>7, Zenon DEF Pick
<1> QED BY <1>8, <1>9, <1>10, Zenon

\* The wrapper keeps a strategy's name.
LEMMA WrapperKeepsName ==
  ASSUME NEW s
  PROVE  PassThroughFirst(s).id = s.id /\ strategyForCache(s).id = s.id
<1>1. PassThroughFirst(s).id = s.id
  BY Zenon DEF PassThroughFirst
<1>2. strategyForCache(s).id = s.id
  BY Zenon DEF strategyForCache
<1> QED BY <1>1, <1>2, Zenon

Wrapped == {PassThroughFirst(CandidatesFrom[i]) : i \in DOMAIN CandidatesFrom}

\* The default is a candidate, and so is whatever a scan tries.
LEMMA CandidatesAreNamed ==
  /\ Default.id \in Ids
  /\ \A c \in Wrapped : c.id \in Ids
<1>1. Default.id \in Ids
  BY CandidatesAreAList, WrapperKeepsName, Zenon DEF Default, Ids
<1>2. ASSUME NEW c \in Wrapped PROVE c.id \in Ids
  BY WrapperKeepsName DEF Wrapped, Ids
<1> QED BY <1>1, <1>2, Zenon

\* What a scan tries is a list of wrapped candidates.
LEMMA ScanList ==
  ASSUME NEW id \in Ids
  PROVE  /\ Len(CandidatesOf[id]) \in Nat /\ DOMAIN CandidatesOf[id] = 1..Len(CandidatesOf[id])
         /\ \A i \in DOMAIN CandidatesOf[id] : CandidatesOf[id][i] \in Wrapped
<1> DEFINE use == {i \in DOMAIN CandidatesFrom : CandidatesFrom[i].id # id}
           m   == Cardinality(use)
<1>1. PICK n \in Nat : DOMAIN CandidatesFrom = 1..n
  BY CandidatesAreAList, Zenon
<1>2. use \in SUBSET (1..n) /\ use \in SUBSET Nat
  BY <1>1
<1>3. IsFiniteSet(use) /\ m \in Nat
  <2>1. IsFiniteSet(1..n)
    BY <1>1, FS_Interval
  <2> HIDE DEF use
  <2> QED BY <1>2, <2>1, FS_Subset, FS_CardinalityType, Zenon
<1>4. CandidatesOf[id] = [i \in 1..m |-> PassThroughFirst(Pick(CandidatesFrom, use)[i])]
  BY Zenon DEF CandidatesOf, Candidates
<1>5. ASSUME NEW i \in 1..m PROVE PassThroughFirst(Pick(CandidatesFrom, use)[i]) \in Wrapped
  <2>1. PICK j \in use : Pick(CandidatesFrom, use)[i] = CandidatesFrom[j]
    <3> HIDE DEF use
    <3> QED BY <1>2, <1>3, PickIsFrom
  <2> QED BY <2>1, Zenon DEF Wrapped
<1> HIDE DEF use, m
<1> DEFINE c == [i \in 1..m |-> PassThroughFirst(Pick(CandidatesFrom, use)[i])]
<1>6. Len(c) = m /\ DOMAIN c = 1..m
  BY <1>3
<1>7. \A i \in 1..m : c[i] \in Wrapped
  BY <1>5, Zenon
<1> HIDE DEF c
<1> QED BY <1>3, <1>4, <1>6, <1>7, Zenon DEF c

-----------------------------------------------------------------------------
(* The invariant. *)

Trials == [pc : {"none", "idle", "start", "probe", "won"}, at : Nat, proc : BOOLEAN]

ScanTyped ==
  /\ scan \in [pc : {"idle", "scanning", "verify"}, session : Nat, skip : Ids \cup {None}, since : Nat]
  /\ session \in Nat /\ scan.session <= session /\ network \in Networks /\ repairs \in Nat
  /\ scan.pc = "scanning" => scan.skip \in Ids
  /\ budget \in {"open", "over"} /\ feed \in Nat
  /\ trial \in [Workers -> Trials]
  /\ \A w \in Workers : trial[w].pc = "none" => trial[w] = NoTrial

\* Outside a scan nothing of it is left.
ScanIsOver ==
  scan.pc # "scanning" => feed = 0 /\ budget = "over" /\ \A w \in Workers : trial[w].pc = "none"

\* The candidates a scan has dealt with, or deals with.
Held(w) == trial[w].pc \in {"start", "probe"}

JobsFit ==
  scan.pc = "scanning" =>
    /\ feed <= Len(Cands) + 1 /\ tried \subseteq DOMAIN Cands
    /\ \A w \in Workers : Held(w) \/ trial[w].pc = "won" => trial[w].at \in DOMAIN Cands

\* While the budget lasts no candidate that was sent gets lost, and no worker
\* returns before the producer has closed the jobs.
NoneLost ==
  scan.pc = "scanning" /\ budget = "open" =>
    /\ \A i \in DOMAIN Cands : feed = 0 \/ i < feed => i \in tried \/ \E w \in Workers : Held(w) /\ trial[w].at = i
    /\ \A w \in Workers : trial[w].pc = "none" => feed = 0

\* What passed was proved, and what was found is a candidate that passed.
WinnersProved ==
  /\ \A w \in Workers : trial[w].pc = "won" => Cands[trial[w].at] \in proved
  /\ best # None => best \in proved /\ best \in Wrapped
  /\ scan.pc = "verify" => best # None

\* What the store and its file hold was verified; it was stored without the
\* wrapper, and with the repairs before its scan.
Stored(C, K)  == {Learned(strategyForCache(c), k) : c \in C, k \in K}
Holds(st, E)  == st = None \/ st \in [Networks -> E \cup {None}]
StoresHold(E) == Holds(store, E) /\ Holds(disk, E)

StoresFit == StoresHold(Stored(Wrapped \cap verified, Nat)) /\ (on => helper.strategy.id \in Ids)

\* A scan whose session still runs began after the last repair, and what was
\* learned before it is forgotten.
ScanIsRecent == on /\ scan.pc # "idle" /\ scan.session = session => scan.since = repairs

Forgotten == ~kept => StoresHold(Stored(Wrapped, {repairs})) /\ (on => helper.since = repairs)

IInv == ScanTyped /\ ScanIsOver /\ JobsFit /\ NoneLost /\ WinnersProved /\ StoresFit /\ ScanIsRecent
        /\ Forgotten

-----------------------------------------------------------------------------
(* The scan. *)

\* During a scan the candidates are a list of wrapped candidates.
LEMMA CandsList ==
  ASSUME ScanTyped, scan.pc = "scanning"
  PROVE  /\ Len(Cands) \in Nat /\ DOMAIN Cands = 1..Len(Cands)
         /\ \A i \in DOMAIN Cands : Cands[i] \in Wrapped
BY ScanList, Zenon DEF ScanTyped, Cands

ScanInv == ScanTyped /\ ScanIsOver /\ JobsFit /\ NoneLost /\ WinnersProved

\* Steps that leave the scan alone, or end its budget.
LEMMA ScanLeft ==
  ASSUME ScanInv, UNCHANGED <<scan, trial, feed, best, tried, proved>>, budget' \in {budget, "over"},
         session' \in {session, session + 1}, repairs' \in {repairs, repairs + 1}, network' \in Networks
  PROVE  ScanInv'
<1>1. ScanTyped'
  BY DEF ScanInv, ScanTyped
<1>2. Cands' = Cands /\ \A w \in Workers : Held(w)' = Held(w)
  BY Zenon DEF Cands, Held
<1>3. ScanIsOver'
  BY Zenon DEF ScanInv, ScanIsOver
<1>4. JobsFit'
  BY <1>2, Zenon DEF ScanInv, JobsFit
<1>5. NoneLost'
  BY <1>2, Zenon DEF ScanInv, NoneLost
<1>6. WinnersProved'
  BY <1>2, Zenon DEF ScanInv, WinnersProved
<1> QED BY <1>1, <1>3, <1>4, <1>5, <1>6, Zenon DEF ScanInv

\* Nothing is left after a step that ends the scan, or the process.
LEMMA ScanEnded ==
  ASSUME ScanInv, scan' = NoScan, feed' = 0, budget' = "over", best' = None, session' = session,
         repairs' = repairs, network' = network, trial' = [w \in Workers |-> NoTrial]
  PROVE  ScanInv'
<1>1. /\ NoTrial \in Trials /\ NoTrial.pc = "none" /\ NoScan.pc = "idle" /\ NoScan.session = 0
      /\ NoScan \in [pc : {"idle", "scanning", "verify"}, session : Nat, skip : Ids \cup {None}, since : Nat]
  BY Zenon DEF NoTrial, Trials, NoScan
<1>2. \A w \in Workers : trial'[w] = NoTrial
  OBVIOUS
<1>3. ScanTyped'
  BY <1>1, <1>2 DEF ScanInv, ScanTyped
<1> QED BY <1>1, <1>2, <1>3, Zenon DEF ScanInv, ScanIsOver, JobsFit, NoneLost, WinnersProved

\* When no worker is left each is as before its scan.
LEMMA AllGone ==
  ASSUME ScanTyped, \A w \in Workers : trial[w].pc = "none"
  PROVE  trial = [w \in Workers |-> NoTrial]
BY Zenon DEF ScanTyped

\* The worker w goes on to r; the others stay where they are.
LEMMA WorkerMoves ==
  ASSUME ScanTyped, NEW w \in Workers, NEW r \in Trials, trial' = [trial EXCEPT ![w] = r]
  PROVE  trial' \in [Workers -> Trials] /\ trial'[w] = r /\ \A v \in Workers \ {w} : trial'[v] = trial[v]
BY Zenon DEF ScanTyped

\* A worker takes the next candidate, or returns when the budget is over.
LEMMA TakeJobStep ==
  ASSUME ScanInv, NEW w \in Workers, TakeJob(w)
  PROVE  ScanInv'
<1> DEFINE r == IF budget = "over" THEN NoTrial ELSE [pc |-> "start", at |-> feed, proc |-> FALSE]
<1>0. /\ ScanTyped /\ scan.pc = "scanning" /\ trial[w].pc = "idle" /\ feed \in 1..Len(Cands)
      /\ feed' = feed + 1 /\ trial' = [trial EXCEPT ![w] = r]
      /\ UNCHANGED <<scan, budget, best, tried, proved, session, network, repairs>>
  BY Zenon DEF TakeJob, countVars, ScanInv, ScanIsOver
<1>1. r \in Trials /\ (budget = "over" => r = NoTrial)
      /\ (budget # "over" => r.pc = "start" /\ r.at = feed)
  BY <1>0, Zenon DEF NoTrial, Trials, ScanTyped
<1>2. NoTrial.pc = "none"
  BY Zenon DEF NoTrial
<1> HIDE DEF r
<1>3. trial' \in [Workers -> Trials] /\ trial'[w] = r /\ \A v \in Workers \ {w} : trial'[v] = trial[v]
  BY <1>0, <1>1, WorkerMoves, Zenon
<1>4. Cands' = Cands /\ Len(Cands) \in Nat /\ DOMAIN Cands = 1..Len(Cands)
  BY <1>0, CandsList, Zenon DEF Cands
<1>5. ScanTyped'
  <2>1. \A v \in Workers : trial'[v].pc = "none" => trial'[v] = NoTrial
    BY <1>0, <1>1, <1>3, Zenon DEF ScanTyped
  <2> QED BY <1>0, <1>3, <2>1 DEF ScanTyped
<1>6. JobsFit'
  BY <1>0, <1>1, <1>2, <1>3, <1>4 DEF ScanInv, JobsFit, Held, ScanTyped
<1>7. NoneLost'
  <2> SUFFICES ASSUME budget = "open"
               PROVE  /\ \A i \in DOMAIN Cands :
                           i < feed + 1 => i \in tried \/ \E v \in Workers : Held(v)' /\ trial'[v].at = i
                      /\ \A v \in Workers : trial'[v].pc # "none"
    BY <1>0, <1>4 DEF NoneLost, ScanTyped
  <2>1. r.pc = "start" /\ r.at = feed /\ feed \in Nat \ {0}
    BY <1>0, <1>1, <1>4
  <2>2. \A v \in Workers : trial'[v].pc # "none"
    BY <1>0, <1>3, <2>1, Zenon DEF ScanInv, NoneLost
  <2>3. ASSUME NEW i \in DOMAIN Cands, i < feed + 1
        PROVE  i \in tried \/ \E v \in Workers : Held(v)' /\ trial'[v].at = i
    <3>1. CASE i = feed
      BY <1>3, <2>1, <3>1, Zenon DEF Held
    <3>2. CASE i # feed
      <4>1. i < feed
        BY <1>4, <2>1, <2>3, <3>2
      <4>2. i \in tried \/ \E v \in Workers : Held(v) /\ trial[v].at = i
        BY <1>0, <4>1, Zenon DEF ScanInv, NoneLost
      <4>3. ~Held(w)
        BY <1>0, Zenon DEF Held
      <4> QED BY <1>3, <4>2, <4>3, Zenon DEF Held
    <3> QED BY <3>1, <3>2, Zenon
  <2> QED BY <2>2, <2>3, Zenon
<1>8. WinnersProved'
  BY <1>0, <1>1, <1>2, <1>3, <1>4, Zenon DEF ScanInv, WinnersProved, ScanTyped
<1> QED BY <1>0, <1>5, <1>6, <1>7, <1>8, Zenon DEF ScanInv, ScanIsOver

\* The producer closes the jobs.
LEMMA ProducerStep ==
  ASSUME ScanInv, ProducerEnds
  PROVE  ScanInv'
<1>0. /\ ScanTyped /\ scan.pc = "scanning" /\ feed' = 0 /\ feed > 0 /\ (budget = "over" \/ feed > Len(Cands))
      /\ UNCHANGED <<scan, trial, budget, best, tried, proved, session, network, repairs>>
  BY DEF ProducerEnds, countVars, ScanInv, ScanIsOver, ScanTyped
<1>1. Cands' = Cands /\ Len(Cands) \in Nat /\ DOMAIN Cands = 1..Len(Cands)
  BY <1>0, CandsList, Zenon DEF Cands
<1>2. ScanTyped'
  BY <1>0, Zenon DEF ScanTyped
<1>3. JobsFit'
  BY <1>0, <1>1 DEF ScanInv, JobsFit, Held
<1>4. NoneLost'
  <2>1. budget = "open" => \A i \in DOMAIN Cands : i < feed
    BY <1>0, <1>1 DEF ScanTyped
  <2> QED BY <1>0, <1>1, <2>1, Zenon DEF ScanInv, NoneLost, Held
<1>5. WinnersProved'
  BY <1>0, <1>1, Zenon DEF ScanInv, WinnersProved
<1> QED BY <1>0, <1>2, <1>3, <1>4, <1>5, Zenon DEF ScanInv, ScanIsOver

\* A worker that holds no candidate returns, with its result or because the
\* jobs are closed.
LEMMA WorkerLeaves ==
  ASSUME ScanInv, NEW w \in Workers, WorkerQuits(w) \/ TrialWins(w)
  PROVE  ScanInv'
<1>0. /\ ScanTyped /\ scan.pc = "scanning" /\ trial[w].pc \in {"idle", "won"}
      /\ trial' = [trial EXCEPT ![w] = NoTrial]
      /\ UNCHANGED <<scan, feed, tried, proved, session, network, repairs>>
      /\ \/ feed = 0 /\ UNCHANGED <<best, budget>>
         \/ trial[w].pc = "won" /\ budget' = "over" /\ best' = IF best = None THEN Cands[trial[w].at] ELSE best
  BY Zenon DEF WorkerQuits, TrialWins, countVars, ScanInv, ScanIsOver
<1>1. NoTrial \in Trials /\ NoTrial.pc = "none"
  BY Zenon DEF NoTrial, Trials
<1>2. trial' \in [Workers -> Trials] /\ trial'[w] = NoTrial /\ \A v \in Workers \ {w} : trial'[v] = trial[v]
  BY <1>0, <1>1, WorkerMoves, Zenon
<1>3. Cands' = Cands /\ Len(Cands) \in Nat /\ DOMAIN Cands = 1..Len(Cands)
      /\ \A i \in DOMAIN Cands : Cands[i] \in Wrapped
  BY <1>0, CandsList, Zenon DEF Cands
<1>4. ScanTyped'
  BY <1>0, <1>2, Zenon DEF ScanTyped
<1>5. JobsFit'
  BY <1>0, <1>1, <1>2, <1>3, Zenon DEF ScanInv, JobsFit, Held
<1>6. NoneLost'
  <2> SUFFICES ASSUME feed = 0, UNCHANGED budget, budget = "open" PROVE NoneLost'
    BY <1>0, Zenon DEF NoneLost
  <2>1. ~Held(w)
    BY <1>0, Zenon DEF Held
  <2>2. \A i \in DOMAIN Cands : i \in tried \/ \E v \in Workers : Held(v) /\ trial[v].at = i
    BY <1>0, Zenon DEF ScanInv, NoneLost
  <2>3. \A i \in DOMAIN Cands : i \in tried \/ \E v \in Workers : Held(v)' /\ trial'[v].at = i
    BY <1>2, <2>1, <2>2, Zenon DEF Held
  <2> QED BY <1>0, <1>3, <2>3, Zenon DEF NoneLost
<1>7. WinnersProved'
  <2>1. trial[w].pc = "won" => Cands[trial[w].at] \in proved /\ Cands[trial[w].at] \in Wrapped
    BY <1>0, <1>3, Zenon DEF ScanInv, WinnersProved, JobsFit
  <2>2. best' # None => best' \in proved /\ best' \in Wrapped
    BY <1>0, <2>1, Zenon DEF ScanInv, WinnersProved
  <2>3. \A v \in Workers : trial'[v].pc = "won" => Cands[trial'[v].at] \in proved
    BY <1>1, <1>2, Zenon DEF ScanInv, WinnersProved
  <2> QED BY <1>0, <1>3, <2>2, <2>3, Zenon DEF WinnersProved
<1> QED BY <1>0, <1>4, <1>5, <1>6, <1>7, Zenon DEF ScanInv, ScanIsOver

\* A trial's helper starts.
LEMMA TrialStartStep ==
  ASSUME ScanInv, NEW w \in Workers, TrialStart(w)
  PROVE  ScanInv'
<1> DEFINE r == [trial[w] EXCEPT !.pc = "probe", !.proc = TRUE]
<1>0. /\ ScanTyped /\ scan.pc = "scanning" /\ trial[w].pc = "start"
      /\ trial' = [trial EXCEPT ![w] = r]
      /\ UNCHANGED <<scan, feed, budget, best, tried, proved, session, network, repairs>>
  BY Zenon DEF TrialStart, countVars, ScanInv, ScanIsOver, ScanTyped
<1>1. r \in Trials /\ r.pc = "probe" /\ r.at = trial[w].at
  BY <1>0, Zenon DEF Trials, ScanTyped
<1> HIDE DEF r
<1>2. trial' \in [Workers -> Trials] /\ trial'[w] = r /\ \A v \in Workers \ {w} : trial'[v] = trial[v]
  BY <1>0, <1>1, WorkerMoves, Zenon
<1>3. Cands' = Cands /\ \A v \in Workers : Held(v)' = Held(v) /\ trial'[v].at = trial[v].at
  BY <1>0, <1>1, <1>2 DEF Cands, Held
<1>4. \A v \in Workers : trial'[v].pc \in {"none", "won"} => trial'[v] = trial[v]
  BY <1>1, <1>2, Zenon
<1>5. ScanTyped'
  BY <1>0, <1>2, <1>4, Zenon DEF ScanTyped
<1>6. JobsFit'
  BY <1>0, <1>3, <1>4, Zenon DEF ScanInv, JobsFit
<1>7. NoneLost'
  BY <1>0, <1>3, <1>4 DEF ScanInv, NoneLost
<1>8. WinnersProved'
  BY <1>0, <1>3, <1>4 DEF ScanInv, WinnersProved
<1> QED BY <1>0, <1>5, <1>6, <1>7, <1>8, Zenon DEF ScanInv, ScanIsOver

\* A verdict that passes a candidate rests on a canary and a quorum in time.
LEMMA VerdictIsProof ==
  ASSUME NEW f \in Findings, NEW over \in BOOLEAN, Verdict(f, over)
  PROVE  f.inTime /\ f.timely >= Quorum
BY StrategyAssumption, Zenon DEF Findings, Verdict

\* A trial ends, with or without success.
LEMMA TrialEndsStep ==
  ASSUME ScanInv, NEW w \in Workers, TrialFails(w) \/ TrialProbed(w)
  PROVE  ScanInv'
<1>0. /\ ScanTyped /\ scan.pc = "scanning" /\ Held(w)
      /\ UNCHANGED <<scan, feed, budget, best, session, network, repairs>>
      /\ tried' = tried \cup {trial[w].at} /\ proved \subseteq proved'
  BY Zenon DEF TrialFails, TrialProbed, TrialEnds, countVars, ScanInv, ScanIsOver, Held
<1>1. PICK ok \in BOOLEAN :
        /\ trial' = [trial EXCEPT ![w] = IF ok THEN [trial[w] EXCEPT !.pc = "won", !.proc = FALSE]
                                         ELSE [NoTrial EXCEPT !.pc = "idle"]]
        /\ ok => Cands[trial[w].at] \in proved'
  <2>1. CASE TrialFails(w)
    BY <2>1, Zenon DEF TrialFails, TrialEnds
  <2>2. CASE TrialProbed(w)
    <3>1. PICK f \in Findings :
            /\ proved' = IF f.inTime /\ f.timely >= Quorum THEN proved \cup {Cands[trial[w].at]} ELSE proved
            /\ TrialEnds(w, Verdict(f, budget = "over"))
      BY <2>2, Zenon DEF TrialProbed
    <3>2. Verdict(f, budget = "over") \in BOOLEAN
      BY Zenon DEF Verdict, Findings
    <3>3. Verdict(f, budget = "over") => Cands[trial[w].at] \in proved'
      BY <3>1, VerdictIsProof, Zenon
    <3>4. trial' = [trial EXCEPT ![w] = IF Verdict(f, budget = "over")
                                        THEN [trial[w] EXCEPT !.pc = "won", !.proc = FALSE]
                                        ELSE [NoTrial EXCEPT !.pc = "idle"]]
      BY <3>1, Zenon DEF TrialEnds, ScanTyped
    <3> QED BY <3>2, <3>3, <3>4, Zenon
  <2> QED BY <2>1, <2>2, Zenon
<1> DEFINE r == IF ok THEN [trial[w] EXCEPT !.pc = "won", !.proc = FALSE] ELSE [NoTrial EXCEPT !.pc = "idle"]
<1>2. r \in Trials /\ r.pc \in {"won", "idle"} /\ (r.pc = "won" => ok /\ r.at = trial[w].at)
  BY <1>0, Zenon DEF Trials, NoTrial, ScanTyped
<1>3. trial' = [trial EXCEPT ![w] = r]
  BY <1>1, Zenon
<1> HIDE DEF r
<1>4. trial' \in [Workers -> Trials] /\ trial'[w] = r /\ \A v \in Workers \ {w} : trial'[v] = trial[v]
  BY <1>0, <1>2, <1>3, WorkerMoves, Zenon
<1>5. Cands' = Cands /\ Len(Cands) \in Nat /\ DOMAIN Cands = 1..Len(Cands)
  BY <1>0, CandsList, Zenon DEF Cands
<1>6. ScanTyped'
  BY <1>0, <1>2, <1>4, Zenon DEF ScanTyped
<1>7. JobsFit'
  <2>1. trial[w].at \in DOMAIN Cands
    BY <1>0, Zenon DEF ScanInv, JobsFit
  <2> QED BY <1>0, <1>2, <1>4, <1>5, <2>1, Zenon DEF ScanInv, JobsFit, Held
<1>8. NoneLost'
  <2>1. ASSUME NEW i \in DOMAIN Cands, i \in tried \/ \E v \in Workers : Held(v) /\ trial[v].at = i
        PROVE  i \in tried' \/ \E v \in Workers : Held(v)' /\ trial'[v].at = i
    BY <1>0, <1>4, <2>1, Zenon DEF Held
  <2>2. \A v \in Workers : trial'[v].pc = "none" => trial[v].pc = "none"
    BY <1>2, <1>4, Zenon
  <2> QED BY <1>0, <1>5, <2>1, <2>2, Zenon DEF ScanInv, NoneLost
<1>9. WinnersProved'
  BY <1>0, <1>1, <1>2, <1>4, <1>5, Zenon DEF ScanInv, WinnersProved
<1> QED BY <1>0, <1>6, <1>7, <1>8, <1>9, Zenon DEF ScanInv, ScanIsOver

\* A scan begins with every candidate before it.
LEMMA ScanBeginStep ==
  ASSUME ScanInv, StoresFit, ScanBegin
  PROVE  ScanInv'
<1> DEFINE r == [NoTrial EXCEPT !.pc = "idle"]
<1>0. /\ ScanTyped /\ scan'.pc = "scanning" /\ scan'.session = session /\ scan'.skip \in Ids
      /\ scan' \in [pc : {"scanning"}, session : Nat, skip : Ids, since : Nat]
      /\ feed' = 1 /\ budget' = "open" /\ best' = None /\ tried' = {} /\ trial' = [w \in Workers |-> r]
      /\ UNCHANGED <<session, network, repairs>>
  BY Zenon DEF ScanBegin, ScanInv, StoresFit, ScanTyped
<1>1. r \in Trials /\ r.pc = "idle"
  BY Zenon DEF NoTrial, Trials
<1> HIDE DEF r
<1>2. \A w \in Workers : trial'[w] = r
  BY <1>0, Zenon
<1>3. ScanTyped'
  BY <1>0, <1>1, <1>2 DEF ScanTyped
<1>4. Len(Cands') \in Nat /\ DOMAIN Cands' = 1..Len(Cands')
  BY <1>0, ScanList, Zenon DEF Cands
<1>5. \A i \in DOMAIN Cands' : ~(i < 1)
  BY <1>4
<1> QED BY <1>0, <1>1, <1>2, <1>3, <1>4, <1>5
        DEF ScanInv, ScanIsOver, JobsFit, NoneLost, WinnersProved, Held

\* The scan returns, and its winner is verified or given up.
LEMMA ReturnStep ==
  ASSUME ScanInv, ScanReturns \/ VerifyPasses \/ VerifyFails
  PROVE  ScanInv'
<1>1. /\ ScanTyped /\ UNCHANGED <<session, network, repairs, trial>> /\ budget' = "over" /\ feed' = 0
      /\ \A w \in Workers : trial[w].pc = "none"
  BY Zenon DEF ScanReturns, VerifyPasses, VerifyFails, ScanDone, countVars, ScanInv, ScanIsOver
<1>2. CASE ScanDone
  BY <1>1, <1>2, AllGone, ScanEnded, Zenon DEF ScanDone
<1>3. CASE ~ScanDone
  <2>1. /\ scan.pc = "scanning" /\ scan' = [scan EXCEPT !.pc = "verify"] /\ best # None
        /\ UNCHANGED <<best, tried, proved>>
    BY <1>3, Zenon DEF ScanReturns, VerifyPasses, VerifyFails
  <2>2. /\ scan'.pc = "verify" /\ scan'.session = scan.session
        /\ scan' \in [pc : {"verify"}, session : Nat, skip : Ids \cup {None}, since : Nat]
    BY <1>1, <2>1, Zenon DEF ScanTyped
  <2>3. ScanTyped'
    BY <1>1, <2>2, Zenon DEF ScanTyped
  <2> QED BY <1>1, <2>1, <2>2, <2>3, Zenon DEF ScanInv, ScanIsOver, JobsFit, NoneLost, WinnersProved
<1> QED BY <1>2, <1>3, Zenon

-----------------------------------------------------------------------------
(* The store. *)

\* An entry is put into a store, or taken out of it.
LEMMA EntryChanges ==
  ASSUME NEW E, NEW st, Holds(st, E), st # None, NEW n \in Networks, NEW e \in E \cup {None}
  PROVE  Holds([st EXCEPT ![n] = e], E)
BY Zenon DEF Holds

\* What a session starts with is the default, or an entry with its wrapper; the
\* stores have no entry they did not have.
LEMMA LookupFinds ==
  ASSUME NEW E, StoresHold(E), NEW st \in Opened, NEW n \in Networks, Lookup(st, n)
  PROVE  /\ StoresHold(E)'
         /\ \/ helper' = Learned(Default, repairs)
            \/ \E e \in E : helper' = Learned(PassThroughFirst(e.strategy), e.since)
<1>1. Holds(st, E)
  BY Zenon DEF StoresHold, Holds, Opened, Empty
<1> DEFINE entry == IF st = None THEN None ELSE st[n]
<1>2. entry # None => st # None /\ entry \in E
  BY <1>1, Zenon DEF Holds
<1>3. CASE store' = st /\ UNCHANGED disk /\
           helper' = IF entry # None /\ UsableOnOS(entry.strategy)
                     THEN Learned(PassThroughFirst(entry.strategy), entry.since)
                     ELSE Learned(Default, repairs)
  <2>1. StoresHold(E)'
    BY <1>1, <1>3, Zenon DEF StoresHold, Holds
  <2> HIDE DEF entry
  <2>2. \/ helper' = Learned(Default, repairs)
        \/ entry # None /\ helper' = Learned(PassThroughFirst(entry.strategy), entry.since)
    BY <1>3, Zenon
  <2> QED BY <1>2, <2>1, <2>2, Zenon
<1>4. CASE entry # None /\ Save([st EXCEPT ![n] = None]) /\ helper' = Learned(Default, repairs)
  <2>1. Holds([st EXCEPT ![n] = None], E)
    BY <1>1, <1>2, <1>4, EntryChanges, Zenon
  <2> QED BY <1>4, <2>1, Zenon DEF StoresHold, Holds, Save
<1> QED BY <1>3, <1>4, Zenon DEF Lookup

\* What is verified is put into the store, if there is one.
LEMMA PutAdds ==
  ASSUME NEW E, StoresHold(E), NEW s, NEW since, network \in Networks,
         Learned(strategyForCache(s), since) \in E, Put(s, since)
  PROVE  StoresHold(E)'
<1>1. CASE store = None
  BY <1>1, Zenon DEF Put, storeVars, StoresHold, Holds
<1>2. CASE store # None
  <2> DEFINE next == [store EXCEPT ![network] = Learned(strategyForCache(s), since)]
  <2>1. Holds(next, E)
    BY <1>2, EntryChanges, Zenon DEF StoresHold
  <2>2. store' = next /\ disk' \in {disk, next}
    BY <1>2, Zenon DEF Put, Save
  <2> HIDE DEF next
  <2> QED BY <2>1, <2>2, Zenon DEF StoresHold, Holds
<1> QED BY <1>1, <1>2, Zenon

\* The steps that leave the stores and the helper, or the engine off.
LEMMA StoresMove ==
  ASSUME [Next]_vars
  PROVE  \/ Start \/ Repair \/ VerifyPasses
         \/ /\ UNCHANGED disk /\ store' \in {store, None} /\ UNCHANGED <<verified, repairs, kept>>
            /\ on' => on /\ UNCHANGED <<helper, session>>
BY DEF Next, vars, storeVars, countVars, Stop, Crash, ObserveNetwork, Replaced, ScanBegin, ProducerEnds,
       BudgetEnds, TakeJob, WorkerQuits, TrialStart, TrialFails, TrialProbed, TrialEnds, TrialWins,
       ScanReturns, VerifyFails

\* A step leaves nothing in the stores but what they had and what the scan
\* verified, and the helper runs what it ran, the default, an entry, or what the
\* scan verified.
LEMMA StoresKept ==
  ASSUME NEW E, StoresHold(E), ScanTyped, [Next]_vars,
         VerifyPasses => Learned(strategyForCache(best), scan.since) \in E
  PROVE  /\ StoresHold(E)'
         /\ on' => \/ on /\ UNCHANGED helper
                   \/ helper' = Learned(Default, repairs)
                   \/ \E e \in E : helper' = Learned(PassThroughFirst(e.strategy), e.since)
                   \/ VerifyPasses /\ helper' = Learned(best, scan.since)
<1>1. CASE Start
  <2>1. PICK st \in Opened : Lookup(st, network') /\ network' \in Networks
    BY <1>1, Zenon DEF Start
  <2>2. PICK n \in Networks : n = network'
    BY <2>1, Zenon
  <2>3. Lookup(st, n)
    BY <2>1, <2>2, Zenon
  <2> QED BY <2>3, LookupFinds, Zenon
<1>2. CASE Repair
  BY <1>2, Zenon DEF Repair, StoresHold, Holds
<1>3. CASE VerifyPasses
  <2>1. network \in Networks /\ Put(best, scan.since)
    BY <1>3, Zenon DEF ScanTyped, VerifyPasses
  <2>2. PICK s, k : s = best /\ k = scan.since
    OBVIOUS
  <2>3. StoresHold(E)'
    BY <1>3, <2>1, <2>2, PutAdds, Zenon
  <2> QED BY <1>3, <2>3, Zenon DEF VerifyPasses
<1>4. CASE UNCHANGED disk /\ store' \in {store, None} /\ (on' => on /\ UNCHANGED helper)
  BY <1>4, Zenon DEF StoresHold, Holds
<1> QED BY <1>1, <1>2, <1>3, <1>4, StoresMove, Zenon

\* What is stored is stored for a larger set too.
LEMMA HoldsMore ==
  ASSUME NEW D, NEW E, D \subseteq E, StoresHold(D)
  PROVE  StoresHold(E)
BY Zenon DEF StoresHold, Holds

\* The names of what is stored are the candidates'.
LEMMA StoredNamed ==
  ASSUME NEW C \in SUBSET Wrapped, NEW K, NEW e \in Stored(C, K)
  PROVE  PassThroughFirst(e.strategy).id \in Ids /\ e.since \in K
<1>1. PICK c \in C, k \in K : e = Learned(strategyForCache(c), k)
  BY DEF Stored
<1>2. e.strategy = strategyForCache(c) /\ e.since = k
  BY <1>1, Zenon DEF Learned
<1>3. c.id \in Ids
  BY CandidatesAreNamed, Zenon
<1> QED BY <1>2, <1>3, WrapperKeepsName, Zenon

\* The winner that is verified is a candidate.
LEMMA VerifiedIsCandidate ==
  ASSUME ScanInv, VerifyPasses
  PROVE  /\ best \in Wrapped /\ scan.since \in Nat /\ on /\ scan.pc # "idle" /\ scan.session = session
         /\ verified' = verified \cup {best} /\ UNCHANGED <<on, session, repairs, kept>>
BY Zenon DEF VerifyPasses, ScanInv, WinnersProved, ScanTyped, Stands, Current, countVars

\* The history of what was verified grows.
LEMMA VerifiedGrows ==
  ASSUME [Next]_vars
  PROVE  verified \subseteq verified'
<1>1. verified' = verified \/ verified' = verified \cup {best}
  BY StoresMove, Zenon DEF Start, Repair, VerifyPasses
<1> QED BY <1>1, Zenon

\* The stores keep to what was verified.
LEMMA StoresStep ==
  ASSUME ScanInv, StoresFit, [Next]_vars
  PROVE  StoresFit'
<1>1. PICK C : C = Wrapped \cap verified'
  OBVIOUS
<1>2. PICK B : B = Wrapped \cap verified
  OBVIOUS
<1>3. B \subseteq C
  BY <1>1, <1>2, VerifiedGrows, Zenon
<1> DEFINE E == Stored(C, Nat)
<1>4. StoresHold(Stored(B, Nat)) /\ Stored(B, Nat) \subseteq E
  BY <1>2, <1>3 DEF StoresFit, Stored
<1>5. StoresHold(E)
  BY <1>4, HoldsMore, Zenon
<1>6. VerifyPasses => Learned(strategyForCache(best), scan.since) \in E
  BY <1>1, VerifiedIsCandidate DEF Stored
<1>7. ScanTyped
  BY Zenon DEF ScanInv
<1> HIDE DEF E
<1>8. /\ StoresHold(E)'
      /\ on' => \/ on /\ UNCHANGED helper
                \/ helper' = Learned(Default, repairs)
                \/ \E e \in E : helper' = Learned(PassThroughFirst(e.strategy), e.since)
                \/ VerifyPasses /\ helper' = Learned(best, scan.since)
  BY <1>5, <1>6, <1>7, StoresKept, Zenon
<1>9. on' => helper'.strategy.id \in Ids
  <2>1. CASE on /\ UNCHANGED helper
    BY <2>1, Zenon DEF StoresFit
  <2>2. CASE helper' = Learned(Default, repairs)
    BY <2>2, CandidatesAreNamed, Zenon DEF Learned
  <2>3. CASE \E e \in E : helper' = Learned(PassThroughFirst(e.strategy), e.since)
    <3>1. PICK e \in E : helper' = Learned(PassThroughFirst(e.strategy), e.since)
      BY <2>3, Zenon
    <3>2. PassThroughFirst(e.strategy).id \in Ids
      BY <1>1, StoredNamed, Zenon DEF E
    <3> QED BY <3>1, <3>2, Zenon DEF Learned
  <2>4. CASE VerifyPasses /\ helper' = Learned(best, scan.since)
    <3>1. best.id \in Ids
      BY <2>4, VerifiedIsCandidate, CandidatesAreNamed, Zenon
    <3> QED BY <2>4, <3>1, Zenon DEF Learned
  <2> QED BY <1>8, <2>1, <2>2, <2>3, <2>4, Zenon
<1>10. StoresHold(Stored(Wrapped \cap verified, Nat))'
  BY <1>1, <1>8, Zenon DEF E, StoresHold, Holds
<1> QED BY <1>9, <1>10, Zenon DEF StoresFit

\* A repair ends the session, and the next session has a number of its own.
LEMMA RecentStep ==
  ASSUME ScanTyped, ScanIsRecent, [Next]_vars
  PROVE  ScanIsRecent'
<1>1. CASE Start
  <2>1. scan' = scan /\ session' = session + 1 /\ scan.session <= session
        /\ scan.session \in Nat /\ session \in Nat
    BY <1>1, Zenon DEF Start, scanVars, ScanTyped
  <2>2. scan.session # session + 1
    BY <2>1
  <2> QED BY <2>1, <2>2, Zenon DEF ScanIsRecent
<1>2. CASE Repair
  BY <1>2, Zenon DEF Repair, ScanIsRecent
<1>3. CASE ScanBegin
  BY <1>3, Zenon DEF ScanBegin, ScanIsRecent
<1>4. CASE ~Start /\ ~Repair /\ ~ScanBegin
  <2>1. (on' => on /\ UNCHANGED <<session, repairs>>)
    BY <1>4, StoresMove, Zenon DEF VerifyPasses, countVars
  <2>2. \/ UNCHANGED scan \/ scan' = NoScan
        \/ scan.pc = "scanning" /\ scan' = [scan EXCEPT !.pc = "verify"]
    BY <1>4, Zenon
      DEF Next, vars, scanVars, Stop, Crash, ObserveNetwork, Replaced, ProducerEnds, BudgetEnds,
           TakeJob, WorkerQuits, TrialStart, TrialFails, TrialProbed, TrialEnds, TrialWins,
           ScanReturns, VerifyPasses, VerifyFails, ScanDone
  <2>3. CASE UNCHANGED scan
    BY <2>1, <2>3, Zenon DEF ScanIsRecent
  <2>4. CASE scan' = NoScan
    BY <2>4, Zenon DEF ScanIsRecent, NoScan
  <2>5. CASE scan.pc = "scanning" /\ scan' = [scan EXCEPT !.pc = "verify"]
    <3>1. scan'.session = scan.session /\ scan'.since = scan.since
      BY <2>5, Zenon DEF ScanTyped
    <3> QED BY <2>1, <2>5, <3>1, Zenon DEF ScanIsRecent
  <2> QED BY <2>2, <2>3, <2>4, <2>5, Zenon
<1> QED BY <1>1, <1>2, <1>3, <1>4, Zenon

\* What was learned before a repair stays forgotten.
LEMMA ForgottenStep ==
  ASSUME ScanInv, ScanIsRecent, Forgotten, [Next]_vars
  PROVE  Forgotten'
<1>1. CASE Repair
  <2>1. on' = FALSE /\ store' = None /\ (~kept' => disk' = None)
    BY <1>1, Zenon DEF Repair
  <2> QED BY <2>1, Zenon DEF Forgotten, StoresHold, Holds
<1>2. CASE ~Repair
  <2>1. UNCHANGED <<repairs, kept>>
    BY <1>2, StoresMove, Zenon DEF Start, VerifyPasses, countVars
  <2> SUFFICES ASSUME ~kept PROVE StoresHold(Stored(Wrapped, {repairs}))' /\ (on' => helper'.since = repairs)
    BY <2>1, Zenon DEF Forgotten
  <2>2. PICK k : k = repairs
    OBVIOUS
  <2> DEFINE E == Stored(Wrapped, {k})
  <2>3. StoresHold(E) /\ (on => helper.since = k)
    BY <2>2, Zenon DEF Forgotten
  <2>4. VerifyPasses => scan.since = k
    BY <2>2, VerifiedIsCandidate, Zenon DEF ScanIsRecent
  <2>5. VerifyPasses => Learned(strategyForCache(best), scan.since) \in E
    BY <2>4, VerifiedIsCandidate DEF Stored
  <2>6. ScanTyped
    BY Zenon DEF ScanInv
  <2> HIDE DEF E
  <2>7. /\ StoresHold(E)'
        /\ on' => \/ on /\ UNCHANGED helper
                  \/ helper' = Learned(Default, repairs)
                  \/ \E e \in E : helper' = Learned(PassThroughFirst(e.strategy), e.since)
                  \/ VerifyPasses /\ helper' = Learned(best, scan.since)
    BY <2>3, <2>5, <2>6, StoresKept, Zenon
  <2>8. \A e \in E : e.since = k
    BY StoredNamed DEF E
  <2>9. on' => helper'.since = k
    <3>1. CASE on /\ UNCHANGED helper
      BY <2>3, <3>1, Zenon
    <3>2. CASE helper' = Learned(Default, repairs)
      BY <2>2, <3>2, Zenon DEF Learned
    <3>3. CASE \E e \in E : helper' = Learned(PassThroughFirst(e.strategy), e.since)
      BY <2>8, <3>3 DEF Learned
    <3>4. CASE VerifyPasses /\ helper' = Learned(best, scan.since)
      BY <2>4, <3>4, Zenon DEF Learned
    <3> QED BY <2>7, <3>1, <3>2, <3>3, <3>4, Zenon
  <2>10. StoresHold(Stored(Wrapped, {repairs}))'
    BY <2>1, <2>2, <2>7, Zenon DEF E, StoresHold, Holds
  <2> QED BY <2>2, <2>9, <2>10, Zenon
<1> QED BY <1>1, <1>2, Zenon

-----------------------------------------------------------------------------
(* Every step. *)

\* The steps preserve what the scan relies on.
LEMMA ScanStep ==
  ASSUME ScanInv, StoresFit, [Next]_vars
  PROVE  ScanInv'
<1>0. ScanTyped
  BY Zenon DEF ScanInv
<1>1. CASE Start
  BY <1>1, ScanLeft, Zenon DEF Start, scanVars, countVars
<1>2. CASE Stop \/ ObserveNetwork \/ Replaced \/ BudgetEnds
  BY <1>0, <1>2, ScanLeft, Zenon
    DEF Stop, Ended, ObserveNetwork, Replaced, BudgetEnds, scanVars, countVars, ScanTyped
<1>3. CASE Repair
  BY <1>0, <1>3, ScanLeft, Zenon DEF Repair, Ended, ScanTyped
<1>4. CASE Crash
  BY <1>4, ScanEnded, Zenon DEF Crash, countVars
<1>5. CASE UNCHANGED vars
  BY <1>0, <1>5, ScanLeft, Zenon DEF vars, scanVars, countVars, ScanTyped
<1>6. CASE ScanBegin
  BY <1>6, ScanBeginStep, Zenon
<1>7. CASE ProducerEnds
  BY <1>7, ProducerStep, Zenon
<1>8. ASSUME NEW w \in Workers,
             TakeJob(w) \/ WorkerQuits(w) \/ TrialStart(w) \/ TrialFails(w) \/ TrialProbed(w) \/ TrialWins(w)
      PROVE  ScanInv'
  BY <1>8, TakeJobStep, WorkerLeaves, TrialStartStep, TrialEndsStep, Zenon
<1>9. CASE ScanReturns \/ VerifyPasses \/ VerifyFails
  BY <1>9, ReturnStep, Zenon
<1> QED BY <1>1, <1>2, <1>3, <1>4, <1>5, <1>6, <1>7, <1>8, <1>9, Zenon DEF Next

\* The invariant holds at first.
LEMMA InitIInv == Init => IInv
<1> SUFFICES ASSUME Init PROVE IInv
  OBVIOUS
<1>1. /\ NoTrial \in Trials /\ NoTrial.pc = "none" /\ NoScan.pc = "idle" /\ NoScan.session = 0
      /\ NoScan \in [pc : {"idle", "scanning", "verify"}, session : Nat, skip : Ids \cup {None}, since : Nat]
  BY Zenon DEF NoTrial, Trials, NoScan
<1>2. \A w \in Workers : trial[w] = NoTrial
  BY Zenon DEF Init
<1>3. ScanTyped
  BY <1>1, <1>2 DEF Init, ScanTyped
<1>4. ScanIsOver /\ JobsFit /\ NoneLost /\ WinnersProved
  BY <1>1, <1>2, Zenon DEF Init, ScanIsOver, JobsFit, NoneLost, WinnersProved
<1>5. StoresFit /\ ScanIsRecent /\ Forgotten
  BY Zenon DEF Init, StoresFit, ScanIsRecent, Forgotten, StoresHold, Holds
<1> QED BY <1>3, <1>4, <1>5, Zenon DEF IInv

\* Every step preserves the invariant.
LEMMA Invariance == IInv /\ [Next]_vars => IInv'
<1> SUFFICES ASSUME IInv, [Next]_vars PROVE IInv'
  OBVIOUS
<1>1. ScanInv /\ ScanTyped /\ StoresFit /\ ScanIsRecent /\ Forgotten
  BY Zenon DEF IInv, ScanInv
<1>2. ScanInv' /\ StoresFit' /\ ScanIsRecent' /\ Forgotten'
  BY <1>1, ScanStep, StoresStep, RecentStep, ForgottenStep, Zenon
<1> QED BY <1>2, Zenon DEF IInv, ScanInv

\* The invariant holds in every behaviour.
LEMMA IInvHolds == Spec => []IInv
BY InitIInv, Invariance, PTL DEF Spec

-----------------------------------------------------------------------------
(* The properties. *)

\* The scan's verdict: what it finds was proved by a trial in time, it is
\* exhausted only after every candidate was tried, and it returns after every
\* trial helper is gone (scan.go), for any candidates and any number of workers.
THEOREM VerdictIsSound == Spec => []ScanVerdict
<1>1. IInv => ScanVerdict
  <2> SUFFICES ASSUME IInv PROVE ScanVerdict
    OBVIOUS
  <2>0. ScanTyped /\ ScanIsOver /\ JobsFit /\ NoneLost /\ WinnersProved
    BY Zenon DEF IInv
  <2>1. best # None => best \in proved
    BY <2>0, Zenon DEF WinnersProved
  <2>2. ASSUME scan.pc = "scanning", budget = "open", \A w \in Workers : trial[w].pc = "none"
        PROVE  tried = DOMAIN Cands
    <3>1. feed = 0
      BY <2>0, <2>2, StrategyAssumption, Zenon DEF NoneLost
    <3>2. DOMAIN Cands \subseteq tried
      BY <2>0, <2>2, <3>1, Zenon DEF NoneLost, Held
    <3> QED BY <2>0, <2>2, <3>2, Zenon DEF JobsFit
  <2>3. scan.pc # "scanning" => \A w \in Workers : ~trial[w].proc
    BY <2>0 DEF ScanIsOver, ScanTyped, NoTrial
  <2> QED BY <2>1, <2>2, <2>3, Zenon DEF ScanVerdict
<1> QED BY <1>1, IInvHolds, PTL

\* After a repair that could delete the file, no session, scan or start brings
\* back what was learned before it (Engine.Repair, ClearLearnedState).
THEOREM RepairsForget == Spec => []RepairForgets
<1>1. IInv => RepairForgets
  <2> SUFFICES ASSUME IInv, ~kept
      PROVE  /\ store = None \/ \A n \in Networks : store[n] # None => store[n].since = repairs
             /\ disk = None \/ \A n \in Networks : disk[n] # None => disk[n].since = repairs
             /\ on => helper.since = repairs
    BY Zenon DEF RepairForgets
  <2>1. \A e \in Stored(Wrapped, {repairs}) : e.since = repairs
    BY StoredNamed
  <2> QED BY <2>1, Zenon DEF IInv, Forgotten, StoresHold, Holds
<1> QED BY <1>1, IInvHolds, PTL

\* What the store gives back is what was put into it.
RoundTrip == \A c \in Wrapped : PassThroughFirst(strategyForCache(c)) = c

HelperSound == on => helper.strategy = Default \/ helper.strategy \in verified

\* A start, the store and its file deploy only the default or, argument for
\* argument, what the real helper and the gateway verified, provided that the
\* wrapper comes back on each candidate as it was (what the loops over the
\* arguments compute is an induction over data).
THEOREM OnlyVerifiedDeployed ==
  ASSUME RoundTrip
  PROVE  Spec => []DeployedAsVerified
<1>1. Init => HelperSound
  BY Zenon DEF Init, HelperSound
<1>2. ASSUME NEW e, e \in Stored(Wrapped \cap verified, Nat) PROVE PassThroughFirst(e.strategy) \in verified
  <2>1. PICK c \in Wrapped \cap verified, k \in Nat : e = Learned(strategyForCache(c), k)
    BY <1>2 DEF Stored
  <2> QED BY <2>1, Zenon DEF Learned, RoundTrip
<1>3. IInv /\ HelperSound /\ [Next]_vars => HelperSound'
  <2> SUFFICES ASSUME IInv, HelperSound, [Next]_vars, on'
      PROVE  helper'.strategy = Default \/ helper'.strategy \in verified'
    BY Zenon DEF HelperSound
  <2>1. verified \subseteq verified' /\ ScanInv /\ ScanTyped
    BY VerifiedGrows, Zenon DEF IInv, ScanInv
  <2>2. PICK C : C = Wrapped \cap verified'
    OBVIOUS
  <2>3. PICK B : B = Wrapped \cap verified
    OBVIOUS
  <2> DEFINE E == Stored(C, Nat)
  <2>4. StoresHold(Stored(B, Nat)) /\ Stored(B, Nat) \subseteq E
    BY <2>1, <2>2, <2>3 DEF IInv, StoresFit, Stored
  <2>5. StoresHold(E)
    BY <2>4, HoldsMore, Zenon
  <2>6. VerifyPasses => Learned(strategyForCache(best), scan.since) \in E
    BY <2>1, <2>2, VerifiedIsCandidate DEF Stored
  <2>7. ASSUME NEW e \in E PROVE PassThroughFirst(e.strategy) \in verified'
    <3>1. PICK c \in C, k \in Nat : e = Learned(strategyForCache(c), k)
      BY DEF Stored
    <3> QED BY <2>2, <3>1, Zenon DEF Learned, RoundTrip
  <2> HIDE DEF E
  <2>8. \/ on /\ UNCHANGED helper
        \/ helper' = Learned(Default, repairs)
        \/ \E e \in E : helper' = Learned(PassThroughFirst(e.strategy), e.since)
        \/ VerifyPasses /\ helper' = Learned(best, scan.since)
    BY <2>1, <2>5, <2>6, StoresKept, Zenon
  <2>9. CASE on /\ UNCHANGED helper
    BY <2>1, <2>9, Zenon DEF HelperSound
  <2>10. CASE helper' = Learned(Default, repairs)
    BY <2>10, Zenon DEF Learned
  <2>11. CASE \E e \in E : helper' = Learned(PassThroughFirst(e.strategy), e.since)
    BY <2>7, <2>11 DEF Learned
  <2>12. CASE VerifyPasses /\ helper' = Learned(best, scan.since)
    BY <2>1, <2>12, VerifiedIsCandidate, Zenon DEF Learned
  <2> QED BY <2>8, <2>9, <2>10, <2>11, <2>12, Zenon
<1>4. IInv /\ HelperSound => DeployedAsVerified
  <2> SUFFICES ASSUME IInv, HelperSound PROVE DeployedAsVerified
    OBVIOUS
  <2>1. StoresHold(Stored(Wrapped \cap verified, Nat))
    BY Zenon DEF IInv, StoresFit
  <2>2. ASSUME NEW st, Holds(st, Stored(Wrapped \cap verified, Nat)), st # None, NEW n \in Networks, st[n] # None
        PROVE  PassThroughFirst(st[n].strategy) \in verified
    BY <1>2, <2>2, Zenon DEF Holds
  <2>3. /\ store = None \/ \A n \in Networks : store[n] # None => PassThroughFirst(store[n].strategy) \in verified
        /\ disk = None \/ \A n \in Networks : disk[n] # None => PassThroughFirst(disk[n].strategy) \in verified
    BY <2>1, <2>2, Zenon DEF StoresHold
  <2> QED BY <2>3, Zenon DEF DeployedAsVerified, HelperSound
<1> QED BY <1>1, <1>3, <1>4, IInvHolds, PTL DEF Spec

=============================================================================

--------------------------- MODULE ResolverProofs ---------------------------
(***************************************************************************)
(* Proofs about module Resolver, for any number of callers, questions,     *)
(* endpoints and flights, any limits and any number of resets.             *)
(*                                                                         *)
(* The argument: the map of flights holds flights of the current network   *)
(* only, under their own key, and as long as the client is open none that  *)
(* was cancelled (MapFits); a flight of the current network that was not   *)
(* cancelled and has not landed is in the map (InMap).  So a question      *)
(* joins the one flight that still may store an answer, and no flight of   *)
(* before a reset.  A flight is forgotten only when nobody waits for it,   *)
(* which its count of waiters says exactly (WaitersCounted).               *)
(***************************************************************************)
EXTENDS Resolver, FiniteSetTheorems, WellFoundedInduction, TLAPS

ActivePcs == {"begin", "race", "won", "land"}

Kept == {q \in Questions : cache[q] # NoEntry}

\* A caller that is not done asks a question, and one that waits has a flight.
CallersFit ==
  \A c \in Callers :
    /\ caller[c].pc # "answered" => caller[c].question \in Questions
    /\ caller[c].pc = "wait" => caller[c].flight \in Flights

\* A flight has a key and was started on this network or an earlier one; one
\* that is none has nobody waiting.
FlightsFit ==
  \A f \in Flights :
    /\ flight[f].pc # "none" => flight[f].key \in Keys /\ flight[f].generation <= generation
    /\ flight[f].pc = "none" => flight[f].waiters = 0

\* What the map holds: flights of this network under their own key that have
\* not landed, and, while the client is open, were not cancelled.
MapFits ==
  \A k \in Keys : flights[k] # None =>
    /\ flight[flights[k]].pc \in ActivePcs
    /\ flight[flights[k]].key = k /\ flight[flights[k]].generation = generation
    /\ ~closed => ~flight[flights[k]].cancelled

\* Every flight that may still store an answer is in the map.
InMap ==
  \A f \in Flights :
    flight[f].pc \in ActivePcs /\ ~flight[f].cancelled /\ flight[f].generation = generation
      => flights[flight[f].key] = f

\* The waiters of a flight are finitely many and counted exactly.
WaitersCounted ==
  \A f \in Flights : IsFiniteSet(Waiting(f)) /\ flight[f].waiters = Cardinality(Waiting(f))

\* Somebody waits only for a flight that was not cancelled, while the client is
\* open.
WaitsForLive ==
  ~closed => \A f \in Flights : Waiting(f) # {} => ~flight[f].cancelled

\* No two flights that may still store an answer have the same key.
OneFlight ==
  \A f, g \in Flights :
    (/\ f # g /\ flight[f].key = flight[g].key /\ flight[f].generation = flight[g].generation
     /\ flight[f].pc \in ActivePcs /\ flight[g].pc \in ActivePcs)
    => flight[f].cancelled \/ flight[g].cancelled

\* An entry was stored before now, is kept no longer than its answer allows, is
\* clean and of this network.
CacheFits ==
  \A q \in Questions : cache[q] # NoEntry =>
    /\ cache[q].stored <= now /\ cache[q].expires <= cache[q].stored + cache[q].answer.ttl
    /\ cache[q].answer.content = "clean" /\ cache[q].network = generation

\* A flight under way has an answer of an upstream, or none.
ResultsFit ==
  \A f \in Flights : flight[f].pc \in ActivePcs => flight[f].result \in Answer \cup {Failed}

WaitsOnOwnNetwork ==
  \A c \in Callers : caller[c].pc = "wait" => flight[caller[c].flight].generation = caller[c].network

GotSound == \A c \in Callers : caller[c].got # "poison" /\ ~caller[c].stale

IInv == /\ TypeOK /\ IsFiniteSet(Kept)
        /\ CallersFit /\ FlightsFit /\ MapFits /\ InMap
        /\ WaitersCounted /\ WaitsForLive /\ OneFlight
        /\ WaitsOnOwnNetwork /\ CacheFits /\ ResultsFit /\ GotSound
        /\ CircuitIsExact

-----------------------------------------------------------------------------
(* Numbers. *)

\* A finite set of naturals that is not empty has a greatest element.
LEMMA MaxExists ==
  ASSUME NEW S \in SUBSET Nat, S # {}, IsFiniteSet(S)
  PROVE  Max(S) \in S
<1> DEFINE NoMax(T) == ~ \E x \in T : \A y \in T : x >= y
           Bad == {T \in SUBSET S : T # {} /\ NoMax(T)}
<1>1. FiniteSubsetsOf(S) = SUBSET S
  BY FS_FiniteSubsetsOfFinite
<1>2. IsWellFoundedOn(StrictSubsetOrdering(S), SUBSET S)
  BY <1>1, FS_StrictSubsetOrderingWellFounded
<1>3. ASSUME Bad # {} PROVE FALSE
  <2>1. PICK T \in Bad : \A U \in Bad : <<U, T>> \notin StrictSubsetOrdering(S)
    BY <1>2, <1>3, WFMin, Zenon
  <2>2. PICK x \in T : TRUE
    BY <2>1, Zenon
  <2> DEFINE U == T \ {x}
  <2>3. U \in SUBSET S /\ T \in SUBSET S /\ U \subseteq T /\ U # T
    BY <2>1, <2>2
  <2>4. U \notin Bad
    BY <2>1, <2>3, Zenon DEF StrictSubsetOrdering
  <2>5. CASE U = {}
    BY <2>1, <2>2, <2>3, <2>5
  <2>6. CASE \E m \in U : \A y \in U : m >= y
    <3>1. PICK m \in U : \A y \in U : m >= y
      BY <2>6
    <3>2. m \in T /\ m \in Nat /\ x \in Nat /\ \A y \in T : y \in Nat /\ (y = x \/ m >= y)
      BY <2>3, <2>2, <3>1
    <3>3. CASE m >= x
      BY <2>1, <3>2, <3>3
    <3>4. CASE ~(m >= x)
      BY <2>1, <2>2, <3>2, <3>4
    <3> QED BY <3>3, <3>4
  <2> QED BY <2>3, <2>4, <2>5, <2>6
<1>4. \E x \in S : \A y \in S : x >= y
  BY <1>3
<1> QED BY <1>4, Zenon DEF Max

\* The smaller of two naturals.
LEMMA MinOfTwo ==
  ASSUME NEW a \in Nat, NEW b \in Nat
  PROVE  Min({a, b}) \in Nat /\ Min({a, b}) <= a /\ Min({a, b}) <= b
<1>1. \E x \in {a, b} : \A y \in {a, b} : x =< y
  BY SMT
<1>2. Min({a, b}) \in {a, b} /\ \A y \in {a, b} : Min({a, b}) =< y
  BY <1>1 DEF Min
<1> QED BY <1>2

\* What an upstream may answer has a TTL that is a natural number.
LEMMA AnswerTyped ==
  ASSUME NEW a \in Answer
  PROVE  a.content \in Contents /\ a.ttl \in Nat
         /\ a \in [content : Contents \cup {"error"}, ttl : Nat]
<1>1. Max(TTLs) \in Nat /\ TTLs \subseteq Nat
  BY MaxExists, LimitAssumption, Zenon
<1> QED BY <1>1, Zenon DEF Answer, Contents

-----------------------------------------------------------------------------
(* What a step does to the flights and to the callers. *)

FlightPcs == {"none", "done"} \cup ActivePcs

Result == [content : Contents \cup {"error"}, ttl : Nat]

\* Who waits for the flight, and for what, does not change.
Same(f, r) == /\ r.key = flight[f].key /\ r.generation = flight[f].generation
              /\ r.waiters = flight[f].waiters /\ r.cancelled = flight[f].cancelled

\* The exchange of a flight goes on.
Runs(f) ==
  /\ flight[f].pc \in ActivePcs
  /\ \E r \in FlightType :
       /\ flight' = [flight EXCEPT ![f] = r] /\ r.pc \in ActivePcs /\ Same(f, r)
       /\ r.result \in Answer \cup {Failed, flight[f].result}
  /\ UNCHANGED <<queryVars, caller, closed, now>>

\* A flight ends; nobody remembers one that nobody waits for.
Lands(f) ==
  /\ flight[f].pc \in ActivePcs
  /\ LeavesMap(f)
  /\ \E r \in FlightType :
       /\ flight' = [flight EXCEPT ![f] = r]
       /\ (r = NoFlight /\ flight[f].waiters = 0) \/ (r.pc = "done" /\ Same(f, r))
  /\ UNCHANGED <<generation, caller, closed, now>>

\* A caller is answered, or asks the same question over plain DNS.
Settles(c, r) ==
  /\ r \in CallerType /\ r.pc \in {"enter", "answered"}
  /\ r.pc = "enter" => r.question = caller[c].question
  /\ r.got # "poison" /\ ~r.stale

Asks(c) ==
  /\ caller[c].pc = "enter"
  /\ \E r \in CallerType : caller' = [caller EXCEPT ![c] = r] /\ Settles(c, r)
  /\ UNCHANGED <<queryVars, flight, closed, now>>

\* A caller leaves the flight it waits for; the last one cancels it.
Leaves(c) ==
  LET f    == caller[c].flight
      last == flight[f].waiters = 1
  IN /\ caller[c].pc = "wait"
     /\ \E r \in CallerType : caller' = [caller EXCEPT ![c] = r] /\ Settles(c, r)
     /\ \E r \in FlightType :
          /\ flight' = [flight EXCEPT ![f] = r]
          /\ r.waiters = flight[f].waiters - 1
          /\ \/ r = NoFlight /\ flight[f].pc = "done"
             \/ /\ r.pc = flight[f].pc /\ r.key = flight[f].key /\ r.generation = flight[f].generation
                /\ r.cancelled = (flight[f].cancelled \/ last) /\ r.result = flight[f].result
     /\ flights' = IF last /\ flights[flight[f].key] = f
                   THEN [flights EXCEPT ![flight[f].key] = None] ELSE flights
     /\ UNCHANGED <<cache, generation, closed, now>>

\* A caller waits for the flight of its key, which it starts if there is none.
Waits(c, f) ==
  /\ caller[c].pc = "enter"
  /\ \E r \in CallerType :
       /\ caller' = [caller EXCEPT ![c] = r]
       /\ r.pc = "wait" /\ r.flight = f /\ r.network = generation
       /\ r.question = caller[c].question /\ r.got = caller[c].got /\ r.stale = caller[c].stale
  /\ \E r \in FlightType :
       /\ flight' = [flight EXCEPT ![f] = r]
       /\ \/ /\ flights[Key(c)] = f /\ UNCHANGED flights
             /\ r.pc = flight[f].pc /\ r.key = flight[f].key /\ r.generation = flight[f].generation
             /\ r.waiters = flight[f].waiters + 1 /\ r.cancelled = flight[f].cancelled
             /\ r.result = flight[f].result
          \/ /\ flights[Key(c)] = None /\ flights' = [flights EXCEPT ![Key(c)] = f]
             /\ flight[f].pc = "none" /\ r.pc = "begin"
             /\ r.key = Key(c) /\ r.generation = generation /\ r.waiters = 1 /\ ~r.cancelled
             /\ r.result = Failed
  /\ UNCHANGED <<generation, closed, now>>

\* A flight that is none is a flight.
LEMMA NoFlightTyped ==
  /\ NoFlight \in FlightType /\ NoFlight.pc = "none" /\ NoFlight.waiters = 0
  /\ NoFlight.cancelled = FALSE /\ Failed \in Result
BY DEF NoFlight, FlightType, Failed, Result, Contents

\* Whatever a caller is given, it is no poison address.
LEMMA OutcomeSettles ==
  ASSUME NEW c \in Callers, NEW r \in CallerType, NEW a \in Result, r.question = caller[c].question,
         r.got # "poison", ~r.stale
  PROVE  Settles(c, Outcome(c, r, a, FALSE))
<1> DEFINE got == IF a = Failed THEN "error" ELSE Filtered(c, a.content)
           p == [r EXCEPT !.pc = "enter", !.via = "plain", !.flight = None]
           n == [NoCall EXCEPT !.pc = "answered", !.got = got, !.stale = FALSE]
<1>1. got \in Contents \cup {"none", "error"} /\ got # "poison"
  BY DEF Filtered, Result, Contents
<1>2. p \in CallerType /\ p.pc = "enter" /\ p.question = r.question /\ p.got = r.got /\ p.stale = r.stale
  BY Zenon DEF CallerType, Transports
<1> HIDE DEF got
<1>3. n \in CallerType /\ n.pc = "answered" /\ n.got = got /\ n.stale = FALSE
  BY <1>1, Zenon DEF CallerType, NoCall, Transports
<1> HIDE DEF p, n
<1>4. Settles(c, p)
  BY <1>2 DEF Settles
<1>5. Settles(c, n)
  BY <1>1, <1>3 DEF Settles
<1>6. Outcome(c, r, a, FALSE) = p \/ Outcome(c, r, a, FALSE) = n
  BY DEF Outcome, p, n, got
<1> QED BY <1>4, <1>5, <1>6, Zenon

\* Every step of an exchange before its flight lands.
LEMMA ExchangeRuns ==
  ASSUME IInv, NEW f \in Flights,
         \/ Begin(f) \/ launchFallbacks(f) \/ RaceTimeout(f) \/ Prefer(f)
         \/ \E e \in Endpoints : EndpointFails(f, e) \/ \E a \in Answer : EndpointAnswers(f, e, a)
  PROVE  Runs(f)
<1> USE DEF Goes
<1> DEFINE x == flight[f]
           Step(pc, A, B, w, res) ==
             flight' = [flight EXCEPT ![f] = [x EXCEPT !.pc = pc, !.asked = A, !.failed = B, !.won = w,
                                                       !.result = res]]
<1>0. /\ x \in FlightType /\ x.pc \in FlightPcs /\ x.asked \in SUBSET Endpoints
      /\ x.failed \in SUBSET Endpoints
      /\ x.won \in Endpoints \cup {None} /\ x.result \in Result /\ Failed \in Result
      /\ preferred \in Endpoints \cup {None}
  BY NoFlightTyped DEF IInv, TypeOK, FlightType, FlightPcs, ActivePcs, Result
<1>1. x.pc \in ActivePcs /\ UNCHANGED <<queryVars, caller, closed, now>>
  BY DEF Begin, launchFallbacks, RaceTimeout, Prefer, EndpointFails, EndpointAnswers, ActivePcs
<1>2. ASSUME NEW pc \in ActivePcs, NEW A \in SUBSET Endpoints, NEW B \in SUBSET Endpoints,
             NEW w \in Endpoints \cup {None}, NEW res \in Result, Step(pc, A, B, w, res),
             res \in Answer \cup {Failed, x.result}
      PROVE  Runs(f)
  <2> DEFINE s == [x EXCEPT !.pc = pc, !.asked = A, !.failed = B, !.won = w, !.result = res]
  <2>1. /\ s \in FlightType /\ s.pc = pc /\ s.key = x.key /\ s.generation = x.generation
        /\ s.waiters = x.waiters /\ s.cancelled = x.cancelled /\ s.result = res
    <3>1. pc \in FlightPcs
      BY <1>2 DEF FlightPcs
    <3>2. s \in FlightType
      BY <1>0, <3>1, Zenon DEF FlightType, FlightPcs, ActivePcs, Result
    <3>3. /\ s.pc = pc /\ s.key = x.key /\ s.generation = x.generation
          /\ s.waiters = x.waiters /\ s.cancelled = x.cancelled /\ s.result = res
      BY <1>0 DEF FlightType
    <3> QED BY <3>2, <3>3
  <2>2. flight' = [flight EXCEPT ![f] = s]
    BY <1>2
  <2> HIDE DEF s
  <2> QED BY <1>1, <1>2, <2>1, <2>2, Zenon DEF Runs, Same
<1>3. ASSUME NEW res \in {Failed, x.result}, Ended(f, res) PROVE Runs(f)
  <2>1. Step("land", {}, {}, None, res) /\ res \in Result
    BY <1>0, <1>3 DEF Ended
  <2> QED BY <1>2, <2>1 DEF ActivePcs
<1>4. CASE Begin(f)
  <2>1. CASE Ended(f, Failed)
    BY <1>0, <1>3, <2>1, Zenon
  <2>2. ASSUME NEW A \in SUBSET Endpoints, Goes(f, [flight[f] EXCEPT !.pc = "race", !.asked = A])
        PROVE  Runs(f)
    <3>1. [x EXCEPT !.pc = "race", !.asked = A]
            = [x EXCEPT !.pc = "race", !.asked = A, !.failed = x.failed, !.won = x.won, !.result = x.result]
      BY <1>0, Zenon DEF FlightType
    <3>2. Step("race", A, x.failed, x.won, x.result)
      BY <2>2, <3>1, Zenon
    <3> QED BY <1>0, <1>2, <3>2 DEF ActivePcs
  <2>3. (IF preferred = None THEN Endpoints ELSE {preferred}) \in SUBSET Endpoints
    BY <1>0
  <2> QED BY <1>4, <2>1, <2>2, <2>3 DEF Begin
<1>5. CASE launchFallbacks(f)
  <2>1. [x EXCEPT !.asked = Endpoints]
          = [x EXCEPT !.pc = x.pc, !.asked = Endpoints, !.failed = x.failed, !.won = x.won,
                      !.result = x.result]
    BY <1>0, Zenon DEF FlightType
  <2>2. Step(x.pc, Endpoints, x.failed, x.won, x.result)
    BY <1>5, <2>1, Zenon DEF launchFallbacks
  <2> QED BY <1>0, <1>1, <1>2, <2>2
<1>6. CASE RaceTimeout(f)
  BY <1>0, <1>3, <1>6 DEF RaceTimeout, Fails
<1>7. CASE Prefer(f)
  BY <1>0, <1>3, <1>7, Zenon DEF Prefer
<1>8. ASSUME NEW e \in Endpoints, EndpointFails(f, e) PROVE Runs(f)
  <2> DEFINE B == x.failed \cup {e}
  <2>1. CASE Fails(f)
    BY <1>0, <1>3, <2>1, Zenon DEF Fails
  <2>2. CASE Goes(f, [flight[f] EXCEPT !.asked = Endpoints, !.failed = B])
    <3>1. [x EXCEPT !.asked = Endpoints, !.failed = B]
            = [x EXCEPT !.pc = x.pc, !.asked = Endpoints, !.failed = B, !.won = x.won, !.result = x.result]
      BY <1>0, Zenon DEF FlightType
    <3>2. Step(x.pc, Endpoints, B, x.won, x.result)
      BY <2>2, <3>1, Zenon
    <3>3. B \in SUBSET Endpoints
      BY <1>0
    <3> QED BY <1>0, <1>1, <1>2, <3>2, <3>3
  <2> QED BY <1>8, <2>1, <2>2 DEF EndpointFails
<1>9. ASSUME NEW e \in Endpoints, NEW a \in Answer, EndpointAnswers(f, e, a) PROVE Runs(f)
  <2>1. Step("won", {}, {}, e, a)
    BY <1>9 DEF EndpointAnswers
  <2>2. a \in Result
    BY AnswerTyped DEF Result
  <2> QED BY <1>2, <2>1, <2>2, Zenon DEF ActivePcs
<1> QED BY <1>4, <1>5, <1>6, <1>7, <1>8, <1>9

\* A flight that landed is kept while somebody waits for it.
LEMMA SettledLands ==
  ASSUME NEW r \in FlightType
  PROVE  /\ Settled(r) \in FlightType
         /\ (Settled(r) = NoFlight /\ r.pc = "done" /\ r.waiters = 0) \/ Settled(r) = r
BY NoFlightTyped DEF Settled

\* The end of a flight.
LEMMA FlightLands ==
  ASSUME IInv, NEW f \in Flights,
         \/ \E late \in BOOLEAN : Land(f, late)
         \/ \E content \in Contents \cup {"error"} : PlainEnds(f, content)
  PROVE  Lands(f)
<1> DEFINE x == flight[f]
<1>0. x \in FlightType /\ x.result \in Result
  BY Zenon DEF IInv, TypeOK, FlightType, Result
<1>1. x.pc \in ActivePcs /\ LeavesMap(f) /\ UNCHANGED <<generation, caller, closed, now>>
  BY Zenon DEF Land, PlainEnds, ActivePcs
<1>2. PICK res \in Result : Goes(f, Settled([x EXCEPT !.pc = "done", !.result = res]))
  <2>1. CASE \E late \in BOOLEAN : Land(f, late)
    <3>1. [x EXCEPT !.pc = "done"] = [x EXCEPT !.pc = "done", !.result = x.result]
      BY <1>0, Zenon DEF FlightType
    <3> QED BY <1>0, <2>1, <3>1 DEF Land
  <2>2. ASSUME NEW content \in Contents \cup {"error"}, PlainEnds(f, content)
        PROVE  \E res \in Result : Goes(f, Settled([x EXCEPT !.pc = "done", !.result = res]))
    <3>1. [content |-> content, ttl |-> 0] \in Result
      BY DEF Result
    <3> QED BY <2>2, <3>1 DEF PlainEnds
  <2> QED BY <2>1, <2>2, Zenon
<1> DEFINE r == [x EXCEPT !.pc = "done", !.result = res]
<1>3. r \in FlightType
  BY <1>0, <1>2, Zenon DEF FlightType, Result
<1>4. r.pc = "done" /\ Same(f, r)
  BY <1>0 DEF FlightType, Same
<1>5. flight' = [flight EXCEPT ![f] = Settled(r)]
  BY <1>2 DEF Goes
<1> HIDE DEF r
<1>6. CASE Settled(r) = NoFlight /\ r.waiters = 0
  <2>1. x.waiters = 0 /\ NoFlight \in FlightType
    BY <1>4, <1>6, NoFlightTyped DEF Same
  <2> QED BY <1>1, <1>5, <1>6, <2>1, Zenon DEF Lands
<1>7. CASE Settled(r) = r
  BY <1>1, <1>3, <1>4, <1>5, <1>7, Zenon DEF Lands
<1> QED BY <1>3, <1>6, <1>7, SettledLands

\* A caller leaves its flight, because the flight landed or because it cannot
\* wait any longer.
LEMMA CallerLeaves ==
  ASSUME IInv, NEW c \in Callers, GiveUp(c) \/ TakeResult(c)
  PROVE  Leaves(c)
<1> DEFINE f == caller[c].flight
           x == flight[f]
           last == x.waiters = 1
           r == [x EXCEPT !.waiters = x.waiters - 1, !.cancelled = x.cancelled \/ last]
<1>1. caller[c].pc = "wait" /\ releaseFlight(f) /\ UNCHANGED <<cache, generation, closed, now>>
  BY Zenon DEF GiveUp, TakeResult
<1>2. c \in Waiting(f) /\ f \in Flights
  BY <1>1 DEF Waiting, IInv, CallersFit
<1>3. x \in FlightType /\ x.waiters \in Nat /\ x.cancelled \in BOOLEAN
  BY <1>2 DEF IInv, TypeOK, FlightType
<1>4. x.waiters > 0
  BY <1>2, <1>3, FS_EmptySet, SMTT(30) DEF IInv, WaitersCounted
<1>5. r \in FlightType
  <2>1. x.waiters - 1 \in Nat /\ (x.cancelled \/ last) \in BOOLEAN
    BY <1>3, <1>4
  <2> QED BY <1>3, <2>1, Zenon DEF FlightType
<1>6. /\ r.pc = x.pc /\ r.key = x.key /\ r.generation = x.generation /\ r.waiters = x.waiters - 1
      /\ r.cancelled = (x.cancelled \/ last) /\ r.result = x.result
  BY <1>3 DEF FlightType
<1>7. /\ flight' = [flight EXCEPT ![f] = Settled(r)]
      /\ flights' = IF last /\ flights[x.key] = f THEN [flights EXCEPT ![x.key] = None] ELSE flights
  <2>1. flight' = [flight EXCEPT ![f] = Settled(r)]
    BY <1>1 DEF releaseFlight
  <2>2. flights' = IF last /\ flights[x.key] = f THEN [flights EXCEPT ![x.key] = None] ELSE flights
    BY <1>1 DEF releaseFlight
  <2> QED BY <2>1, <2>2
<1>8. \E s \in CallerType : caller' = [caller EXCEPT ![c] = s] /\ Settles(c, s)
  <2>0. caller[c] \in CallerType /\ caller[c].got # "poison" /\ ~caller[c].stale /\ Failed \in Result
    BY NoFlightTyped DEF IInv, TypeOK, GotSound
  <2>1. CASE GiveUp(c)
    <3> DEFINE e == [caller[c] EXCEPT !.expired = TRUE]
    <3>1. e \in CallerType /\ e.question = caller[c].question /\ e.got = caller[c].got
          /\ e.stale = caller[c].stale
      BY <2>0, Zenon DEF CallerType
    <3>2. caller' = [caller EXCEPT ![c] = Outcome(c, e, Failed, FALSE)]
      BY <2>1 DEF GiveUp, Returns
    <3> HIDE DEF e
    <3>3. Settles(c, Outcome(c, e, Failed, FALSE))
      BY <2>0, <3>1, OutcomeSettles, Zenon
    <3> QED BY <3>2, <3>3, Zenon DEF Settles
  <2>2. CASE TakeResult(c)
    <3>1. x.result \in Result
      BY <1>3 DEF FlightType, Result
    <3>2. Settles(c, Outcome(c, caller[c], x.result, FALSE))
      BY <2>0, <3>1, OutcomeSettles, Zenon
    <3>3. caller' = [caller EXCEPT ![c] = Outcome(c, caller[c], x.result, FALSE)]
      BY <2>2 DEF TakeResult, Returns
    <3> QED BY <3>2, <3>3, Zenon DEF Settles
  <2> QED BY <2>1, <2>2
<1> HIDE DEF r
<1>9. CASE Settled(r) = NoFlight /\ r.pc = "done" /\ r.waiters = 0
  BY <1>1, <1>3, <1>6, <1>7, <1>8, <1>9, NoFlightTyped, Zenon DEF Leaves
<1>10. CASE Settled(r) = r
  BY <1>1, <1>5, <1>6, <1>7, <1>8, <1>10, Zenon DEF Leaves
<1> QED BY <1>5, <1>9, <1>10, SettledLands

\* A caller whose context is over, or that finds its answer in the cache: the
\* TTL the answer goes out with ends no later than the upstream allowed.
LEMMA CallerAsks ==
  ASSUME IInv, NEW c \in Callers, EnterLate(c) \/ EnterCached(c)
  PROVE  Asks(c)
<1>0. caller[c] \in CallerType /\ caller[c].got # "poison" /\ ~caller[c].stale /\ Failed \in Result
  BY NoFlightTyped DEF IInv, TypeOK, GotSound
<1>1. caller[c].pc = "enter" /\ UNCHANGED <<queryVars, flight, closed, now>>
  BY Zenon DEF EnterLate, EnterCached, queryVars
<1>2. CASE EnterLate(c)
  <2>1. Settles(c, Outcome(c, caller[c], Failed, FALSE))
    BY <1>0, OutcomeSettles, Zenon
  <2>2. caller' = [caller EXCEPT ![c] = Outcome(c, caller[c], Failed, FALSE)]
    BY <1>2 DEF EnterLate, Returns
  <2> QED BY <1>1, <2>1, <2>2, Zenon DEF Asks, Settles
<1>3. CASE EnterCached(c)
  <2> DEFINE q == caller[c].question
             e == cache[q]
             stale == now + Aged(e.answer.ttl, now - e.stored) > e.stored + e.answer.ttl
  <2>1. q \in Questions /\ e # NoEntry /\ now < e.expires
    BY <1>1, <1>3 DEF EnterCached, Cached, IInv, CallersFit
  <2>2. e \in Entry
    BY <2>1 DEF IInv, TypeOK
  <2>3. e.answer \in Answer /\ e.stored \in Nat /\ e.expires \in Nat
    BY <2>2 DEF Entry
  <2>4. e.answer.ttl \in Nat /\ e.answer \in Result
    BY <2>3, AnswerTyped DEF Result
  <2>5. now \in Nat /\ e.stored <= now /\ e.expires <= e.stored + e.answer.ttl
    BY <2>1 DEF IInv, TypeOK, CacheFits
  <2>6. stale = FALSE
    <3> HIDE DEF e
    <3>1. now - e.stored \in Nat
      BY <2>3, <2>5
    <3>2. CASE e.answer.ttl > now - e.stored
      BY <2>3, <2>4, <2>5, <3>1, <3>2 DEF Aged
    <3>3. CASE ~(e.answer.ttl > now - e.stored)
      BY <2>1, <2>3, <2>4, <2>5, <3>1, <3>3 DEF Aged
    <3> QED BY <3>2, <3>3, Zenon
  <2>7. caller' = [caller EXCEPT ![c] = Outcome(c, caller[c], e.answer, stale)]
    BY <1>3 DEF EnterCached, Returns
  <2> HIDE DEF stale
  <2>8. Settles(c, Outcome(c, caller[c], e.answer, FALSE))
    BY <1>0, <2>4, OutcomeSettles, Zenon
  <2>9. caller' = [caller EXCEPT ![c] = Outcome(c, caller[c], e.answer, FALSE)]
    BY <2>6, <2>7, Zenon
  <2> QED BY <1>1, <2>8, <2>9, Zenon DEF Asks, Settles
<1> QED BY <1>2, <1>3

\* A caller joins a flight or starts one.
LEMMA CallerWaits ==
  ASSUME IInv, NEW c \in Callers, NEW f \in Flights, EnterFlight(c, f)
  PROVE  Waits(c, f)
<1>0. /\ caller[c] \in CallerType /\ flight \in [Flights -> FlightType] /\ flight[f] \in FlightType
      /\ generation \in Nat /\ caller[c].pc = "enter"
  BY DEF IInv, TypeOK, EnterFlight
<1>1. caller[c].question \in Questions /\ Key(c) \in Keys
  BY <1>0 DEF IInv, CallersFit, CallerType, Key, Keys
<1> DEFINE w == [caller[c] EXCEPT !.pc = "wait", !.flight = f, !.network = generation]
<1>2. w \in CallerType
  BY <1>0, Zenon DEF CallerType
<1>3. /\ w.pc = "wait" /\ w.flight = f /\ w.network = generation
      /\ w.question = caller[c].question /\ w.got = caller[c].got /\ w.stale = caller[c].stale
  BY <1>0 DEF CallerType
<1>4. caller' = [caller EXCEPT ![c] = w] /\ UNCHANGED <<generation, closed, now>>
  BY DEF EnterFlight, Returns
<1> HIDE DEF w
<1>5. CASE Joined(c, f)
  <2> DEFINE r == [flight[f] EXCEPT !.waiters = flight[f].waiters + 1]
  <2>0. flight[f].waiters + 1 \in Nat
    BY <1>0 DEF FlightType
  <2>1. r \in FlightType
    BY <1>0, <2>0 DEF FlightType
  <2>2. /\ r.pc = flight[f].pc /\ r.key = flight[f].key /\ r.generation = flight[f].generation
        /\ r.waiters = flight[f].waiters + 1 /\ r.cancelled = flight[f].cancelled
        /\ r.result = flight[f].result
    BY <1>0 DEF FlightType
  <2>3. flight' = [flight EXCEPT ![f] = r] /\ flights[Key(c)] = f /\ UNCHANGED flights
    BY <1>0, <1>5 DEF Joined
  <2> HIDE DEF r
  <2> QED BY <1>0, <1>2, <1>3, <1>4, <2>1, <2>2, <2>3, Zenon DEF Waits
<1>6. CASE Launched(c, f)
  <2> DEFINE r == [NoFlight EXCEPT !.pc = "begin", !.key = Key(c), !.generation = generation, !.waiters = 1]
  <2>1. r \in FlightType
    BY <1>0, <1>1, NoFlightTyped, Zenon DEF FlightType
  <2>2. /\ r.pc = "begin" /\ r.key = Key(c) /\ r.generation = generation /\ r.waiters = 1
        /\ ~r.cancelled /\ r.result = Failed
    BY NoFlightTyped DEF NoFlight
  <2>3. /\ flight' = [flight EXCEPT ![f] = r] /\ flight[f].pc = "none"
        /\ flights[Key(c)] = None /\ flights' = [flights EXCEPT ![Key(c)] = f]
    BY <1>6 DEF Launched
  <2> HIDE DEF r
  <2> QED BY <1>0, <1>2, <1>3, <1>4, <2>1, <2>2, <2>3, Zenon DEF Waits
<1> QED BY <1>5, <1>6 DEF EnterFlight

\* Close cancels every flight in the map and touches nothing else.
Closes ==
  /\ flight' \in [Flights -> FlightType] /\ closed' = TRUE
  /\ \A f \in Flights :
       /\ flight'[f].pc = flight[f].pc /\ flight'[f].key = flight[f].key
       /\ flight'[f].generation = flight[f].generation /\ flight'[f].waiters = flight[f].waiters
       /\ flight[f].cancelled => flight'[f].cancelled
       /\ flight'[f].result = flight[f].result
  /\ UNCHANGED <<queryVars, caller, now>>

\* That is what Close does.
LEMMA CloseCancels == ASSUME IInv, Close PROVE Closes
<1>0. flight \in [Flights -> FlightType]
  BY DEF IInv, TypeOK
<1>1. ASSUME NEW f \in Flights
      PROVE  /\ flight'[f] \in FlightType
             /\ flight'[f].pc = flight[f].pc /\ flight'[f].key = flight[f].key
             /\ flight'[f].generation = flight[f].generation /\ flight'[f].waiters = flight[f].waiters
             /\ flight[f].cancelled => flight'[f].cancelled
             /\ flight'[f].result = flight[f].result
  <2> DEFINE r == [flight[f] EXCEPT !.cancelled = TRUE]
  <2>1. r \in FlightType
    BY <1>0, ZenonT(30) DEF FlightType
  <2>2. /\ r.pc = flight[f].pc /\ r.key = flight[f].key /\ r.generation = flight[f].generation
        /\ r.waiters = flight[f].waiters /\ r.cancelled /\ r.result = flight[f].result
    BY <1>0 DEF FlightType
  <2>3. flight'[f] = r \/ flight'[f] = flight[f]
    BY DEF Close
  <2> HIDE DEF r
  <2> QED BY <1>0, <2>1, <2>2, <2>3
<1>2. flight' \in [Flights -> FlightType]
  <2>1. flight' = [f \in Flights |-> flight'[f]]
    BY DEF Close
  <2> QED BY <1>1, <2>1
<1> QED BY <1>1, <1>2 DEF Close, Closes

\* What a step may do to flights and callers.
Moved ==
  \/ UNCHANGED <<flight, flights, generation, closed, caller>>
  \/ \E f \in Flights : Runs(f) \/ Lands(f)
  \/ \E c \in Callers : Asks(c) \/ Leaves(c)
  \/ \E c \in Callers, f \in Flights : Waits(c, f)
  \/ ResetBegin \/ Closes

\* Every step does one of these things.
LEMMA EveryMove == ASSUME IInv, [Next]_vars PROVE Moved
<1>1. CASE ResetEnd \/ Tick \/ UNCHANGED vars
  BY <1>1 DEF ResetEnd, Tick, vars, queryVars, Moved
<1>2. ASSUME NEW c \in Callers, Enter(c) \/ GiveUp(c) \/ TakeResult(c) PROVE Moved
  BY <1>2, CallerAsks, CallerWaits, CallerLeaves DEF Enter, Moved
<1>3. ASSUME NEW f \in Flights, Work(f) \/ launchFallbacks(f) PROVE Moved
  BY <1>3, ExchangeRuns, FlightLands DEF Work, Race, Moved
<1>4. CASE ResetBegin \/ Close
  BY <1>4, CloseCancels DEF Moved
<1> QED BY <1>1, <1>2, <1>3, <1>4 DEF Next

-----------------------------------------------------------------------------
(* The flights and the map. *)

\* The types of flights, map and callers.
MovingTyped == /\ flight \in [Flights -> FlightType] /\ caller \in [Callers -> CallerType]
               /\ flights \in [Keys -> Flights \cup {None}] /\ generation \in Nat

\* Every step keeps them.
LEMMA MovingTypeStep == ASSUME IInv, [Next]_vars PROVE MovingTyped'
<1>0. MovingTyped /\ CallersFit /\ FlightsFit /\ Moved
  BY EveryMove DEF IInv, TypeOK, MovingTyped
<1> USE DEF MovingTyped
<1>1. CASE UNCHANGED <<flight, flights, generation, closed, caller>>
  BY <1>0, <1>1
<1>2. ASSUME NEW f \in Flights, Runs(f) PROVE MovingTyped'
  BY <1>0, <1>2 DEF Runs, queryVars
<1>3. ASSUME NEW f \in Flights, Lands(f) PROVE MovingTyped'
  <2>1. flight[f].key \in Keys
    BY <1>0, <1>3 DEF Lands, FlightsFit, ActivePcs
  <2> QED BY <1>0, <1>3, <2>1 DEF Lands, LeavesMap
<1>4. ASSUME NEW c \in Callers, Asks(c) PROVE MovingTyped'
  BY <1>0, <1>4 DEF Asks, queryVars
<1>5. ASSUME NEW c \in Callers, Leaves(c) PROVE MovingTyped'
  <2>1. flight' \in [Flights -> FlightType] /\ caller' \in [Callers -> CallerType]
    BY <1>0, <1>5, Zenon DEF Leaves
  <2>2. flights' \in [Keys -> Flights \cup {None}] /\ generation' \in Nat
    BY <1>0, <1>5, Zenon DEF Leaves
  <2> QED BY <2>1, <2>2, Zenon
<1>6. ASSUME NEW c \in Callers, NEW f \in Flights, Waits(c, f) PROVE MovingTyped'
  BY <1>0, <1>6 DEF Waits
<1>7. CASE ResetBegin
  BY <1>0, <1>7 DEF ResetBegin
<1>8. CASE Closes
  BY <1>0, <1>8 DEF Closes, queryVars
<1> QED BY <1>0, <1>1, <1>2, <1>3, <1>4, <1>5, <1>6, <1>7, <1>8 DEF Moved

MapInv == FlightsFit /\ MapFits /\ InMap /\ OneFlight

\* Every step keeps the map.
LEMMA MapStep == ASSUME IInv, [Next]_vars PROVE MapInv'
<1>0. MovingTyped /\ MapInv /\ CallersFit /\ WaitersCounted /\ Moved /\ None \notin Flights
  BY EveryMove, EndpointAssumption DEF IInv, TypeOK, MovingTyped, MapInv
<1> USE DEF MovingTyped, MapInv, FlightsFit, MapFits, InMap, OneFlight, ActivePcs
<1>1. CASE UNCHANGED <<flight, flights, generation, closed, caller>>
  BY <1>0, <1>1, Zenon
<1>2. ASSUME NEW f \in Flights, Runs(f) PROVE MapInv'
  BY <1>0, <1>2, SMTT(30) DEF Runs, Same, queryVars
<1>3. ASSUME NEW f \in Flights, Lands(f) PROVE MapInv'
  BY <1>0, <1>3, NoFlightTyped, SMTT(30) DEF Lands, Same, LeavesMap
<1>4. ASSUME NEW c \in Callers, Asks(c) PROVE MapInv'
  BY <1>0, <1>4, Zenon DEF Asks, queryVars
<1>5. ASSUME NEW c \in Callers, Leaves(c) PROVE MapInv'
  <2> DEFINE f == caller[c].flight
             last == flight[f].waiters = 1
  <2>1. f \in Flights /\ flight[f].cancelled \in BOOLEAN
    <3>1. caller[c].pc = "wait"
      BY <1>5, Zenon DEF Leaves
    <3>2. f \in Flights
      BY <1>0, <3>1, Zenon DEF CallersFit
    <3> QED BY <1>0, <3>2 DEF FlightType
  <2>2. PICK r \in FlightType :
          /\ flight' = [flight EXCEPT ![f] = r]
          /\ r.waiters = flight[f].waiters - 1
          /\ \/ r = NoFlight /\ flight[f].pc = "done"
             \/ /\ r.pc = flight[f].pc /\ r.key = flight[f].key /\ r.generation = flight[f].generation
                /\ r.cancelled = (flight[f].cancelled \/ last)
    BY <1>5 DEF Leaves
  <2>3. /\ flights' = IF last /\ flights[flight[f].key] = f
                      THEN [flights EXCEPT ![flight[f].key] = None] ELSE flights
        /\ UNCHANGED <<generation, closed>>
    BY <1>5 DEF Leaves
  <2> HIDE DEF f, last
  <2>a. \/ r.pc \notin ActivePcs
        \/ /\ r.pc = flight[f].pc /\ r.key = flight[f].key /\ r.generation = flight[f].generation
           /\ flight[f].cancelled => r.cancelled
           /\ ~last => r.cancelled = flight[f].cancelled
    BY <2>1, <2>2, NoFlightTyped
  <2>b. \A k \in Keys : flights'[k] # None => flights'[k] = flights[k]
    BY <1>0, <2>3
  <2>c. \A k \in Keys : flights'[k] = f => ~last /\ r.pc = flight[f].pc
    <3> SUFFICES ASSUME NEW k \in Keys, flights'[k] = f PROVE ~last /\ r.pc = flight[f].pc
      OBVIOUS
    <3>1. flights[k] = f /\ flight[f].key = k /\ flight[f].pc \in ActivePcs
      BY <1>0, <2>1, <2>b
    <3>2. r.pc = flight[f].pc
      BY <2>2, <3>1
    <3>3. ~last
      BY <1>0, <2>1, <2>3, <3>1
    <3> QED BY <3>2, <3>3
  <2>d. flight[f].pc # "none" /\ (r.pc = "none" => r.waiters = 0)
    <3>1. flight[f].waiters \in Nat /\ r.waiters \in Nat
      BY <1>0, <2>1, <2>2 DEF FlightType
    <3>2. flight[f].waiters # 0
      BY <2>2, <3>1
    <3>3. flight[f].pc # "none"
      BY <1>0, <2>1, <3>2
    <3>4. r = NoFlight \/ r.pc = flight[f].pc
      BY <2>2
    <3> QED BY <3>3, <3>4, NoFlightTyped, Zenon
  <2>e. r.pc # "none" => r.key = flight[f].key /\ r.generation = flight[f].generation
    BY <2>2, NoFlightTyped, Zenon
  <2>4. FlightsFit'
    BY <1>0, <2>1, <2>2, <2>3, <2>d, <2>e, SMTT(30)
  <2>5. MapFits'
    <3> SUFFICES ASSUME NEW k \in Keys, flights'[k] # None
                 PROVE  /\ flight'[flights'[k]].pc \in ActivePcs
                        /\ flight'[flights'[k]].key = k /\ flight'[flights'[k]].generation = generation'
                        /\ ~closed' => ~flight'[flights'[k]].cancelled
      BY Zenon
    <3>1. CASE flights'[k] = f
      BY <1>0, <2>1, <2>2, <2>3, <2>a, <2>b, <2>c, <3>1, SMTT(30)
    <3>2. CASE flights'[k] # f
      BY <1>0, <2>1, <2>2, <2>3, <2>b, <3>2, SMTT(30)
    <3> QED BY <3>1, <3>2
  <2>6. InMap'
    <3> SUFFICES ASSUME NEW g \in Flights, flight'[g].pc \in ActivePcs, ~flight'[g].cancelled,
                        flight'[g].generation = generation'
                 PROVE  flights'[flight'[g].key] = g
      BY Zenon
    <3>1. /\ flight[g].pc \in ActivePcs /\ ~flight[g].cancelled /\ flight[g].generation = generation
          /\ flight'[g].key = flight[g].key
      BY <1>0, <2>1, <2>2, <2>3, <2>a, SMTT(30)
    <3>2. flights[flight[g].key] = g /\ flight[g].key \in Keys
      BY <1>0, <3>1, Zenon
    <3>3. g = f => ~last
      BY <1>0, <2>1, <2>2, NoFlightTyped, Zenon
    <3> QED BY <1>0, <2>1, <2>3, <3>1, <3>2, <3>3, SMTT(30)
  <2>7. OneFlight'
    BY <1>0, <2>1, <2>2, <2>a
  <2> QED BY <2>4, <2>5, <2>6, <2>7, Zenon
<1>6. ASSUME NEW c \in Callers, NEW f \in Flights, Waits(c, f) PROVE MapInv'
  <2>1. PICK r \in FlightType :
          /\ flight' = [flight EXCEPT ![f] = r]
          /\ \/ /\ flights[Key(c)] = f /\ UNCHANGED flights
                /\ r.pc = flight[f].pc /\ r.key = flight[f].key /\ r.generation = flight[f].generation
                /\ r.waiters = flight[f].waiters + 1 /\ r.cancelled = flight[f].cancelled
             \/ /\ flights[Key(c)] = None /\ flights' = [flights EXCEPT ![Key(c)] = f]
                /\ flight[f].pc = "none" /\ r.pc = "begin"
                /\ r.key = Key(c) /\ r.generation = generation /\ r.waiters = 1 /\ ~r.cancelled
    BY <1>6, Zenon DEF Waits
  <2>2. UNCHANGED <<generation, closed>> /\ Key(c) \in Keys
    BY <1>0, <1>6, Zenon DEF Waits, CallersFit, CallerType, Key, Keys
  <2>3. FlightsFit'
    BY <1>0, <2>1, <2>2, SMTT(30)
  <2>4. MapFits'
    BY <1>0, <2>1, <2>2, SMTT(30)
  <2>5. InMap'
    BY <1>0, <2>1, <2>2, SMTT(30)
  <2>6. OneFlight'
    BY <1>0, <2>1, <2>2, SMTT(30)
  <2> QED BY <2>3, <2>4, <2>5, <2>6
<1>7. CASE ResetBegin
  <2>1. flight' = flight /\ generation' = generation + 1 /\ \A k \in Keys : flights'[k] = None
    BY <1>7 DEF ResetBegin
  <2>2. \A f \in Flights : flight[f].generation \in Nat
    BY <1>0, Zenon DEF FlightType
  <2>3. FlightsFit'
    BY <1>0, <2>1, <2>2, SMTT(30)
  <2>4. MapFits' /\ OneFlight'
    BY <1>0, <2>1, Zenon
  <2>5. InMap'
    BY <1>0, <2>1, <2>2, SMTT(30)
  <2> QED BY <2>3, <2>4, <2>5
<1>8. CASE Closes
  BY <1>0, <1>8 DEF Closes, queryVars
<1> HIDE DEF MapInv
<1> QED BY <1>0, <1>1, <1>2, <1>3, <1>4, <1>5, <1>6, <1>7, <1>8 DEF Moved

-----------------------------------------------------------------------------
(* The callers and who waits for what. *)

\* Who waits for a flight changes by the one caller that steps.
LEMMA WaitingMoves ==
  ASSUME IInv, NEW c \in Callers, NEW r \in CallerType, caller' = [caller EXCEPT ![c] = r]
  PROVE  /\ caller[c].pc # "wait" /\ r.pc # "wait" => \A g \in Flights : Waiting(g)' = Waiting(g)
         /\ caller[c].pc # "wait" /\ r.pc = "wait" =>
              \A g \in Flights : Waiting(g)' = IF g = r.flight THEN Waiting(g) \cup {c} ELSE Waiting(g)
         /\ caller[c].pc = "wait" /\ r.pc # "wait" =>
              \A g \in Flights : Waiting(g)' = IF g = caller[c].flight THEN Waiting(g) \ {c} ELSE Waiting(g)
<1>1. caller \in [Callers -> CallerType]
  BY DEF IInv, TypeOK
<1>2. \A d \in Callers : caller'[d] = IF d = c THEN r ELSE caller[d]
  BY <1>1, Zenon
<1> QED BY <1>2 DEF Waiting

CallerInv == CallersFit /\ GotSound

\* Every step keeps the callers.
LEMMA CallerStep == ASSUME IInv, [Next]_vars PROVE CallerInv'
<1>0. MovingTyped /\ CallerInv /\ Moved
  BY EveryMove DEF IInv, TypeOK, MovingTyped, CallerInv
<1> USE DEF MovingTyped, CallerInv, CallersFit, GotSound
<1>1. CASE UNCHANGED caller
  BY <1>0, <1>1, Zenon
<1>2. ASSUME NEW c \in Callers, Asks(c) PROVE CallerInv'
  BY <1>0, <1>2, Zenon DEF Asks, Settles
<1>3. ASSUME NEW c \in Callers, Leaves(c) PROVE CallerInv'
  BY <1>0, <1>3, Zenon DEF Leaves, Settles
<1>4. ASSUME NEW c \in Callers, NEW f \in Flights, Waits(c, f) PROVE CallerInv'
  BY <1>0, <1>4 DEF Waits
<1> HIDE DEF CallerInv
<1> QED BY <1>0, <1>1, <1>2, <1>3, <1>4, Zenon DEF Moved, Runs, Lands, ResetBegin, Closes

WaitInv == WaitersCounted /\ WaitsForLive /\ WaitsOnOwnNetwork

\* Every step counts the waiters, and leaves nobody with a flight that is
\* cancelled or of another network.
LEMMA WaitStep == ASSUME IInv, [Next]_vars PROVE WaitInv'
<1>0. MovingTyped /\ WaitInv /\ CallersFit /\ MapFits /\ FlightsFit /\ Moved /\ closed \in BOOLEAN
  BY EveryMove DEF IInv, TypeOK, MovingTyped, WaitInv
<1>w. \A c \in Callers : caller[c].pc = "wait" =>
        caller[c].flight \in Flights /\ c \in Waiting(caller[c].flight)
  BY <1>0, Zenon DEF CallersFit, Waiting
<1>n. \A f \in Flights : flight[f].waiters = 0 => Waiting(f) = {}
  BY <1>0, FS_EmptySet, Zenon DEF WaitInv, WaitersCounted
<1> USE DEF MovingTyped, WaitInv
<1>1. CASE UNCHANGED <<flight, closed, caller>>
  BY <1>0, <1>1, Zenon DEF WaitersCounted, WaitsForLive, WaitsOnOwnNetwork, Waiting
<1>2. ASSUME NEW f \in Flights, Runs(f) \/ Lands(f) PROVE WaitInv'
  <2>1. PICK r \in FlightType :
          /\ flight' = [flight EXCEPT ![f] = r]
          /\ (r = NoFlight /\ flight[f].waiters = 0) \/ Same(f, r)
    BY <1>2, Zenon DEF Runs, Lands
  <2>2. UNCHANGED <<caller, closed>> /\ \A g \in Flights : Waiting(g)' = Waiting(g)
    BY <1>2 DEF Runs, Lands, Waiting
  <2>3. WaitersCounted'
    BY <1>0, <2>1, <2>2, NoFlightTyped DEF WaitersCounted, Same
  <2>4. WaitsForLive'
    BY <1>0, <1>n, <2>1, <2>2, Zenon DEF WaitsForLive, Same
  <2>5. WaitsOnOwnNetwork'
    BY <1>0, <1>w, <1>n, <2>1, <2>2 DEF WaitsOnOwnNetwork, Same
  <2> QED BY <2>3, <2>4, <2>5
<1>3. ASSUME NEW c \in Callers, Asks(c) PROVE WaitInv'
  <2>1. PICK r \in CallerType : caller' = [caller EXCEPT ![c] = r] /\ r.pc # "wait"
    BY <1>3, Zenon DEF Asks, Settles
  <2>2. UNCHANGED <<flight, closed>> /\ caller[c].pc # "wait"
    BY <1>3 DEF Asks
  <2>3. \A g \in Flights : Waiting(g)' = Waiting(g)
    BY <2>1, <2>2, WaitingMoves, Zenon
  <2>4. WaitsOnOwnNetwork'
    BY <1>0, <2>1, <2>2 DEF WaitsOnOwnNetwork
  <2> QED BY <1>0, <2>2, <2>3, <2>4 DEF WaitersCounted, WaitsForLive
<1>4. ASSUME NEW c \in Callers, Leaves(c) PROVE WaitInv'
  <2> DEFINE f == caller[c].flight
             last == flight[f].waiters = 1
  <2>1. PICK r \in FlightType :
          /\ flight' = [flight EXCEPT ![f] = r]
          /\ r.waiters = flight[f].waiters - 1
          /\ \/ r = NoFlight
             \/ r.generation = flight[f].generation /\ r.cancelled = (flight[f].cancelled \/ last)
    BY <1>4, Zenon DEF Leaves
  <2>2. PICK s \in CallerType : caller' = [caller EXCEPT ![c] = s] /\ s.pc # "wait"
    BY <1>4, Zenon DEF Leaves, Settles
  <2>3. caller[c].pc = "wait" /\ closed' = closed
    BY <1>4 DEF Leaves
  <2>4. f \in Flights /\ c \in Waiting(f)
    BY <1>w, <2>3
  <2>5. \A g \in Flights : Waiting(g)' = IF g = f THEN Waiting(g) \ {c} ELSE Waiting(g)
    BY <2>2, <2>3, WaitingMoves, Zenon
  <2>6. /\ IsFiniteSet(Waiting(f)) /\ flight[f].waiters = Cardinality(Waiting(f))
        /\ IsFiniteSet(Waiting(f) \ {c}) /\ Cardinality(Waiting(f) \ {c}) = Cardinality(Waiting(f)) - 1
    BY <1>0, <2>4, FS_RemoveElement, Zenon DEF WaitersCounted
  <2>7. (r.waiters = 0) => Waiting(f) \ {c} = {}
    BY <2>1, <2>6, FS_EmptySet
  <2> HIDE DEF f
  <2>8. WaitersCounted'
    BY <1>0, <2>1, <2>4, <2>5, <2>6, Zenon DEF WaitersCounted
  <2>9. r = NoFlight \/ last => Waiting(f) \ {c} = {}
    <3>1. flight[f].waiters \in Nat
      BY <1>0, <2>4 DEF FlightType
    <3> QED BY <2>1, <2>7, <3>1, NoFlightTyped
  <2>10. WaitsForLive'
    <3>1. r # NoFlight /\ ~last => r.cancelled = flight[f].cancelled
      BY <1>0, <2>1, <2>4, Zenon DEF FlightType
    <3> QED BY <1>0, <2>1, <2>3, <2>4, <2>5, <2>9, <3>1 DEF WaitsForLive
  <2>11. WaitsOnOwnNetwork'
    <3> SUFFICES ASSUME NEW d \in Callers, caller'[d].pc = "wait"
                 PROVE  flight'[caller'[d].flight].generation = caller'[d].network
      BY DEF WaitsOnOwnNetwork
    <3>1. d # c /\ caller'[d] = caller[d]
      BY <1>0, <2>2
    <3>2. caller[d].flight \in Flights /\ d \in Waiting(caller[d].flight)
      BY <1>w, <3>1
    <3>3. caller[d].flight = f => r # NoFlight
      BY <2>9, <3>1, <3>2
    <3> QED BY <1>0, <2>1, <2>4, <3>1, <3>2, <3>3, Zenon DEF WaitsOnOwnNetwork
  <2> QED BY <2>8, <2>10, <2>11, Zenon
<1>5. ASSUME NEW c \in Callers, NEW f \in Flights, Waits(c, f) PROVE WaitInv'
  <2>1. PICK r \in FlightType :
          /\ flight' = [flight EXCEPT ![f] = r]
          /\ \/ /\ flights[Key(c)] = f /\ r.generation = flight[f].generation
                /\ r.waiters = flight[f].waiters + 1 /\ r.cancelled = flight[f].cancelled
             \/ /\ flight[f].pc = "none" /\ r.generation = generation /\ r.waiters = 1 /\ ~r.cancelled
    BY <1>5, Zenon DEF Waits
  <2>2. PICK s \in CallerType :
          caller' = [caller EXCEPT ![c] = s] /\ s.pc = "wait" /\ s.flight = f /\ s.network = generation
    BY <1>5, Zenon DEF Waits
  <2>3. caller[c].pc = "enter" /\ closed' = closed /\ c \notin Waiting(f)
    BY <1>5 DEF Waits, Waiting
  <2>4. \A g \in Flights : Waiting(g)' = IF g = f THEN Waiting(g) \cup {c} ELSE Waiting(g)
    BY <2>2, <2>3, WaitingMoves, Zenon
  <2>5. /\ IsFiniteSet(Waiting(f)) /\ flight[f].waiters = Cardinality(Waiting(f))
        /\ IsFiniteSet(Waiting(f) \cup {c})
        /\ Cardinality(Waiting(f) \cup {c}) = Cardinality(Waiting(f)) + 1
    BY <1>0, <2>3, FS_AddElement, Zenon DEF WaitersCounted
  <2>6. /\ r.waiters = flight[f].waiters + 1
        /\ r.generation = generation /\ (~closed => ~r.cancelled)
        /\ flight[f].pc = "none" \/ r.generation = flight[f].generation
    <3>1. Key(c) \in Keys
      BY <1>0, <2>3 DEF CallersFit, CallerType, Key, Keys
    <3>2. f # None
      BY EndpointAssumption
    <3>3. CASE flights[Key(c)] = f /\ r.generation = flight[f].generation
               /\ r.waiters = flight[f].waiters + 1 /\ r.cancelled = flight[f].cancelled
      BY <1>0, <3>1, <3>2, <3>3 DEF MapFits
    <3>4. CASE flight[f].pc = "none" /\ r.generation = generation /\ r.waiters = 1 /\ ~r.cancelled
      BY <1>0, <3>4, SMTT(30) DEF FlightsFit
    <3> QED BY <2>1, <3>3, <3>4
  <2>7. WaitersCounted'
    BY <1>0, <2>1, <2>4, <2>5, <2>6, Zenon DEF WaitersCounted
  <2>8. WaitsForLive'
    BY <1>0, <2>1, <2>3, <2>4, <2>6 DEF WaitsForLive
  <2>9. WaitsOnOwnNetwork'
    <3> SUFFICES ASSUME NEW d \in Callers, caller'[d].pc = "wait"
                 PROVE  flight'[caller'[d].flight].generation = caller'[d].network
      BY DEF WaitsOnOwnNetwork
    <3>1. CASE d = c
      BY <1>0, <2>1, <2>2, <2>6, <3>1, Zenon
    <3>2. CASE d # c
      <4>1. caller'[d] = caller[d] /\ caller[d].flight \in Flights /\ d \in Waiting(caller[d].flight)
        BY <1>0, <1>w, <2>2, <3>2
      <4>2. caller[d].flight = f => flight[f].pc # "none"
        BY <1>0, <1>n, <4>1, Zenon DEF FlightsFit
      <4> QED BY <1>0, <2>1, <2>6, <4>1, <4>2 DEF WaitsOnOwnNetwork
    <3> QED BY <3>1, <3>2
  <2> QED BY <2>7, <2>8, <2>9, Zenon
<1>6. CASE Closes
  <2>1. \A g \in Flights : Waiting(g)' = Waiting(g)
    BY <1>6 DEF Closes, Waiting
  <2> QED BY <1>0, <1>w, <1>6, <2>1, SMTT(30) DEF Closes, WaitersCounted, WaitsForLive, WaitsOnOwnNetwork
<1> HIDE DEF WaitInv
<1> QED BY <1>0, <1>1, <1>2, <1>3, <1>4, <1>5, <1>6, Zenon DEF Moved, ResetBegin

\* Every step keeps the results.
LEMMA ResultStep == ASSUME IInv, [Next]_vars PROVE ResultsFit'
<1>0. flight \in [Flights -> FlightType] /\ ResultsFit /\ CallersFit /\ Moved
  BY EveryMove DEF IInv, TypeOK
<1> USE DEF ResultsFit
<1>1. CASE UNCHANGED flight
  BY <1>0, <1>1
<1>2. ASSUME NEW f \in Flights, Runs(f) PROVE ResultsFit'
  BY <1>0, <1>2 DEF Runs
<1>3. ASSUME NEW f \in Flights, Lands(f) PROVE ResultsFit'
  BY <1>0, <1>3, NoFlightTyped DEF Lands, ActivePcs
<1>4. ASSUME NEW c \in Callers, Leaves(c) PROVE ResultsFit'
  <2>0. caller[c].pc = "wait"
    BY <1>4, Zenon DEF Leaves
  <2>1. caller[c].flight \in Flights
    BY <1>0, <2>0, Zenon DEF CallersFit
  <2>2. PICK r \in FlightType :
          /\ flight' = [flight EXCEPT ![caller[c].flight] = r]
          /\ \/ r = NoFlight
             \/ r.pc = flight[caller[c].flight].pc /\ r.result = flight[caller[c].flight].result
    BY <1>4, Zenon DEF Leaves
  <2>3. r.pc \in ActivePcs => r.result \in Answer \cup {Failed}
    BY <1>0, <2>1, <2>2, NoFlightTyped, Zenon DEF ActivePcs
  <2>4. \A g \in Flights : flight'[g] = IF g = caller[c].flight THEN r ELSE flight[g]
    BY <1>0, <2>1, <2>2
  <2> QED BY <1>0, <2>3, <2>4
<1>5. ASSUME NEW c \in Callers, NEW f \in Flights, Waits(c, f) PROVE ResultsFit'
  BY <1>0, <1>5 DEF Waits
<1>6. CASE Closes
  BY <1>0, <1>6 DEF Closes
<1> HIDE DEF ResultsFit
<1> QED BY <1>0, <1>1, <1>2, <1>3, <1>4, <1>5, <1>6, Zenon DEF Moved, Asks, ResetBegin

-----------------------------------------------------------------------------
(* The cache. *)

\* An answer goes into the cache: it is clean, and kept no longer than it says.
Stores(q, e) ==
  /\ Store(q, e) /\ e \in Entry /\ e.network = generation
  /\ e.stored = now /\ e.expires <= e.stored + e.answer.ttl /\ e.answer.content = "clean"
  /\ UNCHANGED <<generation, now>>

\* What a step may do to the cache.
CacheMoved ==
  \/ UNCHANGED <<cache, generation>> /\ now' \in Nat /\ now <= now'
  \/ \E q \in Questions : cache' = [cache EXCEPT ![q] = NoEntry] /\ UNCHANGED <<generation, now>>
  \/ \E q \in Questions, e \in Entry : Stores(q, e)
  \/ cache' = [q \in Questions |-> NoEntry] /\ now' = now

\* What a flight stores when it lands.
LEMMA LandStores ==
  ASSUME IInv, NEW f \in Flights, NEW late \in BOOLEAN, Land(f, late)
  PROVE  CacheMoved
<1> DEFINE a == flight[f].result
           q == flight[f].key[2]
           ttl == cacheableTTL(a)
           e == [answer |-> a, stored |-> now, expires |-> now + ttl, network |-> flight[f].generation]
<1>0. /\ flight[f] \in FlightType /\ now \in Nat /\ generation \in Nat
      /\ flight[f].key \in Keys /\ a \in Answer \cup {Failed} /\ UNCHANGED <<generation, now>>
  BY DEF IInv, TypeOK, FlightsFit, ResultsFit, Land, ActivePcs
<1>1. CASE UNCHANGED cache
  BY <1>0, <1>1 DEF CacheMoved
<1>2. CASE MayStore(f) /\ ttl > 0 /\ Store(q, e)
  <2>1. a.content = "clean"
    BY <1>2, SMTT(30) DEF cacheableTTL
  <2>2. a \in Answer
    BY <1>0, <2>1 DEF Failed
  <2>3. a.ttl \in Nat
    BY <2>2, AnswerTyped, Zenon
  <2>4. ttl \in Nat /\ ttl <= a.ttl
    BY <2>1, <2>3, MinOfTwo, LimitAssumption, Zenon DEF cacheableTTL
  <2>5. flight[f].generation = generation /\ q \in Questions
    BY <1>0, <1>2 DEF MayStore, Keys
  <2> HIDE DEF ttl, a, q
  <2>6. e \in Entry
    BY <1>0, <2>2, <2>4, <2>5 DEF Entry
  <2>7. /\ e.network = generation /\ e.stored = now /\ e.answer.content = "clean"
        /\ e.expires <= e.stored + e.answer.ttl
    BY <1>0, <2>1, <2>3, <2>4, <2>5, SMTT(30)
  <2> HIDE DEF e
  <2>8. Stores(q, e)
    BY <1>0, <1>2, <2>6, <2>7 DEF Stores
  <2> QED BY <2>5, <2>6, <2>8, Zenon DEF CacheMoved
<1> QED BY <1>1, <1>2 DEF Land

\* Every step does one of these things to the cache.
LEMMA EveryCacheMove == ASSUME IInv, [Next]_vars PROVE CacheMoved
<1>0. now \in Nat
  BY DEF IInv, TypeOK
<1>1. CASE ResetEnd \/ UNCHANGED vars \/ Close
  BY <1>0, <1>1 DEF ResetEnd, Close, vars, queryVars, CacheMoved
<1>2. CASE Tick
  BY <1>0, <1>2 DEF Tick, queryVars, CacheMoved
<1>3. CASE ResetBegin
  BY <1>3 DEF ResetBegin, CacheMoved
<1>4. ASSUME NEW c \in Callers, EnterLate(c) \/ EnterCached(c) \/ GiveUp(c) \/ TakeResult(c)
      PROVE  CacheMoved
  <2>1. UNCHANGED <<cache, generation, now>>
    BY <1>4, Zenon DEF EnterLate, EnterCached, GiveUp, TakeResult, queryVars
  <2> QED BY <1>0, <2>1 DEF CacheMoved
<1>5. ASSUME NEW c \in Callers, NEW f \in Flights, EnterFlight(c, f) PROVE CacheMoved
  <2>1. caller[c].question \in Questions
    BY <1>5 DEF EnterFlight, IInv, CallersFit
  <2>2. /\ cache' = cache \/ cache' = [cache EXCEPT ![caller[c].question] = NoEntry]
        /\ UNCHANGED <<generation, now>>
    BY <1>5 DEF EnterFlight
  <2> QED BY <1>0, <2>1, <2>2 DEF CacheMoved
<1>6. ASSUME NEW f \in Flights, Work(f) \/ launchFallbacks(f) PROVE CacheMoved
  <2>1. ASSUME NEW late \in BOOLEAN, Land(f, late) PROVE CacheMoved
    BY <2>1, LandStores
  <2>2. ASSUME NEW content \in Contents \cup {"error"}, PlainEnds(f, content) PROVE CacheMoved
    BY <1>0, <2>2 DEF PlainEnds, CacheMoved
  <2>3. CASE Begin(f) \/ Race(f) \/ Prefer(f) \/ launchFallbacks(f)
    <3>1. Runs(f)
      BY <2>3, ExchangeRuns DEF Race
    <3> QED BY <1>0, <3>1 DEF Runs, queryVars, CacheMoved
  <2> QED BY <1>6, <2>1, <2>2, <2>3 DEF Work
<1> QED BY <1>1, <1>2, <1>3, <1>4, <1>5, <1>6 DEF Next, Enter

CacheInv == /\ cache \in [Questions -> Entry \cup {NoEntry}] /\ now \in Nat
            /\ IsFiniteSet(Kept) /\ Cardinality(Kept) <= dohCacheEntries
            /\ CacheFits

\* Storing an answer keeps the cache within its limit: expired entries and, in
\* a full cache, one more make room for it.
LEMMA StoreFits ==
  ASSUME CacheInv, NEW q \in Questions, NEW e \in Entry, Stores(q, e)
  PROVE  CacheInv'
<1>0. /\ cache \in [Questions -> Entry \cup {NoEntry}] /\ now \in Nat
      /\ IsFiniteSet(Kept) /\ Cardinality(Kept) <= dohCacheEntries /\ CacheFits
      /\ UNCHANGED <<generation, now>> /\ dohCacheEntries \in Nat
  BY LimitAssumption DEF CacheInv, Stores
<1>1. PICK victim \in Victims :
        cache' = [p \in Questions |-> IF p = q THEN e
                                      ELSE IF p \in Fresh \ {victim} THEN cache[p] ELSE NoEntry]
  BY DEF Stores, Store
<1>2. Fresh \subseteq Kept
  BY DEF Fresh, Kept, Cached
<1>3. /\ IsFiniteSet(Fresh) /\ Cardinality(Fresh) <= Cardinality(Kept)
      /\ Cardinality(Fresh) \in Nat /\ Cardinality(Kept) \in Nat
  BY <1>0, <1>2, FS_Subset, FS_CardinalityType
<1> DEFINE Left == Fresh \ {victim}
           Room == Left \cup {q}
<1>4. IsFiniteSet(Left) /\ Cardinality(Left) \in Nat /\ Cardinality(Left) < dohCacheEntries
  <2>1. IsFiniteSet(Left) /\ Cardinality(Left) <= Cardinality(Fresh) /\ Cardinality(Left) \in Nat
    BY <1>3, FS_Subset, FS_CardinalityType
  <2>2. CASE Cardinality(Fresh) < dohCacheEntries
    BY <1>0, <1>3, <2>1, <2>2
  <2>3. CASE ~(Cardinality(Fresh) < dohCacheEntries)
    <3>1. victim \in Fresh
      BY <1>1, <2>3 DEF Victims
    <3>2. Cardinality(Left) = Cardinality(Fresh) - 1
      BY <1>3, <3>1, FS_RemoveElement, Zenon
    <3> QED BY <1>0, <1>3, <2>1, <3>2
  <2> QED BY <2>2, <2>3
<1> HIDE DEF Left
<1>5. IsFiniteSet(Room) /\ Cardinality(Room) <= dohCacheEntries /\ Cardinality(Room) \in Nat
  <2>1. CASE q \in Left
    BY <1>0, <1>4, <2>1
  <2>2. CASE q \notin Left
    BY <1>0, <1>4, <2>2, FS_AddElement, SMTT(30)
  <2> QED BY <2>1, <2>2
<1>6. Kept' \subseteq Room
  BY <1>1 DEF Kept, Left
<1> HIDE DEF Room
<1>7. IsFiniteSet(Kept') /\ Cardinality(Kept') <= Cardinality(Room) /\ Cardinality(Kept') \in Nat
  BY <1>5, <1>6, FS_Subset, FS_CardinalityType
<1>8. cache' \in [Questions -> Entry \cup {NoEntry}]
  BY <1>0, <1>1
<1>9. CacheFits'
  <2> SUFFICES ASSUME NEW p \in Questions, cache'[p] # NoEntry
               PROVE  /\ cache'[p].stored <= now'
                      /\ cache'[p].expires <= cache'[p].stored + cache'[p].answer.ttl
                      /\ cache'[p].answer.content = "clean" /\ cache'[p].network = generation'
    BY DEF CacheFits
  <2>1. CASE p = q
    BY <1>0, <1>1, <2>1 DEF Stores, Entry
  <2>2. CASE p # q
    <3>1. cache'[p] = cache[p] /\ cache[p] # NoEntry
      BY <1>1, <2>2
    <3> QED BY <1>0, <3>1 DEF CacheFits
  <2> QED BY <2>1, <2>2, Zenon
<1>10. now' \in Nat /\ Cardinality(Kept') <= dohCacheEntries
  BY <1>0, <1>5, <1>7
<1> QED BY <1>7, <1>8, <1>9, <1>10 DEF CacheInv

\* Every step keeps the cache.
LEMMA CacheStep == ASSUME IInv, [Next]_vars PROVE CacheInv'
<1>0. CacheInv /\ CacheMoved /\ dohCacheEntries \in Nat
  BY EveryCacheMove, LimitAssumption DEF IInv, TypeOK, CacheInv, Kept
<1>1. CASE UNCHANGED <<cache, generation>> /\ now' \in Nat /\ now <= now'
  <2>1. Kept' = Kept
    BY <1>1 DEF Kept
  <2>2. CacheFits'
    <3> SUFFICES ASSUME NEW q \in Questions, cache[q] # NoEntry PROVE cache[q].stored <= now'
      BY <1>0, <1>1 DEF CacheInv, CacheFits
    <3>1. cache[q].stored \in Nat /\ cache[q].stored <= now
      BY <1>0 DEF CacheInv, CacheFits, Entry
    <3> QED BY <1>0, <1>1, <3>1, SMTT(30) DEF CacheInv
  <2> QED BY <1>0, <1>1, <2>1, <2>2 DEF CacheInv
<1>2. ASSUME NEW q \in Questions, cache' = [cache EXCEPT ![q] = NoEntry], UNCHANGED <<generation, now>>
      PROVE  CacheInv'
  <2>1. cache' \in [Questions -> Entry \cup {NoEntry}]
    BY <1>0, <1>2 DEF CacheInv
  <2>2. Kept' \subseteq Kept
    BY <1>0, <1>2 DEF Kept, CacheInv
  <2>3. /\ IsFiniteSet(Kept') /\ Cardinality(Kept') <= Cardinality(Kept)
        /\ Cardinality(Kept') \in Nat /\ Cardinality(Kept) \in Nat
    BY <1>0, <2>2, FS_Subset, FS_CardinalityType DEF CacheInv
  <2>4. Cardinality(Kept') <= dohCacheEntries
    BY <1>0, <2>3, SMTT(30) DEF CacheInv
  <2>5. CacheFits'
    BY <1>0, <1>2 DEF CacheInv, CacheFits
  <2> QED BY <1>0, <1>2, <2>1, <2>3, <2>4, <2>5 DEF CacheInv
<1>3. ASSUME NEW q \in Questions, NEW e \in Entry, Stores(q, e) PROVE CacheInv'
  BY <1>0, <1>3, StoreFits, Zenon
<1>4. CASE cache' = [q \in Questions |-> NoEntry] /\ now' = now
  <2>1. Kept' = {}
    BY <1>4 DEF Kept
  <2>2. IsFiniteSet(Kept') /\ Cardinality(Kept') <= dohCacheEntries
    BY <1>0, <2>1, FS_EmptySet
  <2> QED BY <1>0, <1>4, <2>2 DEF CacheInv, CacheFits
<1> QED BY <1>0, <1>1, <1>2, <1>3, <1>4, Zenon DEF CacheMoved

-----------------------------------------------------------------------------
(* The circuit. *)

CircuitTyped == /\ failStreak \in Nat /\ skipUntil \in Nat
                /\ mode \in {"doh", "plain_skip", "recovering"}
                /\ preferred \in Endpoints \cup {None}

CircuitInv == CircuitTyped /\ CircuitIsExact

\* The circuit opens with the failure that reaches the threshold, and with it.
LEMMA FailureIsExact ==
  ASSUME CircuitInv, now \in Nat, noteFailure
  PROVE  CircuitInv'
<1>0. dohFailThreshold \in Nat \ {0} /\ dohSkipCooldown \in Nat \ {0}
  BY LimitAssumption
<1>1. CASE failStreak + 1 >= dohFailThreshold
  <2>1. /\ failStreak' = failStreak + 1 /\ skipUntil' = now + dohSkipCooldown
        /\ mode' = "plain_skip" /\ preferred' = preferred
    BY <1>1 DEF noteFailure
  <2> QED BY <1>0, <1>1, <2>1 DEF CircuitInv, CircuitTyped, CircuitIsExact
<1>2. CASE ~(failStreak + 1 >= dohFailThreshold)
  <2>1. failStreak' = failStreak + 1 /\ UNCHANGED <<skipUntil, mode, preferred>>
    BY <1>2 DEF noteFailure
  <2> QED BY <1>0, <1>2, <2>1 DEF CircuitInv, CircuitTyped, CircuitIsExact
<1> QED BY <1>1, <1>2

\* Every step keeps the circuit exact.
LEMMA CircuitStep == ASSUME IInv, [Next]_vars PROVE CircuitInv'
<1>0. CircuitInv /\ now \in Nat /\ dohFailThreshold \in Nat \ {0}
  BY LimitAssumption DEF IInv, TypeOK, CircuitInv, CircuitTyped
<1>1. CASE UNCHANGED circuitVars
  BY <1>0, <1>1 DEF circuitVars, CircuitInv, CircuitTyped, CircuitIsExact
<1>2. CASE noteFailure
  BY <1>0, <1>2, FailureIsExact
<1>3. CASE noteSuccess
  BY <1>0, <1>3 DEF noteSuccess, CircuitInv, CircuitTyped, CircuitIsExact
<1>4. CASE ResetEnd
  BY <1>0, <1>4 DEF ResetEnd, CircuitInv, CircuitTyped, CircuitIsExact
<1>5. ASSUME NEW f \in Flights, Begin(f) PROVE CircuitInv'
  <2>1. CASE shouldSkip
    BY <1>1, <1>5, <2>1 DEF Begin
  <2>2. CASE ~shouldSkip
    <3>1. /\ skipUntil' = 0 /\ UNCHANGED preferred
          /\ mode' = IF skipUntil # 0 THEN "recovering" ELSE mode
          /\ failStreak' = IF skipUntil # 0 THEN dohFailThreshold - 1 ELSE failStreak
      BY <1>5, <2>2 DEF Begin
    <3>2. CASE skipUntil # 0
      BY <1>0, <3>1, <3>2 DEF CircuitInv, CircuitTyped, CircuitIsExact
    <3>3. CASE skipUntil = 0
      BY <1>0, <3>1, <3>3, Zenon DEF CircuitInv, CircuitTyped, CircuitIsExact
    <3> QED BY <3>2, <3>3
  <2> QED BY <2>1, <2>2
<1>6. ASSUME NEW f \in Flights, Prefer(f) PROVE CircuitInv'
  <2>1. flight[f].won \in Endpoints \cup {None}
    BY DEF IInv, TypeOK, FlightType
  <2> QED BY <1>0, <1>6, <2>1 DEF Prefer, CircuitInv, CircuitTyped, CircuitIsExact
<1>7. ASSUME NEW f \in Flights, Race(f) PROVE CircuitInv'
  <2>1. CASE RaceTimeout(f)
    BY <1>1, <1>2, <2>1 DEF RaceTimeout, Fails
  <2>2. ASSUME NEW e \in Endpoints, EndpointFails(f, e) PROVE CircuitInv'
    BY <1>1, <1>2, <2>2 DEF EndpointFails, Fails
  <2>3. ASSUME NEW e \in Endpoints, NEW a \in Answer, EndpointAnswers(f, e, a) PROVE CircuitInv'
    BY <1>3, <2>3 DEF EndpointAnswers
  <2> QED BY <1>7, <2>1, <2>2, <2>3, Zenon DEF Race
<1>8. ASSUME NEW f \in Flights, Work(f) \/ launchFallbacks(f) PROVE CircuitInv'
  <2>1. ASSUME NEW content \in Contents \cup {"error"}, PlainEnds(f, content) PROVE CircuitInv'
    BY <1>1, <2>1 DEF PlainEnds
  <2>2. ASSUME NEW late \in BOOLEAN, Land(f, late) PROVE CircuitInv'
    BY <1>1, <2>2 DEF Land
  <2>3. CASE launchFallbacks(f)
    BY <1>1, <2>3 DEF launchFallbacks
  <2> QED BY <1>5, <1>6, <1>7, <1>8, <2>1, <2>2, <2>3 DEF Work
<1>9. ASSUME NEW c \in Callers, Enter(c) \/ GiveUp(c) \/ TakeResult(c) PROVE CircuitInv'
  <2>1. UNCHANGED circuitVars
    BY <1>9 DEF Enter, EnterLate, EnterCached, EnterFlight, GiveUp, TakeResult
  <2> QED BY <1>1, <2>1, Zenon
<1>10. CASE ResetBegin \/ Close \/ Tick \/ UNCHANGED vars
  <2>1. UNCHANGED circuitVars
    BY <1>10 DEF ResetBegin, Close, Tick, vars
  <2> QED BY <1>1, <2>1
<1> QED BY <1>4, <1>8, <1>9, <1>10, Zenon DEF Next

-----------------------------------------------------------------------------
(* The invariant and what follows from it. *)

\* Every step keeps the two flags.
LEMMA FlagStep ==
  ASSUME IInv, [Next]_vars PROVE reset' \in {"no", "cache", "circuit"} /\ closed' \in BOOLEAN
<1>0. reset \in {"no", "cache", "circuit"} /\ closed \in BOOLEAN
  BY DEF IInv, TypeOK
<1>1. CASE ResetBegin \/ ResetEnd \/ Close
  BY <1>0, <1>1, Zenon DEF ResetBegin, ResetEnd, Close
<1>2. CASE UNCHANGED <<reset, closed>>
  BY <1>0, <1>2
<1>3. ASSUME NEW c \in Callers, Enter(c) \/ GiveUp(c) \/ TakeResult(c) PROVE UNCHANGED <<reset, closed>>
  BY <1>3 DEF Enter, EnterLate, EnterCached, EnterFlight, GiveUp, TakeResult
<1>4. ASSUME NEW f \in Flights, Work(f) \/ launchFallbacks(f) PROVE UNCHANGED <<reset, closed>>
  <2>1. CASE Begin(f) \/ Prefer(f) \/ launchFallbacks(f)
    BY <2>1, Zenon DEF Begin, Prefer, launchFallbacks
  <2>2. CASE Race(f)
    BY <2>2, Zenon DEF Race, RaceTimeout, EndpointFails, EndpointAnswers
  <2>3. CASE \/ \E content \in Contents \cup {"error"} : PlainEnds(f, content)
             \/ \E late \in BOOLEAN : Land(f, late)
    BY <2>3 DEF PlainEnds, Land
  <2> QED BY <1>4, <2>1, <2>2, <2>3 DEF Work
<1>5. CASE Tick \/ UNCHANGED vars
  BY <1>2, <1>5 DEF Tick, vars
<1> QED BY <1>1, <1>2, <1>3, <1>4, <1>5 DEF Next

\* The invariant holds at the start.
LEMMA InitIInv == Init => IInv
<1> SUFFICES ASSUME Init PROVE IInv
  BY Zenon
<1>1. PICK ask \in [Callers -> Questions] :
        caller = [c \in Callers |-> [NoCall EXCEPT !.pc = "enter", !.question = ask[c]]]
  BY DEF Init
<1>2. ASSUME NEW c \in Callers
      PROVE  /\ caller[c] \in CallerType /\ caller[c].pc = "enter" /\ caller[c].question \in Questions
             /\ caller[c].got = "none" /\ caller[c].stale = FALSE
  <2>1. ask[c] \in Questions
    BY <1>1, Zenon
  <2>2. caller[c] = [NoCall EXCEPT !.pc = "enter", !.question = ask[c]]
    BY <1>1
  <2>3. caller[c] = [pc |-> "enter", question |-> ask[c], via |-> "doh", flight |-> None,
                     network |-> 0, expired |-> FALSE, got |-> "none", stale |-> FALSE]
    BY <2>2, Zenon DEF NoCall
  <2> QED BY <2>1, <2>3, SMTT(30) DEF CallerType, Transports
<1>3. caller \in [Callers -> CallerType]
  BY <1>1, <1>2
<1>4. Kept = {} /\ cache \in [Questions -> Entry \cup {NoEntry}] /\ CacheFits
  BY DEF Init, Kept, CacheFits
<1>5. IsFiniteSet(Kept) /\ Cardinality(Kept) <= dohCacheEntries
  BY <1>4, FS_EmptySet, LimitAssumption, SMTT(30)
<1>6. TypeOK
  BY <1>3, <1>4, <1>5, NoFlightTyped, Zenon DEF Init, TypeOK, Kept
<1>7. \A f \in Flights : Waiting(f) = {} /\ flight[f] = NoFlight
  BY <1>2 DEF Init, Waiting
<1>8. WaitersCounted /\ WaitsForLive
  BY <1>7, FS_EmptySet, NoFlightTyped DEF WaitersCounted, WaitsForLive
<1>9. CallersFit /\ WaitsOnOwnNetwork /\ GotSound
  BY <1>2, Zenon DEF CallersFit, WaitsOnOwnNetwork, GotSound, Contents
<1>10. FlightsFit /\ MapFits /\ InMap /\ OneFlight /\ ResultsFit
  BY <1>7, NoFlightTyped DEF Init, FlightsFit, MapFits, InMap, OneFlight, ResultsFit, ActivePcs
<1>11. CircuitIsExact
  <2>1. failStreak = 0 /\ skipUntil = 0 /\ mode = "doh"
    BY DEF Init
  <2>2. ~(0 >= dohFailThreshold)
    BY LimitAssumption
  <2> QED BY <2>1, <2>2 DEF CircuitIsExact
<1> QED BY <1>4, <1>5, <1>6, <1>8, <1>9, <1>10, <1>11 DEF IInv

\* Every step keeps the invariant.
LEMMA Invariance == IInv /\ [Next]_vars => IInv'
<1> SUFFICES ASSUME IInv, [Next]_vars PROVE IInv'
  OBVIOUS
<1>1. MovingTyped' /\ MapInv' /\ CallerInv' /\ WaitInv' /\ ResultsFit' /\ CacheInv' /\ CircuitInv'
  BY MovingTypeStep, MapStep, CallerStep, WaitStep, ResultStep, CacheStep, CircuitStep
<1>2. TypeOK'
  BY <1>1, FlagStep DEF TypeOK, MovingTyped, CacheInv, CircuitInv, CircuitTyped, Kept
<1> QED BY <1>1, <1>2 DEF IInv, MapInv, CallerInv, WaitInv, CacheInv, CircuitInv

\* Every variable holds a value of its kind, and the cache never grows past
\* dohCacheEntries, whatever lands in it in whatever order (resolveFlight).
THEOREM CacheIsBounded == Spec => []TypeOK
<1>1. IInv => TypeOK
  BY DEF IInv
<1> QED BY <1>1, InitIInv, Invariance, PTL DEF Spec

\* Identical questions share one flight: its waiters are counted exactly, the
\* flight of somebody who waits is not cancelled while the client is open, and
\* no two flights that could store an answer have the same key (exchangeShared,
\* releaseFlight, resolveFlight).
THEOREM QuestionsShareFlights == Spec => []FlightsAreShared
<1>1. IInv => FlightsAreShared
  BY DEF IInv, FlightsAreShared, WaitersCounted, WaitsForLive, OneFlight, ActivePcs
<1> QED BY <1>1, InitIInv, Invariance, PTL DEF Spec

\* No answer of an old network is in the cache of the new one, and nobody waits
\* for a flight of another network than the one the question was asked on
\* (ResetCache, exchangeShared, resolveFlight).
THEOREM ResetSeparates == Spec => []NetworksAreApart
<1>1. IInv => NetworksAreApart
  BY DEF IInv, NetworksAreApart, CacheFits, WaitsOnOwnNetwork
<1> QED BY <1>1, InitIInv, Invariance, PTL DEF Spec

\* No caller is given a poison address, and none keeps a cached answer longer
\* than the upstream allowed, whenever it was stored and however often the
\* client was reset since (filterPoisonAnswers, cacheableTTL, ageDNSResponse).
THEOREM NoPoisonNoStale == Spec => []AnswersAreSound
<1>1. IInv => AnswersAreSound
  BY DEF IInv, AnswersAreSound, CacheFits, GotSound
<1> QED BY <1>1, InitIInv, Invariance, PTL DEF Spec

\* The circuit is open exactly while the streak of failures is at the
\* threshold, whichever flights report in whatever order (noteSuccess,
\* noteFailure, shouldSkip, ResetCache).
THEOREM CircuitFollowsStreak == Spec => []CircuitIsExact
<1>1. IInv => CircuitIsExact
  BY DEF IInv
<1> QED BY <1>1, InitIInv, Invariance, PTL DEF Spec

=============================================================================

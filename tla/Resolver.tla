------------------------------ MODULE Resolver ------------------------------
(***************************************************************************)
(* The DNS resolver of a session: the stub's handlers and the engine's own *)
(* lookups (the callers), and the DoH client they share.  The client joins *)
(* identical questions into one flight, keeps clean answers for a while,   *)
(* races its endpoints, and falls back to plain DNS while its circuit is   *)
(* open.  A change of network resets it in the middle of all that.         *)
(*                                                                         *)
(* An action is one critical section of queriesMu or of mu, or one event a *)
(* goroutine receives.  An answer is what the properties tell apart: its   *)
(* content and the smallest TTL of its records, after the HTTP Age header. *)
(***************************************************************************)
EXTENDS Naturals, FiniteSets, FiniteSetsExt

CONSTANTS Callers,           \* calls of the stub's handler and lookups of the engine
          Lookups,           \* the latter
          Questions,         \* packed questions, without their ID
          Endpoints,         \* defaultDoHEndpoints
          Flights,           \* dohFlight objects
          None,              \* nil, and no preferred endpoint
          dohCacheEntries, dohCacheMaxTTL, dohFailThreshold, dohSkipCooldown,
          TTLs,              \* bound: TTLs of upstream answers
          MaxNow,            \* bound: the clock
          MaxGeneration      \* bound: resets

ASSUME CallerAssumption == Lookups \subseteq Callers

ASSUME EndpointAssumption == None \notin Endpoints \cup Flights /\ IsFiniteSet(Endpoints)

ASSUME LimitAssumption ==
  /\ dohCacheEntries \in Nat \ {0} /\ dohCacheMaxTTL \in Nat \ {0}
  /\ dohFailThreshold \in Nat \ {0} /\ dohSkipCooldown \in Nat \ {0}
  /\ TTLs \subseteq Nat /\ TTLs # {} /\ IsFiniteSet(TTLs) /\ MaxNow \in Nat /\ MaxGeneration \in Nat

VARIABLES
  cache,                         \* DoHClient.cache, by question
  flights,                       \* DoHClient.flights, by key
  generation,                    \* DoHClient.generation
  failStreak, skipUntil, mode, preferred,   \* the circuit, 0 for a zero time
  flight,                        \* the flights and the goroutine of each
  caller,                        \* the callers
  reset,                         \* how far a ResetCache or Close has come
  closed,                        \* Close was called
  now                            \* the clock

queryVars   == <<cache, flights, generation>>
circuitVars == <<failStreak, skipUntil, mode, preferred>>
vars == <<queryVars, circuitVars, flight, caller, reset, closed, now>>

Transports == {"doh", "plain"}
Keys       == Transports \X Questions

\* What a response holds: no poison address, a poison address, or a refusal of
\* the server.  A clean one with TTL 0 stands for all that is not kept either:
\* no record, NXDOMAIN, a truncated or foreign reply.
Contents == {"clean", "poison", "refused"}
Answer   == [content : {"clean"}, ttl : TTLs] \cup [content : {"poison", "refused"}, ttl : {Max(TTLs)}]
Failed   == [content |-> "error", ttl |-> 0]

NoEntry  == [answer |-> Failed, stored |-> 0, expires |-> 0, network |-> 0]
Entry    == [answer : Answer, stored : Nat, expires : Nat, network : Nat]

\* A flight: its key and generation, the callers waiting, whether its context
\* was cancelled, the endpoints asked and the ones that failed, and its result.
NoFlight == [pc |-> "none", key |-> None, generation |-> 0, waiters |-> 0,
             cancelled |-> FALSE, asked |-> {}, failed |-> {}, won |-> None, result |-> Failed]

FlightType == [pc : {"none", "begin", "race", "won", "land", "done"}, key : Keys \cup {None},
               generation : Nat, waiters : Nat, cancelled : BOOLEAN,
               asked : SUBSET Endpoints, failed : SUBSET Endpoints,
               won : Endpoints \cup {None}, 
               result : [content : Contents \cup {"error"}, ttl : Nat]]

\* A caller: what it asks and over what, the flight it waits for, whether its
\* deadline passed, and what it returned: "stale" is an answer its client will
\* keep for longer than the upstream allowed.
NoCall == [pc |-> "answered", question |-> None, via |-> "doh", flight |-> None,
         network |-> 0, expired |-> FALSE, got |-> "none", stale |-> FALSE]

CallerType == [pc : {"enter", "wait", "answered"}, question : Questions \cup {None},
               via : Transports, flight : Flights \cup {None}, network : Nat, expired : BOOLEAN,
               got : Contents \cup {"none", "error"}, stale : BOOLEAN]

\* Every variable holds a value of its kind, and the cache never grows past
\* its limit.
TypeOK ==
  /\ cache \in [Questions -> Entry \cup {NoEntry}]
  /\ Cardinality({q \in Questions : cache[q] # NoEntry}) <= dohCacheEntries
  /\ flights \in [Keys -> Flights \cup {None}]
  /\ generation \in Nat /\ failStreak \in Nat /\ skipUntil \in Nat
  /\ mode \in {"doh", "plain_skip", "recovering"}
  /\ preferred \in Endpoints \cup {None}
  /\ flight \in [Flights -> FlightType]
  /\ caller \in [Callers -> CallerType]
  /\ reset \in {"no", "cache", "circuit"} /\ closed \in BOOLEAN
  /\ now \in Nat

\* NewDoHClient starts with the first of its endpoints preferred.  The calls
\* are there from the start: each begins when it takes its first step.
Init ==
  /\ cache = [q \in Questions |-> NoEntry]
  /\ flights = [k \in Keys |-> None]
  /\ generation = 0 /\ failStreak = 0 /\ skipUntil = 0 /\ mode = "doh"
  /\ preferred \in Endpoints
  /\ flight = [f \in Flights |-> NoFlight]
  /\ \E ask \in [Callers -> Questions] :
       caller = [c \in Callers |-> [NoCall EXCEPT !.pc = "enter", !.question = ask[c]]]
  /\ reset = "no" /\ closed = FALSE
  /\ now = 1

-----------------------------------------------------------------------------
Key(c) == <<caller[c].via, caller[c].question>>

\* A flight nobody refers to any more is forgotten.
Settled(r) == IF r.pc = "done" /\ r.waiters = 0 THEN NoFlight ELSE r

Returns(c, r) == caller' = [caller EXCEPT ![c] = r]

Cached(q) == cache[q] # NoEntry /\ now < cache[q].expires

\* Variant: the cached answer goes out with the TTL it came with.
NotAged(ttl, age) == ttl

\* ageDNSResponse: the TTL that is left of an answer of that age.
Aged(ttl, age) == IF ttl > age THEN ttl - age ELSE 0

\* What the stub writes, or a lookup returns, for an answer: a poison address
\* becomes a failure, of the server for the stub, of the transport for a lookup.
\* A lookup also takes a refusal for a failure.
Filtered(c, content) ==
  IF content = "poison" \/ (c \in Lookups /\ content = "refused") THEN "error" ELSE content

\* A caller that got an answer, or failed to: the stub falls back to plain DNS
\* when DoH returned no response, a lookup also when the response was poison.
Outcome(c, r, answer, stale) ==
  LET got == IF answer = Failed THEN "error" ELSE Filtered(c, answer.content)
  IN IF r.via = "doh" /\ got = "error" /\ (answer = Failed \/ c \in Lookups)
     THEN [r EXCEPT !.pc = "enter", !.via = "plain", !.flight = None]
     ELSE [NoCall EXCEPT !.pc = "answered", !.got = got, !.stale = stale]

-----------------------------------------------------------------------------
\* exchangeShared with a context that is over returns at once.
EnterLate(c) ==
  /\ caller[c].pc = "enter" /\ caller[c].expired
  /\ Returns(c, Outcome(c, caller[c], Failed, FALSE))
  /\ UNCHANGED <<queryVars, circuitVars, flight, reset, closed, now>>

\* exchangeShared answers from the cache.
EnterCached(c) ==
  LET q == caller[c].question
      e == cache[q]
  IN /\ caller[c].pc = "enter" /\ ~caller[c].expired
     /\ caller[c].via = "doh" /\ Cached(q)
     /\ Returns(c, Outcome(c, caller[c], e.answer,
                 now + Aged(e.answer.ttl, now - e.stored) > e.stored + e.answer.ttl))
     /\ UNCHANGED <<queryVars, circuitVars, flight, reset, closed, now>>

\* exchangeShared drops a stale entry, then joins the flight of its key or
\* starts one.
Joined(c, f) ==
  /\ flights[Key(c)] = f
  /\ flight' = [flight EXCEPT ![f].waiters = @ + 1]
  /\ UNCHANGED flights

Launched(c, f) ==
  /\ flights[Key(c)] = None /\ flight[f].pc = "none"
  /\ flight' = [flight EXCEPT ![f] = [NoFlight EXCEPT !.pc = "begin", !.key = Key(c),
                                       !.generation = generation, !.waiters = 1]]
  /\ flights' = [flights EXCEPT ![Key(c)] = f]

EnterFlight(c, f) ==
  /\ caller[c].pc = "enter" /\ ~caller[c].expired
  /\ caller[c].via = "doh" => ~Cached(caller[c].question)
  /\ Joined(c, f) \/ Launched(c, f)
  /\ cache' = IF caller[c].via = "doh" THEN [cache EXCEPT ![caller[c].question] = NoEntry]
                                       ELSE cache
  /\ Returns(c, [caller[c] EXCEPT !.pc = "wait", !.flight = f, !.network = generation])
  /\ UNCHANGED <<generation, circuitVars, reset, closed, now>>

\* Variant: the last caller cancels the flight and leaves it to be joined.
releaseFlightKept(f) ==
  /\ flight' = [flight EXCEPT ![f] =
                  Settled([flight[f] EXCEPT !.waiters = flight[f].waiters - 1,
                                            !.cancelled = flight[f].cancelled \/ flight[f].waiters = 1])]
  /\ UNCHANGED flights

\* releaseFlight: the last caller to leave takes the flight out of the map and
\* cancels it.
releaseFlight(f) ==
  LET last == flight[f].waiters = 1
  IN /\ flight' = [flight EXCEPT ![f] =
                     Settled([flight[f] EXCEPT !.waiters = flight[f].waiters - 1,
                                               !.cancelled = flight[f].cancelled \/ last])]
     /\ flights' = IF last /\ flights[flight[f].key] = f
                   THEN [flights EXCEPT ![flight[f].key] = None] ELSE flights

\* The deadline of a caller passes: it leaves the flight it waits for.
GiveUp(c) ==
  /\ caller[c].pc = "wait"
  /\ releaseFlight(caller[c].flight)
  /\ Returns(c, Outcome(c, [caller[c] EXCEPT !.expired = TRUE], Failed, FALSE))
  /\ UNCHANGED <<cache, generation, circuitVars, reset, closed, now>>

\* The flight landed: every caller takes its own copy of the result.
TakeResult(c) ==
  LET f == caller[c].flight
      a == flight[f].result
  IN /\ caller[c].pc = "wait" /\ flight[f].pc = "done"
     /\ releaseFlight(f)
     /\ Returns(c, Outcome(c, caller[c], a, FALSE))
     /\ UNCHANGED <<cache, generation, circuitVars, reset, closed, now>>

-----------------------------------------------------------------------------
Goes(f, r) == flight' = [flight EXCEPT ![f] = r]

\* The exchange of a flight ended.
Ended(f, result) == Goes(f, [flight[f] EXCEPT !.pc = "land", !.asked = {}, !.failed = {},
                                              !.won = None, !.result = result])

noteSuccess ==
  failStreak' = 0 /\ skipUntil' = 0 /\ mode' = "doh" /\ UNCHANGED preferred

\* Variant: the circuit opens one failure later.
noteFailureLate ==
  /\ failStreak' = failStreak + 1
  /\ LET open == failStreak >= dohFailThreshold
     IN /\ skipUntil' = IF open THEN now + dohSkipCooldown ELSE skipUntil
        /\ mode' = IF open THEN "plain_skip" ELSE mode
  /\ UNCHANGED preferred

noteFailure ==
  /\ failStreak' = failStreak + 1
  /\ LET open == failStreak + 1 >= dohFailThreshold
     IN /\ skipUntil' = IF open THEN now + dohSkipCooldown ELSE skipUntil
        /\ mode' = IF open THEN "plain_skip" ELSE mode
  /\ UNCHANGED preferred

\* The exchange ends without an answer; a cancelled one does not count.
Fails(f) ==
  /\ Ended(f, Failed)
  /\ IF flight[f].cancelled THEN UNCHANGED circuitVars ELSE noteFailure

\* exchange: shouldSkip, then the preferred endpoint alone or all of them.
shouldSkip == skipUntil # 0 /\ now < skipUntil

Begin(f) ==
  /\ flight[f].pc = "begin" /\ flight[f].key[1] = "doh"
  /\ IF shouldSkip
     THEN Ended(f, Failed) /\ UNCHANGED circuitVars
     ELSE /\ Goes(f, [flight[f] EXCEPT !.pc = "race",
                        !.asked = IF preferred = None THEN Endpoints ELSE {preferred}])
          /\ skipUntil' = 0
          /\ mode' = IF skipUntil # 0 THEN "recovering" ELSE mode
          /\ failStreak' = IF skipUntil # 0 THEN dohFailThreshold - 1 ELSE failStreak
          /\ UNCHANGED preferred
  /\ UNCHANGED <<queryVars, caller, reset, closed, now>>

\* The 150 ms timer: the other endpoints join the race.
launchFallbacks(f) ==
  /\ flight[f].pc = "race" /\ flight[f].asked # Endpoints
  /\ Goes(f, [flight[f] EXCEPT !.asked = Endpoints])
  /\ UNCHANGED <<queryVars, circuitVars, caller, reset, closed, now>>

\* An endpoint fails: the others join the race, or it was the last.
EndpointFails(f, e) ==
  LET failed == flight[f].failed \cup {e}
  IN /\ flight[f].pc = "race" /\ e \in flight[f].asked \ flight[f].failed
     /\ IF failed = Endpoints
        THEN Fails(f)
        ELSE /\ Goes(f, [flight[f] EXCEPT !.asked = Endpoints, !.failed = failed])
             /\ UNCHANGED circuitVars
     /\ UNCHANGED <<queryVars, caller, reset, closed, now>>

\* The budget is over, or the context of the flight is.
RaceTimeout(f) ==
  /\ flight[f].pc = "race"
  /\ Fails(f)
  /\ UNCHANGED <<queryVars, caller, reset, closed, now>>

\* An endpoint answers.  noteSuccess and the change of the preferred endpoint
\* are two critical sections.
EndpointAnswers(f, e, a) ==
  /\ flight[f].pc = "race" /\ e \in flight[f].asked \ flight[f].failed
  /\ Goes(f, [flight[f] EXCEPT !.pc = "won", !.asked = {}, !.failed = {},
                              !.won = e, !.result = a])
  /\ noteSuccess
  /\ UNCHANGED <<queryVars, caller, reset, closed, now>>

Prefer(f) ==
  /\ flight[f].pc = "won"
  /\ Ended(f, flight[f].result)
  /\ preferred' = flight[f].won
  /\ UNCHANGED <<queryVars, failStreak, skipUntil, mode, caller, reset, closed, now>>

-----------------------------------------------------------------------------
\* cacheableTTL: only clean records, no longer than a minute.
cacheableTTL(a) == IF a.content = "clean" THEN Min({a.ttl, dohCacheMaxTTL}) ELSE 0

Fresh == {q \in Questions : Cached(q)}

\* Variant: room is made only once the cache is past its limit.
VictimsLate == IF Cardinality(Fresh) <= dohCacheEntries THEN {None}
               ELSE {q \in Fresh : \A p \in Fresh : cache[q].expires <= cache[p].expires}

\* The entry that makes room in a full cache: one of those that expire next.
Victims == IF Cardinality(Fresh) < dohCacheEntries THEN {None}
           ELSE {q \in Fresh : \A p \in Fresh : cache[q].expires <= cache[p].expires}

\* Expired entries go first, then the victim; then the answer is stored.
Store(q, entry) ==
  \E victim \in Victims :
    cache' = [p \in Questions |-> IF p = q THEN entry
                                 ELSE IF p \in Fresh \ {victim} THEN cache[p] ELSE NoEntry]

\* Variant: a flight of before a reset stores its answer too.
MayStoreAlways(f) == flight[f].key[1] = "doh" /\ ~flight[f].cancelled

MayStore(f) ==
  /\ flight[f].key[1] = "doh" /\ ~flight[f].cancelled
  /\ flight[f].generation = generation

LeavesMap(f) ==
  flights' = IF flights[flight[f].key] = f THEN [flights EXCEPT ![flight[f].key] = None]
                                           ELSE flights

\* resolveFlight's critical section; "late" is a context that timed out
\* although the exchange had its answer.
Land(f, late) ==
  LET a   == flight[f].result
      ttl == cacheableTTL(a)
  IN /\ flight[f].pc = "land"
     /\ LeavesMap(f)
     /\ IF MayStore(f) /\ ~late /\ ttl > 0
        THEN Store(flight[f].key[2], [answer |-> a, stored |-> now, expires |-> now + ttl,
                                      network |-> flight[f].generation])
        ELSE UNCHANGED cache
     /\ Goes(f, Settled([flight[f] EXCEPT !.pc = "done"]))
     /\ UNCHANGED <<generation, circuitVars, caller, reset, closed, now>>

\* ExchangePlain races its resolvers; the flight lands with the answer of one
\* of them, or with none in time, and nothing is kept.
PlainEnds(f, content) ==
  /\ flight[f].pc = "begin" /\ flight[f].key[1] = "plain"
  /\ LeavesMap(f)
  /\ Goes(f, Settled([flight[f] EXCEPT !.pc = "done", !.result = [content |-> content, ttl |-> 0]]))
  /\ UNCHANGED <<cache, generation, circuitVars, caller, reset, closed, now>>

-----------------------------------------------------------------------------
\* ResetCache, as softRebindLocked calls it on a new network: two critical
\* sections.
ResetBegin ==
  /\ reset = "cache" \/ (reset = "no" /\ generation < MaxGeneration)
  /\ generation' = generation + 1
  /\ cache' = [q \in Questions |-> NoEntry]
  /\ flights' = [k \in Keys |-> None]
  /\ reset' = "circuit"
  /\ UNCHANGED <<circuitVars, flight, caller, closed, now>>

ResetEnd ==
  /\ reset = "circuit" /\ reset' = "no"
  /\ preferred' = None /\ failStreak' = 0 /\ skipUntil' = 0 /\ mode' = "doh"
  /\ UNCHANGED <<queryVars, flight, caller, closed, now>>

\* Close cancels the flights under way, then resets.
Close ==
  /\ reset = "no" /\ ~closed /\ generation < MaxGeneration
  /\ closed' = TRUE /\ reset' = "cache"
  /\ flight' = [f \in Flights |-> IF \E k \in Keys : flights[k] = f
                                  THEN [flight[f] EXCEPT !.cancelled = TRUE] ELSE flight[f]]
  /\ UNCHANGED <<queryVars, circuitVars, caller, now>>

Tick ==
  /\ now < MaxNow /\ now' = now + 1
  /\ UNCHANGED <<queryVars, circuitVars, flight, caller, reset, closed>>

-----------------------------------------------------------------------------
Enter(c)  == EnterLate(c) \/ EnterCached(c) \/ \E f \in Flights : EnterFlight(c, f)

Race(f) == \/ RaceTimeout(f)
           \/ \E e \in Endpoints : \/ EndpointFails(f, e)
                                   \/ \E a \in Answer : EndpointAnswers(f, e, a)

Work(f) == \/ Begin(f) \/ Race(f) \/ Prefer(f)
           \/ \E content \in Contents \cup {"error"} : PlainEnds(f, content)
           \/ \E late \in BOOLEAN : Land(f, late)

Next ==
  \/ \E c \in Callers : Enter(c) \/ GiveUp(c) \/ TakeResult(c)
  \/ \E f \in Flights : Work(f) \/ launchFallbacks(f)
  \/ ResetBegin \/ ResetEnd \/ Close \/ Tick

Spec == Init /\ [][Next]_vars

-----------------------------------------------------------------------------
Waiting(f) == {c \in Callers : caller[c].pc = "wait" /\ caller[c].flight = f}

\* Identical questions share one flight, and leaving it is nobody else's
\* affair: the waiters of a flight are counted exactly, the context of a flight
\* somebody waits for is not cancelled while the client is open, and no two
\* flights that could still store an answer have the same key (exchangeShared,
\* releaseFlight).
FlightsAreShared ==
  /\ \A f \in Flights : flight[f].pc # "none" => flight[f].waiters = Cardinality(Waiting(f))
  /\ ~closed => \A f \in Flights : Waiting(f) # {} => ~flight[f].cancelled
  /\ \A f, g \in Flights :
       (/\ f # g /\ flight[f].key = flight[g].key /\ flight[f].generation = flight[g].generation
        /\ {flight[f].pc, flight[g].pc} \subseteq {"begin", "race", "won", "land"})
       => flight[f].cancelled \/ flight[g].cancelled

\* "ResetCache also detaches old in-flight requests so their results cannot
\* fill the new network's cache or be joined by questions on the new network":
\* what is cached was asked for since the last reset, and a caller waits for a
\* flight of the network it asked on.
NetworksAreApart ==
  /\ \A q \in Questions : cache[q] # NoEntry => cache[q].network = generation
  /\ \A c \in Callers : caller[c].pc = "wait" => flight[caller[c].flight].generation = caller[c].network

\* No caller is ever given a poison address, from the cache, from DoH or from
\* plain DNS, and a client never keeps a cached answer longer than the upstream
\* allowed (filterPoisonAnswers, LookupA, cacheableTTL, ageDNSResponse).
AnswersAreSound ==
  /\ \A c \in Callers : caller[c].got # "poison" /\ ~caller[c].stale
  /\ \A q \in Questions : cache[q] # NoEntry => cache[q].answer.content = "clean"

\* The circuit is open exactly while its streak is at the threshold: it cannot
\* stay closed past the threshold, nor open without one, whichever flights of
\* whichever network report success and failure (noteSuccess, noteFailure,
\* shouldSkip, ResetCache).
CircuitIsExact ==
  /\ (failStreak >= dohFailThreshold) <=> (skipUntil # 0)
  /\ (mode = "plain_skip") <=> (skipUntil # 0)
=============================================================================

SPECIFICATION Spec
CONSTANTS
  c1 = c1
  c2 = c2
  q1 = q1
  q2 = q2
  f1 = f1
  f2 = f2
  f3 = f3
  e1 = e1
  e2 = e2
  None = None
  Callers <- MCCallers
  Questions <- MCQuestions
  Endpoints <- MCEndpoints
  Flights <- MCFlights
  dohCacheEntries = 1
  dohCacheMaxTTL = 2
  dohFailThreshold = 2
  dohSkipCooldown = 1
  TTLs <- MCTTLs
  Lookups <- MCLookups
  MaxNow = 2
  MaxGeneration = 1
INVARIANTS
  TypeOK
  FlightsAreShared
  NetworksAreApart
  
  
CHECK_DEADLOCK FALSE
SYMMETRY Symmetry

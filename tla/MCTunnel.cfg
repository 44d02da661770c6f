SPECIFICATION Spec
CONSTANTS
  Workers = {w1, w2, w3}
  e1 = e1
  e2 = e2
  e3 = e3
  Candidates <- MCCandidates
  Groups = {g1, g2}
  Movers = {m1, m2}
  None = None
  TUNRetry = TRUE
  MaxMoves = 3
INVARIANTS
  NothingLeftBehind
  PinnedIsVerified
  TrafficFollowsPaths
SYMMETRY MCSymmetry
CHECK_DEADLOCK FALSE

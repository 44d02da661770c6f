SPECIFICATION FairSpec
CONSTANTS
  wifi1 = wifi1
  wifi2 = wifi2
  wired = wired
  h1 = h1
  h2 = h2
  Addrs <- MCAddrs
  Iface <- MCIface
  Heals <- MCHeals
  Offline = Offline
  None = None
  MaxLifecycle = 3
  MaxMoves = 1
  MaxResumes = 1
INVARIANTS
  StopWins
  HealingIsPending
PROPERTIES
  ImplementsProtection
  HealingEnds
  
CHECK_DEADLOCK FALSE

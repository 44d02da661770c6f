SPECIFICATION Spec
CONSTANTS
  chat = chat
  w1 = w1
  w2 = w2
  w3 = w3
  None = None
  Groups <- OneGroup
  Persistent = {}
  Workers <- TwoWorkers
  GatewayIds = {0, 1, 2, 3, 4}
  groupFailureThreshold = 2
  MaxGeneration = 3
  MaxRebinds = 1
  MaxFaults = 1
SYMMETRY WorkerSymmetry
INVARIANTS
  ConfigHasThePaths
  TunnelIsConfigured
  PathsAgree
  SuspendedByARepair
PROPERTY OldWorkChangesNothing
CHECK_DEADLOCK FALSE

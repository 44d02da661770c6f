SPECIFICATION Spec
CONSTANTS
  Native <- MCNative
  Specs <- MCSpecs
  Darwin = FALSE
  Workers = {w1, w2}
  Networks = {n1, n2}
  None = None
  Controls = 3
  Quorum = 2
  MaxSessions = 3
  MaxScans = 2
  MaxRepairs = 2
SYMMETRY MCSymmetry
INVARIANTS
  ScanVerdict
  DeployedAsVerified
  RepairForgets
CHECK_DEADLOCK FALSE

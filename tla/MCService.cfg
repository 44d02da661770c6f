SPECIFICATION Spec
CONSTANTS
  Conns = {k1, k2}
  None = None
  MaxRequests = 2
  MaxRebuilds = 1
INVARIANTS
  NoRequestOutlivesStop
  RestartRefusedOnlyByOthers
  OnlyALateStartSurvives
PROPERTY
  StopEnds
CHECK_DEADLOCK FALSE

SPECIFICATION Spec
CONSTANTS
  d1 = d1
  d2 = d2
  t1 = t1
  t2 = t2
  h1 = h1
  h2 = h2
  h3 = h3
  w1 = w1
  w2 = w2
  None = None
  Instances <- MCInstances
  Kind <- MCKind
  Workers <- MCWorkers
  recoveryBudget = 2
  Controls = 2
  Canaries = 1
  MaxGeneration = 3
  MaxExits = 1
  MaxRebinds = 1
SYMMETRY Interchangeable
INVARIANTS
  
  StoppedMeansNoProcess
  RestartsWithinBudget
PROPERTY LateNeverAdopted
CHECK_DEADLOCK FALSE

SPECIFICATION FairSpec
CONSTANTS
  d1 = d1
  d2 = d2
  t1 = t1
  t2 = t2
  h1 = h1
  h2 = h2
  h3 = h3
  w1 = w1
  w2 = w2
  None = None
  Instances <- FewInstances
  Kind <- FewKind
  Workers <- MCWorkers
  recoveryBudget = 1
  Controls = 2
  Canaries = 1
  MaxGeneration = 1
  MaxExits = 1
  MaxRebinds = 0
PROPERTIES TransitionEnds  ResolverComesBack
CHECK_DEADLOCK FALSE

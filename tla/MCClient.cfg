SPECIFICATION FairSpec
CONSTANTS
  MaxClicks = 2
  MaxAttempts = 2
  MaxFaults = 1
 
PROPERTIES ShownEventually CommandEnds
CHECK_DEADLOCK FALSE

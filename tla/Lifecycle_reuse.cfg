\* init, exit and init again, when everything succeeds; the process ends at a fault
CONSTANTS
  Failures = {}
  PerformanceValues = 5
  MaxLives = 2
SPECIFICATION Spec
INVARIANT ReusableAfterExit
CHECK_DEADLOCK FALSE

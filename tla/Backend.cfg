SPECIFICATION BackendSpec
CONSTANTS
  r1 = r1
  r2 = r2
  Request <- TwoRequests
  Checker = r1
CHECK_DEADLOCK FALSE
INVARIANTS BackendTypeOK Truthful NoPingAfterClose
PROPERTIES DrainedBeforeClose SignalledEnds HealthAnswered

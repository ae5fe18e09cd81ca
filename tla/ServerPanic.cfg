SPECIFICATION Safety
CONSTANTS
  r1 = r1
  Request <- OneRequest
CHECK_DEADLOCK FALSE
INVARIANT NoPanic

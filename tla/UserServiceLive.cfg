SPECIFICATION Spec
CONSTANTS
  t1 = t1
  t2 = t2
  i1 = i1
  i2 = i2
  k1 = k1
  k2 = k2
  k3 = k3
  none = none
  NoThread = none
  Thread <- TwoThreads
  MaxCommits = 2
  MaxLate = 1
  MaxStray = 1
  Id <- OneId
  Key <- OneKey
  IdOf <- OneSpelling
  Canonical <- FirstKey
  Ops <- NoDeletes
  Faults <- CallerFaults
INVARIANT FlightMembership
PROPERTIES EventuallyCoherent CallsReturn CancelledReturns

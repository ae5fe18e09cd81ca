SPECIFICATION Safety
CONSTANTS
  t1 = t1
  t2 = t2
  i1 = i1
  i2 = i2
  k1 = k1
  k2 = k2
  k3 = k3
  none = none
  NoThread = none
  Thread <- TwoThreads
  MaxCommits = 2
  MaxLate = 0
  MaxStray = 0
  Id <- OneId
  Key <- OneKey
  IdOf <- OneSpelling
  Canonical <- FirstKey
  Ops <- NoDeletes
  Faults <- NoFaults
SYMMETRY ThreadSymmetry
INVARIANT NoBlankUser

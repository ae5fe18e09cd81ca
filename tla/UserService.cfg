SPECIFICATION Safety
CONSTANTS
  t1 = t1
  t2 = t2
  i1 = i1
  i2 = i2
  k1 = k1
  k2 = k2
  k3 = k3
  none = none
  NoThread = none
  Thread <- TwoThreads
  MaxCommits = 2
  MaxLate = 0
  MaxStray = 1
  Id <- TwoIds
  Key <- ThreeKeys
  IdOf <- TwoSpelledIds
  Canonical <- FirstKeys
  Ops <- AllOps
  Faults <- ServerFaults
SYMMETRY ThreadSymmetry
INVARIANTS TypeOK AnswersTruthful StaleOnlyExplained EventsInCallOrder
PROPERTY ImplementsStore

SPECIFICATION Spec
CONSTANTS
  t1 = t1
  t2 = t2
  k1 = k1
  v1 = v1
  nil = nil
  none = none
  Thread <- TwoThreads
  Key <- OneKey
  Value <- OneValue
  Nil = nil
  NoThread = none
  CheckInterval = 1
  MaxRetries = 1
  MaxLate = 1
INVARIANTS TypeOK FreshVerdict
PROPERTIES ProbeSpacing ModeConverges ImplementsCache

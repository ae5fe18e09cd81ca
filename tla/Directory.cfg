SPECIFICATION Spec
CONSTANTS
  u1 = u1
  u2 = u2
  u3 = u3
  u4 = u4
  User <- FourUsers
  Time = {1, 2, 3}
  MaxPageSize = 3
  DefaultSize = 2
  MaxInt = 15
  Page <- StartPages
  Size = {1, 3, 4}
SYMMETRY UserSymmetry
INVARIANTS TypeOK WalkIsComplete

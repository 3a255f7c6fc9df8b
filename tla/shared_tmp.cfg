CONSTANTS
  None = None
  Damaged = Damaged
  w1 = w1
  w2 = w2
  d1 = d1
  d2 = d2
  d3 = d3
  f1 = f1
  f2 = f2
  f3 = f3
  f4 = f4
  Writers <- TwoWriters
  Documents <- ThreeDocuments
  Files <- FourFiles
  LossyClose = FALSE
SPECIFICATION Spec
INVARIANT NeverDamaged
CHECK_DEADLOCK FALSE

CONSTANTS
  None = None
  p1 = p1
  p2 = p2
  Procs <- OneProc
  MaxVersion = 1
  Parsable <- AllVersions
  MaxAges <- OneAge
  MaxTime = 2
  MaxLag = 0
  InitialDisks <- Damaged
SPECIFICATION Spec
PROPERTY CachedBodyNeverFails
CHECK_DEADLOCK FALSE

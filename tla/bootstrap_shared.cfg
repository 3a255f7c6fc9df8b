CONSTANTS
  None = None
  p1 = p1
  p2 = p2
  Procs <- TwoProcs
  MaxVersion = 3
  Parsable <- OddVersions
  MaxAges <- ZeroAndOne
  MaxTime = 1
  MaxLag = 1
  InitialDisks <- Empty
SPECIFICATION Spec
SYMMETRY Symmetry
INVARIANTS TypeOK ValidatorMatchesBody DatedBeforeReplaced DiskParses
PROPERTIES StalenessBounded CancelledStaysCancelled OutageNeedsNoCache
CHECK_DEADLOCK FALSE

CONSTANTS
  Root = Root
  N = 5
  Items <- AllItems
  Documents <- AllDocuments
  MaxDepth = 2
  MaxEntities = 3
  MaxItems = 2
SPECIFICATION FairSpec
INVARIANTS BudgetKept NothingLostSilently FirstComeFirstKept ViewsShowTheRecord
PROPERTIES ProjectionEnds
CHECK_DEADLOCK FALSE

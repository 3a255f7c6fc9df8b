CONSTANTS
  None = None
  a = a
  b = b
  upper = upper
  Texts <- Domains
  Canonical <- ParsedDomains
  HistoryLimit = 1
  Keys <- BrowseKeys
  InitialFiles <- SomeHistory
  HasStore = TRUE
  LossyClose = FALSE
  MaxBacklog = 0
SPECIFICATION Spec
INVARIANT BrowseIndexInRange
CHECK_DEADLOCK FALSE

CONSTANTS
  None = None
  a = a
  b = b
  upper = upper
  Texts <- Domains
  Canonical <- ParsedDomains
  HistoryLimit = 2
  Keys <- BrowseKeys
  InitialFiles <- NoFile
  HasStore = FALSE
  LossyClose = FALSE
  MaxBacklog = 1
SPECIFICATION FairSpec
PROPERTIES QuitEnds ImplementsLookupSession
CHECK_DEADLOCK FALSE
INVARIANTS TypeOK BusyMeansOutcomeOwed NoLostUpdate JoinIsShort DisplayMatchesStatus BrowseIndexInRange

CONSTANTS
  None = None
  a = a
  b = b
  upper = upper
  Texts <- Spellings
  Canonical <- ParsedSpellings
  HistoryLimit = 2
  Keys <- SaveKeys
  InitialFiles <- SpelledHistory
  HasStore = TRUE
  LossyClose = FALSE
  MaxBacklog = 0
SPECIFICATION Spec
INVARIANTS SavedQueriesWellFormed LastSuccessHeadsHistory QuietMeansDurable SavedViewCurrent
CHECK_DEADLOCK FALSE

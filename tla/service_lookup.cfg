CONSTANTS
  None = None
  u1 = u1
  u2 = u2
  plain = plain
  Lookups <- SmallLookups
  HttpsUrls <- Https
SPECIFICATION Spec
INVARIANTS ResolvesToAuthoritative NothingOverlooked OneHolder RetriesOnlyOutages EveryServiceTried
CHECK_DEADLOCK FALSE

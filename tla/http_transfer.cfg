CONSTANTS
  cacheControl = cacheControl
  etag = etag
  Limit = 4
  SizeMax = 7
  Names = {cacheControl, etag}
  MaxResponses = 3
SPECIFICATION FairSpec
INVARIANTS TypeOK ResponseIsWhole RefusedBeyondLimit StopIsNoOutage
PROPERTY StopEnds
CHECK_DEADLOCK FALSE

CONSTANTS
  None = None
  Inputs <- AllInputs
  OctetBits = 4
  MaxAutnum = 15
  MaxName = 4
  MaxLabel = 3
SPECIFICATION Spec
INVARIANTS MeaningIsKept NetworkIsPrefix EveryDomainButAs CanonicalIsShortest
CHECK_DEADLOCK FALSE

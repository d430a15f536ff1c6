SPECIFICATION FairSpec
CONSTANTS
  Chunks = {"x", "y"}
  Contents <- SmallFiles
  Infected <- WithSignature
  MaxLine = 5
CHECK_DEADLOCK FALSE
INVARIANTS
  TypeOK
  VerdictIsTrue
PROPERTY ImplementsScanCall

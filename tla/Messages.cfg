SPECIFICATION Spec
CONSTANTS
  IntBits = 4
  MaxRetries = 3
  Uploads <- SmallUploads
  Cancels <- SmallCancels
  Prefix <- SmallPrefix
INVARIANTS
  TypeOK
  ScannedInsidePrefix
  CountIsAttempts
  SentVerifies
  ConsistencyStable
PROPERTIES
  CancellationMatches
CHECK_DEADLOCK FALSE

SPECIFICATION Spec
CONSTANTS
  IntBits = 4
  MaxRetries = 3
  Uploads <- SmallUploads
  Cancels <- SmallCancels
  Prefix <- SmallPrefix
INVARIANT OverflowPrevented
CHECK_DEADLOCK FALSE

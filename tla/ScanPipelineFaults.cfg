SPECIFICATION FairSpec
CONSTANTS
  TheCase = c
  Files = {f}
  Cases = {}
  CaseOf <- AllInOneCase
  Replicas = {w1, w2}
  MaxRetries = 1
  RedisEnabled = FALSE
  MaxFaults = 3
CHECK_DEADLOCK FALSE
INVARIANTS
  NoSilentLoss
  AnnouncedRetryHappens
  DuplicatesNeedFaults
PROPERTIES
  EventuallySettled

SPECIFICATION Spec
CONSTANTS
  TheCase = c
  Files = {f}
  Cases <- OneCase
  CaseOf <- AllInOneCase
  Replicas = {w1, w2}
  MaxRetries = 2
  RedisEnabled = TRUE
  MaxFaults = 1
SYMMETRY ReplicaSymmetry
CHECK_DEADLOCK FALSE
INVARIANTS
  TypeOK
  NoSilentLoss
  DeadLetterAfterAllRetries
  AnnouncedRetryHappens
  DuplicatesNeedFaults
  RemovedForCause
  CancellationHonoured

SPECIFICATION Spec
CONSTANTS
  TheCase = c
  Files = {f}
  Cases <- OneCase
  CaseOf <- AllInOneCase
  Replicas = {w1, w2}
  MaxRetries = 3
  RedisEnabled = TRUE
  MaxFaults = 0
CHECK_DEADLOCK FALSE
INVARIANT CancelledCaseDiscarded

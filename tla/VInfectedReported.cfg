SPECIFICATION Spec
CONSTANTS
  TheCase = c
  Files = {f}
  Cases <- OneCase
  CaseOf <- AllInOneCase
  Replicas = {w1}
  MaxRetries = 3
  RedisEnabled = FALSE
  MaxFaults = 1
CHECK_DEADLOCK FALSE
INVARIANT InfectedReported

SPECIFICATION Spec
CONSTANTS
  TheCase = c
  Files = {f}
  Cases <- OneCase
  CaseOf <- AllInOneCase
  Replicas = {w1}
  MaxRetries = 3
  RedisEnabled = TRUE
  MaxFaults = 0
CHECK_DEADLOCK FALSE
INVARIANT RedisCancellationHonoured

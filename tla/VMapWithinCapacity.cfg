SPECIFICATION Spec
CONSTANTS
  Cases = {c1, c2}
  Checkers = {k1}
  MaxEntries = 1
  TTL = 2
  RateLimit = 1
  RedisEnabled = FALSE
  MaxTime = 2
INVARIANT MapWithinCapacity

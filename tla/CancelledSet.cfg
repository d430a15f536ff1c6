SPECIFICATION FairSpec
CONSTANTS
  Cases = {c1, c2}
  Checkers = {k1}
  MaxEntries = 1
  TTL = 2
  RateLimit = 1
  RedisEnabled = TRUE
  MaxTime = 3
INVARIANTS
  TypeOK
  MissNeedsSwap
  TrueOnlyIfCancelled
  RetainedTwoGenerations
PROPERTIES
  StaleEvicted

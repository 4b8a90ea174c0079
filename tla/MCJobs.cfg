CONSTANTS
  Jobs = {j1, j2}
  Workers = {w1, w2}
  Producers = {p1}
  NoJob = NoJob
  MaxAttempts = 2
  Lease = 1
  RetryBase = 1
  RetryCap = 2
  MaxFaults = 1
  Feeds = {f1, f2}
  Pollers = {v1, v2}
  MaxQueue = 2
  MaxChanges = 3
  MaxCrashes = 1
SPECIFICATION JobsSpec
PROPERTIES
  EveryJobSettles
  EnabledFeedsArePolled
CHECK_DEADLOCK FALSE

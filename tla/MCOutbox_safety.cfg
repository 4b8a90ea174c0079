CONSTANTS
  Jobs = {j1}
  Workers = {w1, w2, w3}
  Producers = {p1, p2}
  NoJob = NoJob
  MaxAttempts = 3
  Lease = 2
  RetryBase = 1
  RetryCap = 1
  MaxFaults = 3
SPECIFICATION Spec
SYMMETRY Symmetry
INVARIANTS
  SuccessMeansSent
  DuplicatesFollowFailures
PROPERTIES
  ReopenedOnlyByStaleFailure
CHECK_DEADLOCK FALSE

CONSTANTS
  Items = {i1}
  Workers = {w1, w2}
  None = None
  MaxHops = 1
  MaxAttempts = 2
  MaxFaults = 2
  MaxKills = 1
SPECIFICATION FairSpec
INVARIANTS
  RowsKeepTheirObject
PROPERTIES
  FailedStaysClosed
  OrphansGo
CHECK_DEADLOCK FALSE

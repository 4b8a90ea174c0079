CONSTANTS
  Items = {i1}
  Workers = {w1}
  None = None
  MaxHops = 1
  MaxAttempts = 2
  MaxFaults = 0
  MaxKills = 1
SPECIFICATION Spec
PROPERTIES
  RemovalSparesLiveRows
CHECK_DEADLOCK FALSE

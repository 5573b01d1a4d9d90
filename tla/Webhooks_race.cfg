SPECIFICATION FairSpec
CONSTANTS
  None = None
  Events = {e1, e2}
  Drains = {d1, d2}
  MaxAttempts = 2
  Limit = 1
  Cap = 3
  MaxClock = 1
  MaxRetries = 1
  MaxRestarts = 1
CHECK_DEADLOCK FALSE
PROPERTIES
  KeepsPromise
  

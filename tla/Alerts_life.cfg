SPECIFICATION FairSpec
CONSTANTS
  None = None
  Docs = {a}
  Writers = {w1}
  Retain = 2
  MaxWriters = 1
  MaxSeq = 3
  MaxCrashes = 1
  Subs = {s1}
  Drains = {d1, d2}
  Limit = 1
  MaxDrains = 2
CHECK_DEADLOCK FALSE
INVARIANTS
  
  CursorSkipsNothing

  

SPECIFICATION FairSpec
CONSTANTS
  None = None
  Rows = {r1}
  Clients = {c1, c2, c3}
  MaxWrites = 3
  MaxCrashes = 1
CHECK_DEADLOCK FALSE
INVARIANTS
  NoTrace
  TxReadsCurrent
  FreshUnlessRaced

  

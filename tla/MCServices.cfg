SPECIFICATION Spec
CONSTANTS
  None = None
  Calls = {"c1", "c2"}
  Principals = {"p1", "p2"}
  Admins = {"p2"}
  AskedTTL = {0, 9}
  MaxTTL = 2
  Windows = {1, 2}
  MaxLockTime = 3
  MaxEvents = 4
  MaxEdits = 1
  MaxFailures = 1
  Window = 1
  TokenLife = 1
  MaxRequests = 4
  MaxLoginTime = 2
  MaxRestarts = 1
  Docs = {"A", "B", "C"}
  Schemas <- FieldLists
  MaxRefs = 3
  MaxDeletes = 2
  Drafts = {"A", "B"}
  Changes = {"e1", "e2"}
  PageLimit = 2
  MaxMerges = 3
  MaxCrashes = 1
  Fields = {"f", "g"}
  Constants = {0, 1}
  Tables = {"t", "u", "_s"}
  System = {"_s"}
  Columns = {"x"}
  Base <- OneTable
  MaxRuns = 4
  MaxFaults = 1
  Texts = {"x", "y", "z"}
  NotNumbers = {"z"}
  LoadsEarly = FALSE
  MaxInputs = 4
  MaxReloads = 1
CHECK_DEADLOCK FALSE
INVARIANTS
  TypeOK
  OneHolder
  PresentIsListed
  RefundIsFinal
  SessionsEnd
  SingleUse
  ThrottleHolds
  
  
  
  
  JournalAccounts
  SettledHasForm

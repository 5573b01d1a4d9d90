SPECIFICATION Spec
CONSTANTS
  None = None
  Keep = Keep
  Docs = {1}
  Publishers = {pub}
  Writers = {}
  Agents = {agent}
  Crons = {cron}
  Readers = {pub}
  Contents = {fine, bad}
  Blocked = {bad}
  Expired = {fine}
  OnExpire = "archive"
  MaxPerDoc = 2
  Limit = 1
  MaxClock = 1
  MaxCommits = 3
  MaxPerTick = 2
  MaxInFlight = 2
  MaxCrashes = 1
CHECK_DEADLOCK FALSE
INVARIANTS
  SnapshotOfLiveRow
  PublishedHasCredential
  CredentialsApproved
  
PROPERTIES
  DeletedStaysDeleted

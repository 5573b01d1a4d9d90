SPECIFICATION Spec
CONSTANTS
  None = None
  Keep = Keep
  Docs = {1}
  Publishers = {pub}
  Writers = {}
  Agents = {agent}
  Crons = {cron}
  Readers = {}
  Contents = {fine}
  Blocked = {}
  Expired = {}
  OnExpire = "unpublish"
  MaxPerDoc = 2
  Limit = 1
  MaxClock = 0
  MaxCommits = 3
  MaxPerTick = 9
  MaxInFlight = 2
  MaxCrashes = 0
CHECK_DEADLOCK FALSE
PROPERTIES
  GoesLiveThroughGate

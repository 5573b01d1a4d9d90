SPECIFICATION FairSpec
CONSTANTS
  None = None
  Docs = {a, b}
  Publishers = {pub}
  Editors = {editor}
  Drains = {cron}
  MaxClock = 1
  MaxAdds = 2
  MaxItems = 2
  MaxEdits = 1
  MaxAttempts = 1
  MaxInFlight = 2
  MaxCrashes = 1
CHECK_DEADLOCK FALSE

  
PROPERTIES
  PublishedIsImmutable
  DrainPublishesChecked
  GoesLiveAsAUnit
  DueIsSettled

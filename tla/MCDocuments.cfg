SPECIFICATION FairSpec
CONSTANTS
  None = None
  Keep = Keep
CHECK_DEADLOCK FALSE
PROPERTIES
  GoesLiveThroughGate
  TokenProtectsReader
  
  ScheduledIsPublished

SPECIFICATION FairSpec
CONSTANTS
  None = None
  Drains = {d1, d2}
  Limit = 1
  MaxAttempts = 2
  NumSteps = 2
  HasAgent = TRUE
  MaxJobs = 2
  MaxRestarts = 1
CHECK_DEADLOCK FALSE
INVARIANTS
  RunningIsHeld
  OutcomesAreEarned
  RunLogIsTrue
PROPERTIES
  DueIsSettled

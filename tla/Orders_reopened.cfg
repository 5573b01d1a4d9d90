SPECIFICATION Spec
CONSTANTS
  None = None
  Calls = {c1, c2}
  MaxEvents = 4
  MaxEdits = 1
CHECK_DEADLOCK FALSE
PROPERTIES
  SettledStaysSettled

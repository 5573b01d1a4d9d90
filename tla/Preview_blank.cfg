SPECIFICATION Spec
CONSTANTS
  None = None
  Texts = {x, y}
  NotNumbers = {}
  LoadsEarly = TRUE
  MaxInputs = 2
  MaxReloads = 0
CHECK_DEADLOCK FALSE
INVARIANTS
  NotLeftBlank

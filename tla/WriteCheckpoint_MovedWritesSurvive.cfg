SPECIFICATION Spec
CONSTANTS
  Instance = {a, b}
  None = None
  MaxTime = 4
INVARIANTS
  MovedWritesSurvive

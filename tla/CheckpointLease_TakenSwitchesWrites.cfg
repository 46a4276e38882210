SPECIFICATION Spec
CONSTANTS
  Instance = {a, b}
  None = None
  Window = 2
  MaxAttempts = 2
  MaxTime = 4
SYMMETRY Symmetry
INVARIANTS
  TakenSwitchesWrites

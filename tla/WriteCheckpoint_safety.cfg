SPECIFICATION Spec
CONSTANTS
  Instance = {a, b}
  None = None
  MaxTime = 4
SYMMETRY Symmetry
INVARIANTS
  TypeOK
  AuthorLosesOnlyOvertaken
  SwitchedWritesSurvive

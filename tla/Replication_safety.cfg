SPECIFICATION Spec
CONSTANTS
  A = A
  B = B
  a1 = a1
  b1 = b1
  b2 = b2
  Instances = {A, B}
  Writers = {a1, b1, b2}
  Home <- MCHome
  Ops <- MCOps
  MaxParts = 2
  MaxLines = 2
  MaxTS = 2
  MaxEvents = 1
INVARIANTS
  TypeOK
  SkippedOnlyIfOvertaken
  ReplayIsLastWrite
  OneSegmentConverges
PROPERTIES
  PolledOnce
  StoredSettles
CHECK_DEADLOCK FALSE

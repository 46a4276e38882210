SPECIFICATION Spec
CONSTANTS
  A = A
  B = B
  a1 = a1
  b1 = b1
  b2 = b2
  Instances = {A, B}
  Writers = {a1, b1}
  Home <- MCHome
  Ops <- MCSets
  MaxParts = 1
  MaxLines = 4
  MaxTS = 2
  MaxEvents = 0
INVARIANTS
  LastWriteWins
CHECK_DEADLOCK FALSE

SPECIFICATION Spec
CONSTANTS
  x = x
  y = y
  IDs = {x, y}
  VLabels = {"person"}
  ELabels = {"knows"}
  DynLabels = {"likes"}
  Ends <- MCEnds
  Objects <- MCObjects
  NoProps = NoProps
  MaxOps = 4
INVARIANTS
  TypeOK
  VerticesCarryTheirId
PROPERTIES
  WritesReplay
  NoHalfDelete
  SnapshotRestores
CHECK_DEADLOCK FALSE

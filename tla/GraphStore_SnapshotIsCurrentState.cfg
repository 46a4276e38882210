SPECIFICATION Spec
CONSTANTS
  x = x
  y = y
  IDs = {x, y}
  VLabels = {"person"}
  ELabels = {"knows"}
  DynLabels = {"likes"}
  Ends <- MCEnds
  Objects <- MCObjects
  NoProps = NoProps
  MaxOps = 4
PROPERTIES
  SnapshotIsCurrentState
CHECK_DEADLOCK FALSE

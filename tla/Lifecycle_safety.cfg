SPECIFICATION Spec
CONSTANTS
  n1 = n1
  n2 = n2
  m1 = m1
  SegmentsN = {n1, n2}
  SegmentsNext = {m1}
  MaxBackoff = 2
  Far = Far
  MaxFaults = 2
INVARIANTS
  TypeOK
  WholeVersions
  CancelledServesNothing
PROPERTIES
  StartSucceeds
  PauseEnds
  CloseStops
CHECK_DEADLOCK FALSE

SPECIFICATION Spec
CONSTANTS
  Sizes <- MCSizes
  MaxBytes = 3
  MaxRecords = 2
  MaxAccepted = 3
  MaxFaults = 1
  MaxCrashes = 0
INVARIANTS
  NothingLost
  InOrder
  TwiceOnlyIfRetried
  SegmentsBounded
  SnapshotFlushed
  ClosedDurable
\* the mutations are bounded and Close ends the flusher
CHECK_DEADLOCK FALSE

SPECIFICATION FairSpec
CONSTANTS
  Sizes = {1, 4}
  MaxBytes = 3
  MaxRecords = 2
  MaxAccepted = 2
  MaxFaults = 1
  MaxCrashes = 1
INVARIANTS
  TypeOK
  NothingAfterSnapshot
PROPERTIES
  VersionForward
  FlushDelivers
  CloseFinishes
\* the mutations are bounded and Close ends the flusher
CHECK_DEADLOCK FALSE

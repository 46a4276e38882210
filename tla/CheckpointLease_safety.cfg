SPECIFICATION FairSpec
CONSTANTS
  Instance = {a, b}
  None = None
  Window = 2
  MaxAttempts = 2
  MaxTime = 2
INVARIANTS
  TypeOK
  FreshHolderOwns
  SnapshotOnceInWindow
  DoneHasSnapshot
  NextVersionHasSnapshot
PROPERTIES
  ImplementsLock
  DoneIsFinal
  CheckpointReturns

SPECIFICATION FairSandboxSpec
CONSTANT MaxFailures = 3
CHECK_DEADLOCK FALSE
INVARIANTS
  SnapshotIsTrue
  StorageLast
  NobodyStuck
PROPERTIES
  NoWayBack
  DestroyCompletes

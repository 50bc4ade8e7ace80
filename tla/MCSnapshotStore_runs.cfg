SPECIFICATION Spec
CONSTANTS
  s1 = s1
  Snapshots = {s1, s2, s3, s4}
  Requests = {r1, r2}
  Size <- MCSize
  Limit = 5
  MaxSnapshots = 2
  Total <- MCTotal
  HookConfigured = TRUE
  Failing = {"tryAdd", "create", "put", "hardDelete", "prune", "removeUsage", "blobDelete", "settle", "softDelete"}
  Lost = {"tryAdd", "create", "put", "blobDelete", "prune"}
  Crashes = TRUE
SYMMETRY Interchangeable
CONSTRAINT Explored
INVARIANTS
  RestorePointsKept
  SomeRestorePoint
  SnapshotLimit
  UsageCoversStored

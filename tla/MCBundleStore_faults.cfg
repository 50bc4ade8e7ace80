SPECIFICATION Spec
CONSTANTS
  b1 = b1
  Users = {u1}
  Bundles = {b1}
  Requests = {r1, r2, r3}
  Deleters = {d1}
  Purgers = {p1, p2}
  Size <- MCSize
  Limit = 2
  BatchSize = 1
  Sum <- MCSum
  HookConfigured = TRUE
  Reconciling = FALSE
  DeleteInFlight = TRUE
  Failing = {"tryAdd", "create", "put", "hardDelete", "softDelete", "removeUsage", "settle", "blobDelete"}
  Lost = {"tryAdd", "create", "put", "hardDelete", "softDelete", "removeUsage", "settle", "blobDelete"}
  Crashes = TRUE
  LockLoss = TRUE
SYMMETRY Symmetry
INVARIANTS
  AckedIsStored
  OrphanOnlyAfterFailedPut

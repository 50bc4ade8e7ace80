SPECIFICATION FairSpec
CONSTANTS
  b1 = b1
  Users = {u1}
  Bundles = {b1, b2}
  Requests = {r1}
  Deleters = {d1}
  Purgers = {p1}
  Size <- MCSize
  Limit = 2
  BatchSize = 1
  Sum <- MCSum
  HookConfigured = FALSE
  Reconciling = TRUE
  DeleteInFlight = TRUE
  Failing = {"tryAdd", "create", "put", "hardDelete", "softDelete", "removeUsage", "settle", "blobDelete"}
  Lost = {"tryAdd", "create", "put", "hardDelete", "softDelete", "removeUsage", "settle", "blobDelete"}
  Crashes = TRUE
  LockLoss = FALSE
PROPERTIES
  DriftCorrected

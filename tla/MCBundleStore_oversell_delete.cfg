SPECIFICATION Spec
CONSTANTS
  b1 = b1
  Users = {u1}
  Bundles = {b1, b2}
  Requests = {r1, r2}
  Deleters = {d1}
  Purgers = {p1}
  Size <- MCSize
  Limit = 2
  BatchSize = 1
  Sum <- MCSum
  HookConfigured = FALSE
  Reconciling = FALSE
  DeleteInFlight = TRUE
  Failing = {"put"}
  Lost = {}
  Crashes = FALSE
  LockLoss = FALSE
INVARIANTS
  QuotaNotOversold

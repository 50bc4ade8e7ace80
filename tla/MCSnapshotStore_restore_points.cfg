SPECIFICATION Spec
CONSTANTS
  s1 = s1
  Snapshots = {s1, s2, s3}
  Requests = {r1, r2}
  Size <- MCSize
  Limit = 4
  MaxSnapshots = 1
  Total <- MCTotal
  HookConfigured = FALSE
  Failing = {"put"}
  Lost = {}
  Crashes = FALSE
INVARIANTS
  FailedUploadsCostNothing

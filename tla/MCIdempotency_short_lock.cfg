SPECIFICATION Spec
CONSTANTS
  Keys = {k1}
  Prints = {p1, p2}
  Requests = {r1, r2}
  NoResponse = NoResponse
  ShortLocks = TRUE
  Failing = {"markSucceeded", "markFailed", "encode"}
  Crashes = TRUE
INVARIANTS
  SameAnswer

SPECIFICATION FairSpec
CONSTANTS
  Keys = {k1, k2}
  Prints = {p1, p2}
  Requests = {r1, r2, r3}
  NoResponse = NoResponse
  ShortLocks = FALSE
  Failing = {"markSucceeded", "markFailed", "encode"}
  Crashes = TRUE
INVARIANTS
  TypeOK
  SameAnswer
  ExclusiveRun
PROPERTIES
  NoEffectAfterAnswer
  ImplementsAtMostOnce
  RetryGetsThrough

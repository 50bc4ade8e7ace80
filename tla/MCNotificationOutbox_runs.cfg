SPECIFICATION FairSpec
CONSTANTS
  Notifications = {n1, n2}
  Workers = {w1, w2}
  Admins = {a1, a2}
  NoOne = NoOne
  MaxAttempts = 2
  BatchSize = 1
  RetryLimit = 2
  AttemptBound = 3
  Interruptions = TRUE
INVARIANTS
  ClaimsAreExclusive
  AutomaticRetriesStop
  DeliveredOnce
PROPERTIES
  SettledStays
  QueueDrains
CHECK_DEADLOCK FALSE

SPECIFICATION FairSpec
CONSTANTS
  first = a1
  Accounts = {a1, a2}
  Bundles = {b1}
  Snapshots = {}
  Requests = {r1}
  Workers = {w1, w2}
  NoOne = NoOne
  BatchSize = 1
  MaxFaults = 1
CONSTRAINT FirstDeletedFirst
INVARIANTS
  OneRunPerJob
  CertificateIsTrue
PROPERTIES
  ActiveIsSpared
  ErasureCompletes
CHECK_DEADLOCK FALSE

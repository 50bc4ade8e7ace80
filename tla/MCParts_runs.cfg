SPECIFICATION Spec
CONSTANTS
  Requests = {r1, r2}
  Tokens = {t1}
  ResetTokens = {p1}
  MailTokens = {v1}
  Checks = {k1, k2}
  Codes = {u1, u2}
  MaxFailures = 2
  Ceremonies = {x1, x2}
  Challenges = {h1, h2}
  Keys = {y1, y2}
  Asks = {a1, a2}
  Uuids = {d1, d2, d3}
  MaxDevices = 1
  Bundles = {b1, b2}
  Snapshots = {}
  DefaultLimit = 3
  Limits = {1, 3}
  MaxFindings = 1
  MaxMoves = 1
  Releases = {1, 2}
  Repeatable = {1}
  Watched = {2}
  Runners = {m1, m2}
  MaxEdits = 2
  Processes = {s1, s2}
  Slots = {q1, q2}
  Limit = 1
  LastWindow = 1
  MaxArrivals = 3
  Callers = {c1, c2}
  StorageLimit = 2
  WarningThreshold = 50
  ExhaustedThreshold = 100
  Sizes = {1}
INVARIANTS
  ResetEndsSessions
  GuessesBounded
  UsedOnce
  DevicesAccounted
  OkIsTrue
  TrackingTrue
  ClearedStarts
  CountsHold
  UserIsTold
PROPERTIES
  OnlyCodeDisables
  FurtherKeysTakeStepUp

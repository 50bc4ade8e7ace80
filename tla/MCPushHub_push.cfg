SPECIFICATION FairSpec
CONSTANTS
  Users = {u1, u2}
  Conns = {c1, c2}
  MaxConnections = 2
  MaxConnectionsPerUser = 1
  Buffer = 1
  MaxDrops = 2
INVARIANTS
  SlotsAccounted
  NeverPanics
PROPERTIES
  SlowClientLeaves

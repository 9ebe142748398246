SPECIFICATION MCSpec
CONSTANTS
  Bundles = {1, 2, 3}
  RetentionDays = 1
  MaxChanges = 1
  MaxDay = 2
  MaxBreaks = 1
  Publications = {1, 2, 3}
  EventOf <- MCEventOf
  Dead = {x1, x2, x3}
  Drains = {d1, d2}
  Limit = 2
  MaxLosses = 2
  Requests = {1, 2, 3}
  Clients = {a1}
  Sids = {s1, s2}
  Admissions = 2
  Window = 3
  Second = 2
  Ttl = 2
  MaxClock = 3
  MaxResends = 1
  MaxRows = 4
  Owners = {"me", "you"}
  Reader = "me"
  MaxPage = 2
  Callers = {"c1", "c2", "c3"}
  Rows = {"x", "y"}
  Plan <- MCPlan
  MaxAttempts = 2
  MaxRotations = 3
  Connections = {k1, k2}
  Sendings <- MCSendings
SYMMETRY MCSymmetry
CONSTRAINT MCResends
INVARIANTS
  OperationsInv
  PublisherInv
  DrainInv
  EdgeInv
  PagingInv
  RetryInv
  RotationInv
  WarmUpInv
CHECK_DEADLOCK FALSE

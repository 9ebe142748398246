SPECIFICATION FairSpec
CONSTANTS
  Families = {f1}
  Calls = {c1, c2}
  NoCall = NoCall
  MaxGen = 2
  AccessLife = 1
  RefreshLife = 2
  Grace = 1
  MaxTime = 4
INVARIANTS
  AuthInv
PROPERTIES
  CleanupKeepsSessions
  CallsEnd
CHECK_DEADLOCK FALSE

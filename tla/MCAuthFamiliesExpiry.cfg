SPECIFICATION Spec
CONSTANTS
  Families = {f1}
  Calls = {c1, c2}
  NoCall = NoCall
  MaxGen = 2
  AccessLife = 1
  RefreshLife = 2
  Grace = 1
  MaxTime = 3
PROPERTY KeptWhileTokensLive
CHECK_DEADLOCK FALSE

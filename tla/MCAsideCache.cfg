SPECIFICATION FairCacheSpec
CONSTANTS
  Readers = {r1, r2}
  Writers = {w1, w2}
  NoToken = NoToken
  OldToken = OldToken
  MaxVersion = 2
INVARIANTS
  CacheInv
  ReadsAreFresh
  OneLoadPerFill
PROPERTY
  CallsReturn

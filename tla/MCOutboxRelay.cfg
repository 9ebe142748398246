SPECIFICATION FairSpec
CONSTANTS
  Orders <- MCTwo
  Relays = {r1, r2}
  NoRelay = NoRelay
  BatchSize = 2
  MaxFaults = 2
INVARIANTS
  OutboxInv
  DuplicatesNeedFaults
  AttemptsLedger
PROPERTIES
  MarkedByItsHolder
  EventuallyPublished

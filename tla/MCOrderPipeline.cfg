SPECIFICATION FairPipelineSpec
CONSTANTS
  Orders <- MCOne
  Relays = {r1}
  NoRelay = NoRelay
  BatchSize = 1
  Workers = {w1}
  Concurrency = 2
  NoSlot = NoSlot
  Attempts = 2
  MaxStalls = 1
  MaxFaults = 3
INVARIANTS
  PipelineInv
PROPERTIES
  Promised
  NotifiedOrGivenUp

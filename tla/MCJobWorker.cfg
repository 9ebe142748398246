SPECIFICATION FairJobSpec
CONSTANTS
  Jobs <- MCTwo
  Workers = {w1, w2}
  NoWorker = NoWorker
  MaxFaults = 3
INVARIANTS
  JobInv
  WorkIsAccounted
PROPERTY
  CallsEnd
CHECK_DEADLOCK FALSE

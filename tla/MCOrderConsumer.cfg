SPECIFICATION FairSpec
CONSTANTS
  Orders = {o1}
  Forged = {bogus}
  Handlers <- MCHandlers
  Consumers = {c1, c2}
  NoConsumer = NoConsumer
  Msgs = {m1, m2}
  Prefetch = 2
  DeliveryLimit = 1
  MaxFaults = 3
INVARIANTS
  InboxInv
  ConsumerInv
  AckedMeansNotified
PROPERTIES
  Promised
  GenuineIsNotified
CHECK_DEADLOCK FALSE

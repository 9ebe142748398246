SPECIFICATION FairSpec
CONSTANTS
  Calls = {c1, c2, c3}
  Keys = {"k1", "k2"}
  Bodies = {"a", "bad"}
  Rejected = {"bad"}
  Slots = {1, 2}
  SlotOf <- MCSlotOf
  PoolSize = 2
  Nobody = Nobody
  NoOrder = NoOrder
INVARIANTS
  RequestInv
PROPERTIES
  EveryCallEnds
  Contracted

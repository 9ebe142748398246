SPECIFICATION FairFeedSpec
CONSTANTS
  Orders = {o1}
  Calls = {c1, c2}
  Streams = {s1}
  Sockets = {k1}
  Statuses = {pending, paid}
  capacity = 2
  NoEvent = NoEvent
  NoCursor = NoCursor
  Gone = Gone
  MaxEvents = 3
  MaxRestarts = 1
INVARIANTS
  FeedInv
  StreamsAreGapless
PROPERTY
  ChangesEnd
ACTION_CONSTRAINT MCStreamsOrSockets
CHECK_DEADLOCK FALSE

SPECIFICATION FairSpec
CONSTANTS
  Slots = {s1, s2}
  NoOrder = NoOrder
  Ids = {1, 2}
  Prices = {0, 1}
  MaxQty = 2
  Incoming <- LimitOrders
  MaxAdds = 3
  MaxInflight = 2
  CompactThreshold = 0
  BatchSize = 2
  CompactInterval = 2
  FlushInterval = 2
  QueueCapacity = 2
  MdCapacity = 2
  MaxCancels = 1
INVARIANTS FeedExact
PROPERTIES ImplementsContract EngineProgress

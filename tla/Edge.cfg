SPECIFICATION EdgeSpec
CONSTANTS
  Conns = {"a", "b"}
  Scripts <- TwoClients
  MaxConnections = 3
  MaxMessageSize = 2
  BufferCapacity = 2
  Producers = {p1, p2}
  Consumers = {c1, c2}
  Capacity = 2
  MaxPushes = 2
  MaxEvents = 5
  MdQueueSize = 3
  MdBatchSize = 3
  SendmmsgBatch = 2
  MaxReceived = 3
  BboFields = {bid_price, ask_price}
  Readers = {r1}
  MaxSnapshots = 2
  PerfThreads = {t1, t2}
  Latencies = {1, 3}
  BlockOrders = 1
  MaxPerfCalls = 2
  RbSize = 4
  MaxOffers = 9
CHECK_DEADLOCK FALSE
INVARIANTS  RingSafe GapFreeIsComplete  
PROPERTIES RingServes EveryMessageHandled

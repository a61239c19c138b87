SPECIFICATION FairSpec
CONSTANTS
  Slots = {s1, s2}
  NoOrder = NoOrder
  Ids = {1, 3}
  Clients = {1, 2}
  Symbols = {"X", "Y"}
  NoSymbol = NoSymbol
  Tickets <- TradeTickets
  Cancels <- OwnCancels
  MaxOrderSize = 4
  MaxPerWindow = 3
  Window = 1
  MaxNotional = 30
  Word = 1000
  Reference <- SomeReference
  CollarPct = 10
  QueueCapacity = 2
  EngineCapacity = 1
  MaxTime = 0
  MaxRequests = 5
INVARIANTS OrdersAccounted
PROPERTIES CancelByOwner ExchangeProgress

SPECIFICATION RiskSpec
CONSTANTS
  Slots = {s1, s2}
  NoOrder = NoOrder
  Ids = {1, 2}
  Clients = {1}
  Symbols = {"X"}
  NoSymbol = NoSymbol
  Tickets <- OwnTickets
  Cancels <- OwnCancels
  MaxOrderSize = 4
  MaxPerWindow = 9
  Window = 1
  MaxNotional = 1000
  Word = 10000
  Reference <- SomeReference
  CollarPct = 10
  QueueCapacity = 2
  EngineCapacity = 1
  MaxTime = 0
  MaxRequests = 4
PROPERTIES CancelNotLost
CHECK_DEADLOCK FALSE

SPECIFICATION RiskSpec
CONSTANTS
  Slots = {s1, s2, s3}
  NoOrder = NoOrder
  Ids = {1, 2, 3}
  Clients = {1, 2}
  Symbols = {"X"}
  NoSymbol = NoSymbol
  Tickets <- OwnTickets
  Cancels <- SomeCancels
  MaxOrderSize = 4
  MaxPerWindow = 2
  Window = 2
  MaxNotional = 20
  Word = 1000
  Reference <- SomeReference
  CollarPct = 10
  QueueCapacity = 2
  EngineCapacity = 1
  MaxTime = 2
  MaxRequests = 5
SYMMETRY Renamings
INVARIANTS  BurstBounded
CHECK_DEADLOCK FALSE

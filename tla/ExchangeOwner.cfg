SPECIFICATION Spec
CONSTANTS
  Slots = {s1, s2}
  NoOrder = NoOrder
  Ids = {1}
  Clients = {1, 2}
  Symbols = {"X", "Y"}
  NoSymbol = NoSymbol
  Tickets <- SharedTickets
  Cancels <- OwnCancels
  MaxOrderSize = 4
  MaxPerWindow = 3
  Window = 1
  MaxNotional = 30
  Word = 1000
  Reference <- SomeReference
  CollarPct = 10
  QueueCapacity = 2
  EngineCapacity = 2
  MaxTime = 0
  MaxRequests = 4
PROPERTIES OwnerCancels

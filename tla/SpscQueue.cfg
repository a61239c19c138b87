SPECIFICATION MonitorSpec
CONSTANTS
  Items = {a, b}
  Capacity = 2
  IndexMod = 8
  MaxMoves = 4
INVARIANTS QueueSafe MonitorHonest
PROPERTIES ImplementsFifo EventuallyConsumed

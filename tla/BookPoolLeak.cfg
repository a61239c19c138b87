SPECIFICATION Spec
CONSTANTS
  Slots = {s1, s2, s3}
  NoOrder = NoOrder
  Ids = {i1, i2}
  Prices = {0, 1}
  MaxQty = 2
  Incoming <- AllOrders
  MaxAdds = 3
  MaxInflight = 1
  CompactThreshold = 0
INVARIANT PoolReturnsOnFill

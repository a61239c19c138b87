SPECIFICATION Spec
CONSTANTS
  Threads = {t1, t2}
  Capacity = 2
  MaxGen = 6
INVARIANTS PoolInv PoolAccounts
PROPERTIES ImplementsPool

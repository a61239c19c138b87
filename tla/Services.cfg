SPECIFICATION ServicesSpec
CONSTANTS
  NetClients = {n1}
  MaxTokens = 1
  RefillInterval = 2
  RateWindow = 2
  SessionTimeout = 1
  MaxSessions = 2
  MaxConnectionsPerIp = 1
  MaxAuthFailures = 1
  MaxMessagesPerMinute = 1
  MaxBytesPerMinute = 3
  Sizes = {0, 1, 3, 5}
  MaxNetSize = 4
  CounterMax = 7
  BroadcastCapacity = 6
  MaxNetCalls = 3
  MaxNetTime = 6
  Keys = {k1, k2}
  RequiredKeys = {k1}
  ConfigValues = {v1, v2}
  Flags = {f1}
  FlagUsers = {"u1", "u2"}
  UserHash <- HashOf
  Percentages = {0, 5000, 7000, 10000}
  HealthChecks = {h1, h2}
  Critical = {h1}
  MaxText = 4
  SymbolMax = 3
  SymbolCapacity = 2
  NetworkMax = 3
  MaxQuantity = 2
  MinPort = 4
  FileNames = {"", "RTES"}
  FilePorts = {3, 4, 5}
  MaxEntries = 3
  BufferSize = 3
  SizeValues = 8
  MaxLen = 4
  Chars = {1, 2}
  Strings = {s1, s2}
  Wrappers = {w1, w2}
  MaxFd = 2
  MaxQuoteIds = 3
  MaxTrades = 1
  LockThreads = {t1, t2}
  Mutexes = {m1, m2}
  Initiators = {i1, i2}
  Waiters = {w1}
  Components = {k1, k2}
  MaxRegistrations = 3
  MaxWork = 3
  RaceWindow = 2
  RaceKeep = 2
  MaxClock = 4
  MaxAccesses = 3
  Operators = {o1, o2}
  Triggers = {g1}
  Handlers = {e1, e2}
  FullTraffic = 2
  MaxDeployments = 2
  MaxRequests = 2
  Switchers = {x1, x2}
  Versions = {y1}
  MaxSwitches = 3
  CustomChecks = {c1}
  LoadClients = {l1, l2}
  LoadRates = {1, 4}
  MaxOrders = 2
  LoadLatencies = {5, 120}
  SlaAverage = 10
  SlaP99 = 100
  TxActions = {a1, a2, a3}
  Final = {a3}
  MaxRetries = 2
  FailureThreshold = 2
  CircuitTimeout = 2
  MaxTime = 7
  FallbackPaths = 2
  Values = {1, 4}
  WindowLimit = 2
  WindowDrop = 1
  BaselineWindow = 3
  MinSamples = 2
  ZScore = 1
  ConfiguredMean = 1
  Threshold = 3
  AuditLimit = 2
  Retention = 1
  Hour = 0
  FailedLogins = 2
  MaxRecords = 3
  MaxLoops = 2
  MaxNow = 2
  MaxHttpClients = 2
CHECK_DEADLOCK FALSE
INVARIANTS  ConfigSound     HandlersRunOnce 
           AllOrNothing LoadTotalsExact  ExchangeOutlivesUsers
PROPERTIES NothingForgotten BreakerHolds  

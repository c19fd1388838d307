SPECIFICATION Spec
CONSTANTS
  GasPrices = {10, 13}
  GasTtl = 2
  GasWindow = 4
  Intervals = {1, 2}
  GasCaps = {12, 30}
  BoostLimit = 20
  Retries = {0, 1, 2, 3, 4}
  LastSecond = 5
  Addresses = {a1, a2}
  Threads = {p1, p2}
  Urls = {e1, e2}
  MaxConnections = 1
  MaxRequests = 11
  MaxFailures = 2
  ChainNames = {"bsc", "fantom"}
  Callers = {u1, u2}
  MaxAdapters = 3
  Chains = {n1, n2}
  BootChains = {b1, b2, b3}
  EvmChains = {b1, b2}
  MaxChecked = 1
  Accounts = {b1, b2}
  Names = {"farming", "mining"}
  Permissions = {"mint"}
  MaxGranted = 2
  ErrorNames = {"TOKEN_REVERT"}
  Statuses = {"Pending", "Resolved"}
  LastMoment = 2
  MaxAge = 1
  CacheKeys = {k1, k2, k3}
  Updaters = {u1, u2}
  Capacities = {1, 2}
  CacheTtl = 1
  MaxTime = 1
  Workers = {v1, v2}
  CacheNames = {n1, n2, n3}
  CacheSize = 1
  Clients = {c1, c2}
  PoolSize = 1
  MaxListeners = 2
  MaxOut = 2
  Limit = 2
  Window = 2
  Expiry = 3
  CleanupInterval = 1
  LastTime = 5
  Jtis = {j1, j2}
  LastHalfHour = 7
  Lifetimes = {1, 4}
  Leeway = 1
  Users = {alice, bob}
  Admin = alice
  MaxWrites = 2
  Durations = {1, 2}
  FirstDays = 1
  LastDay = 5
  MaxGrants = 4
  EndpointUrls = {x1, x2, x3}
  Priorities = {1, 2}
  Latencies = {10, 25, 60}
  MaxCalls = 4
  Owners = {o1, o2}
  Nobody = Nobody
  MaxOpened = 3
  LockTtl = 2
  LockTime = 2
  Messages = {g1, g2}
  Calls = {g1}
  Consumers = {h1, h2}
  QueueTime = 2
  Ttl = 2
  CallTtl = 1
  MaxFaults = 1
  RetryCallers = {r1, r2}
  MaxAgain = 3
  InitialDelay = 100
  MaxDelay = 300
  Factor = 2
  MaxRounds = 3
  BreakerCalls = {r1, r2, r3}
  MaxTimers = 4
INVARIANTS
  TypeOK
  CachesConsistent
  
  
  
  
PROPERTIES
  StepsKeepOrder

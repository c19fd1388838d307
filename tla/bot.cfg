SPECIFICATION Spec
CONSTANTS
  Wallets = {w1, w2, w3}
  ConfigWallet = wc
  NoWallet = none
  Tokens = {t1}
  Callers = {c1, c2}
  NoConfig = nc
  Tracked = {t1}
  MaxGen = 3
  MaxQueue = 1
  Followed = {t1, t2, t3}
  Permits = 2
  Ttl = 1
  MaxAge = 2
  MaxTokens = 2
  MaxNow = 3
  Profits = {0, 90}
  MinResults = 2
  MaxHistory = 2
  BlockTimes = {40}
  GasFactors = {0, 4}
  RetryFactors = {0, 8}
  MaxAdjustments = 2
  Seen = {x1, x2, x3}
  Slots = 2
  Room = 1
  PendingCounts = {0, 2, 20}
  MaxMultiplier = 150
INVARIANTS
  TypeOK
  
  DecisionsConsistent
PROPERTIES
  WorkEndsWell

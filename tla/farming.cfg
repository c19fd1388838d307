\* Two stakers, up to three calls, two ticks (one second); products above 3 overflow.
SPECIFICATION FairSpec
CONSTANTS
  Accounts = {alice, bob}
  Amounts = {1}
  Rates = {2}
  LockPeriods = {0}
  LOCK_PERIOD = 1
  InitialRate = 1
  RewardUnit = 1
  NsPerSec = 2
  U128_MAX = 3
  MaxTime = 2
  MaxCalls = 3
INVARIANTS
  TypeOK
  TotalNotOverstated
  ClaimsInThePast
PROPERTY PromisesSettle

\* Two stakers: one takes the stake of the other with two unstakes in flight.
SPECIFICATION Spec
CONSTANTS
  Accounts = {alice, bob}
  Amounts = {1}
  Rates = {}
  LockPeriods = {}
  LOCK_PERIOD = 1
  InitialRate = 1
  RewardUnit = 1
  NsPerSec = 2
  U128_MAX = 100
  MaxTime = 3
  MaxCalls = 4
INVARIANT NoOverdraw

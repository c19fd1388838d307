\* Two tasks on one endpoint, two errors open the breaker, two tries each.
SPECIFICATION FairSpec
CONSTANTS
  Requests = {r1, r2}
  Nobody = Nobody
  Resetter = Resetter
  ErrorThreshold = 2
  OpenDuration = 1
  HalfOpenAllowed = 1
  MaxRetries = 2
INVARIANTS
  OneMoreOperation
PROPERTIES
  
  CallsReturn

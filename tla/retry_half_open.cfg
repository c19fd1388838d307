\* One task is enough for a breaker that is never tried again.
SPECIFICATION FairSpec
CONSTANTS
  Requests = {r1}
  Nobody = Nobody
  Resetter = Resetter
  ErrorThreshold = 2
  OpenDuration = 1
  HalfOpenAllowed = 1
  MaxRetries = 2
PROPERTY OpenIsLeft

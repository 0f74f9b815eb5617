SPECIFICATION Spec
CHECK_DEADLOCK FALSE
CONSTANTS
  q1 = q1
  q2 = q2
  q3 = q3
  s1 = s1
  s2 = s2
  url = url
  Request <- MCRequest
  Selectors <- MCSelectors
  SelectorsOf <- MCSelectorsOf
  Hash <- MCHash
  MayRefuse <- MCMayRefuse
  MayFail <- MCMayFail
  Throttled <- MCThrottled
  PartialVisible = TRUE
  Ttl = 0
  MaxTime = 1
INVARIANTS
  CacheSound
  AnsweredOnce
PROPERTIES
  Served

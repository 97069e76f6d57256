\* The warm-up and two requests; TTL 1, stale age 2 and time-out 1 are told apart.
SPECIFICATION Spec
CONSTANTS
  k1 = k1
  k2 = k2
  Calls = {boot, r1, r2}
  Kids = {k1, k2}
  Unusable = {k2}
  Probe = probe
  TTL = 1
  StaleMax = 2
  Timeout = 1
  MaxTime = 5
  Nobody = Nobody
  Incoming <- Requests
  KeyType <- KeyTypes
  Skew = 1
  Warmup = boot
  None = None
SYMMETRY Symmetric
CHECK_DEADLOCK FALSE
INVARIANTS
  TypeOK
  FetchesBounded
  WaitBounded
PROPERTIES
  RevocationBound
  UnknownIsTrue
  Entitled

CONSTANTS
  req1 = req1  req2 = req2  x = x  y = y  z = z
  IPs = {x, y, z}
  Procs = {req1, req2}
  RateLimitPerSec = 1
  MaxRateLimiters = 2
  MaxAge = 4
  MaxBuckets = 4
  MaxTime = 4
  NoIP = NoIP
SPECIFICATION Spec
INVARIANTS MapMatchesList IdleAtTheBack RateKept
SYMMETRY Symmetry
\* The clock and the buckets are bounded.
CHECK_DEADLOCK FALSE

\* A RateLimitConfig scaled to one request per second: windows of 1, 2 and
\* 3 seconds, limits of 3 per medium and 4 per long window, blocks of 2 and
\* 3 seconds; the thresholds, max_burst and ip_ban_violation_count keep
\* their defaults.  Two requests of the peer in flight at once.
CONSTANTS
  MaxRequestsPerSecond = 1
  MaxRequestsPerMinute = 3
  MaxRequestsPerHour = 4
  MaxBurst = 20
  MediumWindow = 2
  LongWindow = 3
  TempBlockDuration = 2
  ExtendedBlockDuration = 3
  EnableIpBanning = FALSE
  MaxInFlight = 2
SPECIFICATION Spec
INVARIANTS TypeOK AcceptWithinLimits

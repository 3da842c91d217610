CONSTANTS
  None = None
  Requests = {r1, r2}
  MaxConnections = 1
  MaxRetries = 3
  Timeouts <- MCTimeouts
  Backoff = 1
  Grace = 3
  KillAfter = 4
SPECIFICATION Spec
CHECK_DEADLOCK FALSE
INVARIANT DrainsInFlight

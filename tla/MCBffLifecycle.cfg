CONSTANTS
  None = None
  Requests = {r1, r2}
  MaxConnections = 1
  MaxRetries = 2
  Timeouts <- MCTimeouts
  Backoff = 1
  Grace = 3
  KillAfter = 4
SPECIFICATION FairSpec
CHECK_DEADLOCK FALSE
INVARIANTS
  TypeOK
  CallsHaveClients
  AnsweredInTime
  AloneNeverWaits
  DueRequestsDrain
  NothingCutByKill
PROPERTY RequestEnds

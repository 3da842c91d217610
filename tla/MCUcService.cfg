CONSTANTS
  None = None
  Threads = {t1, t2}
  UserIds = {i1, i2}
  Usernames = {n1, n2}
  Emails = {e1}
  Statuses <- MCStatuses
  UpdatePayloads <- MCPayloads
  MaxTime = 1
SPECIFICATION FairSpec
INVARIANTS
  TypeOK
  IndexConsistent
  NoServerError
PROPERTIES
  DeletedStaysDeleted
  UpdatedAtAdvances
  ImplementsDirectory
  LockAlwaysFreed
  AdmittedAnswered

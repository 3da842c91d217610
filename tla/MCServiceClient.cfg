CONSTANTS
  None = None
  Calls = {c1, c2}
  Items = {i1, i2}
  Methods <- MCMethods
  MaxRetries = 3
SPECIFICATION FairSpec
CHECK_DEADLOCK FALSE
INVARIANTS
  TypeOK
  EffectAtMostOnce
  SuccessIsReal
  NotFoundMeansGone
  AttemptsUsed
PROPERTIES
  OutcomeIsSettled
  CallEnds

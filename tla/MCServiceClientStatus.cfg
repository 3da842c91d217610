CONSTANTS
  None = None
  Calls = {c1}
  Items = {i1, i2}
  Methods <- MCMethods
  MaxRetries = 2
SPECIFICATION Spec
CHECK_DEADLOCK FALSE
INVARIANTS
  BodyStatusIsHttpStatus

CONSTANTS
  None = None
  Requests = {r1, r2}
  SafeTokens = {safe}
  UnsafeTokens = {unsafe}
  Identity = anonymous
  MaxRetries = 2
SPECIFICATION Spec
CHECK_DEADLOCK FALSE
SYMMETRY MCSymmetry
INVARIANTS
  TypeOK
  HopsJoin
  TracesStayApart
  EchoFindsRequest

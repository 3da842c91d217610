CONSTANTS
  None = None
  Texts <- MCTexts
  Payloads <- MCPayloads
SPECIFICATION ClientsSpec
CHECK_DEADLOCK FALSE
INVARIANTS
  ReachesItsHandler
  NoWriteGoesAstray
  ForwardedAsAsked

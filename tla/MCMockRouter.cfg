CONSTANTS
  None = None
  Keys = {k1}
  Requests = {q1, q2}
  Responses = {"ok"}
  SideEffects <- MCSideEffects
  MaxCalls = 3
SPECIFICATION Spec
CHECK_DEADLOCK FALSE
INVARIANTS EveryCallRecorded ScriptInOrder

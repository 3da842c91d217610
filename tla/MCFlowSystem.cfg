CONSTANTS
  None = None
  Calls = {c1, c2, c3}
  MaxRetries = 2
  MaxTime = 1
  FlowIds = {f1}
  Names = {n1}
  Descriptions = {}
  Statuses <- MCStatuses
  UpdatePayloads <- MCPayloads
SPECIFICATION SystemSpec
CHECK_DEADLOCK FALSE
SYMMETRY MCSymmetry
PROPERTIES
  ImplementsRemoteFlows

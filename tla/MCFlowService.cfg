CONSTANTS
  None = None
  Threads = {t1, t2}
  FlowIds = {f1, f2}
  Names = {n1}
  Descriptions = {d1}
  Statuses <- MCStatuses
  UpdatePayloads <- MCPayloads
  MaxTime = 1
SPECIFICATION Spec
SYMMETRY MCSymmetry
INVARIANTS
  TypeOK
  NoServerError
PROPERTIES
  DeletedStaysDeleted
  UpdatedAtAdvances
  ImplementsStore

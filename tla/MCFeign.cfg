CONSTANTS
  None = None
  Calls = {c1, c2}
  Declarations <- MCDeclarations
  Arguments <- MCArguments
SPECIFICATION Spec
CHECK_DEADLOCK FALSE
SYMMETRY MCSymmetry
INVARIANTS ArgumentsSentOnce BodyAsTheMethodSays ResultAsDeclared

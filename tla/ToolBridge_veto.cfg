SPECIFICATION Spec
CHECK_DEADLOCK FALSE
CONSTANTS
  Requests = {r1}
  Answers = {a1}
  None = None
  MaxDisconnects = 1
INVARIANT VetoIsReal

SPECIFICATION Spec
CONSTANTS
  Event = {a, b}
  NULL = NULL
  qLen = 4
INVARIANTS
  HeadBehindUsed
PROPERTIES
  ImplementsDeque
CHECK_DEADLOCK FALSE

\* Two active objects whose subscriptions are in different bytes.
SPECIFICATION Spec
CONSTANTS
  Block = {b1, b2}
  NULL = NULL
  WIDTH = 1
  N_AO = 2
  MAX_REFS = 4
INVARIANTS
  RefCtrExact
  EachBlockAccounted
  AssertionsHold
CHECK_DEADLOCK FALSE

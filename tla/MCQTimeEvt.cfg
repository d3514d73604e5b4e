SPECIFICATION FairSpec
CONSTANTS
  TimeEvt = {t1, t2, t3}
  NULL = NULL
  MAX_TICKS = 2
INVARIANTS
  ListExact
PROPERTIES
  ImplementsTimers
  DisarmedLeaves

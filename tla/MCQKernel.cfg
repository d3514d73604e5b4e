SPECIFICATION FairSpec
CONSTANTS
  WIDTH = 2
  N_AO = 3
  MAX_NEST = 2
  MAX_OPS = 9
INVARIANTS
  GetFindsEvent
  RunToCompletion
  NoPriorityInversion
  MutexProtects
PROPERTIES
  EventsServed

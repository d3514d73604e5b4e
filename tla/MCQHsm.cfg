\* Every hierarchy of five states, up to five levels with the top.
SPECIFICATION HsmFairSpec
CONSTANTS
  N_STATES = 5
  MAX_NEST = 5
INVARIANTS
  TransitionExact
  EntryPathFits
  IsInExact
PROPERTIES
  RunsToCompletion

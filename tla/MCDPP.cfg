\* Thinking takes twice as long as eating (2.5 times in the code);
\* EXTI0 fires while no event waits for Table.
SPECIFICATION FairSpec
CONSTANTS
  N_PHILO = 5
  THINK_TIME = 4
  EAT_TIME = 2
  Q_LEN = 5
  MAX_BUSY_TICKS = 1
  MAX_EXTI = 1
INVARIANTS
  MutualExclusion
  ForksMatchOwners
  NoAssertionFails
  NobodyForgotten
  SmallPoolSuffices
PROPERTIES
  ImplementsDining
  NoStarvation

\* As MCEthDriver, for the comment in eth_driver_read.
SPECIFICATION Spec
CONSTANTS
  Frame = {f1, f2}
  NONE = NONE
  N_RX = 2
  N_TX = 1
  MAX_SEG = 1
  NO_MEM = 1
INVARIANTS
  NoFrameSits

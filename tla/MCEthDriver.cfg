\* Frames of up to three segments, a receive ring of three, failing pbuf
\* allocation, truncated frames, and a transmit ring of two.
SPECIFICATION FairSpec
CONSTANTS
  Frame = {f1}
  NONE = NONE
  N_RX = 3
  N_TX = 2
  MAX_SEG = 3
  NO_MEM = 1
INVARIANTS
  RxRingAligned
  WholeFrames
  IrqEventsBounded
PROPERTIES
  FramesIntact
  ReceptionResumes
  HandedOverSent

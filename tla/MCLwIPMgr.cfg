\* Datagrams in groups the medium pool is large enough for.
SPECIFICATION FairSpec
CONSTANTS
  Peer = {h1, h2}
  NONE = NONE
  IpAddr = {ip1}
  ZERO = ZERO
  NO_ADDR = NO_ADDR
  N_TEXT = 4
  Q_LEN = 10
  DHCP_TICKS = 2
  N_RX = 2
  BURST = 3
INVARIANTS
  TextEvtsAccounted
  TextPoolSuffices
  AnswersToSender
PROPERTIES
  AddressShown

\* One datagram more, which the receive ring of 20 frames admits.
SPECIFICATION Spec
CONSTANTS
  Peer = {h1}
  NONE = NONE
  IpAddr = {ip1}
  ZERO = ZERO
  NO_ADDR = NO_ADDR
  N_TEXT = 4
  Q_LEN = 10
  DHCP_TICKS = 2
  N_RX = 4
  BURST = 4
INVARIANTS
  PoolNotEmpty

\* Two connections and a page with two tags that is longer than the send buffer.
SPECIFICATION FairSpec
CONSTANTS
  Conn = {c1, c2}
  NONE = NONE
  Content <- Pages
  Missing = "missing"
  Page404 = "notFound"
  Shtml = {"demo"}
  Tags = {"#"}
  Insert <- TwoBytes
  SND_BUF = 3
  MSS = 1
  MAX_OPEN_FILES = 2
  MAX_RETRIES = 3
INVARIANTS
  StreamIntact
  NoStaleState
  HandlesExact
  NoPbufLeak
  CaughtBehindTag
PROPERTIES
  ConnectionEnds

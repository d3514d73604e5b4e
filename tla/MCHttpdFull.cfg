\* The page with two tags, on one connection.
SPECIFICATION FairSpec
CONSTANTS
  Conn = {c1}
  NONE = NONE
  Content <- Pages
  Missing = "missing"
  Page404 = "notFound"
  Shtml = {"demo"}
  Tags = {"#"}
  Insert <- TwoBytes
  SND_BUF = 3
  MSS = 1
  MAX_OPEN_FILES = 1
  MAX_RETRIES = 3
PROPERTIES
  SendDataReturns

SPECIFICATION Spec
CONSTANTS
  c1 = c1
  c2 = c2
  Conn = {c1, c2}
  None = None
  Site <- MCSite
  Asks <- MCAsks
  Servers <- MCServers
  MimeTypes <- MCMimeTypes
  Index <- MCIndex
  Hash <- MCHash
  HsType = "hs"
  CompressOn = TRUE
  GrowthLimit = 16
  MaxGrowths = 16
  DefaultSize = 6
  MaxSize = 8
  Faults = {"none", "compress", "watch"}
  GivesUp = TRUE
  MaxRequests = 2
CHECK_DEADLOCK FALSE
INVARIANTS ResponseTypeOK BuffersSound RepliesMatch RepliesLogged

SPECIFICATION RoutingSpec
CONSTANTS
  c1 = c1
  c2 = c2
  Cids = {c1}
  Conns = {1, 2}
  Ids = {1, 2}
  Uins = {7}
  Names = {"ann", "toolong"}
  LongNames = {"toolong"}
  MainCmds = {2}
  Packets <- Mixed
  Setings <- AllSetings
  Requests <- RoutingRequests
  SendBufMax = 2
  CliBufMax = 0
  MaxPerRead = 1
  MaxCache = 1
  CharSigned = FALSE
  FindClosing = FALSE
PROPERTIES
  PausedWhileCached

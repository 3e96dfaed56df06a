\* A server that verifies clients and sets the uin of the client that comes and
\* leaves, twice over, while either server comes and goes.
SPECIFICATION SysSpec
CONSTANTS
  s1 = s1
  s2 = s2
  Svrs = {s1, s2}
  SvrIdOf <- OwnIds
  Verifiers = {s1}
  UinSvrs = {s1}
  Calls = {"verify"}
  Cids = {1}
  Conns = {1, 2, 3}
  Ids = {1, 2}
  Uins = {7, 8}
  Names = {"", "ann"}
  LongNames = {}
  Packets <- LoginOnly
  MainCmds = {}
  Setings = {}
  Requests = {}
  SendBufMax = 2
  CliBufMax = 0
  MaxPerRead = 1
  MaxCache = 1
  FindClosing = TRUE
  CharSigned = FALSE
  ToAccMax = 2
  MaxBreaks = 1
  MaxRestarts = 0
INVARIANTS
  SessionMirror
  UinMirror
CHECK_DEADLOCK FALSE

\* One server makes every call of the driver, in any order, and acc is restarted;
\* questions of before are not answered.
SPECIFICATION SysSpec
ACTION_CONSTRAINT Timely
CONSTANTS
  s1 = s1
  s2 = s2
  Svrs = {s1}
  SvrIdOf <- OwnIds
  Verifiers = {s1}
  UinSvrs = {s1}
  Calls = {"verify", "verifyMsg", "forward", "discon", "cache", "active", "cast", "disconAll", "map"}
  Cids = {1}
  Conns = {1}
  Ids = {1}
  Uins = {7}
  Names = {"", "ann"}
  LongNames = {}
  Packets <- LoginOnly
  MainCmds = {2}
  Setings <- ToSvr1
  Requests = {}
  SendBufMax = 2
  CliBufMax = 0
  MaxPerRead = 1
  MaxCache = 1
  FindClosing = TRUE
  CharSigned = FALSE
  ToAccMax = 2
  MaxBreaks = 1
  MaxRestarts = 1
INVARIANTS
  CallsNameClients
  
  SessionMirror
CHECK_DEADLOCK FALSE

\* Every link comes back or its server gives up, and every client is let in or
\* dropped, with breaks on either side and a restart of acc.
SPECIFICATION SysFairSpec
CONSTANTS
  s1 = s1
  s2 = s2
  Svrs = {s1}
  SvrIdOf <- OwnIds
  Verifiers = {s1}
  UinSvrs = {}
  Calls = {"verify"}
  Cids = {1}
  Conns = {1, 2}
  Ids = {1, 2}
  Uins = {7}
  Names = {"", "ann"}
  LongNames = {}
  Packets <- LoginOnly
  MainCmds = {}
  Setings <- Full
  Requests = {}
  SendBufMax = 2
  CliBufMax = 0
  MaxPerRead = 1
  MaxCache = 1
  FindClosing = TRUE
  CharSigned = FALSE
  ToAccMax = 1
  MaxBreaks = 1
  MaxRestarts = 1
PROPERTIES
  LinkComesBack
  WaitEnds
  OverLimitLeaves
CHECK_DEADLOCK FALSE

\* doc.md:60 against a mapping that is sent unserialised.
SPECIFICATION SysSpec
CONSTANTS
  s1 = s1
  s2 = s2
  Svrs = {s1, s2}
  SvrIdOf <- OwnIds
  Verifiers = {s1}
  UinSvrs = {}
  Calls = {"map"}
  Cids = {1}
  Conns = {1, 2, 3}
  Ids = {1, 2}
  Uins = {7}
  Names = {"", "ann"}
  LongNames = {}
  Packets <- LoginOnly
  MainCmds = {2}
  Setings = {}
  Requests = {}
  SendBufMax = 3
  CliBufMax = 0
  MaxPerRead = 1
  MaxCache = 1
  FindClosing = TRUE
  CharSigned = FALSE
  ToAccMax = 2
  MaxBreaks = 1
  MaxRestarts = 0
PROPERTIES
  MappingTakesEffect
CHECK_DEADLOCK FALSE

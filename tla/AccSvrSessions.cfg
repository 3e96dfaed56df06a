SPECIFICATION Spec
CONSTANTS
  c1 = c1
  c2 = c2
  Cids = {c1}
  Conns = {1, 2}
  Ids = {1, 2}
  Uins = {7}
  Names = {"ann", "toolong"}
  LongNames = {"toolong"}
  MainCmds = {2}
  Packets <- LoginOnly
  Setings <- AllSetings
  Requests <- SessionRequests
  SendBufMax = 3
  CliBufMax = 0
  MaxPerRead = 1
  MaxCache = 1
  CharSigned = FALSE
  FindClosing = FALSE
INVARIANTS
  TypeOK
  RegistryExact
  RegAnswerFirst
PROPERTIES
  NoTakeover
  VerifiedIsAnnounced

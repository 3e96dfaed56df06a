SPECIFICATION Spec
CONSTANTS
  c1 = c1
  c2 = c2
  Cids = {c1, c2}
  Conns = {1}
  Ids = {1, 2}
  Uins = {7}
  Names = {"ann", "toolong"}
  LongNames = {"toolong"}
  MainCmds = {2}
  Packets <- BadLogins
  Setings <- AllSetings
  Requests <- ClientRequests
  SendBufMax = 2
  CliBufMax = 1
  MaxPerRead = 2
  MaxCache = 1
  CharSigned = FALSE
  FindClosing = FALSE
SYMMETRY Symmetry

  
INVARIANTS
  TimersMatchState
  
  VerifyBeforeForward
  NothingAfterDiscon

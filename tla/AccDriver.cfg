\* A server connected to two accs: registrations, refusals, sessions,
\* settings and reconnections in every order.
SPECIFICATION Spec
CONSTANTS
  a1 = a1
  a2 = a2
  Accs = {a1, a2}
  Cids = {1, 2}
  Uins = {7}
  Names = {"", "ann"}
  SvrId = 2
  FromAcc <- AllMessages
  Setings = {"s1", "s2"}
  MaxResults = 3
SYMMETRY Symmetry
INVARIANTS
  DriverTypeOK
  ResultToldOnce
  SessionsNeedReg
  AccsAreConfigured
  CallBacksSuffice
  CalledAboutKnown
CHECK_DEADLOCK FALSE

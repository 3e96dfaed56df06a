\* external_con.cpp:99-106 against a build whose char is signed.
SPECIFICATION BytesSpec
CONSTANTS
  Streams <- ThreePieces
  Lens <- LimitLens
  Counts <- LimitCounts
  CharSigned = TRUE
INVARIANTS
  NewClientsAccepted
CHECK_DEADLOCK FALSE

\* The byte stream of a client, split anywhere, and the messages between acc
\* and servers with every length at a limit.
SPECIFICATION BytesSpec
CONSTANTS
  Streams <- ThreePieces
  Lens <- LimitLens
  Counts <- LimitCounts
  CharSigned = FALSE
INVARIANTS
  FramingTypeOK
  CutByLength
  OnlyFirstHeldBack
  RefusedForItsBytes
  ForwardArrives
  VerifyRetArrives
  BroadcastReaches
  SetingArrives
  MappingArrives
CHECK_DEADLOCK FALSE

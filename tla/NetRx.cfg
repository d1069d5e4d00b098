SPECIFICATION FairSpec
CONSTANTS
  Pages = {1, 2, 3}
  NoPage = NoPage
  RX_TARGET = 3
  MAX_PB_FREELIST = 1
  MAX_PACKETS = 2
  Stream <- MCStream
  HDR = 1
  LOOK = 1
  PAGE = 4
  COALESCE = TRUE
  SPLIT = "limit"
  Dpcs = {d1, d2}
  Returners = {r1}
  NoOne = NoOne
  MaxSuspends = 1
  MaxFailures = 1
INVARIANTS  PacketWhole
PROPERTIES RxGoesOn
CHECK_DEADLOCK FALSE

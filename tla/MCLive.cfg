SPECIFICATION MCSpec
CONSTANTS
  Threads = {t1, t2}
  Worker = worker
  Pm = pm
  MAX_WATCH_ENTRIES = 1
  RING = 2
  MaxEvents = 1
  MaxFailures = 0
  MaxSuspends = 0
  NoOne = NoOne
  NULL = NULL
  RING_SIZE = 4
  n1 = n1
  n2 = n2
  p1 = p1
  p2 = p2
  p3 = p3
  Senders = {s1, s2}
  Dpcs = {d1}
  NoId = NoId
  NoPacket = NoPacket
  MaxQuota = 1
CHECK_DEADLOCK FALSE
PROPERTIES  SendCompletes

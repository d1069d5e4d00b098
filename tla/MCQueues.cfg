SPECIFICATION MCSpec
CONSTANTS
  RING_SIZE = 4
  n1 = n1
  n2 = n2
  p1 = p1
  p2 = p2
  p3 = p3
  Packets = {p1, p2, p3}
  Nbls = {n1, n2}
  NetBuffers <- MCNetBuffers
  Frags <- MCFrags
  Gso = {p1}
  Senders = {s1}
  Dpcs = {d1, d2}
  NoOne = NoOne
  NoId = NoId
  NoPacket = NoPacket
  MaxSuspends = 1
  MaxFailures = 1
  MaxQuota = 0
  Threads = {a, b, x}
  Writer = x
  Script <- MCScript
  Lengths = {1, 3}
  MaxWrite = 3
  MAX_WATCH_ENTRIES = 1
  MaxEvents = 1
  Nobody = Nobody
SYMMETRY Symmetry
INVARIANTS SlotsSound ListsSound DeviceSound
CHECK_DEADLOCK FALSE

SPECIFICATION FairSpec
CONSTANTS
  Ports = {0, 1, 2}
  DpcPorts = {0}
  KeepPorts = {0}
  BITS_PER_LONG = 2
  RebindPorts = {0}
  MaxBinds = 2
  MaxRaises = 2
  MaxSuspends = 1
INVARIANTS CallsSound NoEventForgotten
PROPERTIES EventServed
CHECK_DEADLOCK FALSE

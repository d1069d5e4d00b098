SPECIFICATION UsbFairSpec
CONSTANTS
  Urbs = {r1, r2}
  Ids <- OneId
  Ports = {p1}
  NoUrb = noUrb
  NoPort = noPort
  MaxCancels = 1
  MaxSuspends = 1
  MaxPlugs = 1
  MaxFeatures = 1
INVARIANTS RequestsSound PortsSound
PROPERTIES RequestCompleted
CHECK_DEADLOCK FALSE

CONSTANTS
  Srbs = {s1, s2}
  Commands <- Kinds
  DeviceType = "DISK"
  Shadows = 2
  MaxSectors = 2
  Limit = 2
  SerialNumber = 4
SPECIFICATION Spec
INVARIANT StopWaitsForRing

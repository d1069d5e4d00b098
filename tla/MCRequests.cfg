SPECIFICATION MCSpec
CONSTANTS
  Threads = {t1, t2}
  Worker = worker
  Pm = pm
  MAX_WATCH_ENTRIES = 1
  RING = 2
  MaxEvents = 1
  MaxFailures = 1
  MaxSuspends = 1
  NoOne = NoOne
  NULL = NULL
  Srbs = {s1, s2}
  Commands <- Kinds
  DeviceType = "DISK"
  Shadows = 2
  MaxSectors = 2
  Limit = 2
  SerialNumber = 4
  Configs <- Configurations
  Backends <- BackendFeatures
  Lengths <- BufferLengths
  Filters <- PacketFilters
  CsumTasks <- Checksums
  LargeSends <- LargeSendTasks
  Lists <- MulticastBytes
  Handles = {h1, h2}
  DevIds = {2, 3}
  Ports = {1}
  Shapes <- Devices
  Urbs = {u1}
  Buffers = {9, 24, 44, 60, 200}
INVARIANTS MessagesSound WatchesSound AdapterSound HubSound ScsiSound
PROPERTIES OidsSound
CHECK_DEADLOCK FALSE

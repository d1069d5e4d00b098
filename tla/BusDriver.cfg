SPECIFICATION FairSpec
CONSTANTS
  Devices = {d1, d2}
  Veto = {d2}
  Unit = 2
  Initial = 4
  Targets = {2, 3, 4}
  MaxChanges = 2
  MaxRefusals = 1
  MaxPower = 1
  MaxFails = 1
INVARIANTS MemoryAccounted
PROPERTIES ChildKept BalloonGoesOn ChildFound
CHECK_DEADLOCK FALSE

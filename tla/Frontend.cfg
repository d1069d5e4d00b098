SPECIFICATION FairSpec
CONSTANTS
  Items = {s1, s2}
  Pnp = pnp
  NoOne = none
  MAX_TRIES = 2
  MaxHalts = 1
  MaxSleeps = 1
  MaxFailures = 1
INVARIANTS RingsSound QuietAtSuspend CallbacksSound
PROPERTIES SuspendEnds
CHECK_DEADLOCK FALSE

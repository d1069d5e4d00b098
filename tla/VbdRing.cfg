SPECIFICATION Spec
CONSTANTS
  SHADOW_ENTRIES = 3
  w = w
  r = r
  u = u
  q = q
  o = o
  f = f
  x = x
  Srbs = {w, r, q, x}
  NoSrb = NoSrb
  Kind <- MCKind
  FirstBlock <- MCStart
  Blocks <- MCBlocks
  Unaligned = {r}
  NoAutosense = {r}
  LateWorkItem = FALSE
  MaxSrbs = 3
  MaxErrors = 1
  MaxResets = 1
  MaxFailures = 1
  MaxSuspends = 1
  MaxTrouble = 2
 
PROPERTIES NothingPassesAWrite SrbCompletes
CHECK_DEADLOCK FALSE

SPECIFICATION Spec
CONSTANTS
  Refs = {r1, r2, r3}
  Users = {u1, u2}
  Dump = dump
  Pages = {p1, p2}
  HIBER_GREF_COUNT = 1
  NoTag = NoTag
  HIBR = HIBR
  NoPage = NoPage
  NoRef = NoRef
SYMMETRY Symmetry
INVARIANTS GrantsSound MappedIsGranted
CHECK_DEADLOCK FALSE

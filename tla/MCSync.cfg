SPECIFICATION MCSpec
CONSTANTS
  N = 4
  Dpcs = {d1, d2}
  Nobody = Nobody
  Monitor = monitor
  Requests = {q1, q2}
  MaxFailures = 1
  Threads = {t1, t2, t3}
  Values = {v1, v2}
  NoValue = none
  NumElements = 2
  MaxCalls = 4
INVARIANTS Function0Alone NoUseAfterFree EventsSound StackSound
PROPERTIES ImplementsCall ImplementsAtomicStack CallsEnd
CHECK_DEADLOCK FALSE

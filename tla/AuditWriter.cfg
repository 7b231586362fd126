SPECIFICATION MCSpec
CONSTANTS
  p1 = p1
  p2 = p2
  p3 = p3
  p4 = p4
  e1 = e1
  e2 = e2
  e3 = e3
  k1 = k1
  k2 = k2
  Events = {p1, p2, p3, p4, e1, e2, e3}
  SampleKeys = {k1, k2}
  KeyOf <- Keys
  Flushers = {w1}
  Capacity = 2
  Concurrency = 2
  MaxSampleKeys = 1
  Window = 1
  MaxTime = 1
  Undefined = Undefined
INVARIANTS InOrder SettledBeforeDone
PROPERTIES CloseEnds OnlyRepeatsAreSampled
CHECK_DEADLOCK FALSE

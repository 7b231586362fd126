SPECIFICATION Spec
CONSTANTS
  Sessions = {s1, s2}
  Requests = {r1, r2}
  SessionTtl = 3
  IdleTtl = 2
  TouchAfter = 1
  Batch = 1
  MaxVersion = 1
  MaxGrant = 2
  MaxClock = 2
  None = None
INVARIANTS AcceptedWasUsable IdleBound NoStraySession
PROPERTY DeadStaysDead
SYMMETRY Symmetry
CHECK_DEADLOCK FALSE

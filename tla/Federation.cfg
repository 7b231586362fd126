SPECIFICATION Spec
CONSTANTS
  s1 = s1
  s2 = s2
  alice = alice
  Users = {u1}
  Subjects = {s1}
  Names = {alice}
  NameOf <- MCNameOf1
  Interactions = {i1, i2}
  Flows = {f1, f2}
  Answers = {r1, r2}
  Handles = {h1, h2}
  Requests = {q1, q2}
  RequestTtl = 1
  HandleTtl = 1
  AnswerTtl = 1
  ReplayTtl = 1
  MaxVersion = 1
  MaxTraffic = 3
  MaxTime = 1
  None = None
INVARIANTS SignInsBelong
PROPERTIES ClaimedWhileCurrent
SYMMETRY MCSymmetry
CHECK_DEADLOCK FALSE

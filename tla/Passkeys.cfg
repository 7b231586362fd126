SPECIFICATION MCSpec
CONSTANTS
  u1 = u1
  u2 = u2
  Users = {u1, u2}
  Interactions = {i1, i2}
  Challenges = {c1, c2, c3}
  Keys = {k1}
  Copies = {x1, x2}
  Requests = {q1, q2}
  ChallengeTtl = 1
  MaxCount = 1
  MaxTime = 1
  None = None
INVARIANTS ChallengesAreOneUse SignInsAreBound
PROPERTIES CountersAdvance
SYMMETRY MCSymmetry
CHECK_DEADLOCK FALSE

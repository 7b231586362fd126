SPECIFICATION MCSpec
CONSTANTS
  c1 = c1
  c2 = c2
  r1 = r1
  r2 = r2
  r3 = r3
  x1 = x1
  x2 = x2
  Attempts = {a1, a2, a3}
  Confirmers = {c1, c2}
  Passwords = {p1, p2}
  Secrets = {x1, x2}
  Batch <- Codebooks
  Ldap = TRUE
  LockThreshold = 2
  LockPeriod = 1
  PendingPeriod = 1
  MaxTime = 2
  None = None
INVARIANTS GuessesAreBounded PasswordIsTheLastSet FactorsAreOneUse GivenCodesAreHonoured
SYMMETRY Symmetry
CHECK_DEADLOCK FALSE

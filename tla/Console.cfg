SPECIFICATION Spec
CONSTANTS
  ann = ann
  bob = bob
  r1 = r1
  r2 = r2
  Tabs = {t1, t2}
  Realms = {r1, r2}
  Admins = {ann, bob}
  Values = {v1, v2}
  Transactions = {x1, x2}
  Granted <- MCGranted
  TransactionTtl = 2
  MaxAge = 1
  MaxClock = 2
  None = None
SYMMETRY Interchangeable
INVARIANTS OperatorIsShown GrantCoversRealm ChangesAreFresh
CHECK_DEADLOCK FALSE

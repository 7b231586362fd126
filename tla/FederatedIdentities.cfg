SPECIFICATION FairSpec
CONSTANTS
  s1 = s1
  s2 = s2
  alice = alice
  Users = {u1, u2}
  Subjects = {s1, s2}
  Names = {alice, bob}
  NameOf <- MCNameOf
  Txs = {t1, t2}
  None = None
INVARIANTS ResolutionIsCurrent
PROPERTIES ImplementsLinks TransactionsEnd
CHECK_DEADLOCK FALSE

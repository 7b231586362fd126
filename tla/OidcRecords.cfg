SPECIFICATION MCSpec
CONSTANTS
  u1 = u1
  u2 = u2
  g1 = g1
  a1 = a1
  s1 = s1
  s2 = s2
  t1 = t1
  t2 = t2
  Users = {u1, u2}
  Grants = {g1}
  GrantOwner <- Owner
  Models <- OneModel
  Proofs = {p1}
  Savers = {s1, s2}
  Txs = {t1, t2}
  Lifetimes = {1, None}
  BatchSize = 1
  MaxTime = 2
  MaxVersion = 2
  None = None
  NoRow = NoRow
INVARIANTS TypeOK RowsAreCurrent NamedSavesDoNotDeadlock ClaimedOnce
PROPERTIES StoreSpec ReplayWindow SavesEnd
CHECK_DEADLOCK FALSE

SPECIFICATION MCSpec
CONSTANTS
  Scenarios = {"sync"}
  Accounts = {u1, u2}
  Groups = {g1, g2}
  Requests = {t1, t2}
  MaxVersion = 2
  Absent = Absent
INVARIANT GroupsInSync
SYMMETRY Symmetry
CHECK_DEADLOCK FALSE

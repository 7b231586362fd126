SPECIFICATION MCSpec
CONSTANTS
  Scenarios = {"etags", "serial"}
  Accounts = {u1, u2}
  Groups = {g1, g2}
  Requests = {t1, t2}
  MaxVersion = 4
  Absent = Absent
INVARIANTS NoLostUpdate GroupsInSync
SYMMETRY Symmetry
CHECK_DEADLOCK FALSE

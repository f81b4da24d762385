SPECIFICATION ActionsSpec
CONSTANTS
  i1 = i1
  i2 = i2
  k1 = k1
  k2 = k2
  k3 = k3
  k4 = k4
  r1 = r1
  t1 = t1
  t2 = t2
  Item = {i1, i2}
  Key = {k1, k2, k3}
  Reminder = {r1}
  Corrections <- NoCorrections
  Legacy <- Rows1
  MaxVersion = 4
  None = None
  Title = {t1, t2}
  Days = 2
SYMMETRY Symmetric
CHECK_DEADLOCK FALSE
INVARIANTS
  RecordsAgree
  NeverMalformed

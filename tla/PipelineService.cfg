SPECIFICATION LedgerSpec
CONSTANTS
  i1 = i1
  i2 = i2
  k1 = k1
  k2 = k2
  k3 = k3
  k4 = k4
  k5 = k5
  r1 = r1
  r2 = r2
  Item = {i1}
  Key = {k1, k2, k3, k4}
  Reminder = {r1}
  Corrections <- SomeCorrections
  Legacy <- Rows
  MaxVersion = 5
  None = None
SYMMETRY Keys
CHECK_DEADLOCK FALSE
INVARIANTS
  LedgerChain
  FunnelSound
PROPERTIES
  EachRequestOnce

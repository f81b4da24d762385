SPECIFICATION Spec
CONSTANTS
  p1 = p1
  p2 = p2
  a = a
  b = b
  c = c
  d = d
  e = e
  x = x
  y = y
  Crawler = {p1, p2}
  Posting = {a, b}
  Canonical = {x, y}
  Provider = "greenhouse"
  Truncates = FALSE
  GuardPercent = 20
  GuardMissing = 2
  BaselineRuns = 0
  RetainPercent = 60
  RetainMinimum = 2
  None = None
SYMMETRY Interchangeable
INVARIANTS
  LedgerBalances
  InventorySound
  AcceptedIsFloor

SPECIFICATION FairSpec
CONSTANTS
  p1 = p1
  p2 = p2
  a = a
  b = b
  c = c
  d = d
  e = e
  x = x
  y = y
  Crawler = {p1, p2}
  Posting = {a, b}
  Canonical = {x}
  Provider = "mindrift"
  Truncates = FALSE
  GuardPercent = 40
  GuardMissing = 1
  BaselineRuns = 2
  RetainPercent = 50
  RetainMinimum = 2
  None = None
PROPERTIES
  Converges
  SharpDropRefused

SPECIFICATION SpecRecovery
CONSTANTS
  a = a
  b = b
  c = c
  r1 = r1
  r2 = r2
  base = base
  va = va
  vb = vb
  successor = successor
  Operation <- Rivals
  Resource = {r1, r2}
  Version <- Versions
  targets <- ChainTargets
  resources <- ChainTargets
  before <- AllBase
  after <- RivalAfter
  Successor = successor
  Signature = {"ea", "eb"}
  Effect = {"ea", "eb"}
  signature <- RivalEffects
  effect <- RivalEffects
  conflicts <- OnlyItself
  needs <- ChainNeeds
  humanGated = {a}
  uncertain = {a}
  exposed = {r1}
  Scoped = TRUE
  None = None
  p1 = p1  p2 = p2  f1 = f1  f2 = f2   d1 = d1  d2 = d2  b1 = b1  b2 = b2
  i1 = i1  i2 = i2  x = x  y = y  www = www  api = api
  Runs = {x, y}
  Aliases = {www, api}
  lastAccepted = lastAccepted
  foreign = foreign
  NoRun = NoRun
  other = other
  Processes = {p1, p2}
  LockFiles = {f1, f2}
  Descriptions = {d1, d2}
  Databases = {b1, b2}
  NoFile = NoFile
  NoOne = NoOne
  Recorders = {i1, i2}
  Nobody = Nobody
  MaxClock = 4
  MaxBundles = 2
  Streak = 2
  Span = 2
  l1 = l1  l2 = l2  c1 = c1  c2 = c2  cp = cp
  MaxJobs = 3
  LegacyPaths = {l1, l2}
  folded <- LowerCase
  Canonicals = {c1, c2}
  Issuer = Issuer  NoId = NoId
  Copies = {cp}
  Unbound = Unbound
INVARIANTS
  GatesObserved
  OwnershipSound
  ReleaseSound
PROPERTIES
  SuccessorSpared
  EvidenceSound
  LinksSound
CHECK_DEADLOCK FALSE

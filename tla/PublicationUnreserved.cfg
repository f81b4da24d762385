SPECIFICATION Spec
CONSTANTS
  a = a
  b = b
  c = c
  r1 = r1
  r2 = r2
  base = base
  va = va
  vb = vb
  successor = successor
  Operation <- Rivals
  Resource = {r1, r2}
  Version <- Versions
  targets <- RivalTargets
  resources <- RivalTargets
  before <- AllBase
  after <- RivalAfter
  Successor = successor
  Signature = {"ea", "eb"}
  Effect = {"ea", "eb"}
  signature <- RivalEffects
  effect <- RivalEffects
  conflicts <- OnlyItself
  needs <- NoNeeds
  humanGated = {}
  uncertain = {}
  exposed = {}
  Scoped = TRUE
  None = None
INVARIANTS
  ConflictingClaimsExclude

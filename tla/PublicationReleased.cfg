SPECIFICATION FairSpec
CONSTANTS
  a = a
  b = b
  c = c
  r1 = r1
  r2 = r2
  base = base
  va = va
  vb = vb
  successor = successor
  Operation <- Solo
  Resource = {r1}
  Version <- Versions
  targets <- CarriedTargets
  resources <- CarriedTargets
  before <- AllBase
  after <- CarriedAfter
  Successor = successor
  Signature = {"e"}
  Effect = {"e"}
  signature <- CarriedEffects
  effect <- CarriedEffects
  conflicts <- OnlyItself
  needs <- NoNeeds
  humanGated = {}
  uncertain = {}
  exposed = {}
  Scoped = FALSE
  None = None
PROPERTIES
  BridgeReleased

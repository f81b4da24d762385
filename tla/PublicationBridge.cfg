SPECIFICATION Spec
CONSTANTS
  a = a
  b = b
  c = c
  r1 = r1
  r2 = r2
  base = base
  va = va
  vb = vb
  successor = successor
  Operation <- Carried
  Resource = {r1}
  Version <- Versions
  targets <- CarriedTargets
  resources <- CarriedTargets
  before <- CarriedBefore
  after <- CarriedAfter
  Successor = successor
  Signature = {"s1", "s2", "s3"}
  Effect = {"e", "reverse"}
  signature <- CarriedSignatures
  effect <- CarriedEffects
  conflicts <- OnlyItself
  needs <- NoNeeds
  humanGated = {a}
  uncertain = {}
  exposed = {}
  Scoped = FALSE
  None = None
INVARIANTS
  BridgeHold
  CompletionRecordSound
PROPERTIES
  OneAtATime
ACTION_CONSTRAINT Bounded

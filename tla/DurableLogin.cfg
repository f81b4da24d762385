CONSTANTS
  ana = ana  r1 = r1  r2 = r2  k1 = k1  c1 = c1  c2 = c2
  Accounts = {ana}
  Requests = {r1, r2}
  LoginKeys = {k1}
  MaxSessions = 3
  MaxTime = 3
  MaxMutations = 3
  IdleTtl = 2
  AbsoluteTtl = 2
  CoolingPeriod = 1
  MaxDepth = 1
  Lag = 1
  MaxThreads = 3
  MaxMonotonic = 2
  MaxKeys = 3
  KeysTtl = 2
  RefreshSeconds = 1
  Connections = {c1, c2}
  MaxTracked = 2
  MaxFaults = 1
SPECIFICATION SpecDurable
INVARIANTS
  LiveSessionsAreLegitimate
  LiveSessionAuthenticates
  UndeliveredIsDead
  OneSessionPerLoginKey
  OneFetchAtATime
  OrderedEnd
PROPERTIES
  RefusedStaysRefused
  EveryoneIsAnswered
CHECK_DEADLOCK FALSE

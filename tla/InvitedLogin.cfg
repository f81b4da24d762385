CONSTANTS
  p1 = p1  q1 = q1  q2 = q2  b1 = b1  b2 = b2
  e1 = e1  e2 = e2
  Operators = {p1}
  Invitees = {q1, q2}
  MaxSecrets = 3
  Server = Server
  Nobody = Nobody
  Browsers = {b1, b2}
  MaxTransactions = 2
  MaxCallbacks = 2
  MaxNow = 3
  MaxVersion = 2
  Ttl = 2
  Retention = 1
  MaxAge = 2
  MaxDrafts = 2
  Edits = {e1, e2}
  MaxConfirms = 2
  MaxPosts = 2
  MaxArtifacts = 2
  MaxClock = 2
  RunLimit = 2
  VaultCapacity = 1
  Lifetime = 1
  Retain = 1
  MaxReviews = 3
  MaxApplies = 2
  MaxTime = 1
  SlipCapacity = 2
  SlipLifetime = 1
SPECIFICATION SpecAccess
INVARIANTS
  InvitedLoginIssues
CHECK_DEADLOCK FALSE

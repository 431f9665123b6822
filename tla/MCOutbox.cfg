\* A timed mail that retention may remove, a job without handler and a parked
\* job: claims are protected, and everything comes to rest.
CONSTANTS
  Jobs = {mail, orphan, survey}
  Workers = {w1, w2}
  NumTokens = 4
  MaxAttempts = 2
  BaseDelay = 1
  MaximumDelay = 1
  Lease = 1
  HandlerTimeout = 0
  Retention = 1
  PurgeLimit = 1
  Horizon = 0
  MaxManual = 1
  MaxCrashes = 1
  Parked = {survey}
  Unhandled = {orphan}
  Timed = {mail}
  Resolvable = {mail}
  Referenced = {orphan}
SPECIFICATION FairSpec
INVARIANTS
  LeaseProtectsClaim
  BudgetRespected
PROPERTIES QueueSpec EveryJobSettles
